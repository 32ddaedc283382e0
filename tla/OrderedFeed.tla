---------------------------- MODULE OrderedFeed ----------------------------
(***************************************************************************)
(* What a live session promises its consumer, whatever peers, pools and    *)
(* publication do behind it: pieces are played in order and none twice,    *)
(* pieces may be left out, but never in the middle of one that is being    *)
(* sent, and once something was sent a segment that follows left out       *)
(* pieces carries a discontinuity mark.                                    *)
(***************************************************************************)
EXTENDS Integers

VARIABLES
  cursor,   \* the piece to play next
  last,     \* the piece played last, or -1
  sent,     \* a segment was sent
  owed,     \* segments of the last piece still to be sent
  lost,     \* pieces were left out since the last segment
  mark      \* the next segment will be marked

feedVars == <<cursor, last, sent, owed, lost, mark>>

FeedInit ==
  /\ cursor \in Nat /\ last = -1 /\ owed = 0
  /\ sent = FALSE /\ lost = FALSE /\ mark = FALSE

\* Pieces are left out, between two pieces only.  From the first segment on,
\* the next one is marked.
Skip ==
  /\ owed = 0
  /\ cursor' > cursor
  /\ lost' = (lost \/ last >= 0)
  /\ mark' \in BOOLEAN /\ (mark \/ sent => mark')
  /\ UNCHANGED <<last, sent, owed>>

\* A mark nobody needed does no harm.
Mark ==
  /\ ~mark /\ mark' = TRUE
  /\ UNCHANGED <<cursor, last, sent, owed, lost>>

\* The piece at the cursor is played and nothing of it can be sent.
Swallow ==
  /\ owed = 0
  /\ last' = cursor /\ cursor' = cursor + 1
  /\ mark' \in BOOLEAN /\ (mark => mark')
  /\ UNCHANGED <<sent, owed, lost>>

\* The piece at the cursor is played and its first segment is sent, with the
\* mark if there is one.
Play ==
  /\ owed = 0
  /\ sent /\ lost => mark
  /\ last' = cursor /\ cursor' = cursor + 1
  /\ sent' = TRUE /\ lost' = FALSE
  /\ owed' \in Nat /\ mark' \in BOOLEAN

\* The next segment of the piece is sent.
Send ==
  /\ owed > 0
  /\ owed' = owed - 1
  /\ UNCHANGED <<cursor, last, sent, lost, mark>>

FeedNext == Skip \/ Mark \/ Swallow \/ Play \/ Send

FeedSpec == FeedInit /\ [][FeedNext]_feedVars
=============================================================================
