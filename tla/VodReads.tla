------------------------------ MODULE VodReads ------------------------------
(***************************************************************************)
(* Reading a file over HTTP (http/vod.rs, ace_provider/vod.rs, the VOD     *)
(* cache of manager.rs, VodHlsLayout of hls.rs): a request resolves its id *)
(* once through the manager's cache, turns a Range header or a segment     *)
(* number into bytes [start, end], and opens that range; a range is the    *)
(* leading pieces the store already has, then the pieces a detached task   *)
(* tees from the downloader into the store and to the reader, who trims    *)
(* the ends.  Bytes are their offsets, pieces are intervals of offsets.    *)
(***************************************************************************)
EXTENDS Integers, Sequences, FiniteSets, SequencesExt

CONSTANTS VodReaders,   \* HTTP clients
          VodIds,       \* ids of files
          VodBytes,     \* total_length, the same for every id
          PieceBytes,   \* piece_length
          BlockLimit,   \* MAX_BT_REQUEST_LEN
          SegmentBytes, \* seg_bytes of VodHlsLayout
          VodSlots,     \* provider slots of Admission
          VodGrace,     \* idle time after which a cached handle expires
          Wishes,       \* what a client may ask for
          MaxAsks, MaxHandles, VodTicks  \* bounds: requests of a client, handles made, time

ASSUME VodReadsAssumption ==
    /\ VodBytes \in Nat /\ {PieceBytes, BlockLimit, SegmentBytes, VodSlots, VodGrace} \subseteq Nat \ {0}
    /\ MaxAsks \in Nat /\ MaxHandles \in Nat /\ VodTicks \in Nat

VARIABLES
    vnow,       \* the clock
    vcache,     \* vod_cache: a handle and its last access, per id
    resolving,  \* holder of the resolve lock of an id
    closing,    \* "no", "flagged" (shutting_down), "cleared" (shutdown emptied the cache)
    handle,     \* AceVodContent values made so far: id, store, peers, range_lock
    stored,     \* whole pieces each store holds
    get,        \* the request of each client
    tee         \* the detached task of each client's open range

readsVars == <<vnow, vcache, resolving, closing, handle, stored, get, tee>>

Nobody == "nobody"
Handles == 1 .. MaxHandles
NoGet == [at |-> "idle", id |-> Nobody, wish |-> <<"none">>, h |-> 0, from |-> 0, to |-> 0,
          prefix |-> <<>>, rx |-> <<>>, skip |-> 0, left |-> 0, out |-> <<>>, asks |-> 0]
NoTee == [at |-> "none", h |-> 0, idx |-> 0, upto |-> 0, drx |-> <<>>, dl |-> 0, sending |-> FALSE]

ReadsInit ==
    /\ vnow = 0 /\ closing = "no"
    /\ vcache = [i \in VodIds |-> [h |-> 0, at |-> 0]]
    /\ resolving = [i \in VodIds |-> Nobody]
    /\ handle = <<>> /\ stored = [s \in Handles |-> {}]
    /\ get = [r \in VodReaders |-> NoGet]
    /\ tee = [r \in VodReaders |-> NoTee]

-----------------------------------------------------------------------------
(* Ranges.                                                                 *)

Blank == -1     \* an empty side of "first-last"
Garbled == -2   \* a side that is not a number

\* parse_byte_range on the two sides of "first-last"; a missing header or one
\* with another unit or several ranges is the wish <<"none">>.
ParseByteRange(first, last, total) ==
    CASE first = Blank /\ last = Blank -> <<"full">>
      [] first = Garbled \/ last = Garbled -> <<"full">>
      [] first = Blank /\ last # Blank ->
            IF last = 0 THEN <<"unsatisfiable">>
            ELSE <<"satisfiable", IF last > total THEN 0 ELSE total - last, total - 1>>
      [] first # Blank /\ last = Blank ->
            IF first < total THEN <<"satisfiable", first, total - 1>> ELSE <<"unsatisfiable">>
      [] OTHER ->
            IF first <= last /\ first < total
            THEN <<"satisfiable", first, IF last < total THEN last ELSE total - 1>>
            ELSE <<"unsatisfiable">>

SegmentCount == (VodBytes + SegmentBytes - 1) \div SegmentBytes

\* VodHlsLayout::segment_range: the bytes of a segment the playlist lists.
SegmentRange(n) ==
    IF n >= SegmentCount THEN <<"unsatisfiable">>
    ELSE <<"satisfiable", n * SegmentBytes,
           (IF (n + 1) * SegmentBytes < VodBytes THEN (n + 1) * SegmentBytes ELSE VodBytes) - 1>>

\* VodHlsLayout::playlist: every segment once, for a time in proportion to its bytes.
VodPlaylist == [n \in 1 .. SegmentCount |-> SegmentRange(n - 1)[3] - SegmentRange(n - 1)[2] + 1]

\* What the handler does with a request once it has the handle.
Outcome(wish) ==
    CASE wish[1] = "none" -> <<"full">>
      [] wish[1] = "range" -> ParseByteRange(wish[2], wish[3], VodBytes)
      [] wish[1] = "segment" -> SegmentRange(wish[2])
      [] wish[1] = "manifest" -> <<"listed">>

PieceOf(byte) == byte \div PieceBytes
PieceEnd(p) == IF (p + 1) * PieceBytes < VodBytes THEN (p + 1) * PieceBytes ELSE VodBytes
Piece(p) == [k \in 1 .. PieceEnd(p) - p * PieceBytes |-> p * PieceBytes + k - 1]

\* The leading pieces of from..upto-1 that shared_block answers: it refuses a
\* length over BlockLimit, however completely the piece is stored.
Answerable(s, p) == p \in stored[s] /\ Len(Piece(p)) <= BlockLimit
CachedUpto(s, from, upto) ==
    CHOOSE q \in from .. upto : /\ \A p \in from .. q - 1 : Answerable(s, p)
                                /\ q = upto \/ ~Answerable(s, q)

-----------------------------------------------------------------------------
(* Handles and slots.                                                      *)

\* A handle lives while the cache, a request or an open range owns it; the
\* detached task of a range does not own it.
Owned(h) == \/ \E i \in VodIds : vcache[i].h = h
            \/ \E r \in VodReaders : get[r].h = h
Occupied == Cardinality({h \in DOMAIN handle : Owned(h)})
              + Cardinality({r \in VodReaders : get[r].at = "resolve"})

Fresh(c) == [i \in VodIds |-> IF c[i].h # 0 /\ vnow - c[i].at < VodGrace THEN c[i] ELSE [h |-> 0, at |-> 0]]

Move(r, at) == get' = [get EXCEPT ![r].at = at]
Answers(r, how) == get' = [get EXCEPT ![r] = [NoGet EXCEPT !.at = how, !.asks = get[r].asks, !.id = get[r].id]]

\* cached_vod: sweep, and on a hit refresh the access time.
CachedVod(r, i) ==
    /\ Fresh(vcache)[i].h # 0
    /\ vcache' = [Fresh(vcache) EXCEPT ![i].at = vnow]
    /\ get' = [get EXCEPT ![r].at = "have", ![r].h = Fresh(vcache)[i].h]

\* resolve_vod up to the resolve lock.
Ask(r, i, wish) ==
    /\ get[r].at \in {"idle", "done", "short", "listed", "refused", "dropped"} /\ get[r].asks < MaxAsks
    /\ LET asked == [NoGet EXCEPT !.id = i, !.wish = wish, !.asks = get[r].asks + 1] IN
       IF closing # "no"
       THEN get' = [get EXCEPT ![r] = [asked EXCEPT !.at = "refused", !.wish = <<"none">>]] /\ UNCHANGED vcache
       ELSE /\ vcache' = IF Fresh(vcache)[i].h # 0 THEN [Fresh(vcache) EXCEPT ![i].at = vnow]
                         ELSE Fresh(vcache)
            /\ get' = [get EXCEPT ![r] = [asked EXCEPT
                          !.at = IF Fresh(vcache)[i].h # 0 THEN "have" ELSE "lock",
                          !.h = Fresh(vcache)[i].h]]
    /\ tee[r].at = "none"
    /\ UNCHANGED <<vnow, resolving, closing, handle, stored, tee>>

\* With the lock: look again, then reserve a slot and resolve.  Live sessions
\* use the same slots, so there may be none even when files hold few.
ResolveLock(r) ==
    /\ get[r].at = "lock" /\ resolving[get[r].id] = Nobody
    /\ \/ closing # "no" /\ Answers(r, "refused") /\ UNCHANGED <<vcache, resolving>>
       \/ closing = "no" /\ CachedVod(r, get[r].id) /\ UNCHANGED resolving
       \/ /\ closing = "no" /\ Fresh(vcache)[get[r].id].h = 0
          /\ vcache' = Fresh(vcache)
          /\ \/ /\ Occupied < VodSlots      \* and live sessions leave one
                /\ Move(r, "resolve") /\ resolving' = [resolving EXCEPT ![get[r].id] = r]
             \/ Answers(r, "refused") /\ UNCHANGED resolving    \* CapacityExhausted
    /\ UNCHANGED <<vnow, closing, handle, stored, tee>>

\* The provider answers: a new handle on the store registered for the id
\* (shared with any handle still alive), cached unless shutdown came first.
VodResolved(r) ==
    /\ get[r].at = "resolve" /\ resolving' = [resolving EXCEPT ![get[r].id] = Nobody]
    /\ \/ Answers(r, "refused") /\ UNCHANGED <<vcache, handle, stored>>     \* provider error
       \/ closing # "no" /\ Answers(r, "refused") /\ UNCHANGED <<vcache, handle, stored>>
       \/ /\ closing = "no" /\ Len(handle) < MaxHandles
          /\ LET i == get[r].id
                 h == Len(handle) + 1
                 alive == {g \in DOMAIN handle : handle[g].id = i /\ Owned(g)}
                 s == IF alive = {} THEN h ELSE handle[CHOOSE g \in alive : TRUE].store
             IN /\ handle' = Append(handle, [id |-> i, store |-> s, peers |-> "unknown", lock |-> Nobody])
                /\ vcache' = [vcache EXCEPT ![i] = [h |-> h, at |-> vnow]]
                /\ get' = [get EXCEPT ![r].at = "have", ![r].h = h]
          /\ UNCHANGED stored
    /\ UNCHANGED <<vnow, closing, tee>>

-----------------------------------------------------------------------------
(* Opening and reading a range.                                            *)

\* The handler between resolve_vod and open_range.
Handle(r) ==
    /\ get[r].at = "have"
    /\ LET o == Outcome(get[r].wish) IN
       IF o[1] = "listed"
       THEN get' = [get EXCEPT ![r].at = "listed", ![r].h = 0, ![r].out = VodPlaylist]
       ELSE IF o[1] = "unsatisfiable" \/ VodBytes = 0
       THEN Answers(r, "refused")
       ELSE get' = [get EXCEPT ![r].at = "open",
                               ![r].from = IF o[1] = "full" THEN 0 ELSE o[2],
                               ![r].to = IF o[1] = "full" THEN VodBytes - 1 ELSE o[3]]
    /\ UNCHANGED <<vnow, vcache, resolving, closing, handle, stored, tee>>

Reading(g, first, cached) ==
    [g EXCEPT !.at = "reading", !.prefix = [k \in 1 .. cached - first |-> Piece(first + k - 1)],
              !.skip = g.from - first * PieceBytes, !.left = g.to - g.from + 1]

\* open_range under range_lock: serve what is stored, or go for peers.
OpenRange(r) ==
    /\ get[r].at = "open" /\ handle[get[r].h].lock = Nobody
    /\ LET g == get[r]
           first == PieceOf(g.from)
           upto == PieceOf(g.to) + 1
           cached == CachedUpto(handle[g.h].store, first, upto)
       IN IF cached = upto
          THEN get' = [get EXCEPT ![r] = Reading(g, first, cached)] /\ UNCHANGED <<handle, tee>>
          ELSE /\ get' = [get EXCEPT ![r] = [Reading(g, first, cached) EXCEPT !.at = "peers"]]
               /\ handle' = [handle EXCEPT ![g.h].lock = r]
               /\ tee' = [tee EXCEPT ![r] = [NoTee EXCEPT !.h = g.h, !.idx = cached, !.dl = cached, !.upto = upto]]
    /\ UNCHANGED <<vnow, vcache, resolving, closing, stored>>

\* peers(): discovered once per handle, an empty answer included.
Peers(r) ==
    /\ get[r].at = "peers"
    /\ \E found \in IF handle[get[r].h].peers = "unknown" THEN {"some", "none"}
                    ELSE {handle[get[r].h].peers} :
          IF found = "some"
          THEN /\ Move(r, "reading") /\ tee' = [tee EXCEPT ![r].at = "run"]
               /\ handle' = [handle EXCEPT ![get[r].h].peers = found]
          ELSE /\ Answers(r, "refused") /\ tee' = [tee EXCEPT ![r] = NoTee]
               /\ handle' = [handle EXCEPT ![get[r].h].peers = found, ![get[r].h].lock = Nobody]
    /\ UNCHANGED <<vnow, vcache, resolving, closing, stored>>

\* The downloader sends the next verified piece, or gives up (VodDownload).
Downloads(r) ==
    /\ tee[r].at = "run" /\ tee[r].dl < tee[r].upto /\ tee[r].drx = <<>>
    /\ \/ tee' = [tee EXCEPT ![r].drx = <<Piece(tee[r].dl)>>, ![r].dl = @ + 1]
       \/ tee' = [tee EXCEPT ![r].dl = tee[r].upto]
    /\ UNCHANGED <<vnow, vcache, resolving, closing, handle, stored, get>>

Listening(r) == get[r].at = "reading" /\ get[r].h = tee[r].h

\* The tee loop: store a piece, then hand it to the reader.
TeePiece(r) ==
    /\ tee[r].at = "run" /\ ~tee[r].sending /\ tee[r].drx # <<>>
    /\ LET s == handle[tee[r].h].store IN stored' = [stored EXCEPT ![s] = @ \union {tee[r].idx}]
    /\ tee' = [tee EXCEPT ![r].sending = TRUE, ![r].idx = @ + 1]
    /\ UNCHANGED <<vnow, vcache, resolving, closing, handle, get>>

\* tx.send: the channel has room, or the reader is gone.
TeeSends(r) ==
    /\ tee[r].at = "run" /\ tee[r].sending
    /\ IF Listening(r)
       THEN /\ Len(get[r].rx) < 1
            /\ get' = [get EXCEPT ![r].rx = Append(@, tee[r].drx[1])]
            /\ tee' = [tee EXCEPT ![r].sending = FALSE, ![r].drx = <<>>]
       ELSE tee' = [tee EXCEPT ![r].at = "join"] /\ UNCHANGED get
    /\ UNCHANGED <<vnow, vcache, resolving, closing, handle, stored>>

\* The loop ends: the reader is gone, or the downloader has nothing left.
TeeBreaks(r) ==
    /\ tee[r].at = "run" /\ ~tee[r].sending
    /\ ~Listening(r) \/ (tee[r].drx = <<>> /\ tee[r].dl = tee[r].upto)
    /\ tee' = [tee EXCEPT ![r].at = "join"]
    /\ UNCHANGED <<vnow, vcache, resolving, closing, handle, stored, get>>

\* Only after the downloader has exited is the range transaction over.
TeeJoins(r) ==
    /\ tee[r].at = "join"
    /\ tee' = [tee EXCEPT ![r] = NoTee]
    /\ handle' = [handle EXCEPT ![tee[r].h].lock = Nobody]
    /\ UNCHANGED <<vnow, vcache, resolving, closing, stored, get>>

\* A chunk after the bytes before the range are dropped, and cut at its end;
\* cutting first would lose the start of a range inside a piece.
TrimEndFirst(chunk, skip, left) ==
    LET cut == SubSeq(chunk, 1, IF Len(chunk) > left THEN left ELSE Len(chunk)) IN
    IF skip >= Len(cut) THEN <<>> ELSE SubSeq(cut, skip + 1, Len(cut))
Trim(chunk, skip, left) ==
    IF skip >= Len(chunk) THEN <<>>
    ELSE LET rest == SubSeq(chunk, skip + 1, Len(chunk)) IN
         SubSeq(rest, 1, IF Len(rest) > left THEN left ELSE Len(rest))

\* VodSource::next, one chunk at a time, and the end of the body.
SourceNext(r) ==
    /\ get[r].at = "reading"
    /\ LET g == get[r]
           queue == g.prefix \o g.rx
           taken == Trim(queue[1], g.skip, g.left)
       IN IF g.left = 0 THEN get' = [get EXCEPT ![r].at = "done", ![r].h = 0]
          ELSE IF queue = <<>>
          THEN tee[r].at = "none" /\ get' = [get EXCEPT ![r].at = "short", ![r].h = 0]
          ELSE get' = [get EXCEPT ![r].prefix = IF g.prefix = <<>> THEN <<>> ELSE Tail(g.prefix),
                                  ![r].rx = IF g.prefix = <<>> THEN Tail(g.rx) ELSE g.rx,
                                  ![r].skip = IF @ >= Len(queue[1]) THEN @ - Len(queue[1]) ELSE 0,
                                  ![r].left = @ - Len(taken), ![r].out = @ \o taken]
    /\ UNCHANGED <<vnow, vcache, resolving, closing, handle, stored, tee>>

\* The client goes away: whatever the request held is dropped with it.
Abandon(r) ==
    /\ get[r].at \in {"lock", "resolve", "have", "open", "peers", "reading"}
    /\ Answers(r, "dropped")
    /\ resolving' = [i \in VodIds |-> IF resolving[i] = r THEN Nobody ELSE resolving[i]]
    /\ IF get[r].at = "peers"
       THEN handle' = [handle EXCEPT ![get[r].h].lock = Nobody] /\ tee' = [tee EXCEPT ![r] = NoTee]
       ELSE UNCHANGED <<handle, tee>>
    /\ UNCHANGED <<vnow, vcache, closing, stored>>

-----------------------------------------------------------------------------
(* The manager around them.                                                *)

Tick == vnow < VodTicks /\ vnow' = vnow + 1
        /\ UNCHANGED <<vcache, resolving, closing, handle, stored, get, tee>>

\* reap_idle_at: a handle nobody asked for within the grace leaves the cache.
ReapIdle ==
    /\ Fresh(vcache) # vcache /\ vcache' = Fresh(vcache)
    /\ UNCHANGED <<vnow, resolving, closing, handle, stored, get, tee>>

\* shutdown: the flag first, the cache later, under the finalization lock.
Shutdown ==
    /\ \/ closing = "no" /\ closing' = "flagged" /\ UNCHANGED vcache
       \/ /\ closing = "flagged" /\ closing' = "cleared"
          /\ vcache' = [i \in VodIds |-> [h |-> 0, at |-> 0]]
    /\ UNCHANGED <<vnow, resolving, handle, stored, get, tee>>

ReaderStep(r) ==
    \/ ResolveLock(r) \/ VodResolved(r) \/ Handle(r) \/ OpenRange(r) \/ Peers(r)
    \/ Downloads(r) \/ TeePiece(r) \/ TeeSends(r) \/ TeeBreaks(r) \/ TeeJoins(r) \/ SourceNext(r)

ReadsNext ==
    \/ \E r \in VodReaders :
          \/ \E i \in VodIds, w \in Wishes : Ask(r, i, w)
          \/ ReaderStep(r) \/ Abandon(r)
    \/ Tick \/ ReapIdle \/ Shutdown

ReadsSpec == ReadsInit /\ [][ReadsNext]_readsVars

\* Every task runs on, a downloader answers within its deadlines, and a
\* client that keeps its connection reads it.
ReadsFairness == \A r \in VodReaders : WF_readsVars(ReaderStep(r))

-----------------------------------------------------------------------------
\* The bytes of a satisfiable range, by RFC 7233: those the header names
\* that the file has.
Named(wish) ==
    LET all == 0 .. VodBytes - 1 IN
    CASE wish[1] = "segment" -> {b \in all : b \div SegmentBytes = wish[2]}
      [] wish[1] = "range" /\ Garbled \notin {wish[2], wish[3]} /\ {wish[2], wish[3]} # {Blank} ->
            {b \in all : IF wish[2] = Blank THEN VodBytes - b <= wish[3]
                         ELSE b >= wish[2] /\ (wish[3] = Blank \/ b <= wish[3])}
      [] OTHER -> all

\* A read is sound: a body is, byte for byte and in order, the start of what
\* the request named, and all of it when the body ends by itself (a torn body
\* is always short, never wrong); a playlist lists every segment the file has,
\* for the bytes it has; the requests of one handle download one
\* range at a time, until the downloader of the last one is gone; an id is
\* resolved by one request at a time, and nothing is cached after shutdown
\* emptied the cache.
ReadIsSound ==
    /\ \A r \in VodReaders :
          get[r].at \in {"reading", "done", "short"} =>
             LET want == SetToSortSeq(Named(get[r].wish), <) IN
             /\ IsPrefix(get[r].out, want)
             /\ get[r].at = "done" => get[r].out = want
    /\ \A r \in VodReaders : get[r].at = "listed" =>
          /\ Len(get[r].out) = Cardinality({b \div SegmentBytes : b \in 0 .. VodBytes - 1})
          /\ \A n \in DOMAIN get[r].out : get[r].out[n] = Cardinality(Named(<<"segment", n - 1>>))
    /\ \A r, q \in VodReaders :
          r # q /\ tee[r].h = tee[q].h => tee[r].h = 0
    /\ closing = "cleared" => \A i \in VodIds : vcache[i].h = 0

\* What range_lock is documented to give: overlapping requests never fetch
\* the same piece at the same time (vod.rs, "never fetch and write the same
\* piece concurrently").
NeverFetchedTwice ==
    \A r, q \in VodReaders :
       r # q /\ tee[r].at = "run" /\ tee[q].at = "run" /\ handle[tee[r].h].store = handle[tee[q].h].store
          => ~\E p \in 0 .. PieceOf(VodBytes) : /\ tee[r].dl <= p /\ p < tee[r].upto
                                               /\ tee[q].dl <= p /\ p < tee[q].upto

\* What must come about again and again: every request ends, and the range it
\* opened with it: no lock order, dead client or failed download leaves a reader
\* waiting.
ReadsOver ==
    \A r \in VodReaders :
       get[r].at \in {"idle", "done", "short", "listed", "refused", "dropped"} /\ tee[r].at = "none"
=============================================================================
