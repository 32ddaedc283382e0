----------------------------- MODULE VodDownload -----------------------------
(***************************************************************************)
(* The download of a range of pieces of a file (ace-swarm/src/vod.rs and   *)
(* vod/coordinator.rs): one coordinator task keeps a credit for every piece*)
(* of a sliding window, connects one worker per peer address, hands out    *)
(* pieces and emits them in order; workers own the sockets, fetch and      *)
(* verify.  Every wait of a worker has a deadline.                         *)
(***************************************************************************)
EXTENDS Integers, Sequences, FiniteSets, FiniteSetsExt

CONSTANTS VodPeers,       \* distinct permitted addresses
          VodEnd,         \* the range is pieces 0 .. VodEnd - 1
          VodWindow,      \* WINDOW
          VodAttempts,    \* ATTEMPTS
          VodWorkers      \* concurrency

ASSUME VodAssumption ==
    /\ IsFiniteSet(VodPeers) /\ "nobody" \notin VodPeers /\ VodEnd \in Nat
    /\ VodWindow \in Nat \ {0} /\ VodAttempts \in Nat \ {0} /\ VodWorkers \in Nat \ {0}

VodPieces == 0 .. VodEnd - 1
NoOwner == "nobody"

VARIABLES
    vcursor,        \* next piece to emit
    credit,         \* attempts, owner and verified bytes of each piece
    worker,         \* the task at each address, and what it knows of its peer
    banned,         \* addresses that sent a piece with a wrong hash
    completions,    \* verified pieces on their way to the coordinator
    vstep,          \* where the coordinator's loop stands
    outcome,        \* "none", "ok", "gone", "unrecoverable", or "panicked", which
                    \* the caller is told as unrecoverable too
    consumer        \* room in the consumer's channel, or gone

vodVars == <<vcursor, credit, worker, banned, completions, vstep, outcome, consumer>>

NoWorker == [at |-> "none", job |-> -1, unchoked |-> FALSE, lacks |-> {}]

VodInit ==
    /\ vcursor = 0 /\ banned = {} /\ completions = <<>> /\ vstep = "loop"
    /\ credit = [p \in VodPieces |->
                    [attempts |-> [a \in VodPeers |-> 0], owner |-> NoOwner, got |-> FALSE]]
    /\ worker = [a \in VodPeers |-> NoWorker]
    /\ outcome = "none" /\ consumer = "room"

-----------------------------------------------------------------------------
(* The coordinator.                                                        *)

Working(a) == worker[a].at # "none"
InWindow == {p \in VodPieces : vcursor <= p /\ p < vcursor + VodWindow}

DownloadStops(how) ==
    /\ outcome' = how /\ vstep' = "ended"
    /\ worker' = [a \in VodPeers |-> NoWorker]      \* abort_all, then join
    /\ UNCHANGED <<vcursor, credit, banned, completions, consumer>>

\* The top of the loop: finished, consumer gone, or the frontier is ready.
LoopTop ==
    /\ vstep = "loop"
    /\ \/ vcursor = VodEnd /\ DownloadStops("ok")
       \/ vcursor < VodEnd /\ consumer = "gone" /\ DownloadStops("gone")
       \/ /\ vcursor < VodEnd /\ consumer # "gone"
          /\ vstep' = IF credit[vcursor].got THEN "send" ELSE "schedule"
          /\ UNCHANGED <<vcursor, credit, worker, banned, completions, outcome, consumer>>

\* tx.send of the frontier, which waits for room and admits no work meanwhile.
EmitPiece ==
    /\ vstep = "send"
    /\ \/ /\ consumer = "room" /\ consumer' = "full"
          /\ vcursor' = vcursor + 1 /\ vstep' = "loop"
          /\ UNCHANGED <<credit, worker, banned, completions, outcome>>
       \/ consumer = "gone" /\ DownloadStops("gone")

\* Addresses that may be connected: budget left for the frontier, least used first.
Connectable ==
    {a \in VodPeers : ~Working(a) /\ a \notin banned /\ credit[vcursor].attempts[a] < VodAttempts}

FirstChoices ==
    {a \in Connectable : \A b \in Connectable :
        credit[vcursor].attempts[a] <= credit[vcursor].attempts[b]}

Crew == {a \in VodPeers : Working(a)}

ConnectPeers ==
    /\ vstep = "schedule"
    /\ IF Cardinality(Crew) < VodWorkers /\ Connectable # {}
       THEN \E a \in FirstChoices :
                /\ worker' = [worker EXCEPT ![a] = [NoWorker EXCEPT !.at = "connecting"]]
                /\ UNCHANGED vstep
       ELSE vstep' = "assign" /\ UNCHANGED worker
    /\ UNCHANGED <<vcursor, credit, banned, completions, outcome, consumer>>

\* Variant: a piece another worker still owns may be handed out again.
UnownedIgnored(p) == ~credit[p].got

Unowned(p) == credit[p].owner = NoOwner /\ ~credit[p].got

\* Workers that may be given p: idle, unchoked, the piece in their bitfield.
Eligible(p) ==
    {a \in VodPeers : /\ worker[a].at \in {"ready", "failed", "panicked"}
                      /\ worker[a].job = -1
                      /\ worker[a].unchoked /\ p \notin worker[a].lacks
                      /\ a \notin banned /\ credit[p].attempts[a] < VodAttempts}

Assignable == {p \in InWindow : Unowned(p) /\ Eligible(p) # {}}

\* One of those that tried it least is chosen.
LeastTried(p) ==
    {a \in Eligible(p) : \A b \in Eligible(p) : credit[p].attempts[a] <= credit[p].attempts[b]}

\* try_send to a worker that has just ended fails, and the piece is passed over.
PassedOver(p) == \E a \in LeastTried(p) : worker[a].at # "ready"

\* Lower pieces are handed out first.
AssignPiece ==
    /\ vstep = "assign"
    /\ \E p \in Assignable : \E a \in LeastTried(p) :
        /\ \A q \in Assignable : q < p => PassedOver(q)
        /\ worker[a].at = "ready"
        /\ worker' = [worker EXCEPT ![a].at = "fetching", ![a].job = p]
        /\ credit' = [credit EXCEPT ![p].attempts[a] = @ + 1, ![p].owner = a]
    /\ UNCHANGED <<vcursor, banned, completions, vstep, outcome, consumer>>

\* Nothing more to hand out: give up without workers, else wait.
AssignDone ==
    /\ vstep = "assign"
    /\ \A p \in Assignable : PassedOver(p)
    /\ IF Crew = {} THEN DownloadStops("unrecoverable")
       ELSE /\ vstep' = "select"
            /\ UNCHANGED <<vcursor, credit, worker, banned, completions, outcome, consumer>>

\* select!, biased: the consumer, then completions, then ended workers.
WaitGone == vstep = "select" /\ consumer = "gone" /\ DownloadStops("gone")

WaitCompletion ==
    LET done == Head(completions) IN
    /\ vstep = "select" /\ consumer # "gone" /\ completions # <<>>
    /\ completions' = Tail(completions)
    /\ credit' = IF credit[done.piece].owner = done.by
                 THEN [credit EXCEPT ![done.piece].owner = NoOwner, ![done.piece].got = TRUE]
                 ELSE credit
    /\ worker' = [worker EXCEPT ![done.by].job = -1]
    /\ vstep' = "loop"
    /\ UNCHANGED <<vcursor, banned, outcome, consumer>>

\* Variant: an idle worker that ends costs nothing.
WaitJoinedFree(a) ==
    /\ vstep = "select" /\ consumer # "gone" /\ completions = <<>>
    /\ worker[a].at \in {"failed", "hash"}
    /\ credit' = IF worker[a].job # -1
                 THEN [credit EXCEPT ![worker[a].job].owner = NoOwner] ELSE credit
    /\ banned' = IF worker[a].at = "hash" THEN banned \cup {a} ELSE banned
    /\ worker' = [worker EXCEPT ![a] = NoWorker]
    /\ vstep' = "loop"
    /\ UNCHANGED <<vcursor, completions, outcome, consumer>>

\* A worker ended: its piece is free again, or its idleness costs the frontier.
WaitJoined(a) ==
    /\ vstep = "select" /\ consumer # "gone" /\ completions = <<>>
    /\ worker[a].at \in {"failed", "hash"}
    /\ credit' = IF worker[a].job # -1
                 THEN [credit EXCEPT ![worker[a].job].owner = NoOwner]
                 ELSE [credit EXCEPT ![vcursor].attempts[a] = @ + 1]
    /\ banned' = IF worker[a].at = "hash" THEN banned \cup {a} ELSE banned
    /\ worker' = [worker EXCEPT ![a] = NoWorker]
    /\ vstep' = "loop"
    /\ UNCHANGED <<vcursor, completions, outcome, consumer>>

\* The join of a worker that panicked ends the download.
WaitPanicked(a) ==
    /\ vstep = "select" /\ consumer # "gone" /\ completions = <<>>
    /\ worker[a].at = "panicked"
    /\ DownloadStops("panicked")

\* Availability changed and somebody was notified.
WaitNotified ==
    /\ vstep = "select" /\ consumer # "gone" /\ completions = <<>>
    /\ \E p \in Assignable : \E a \in Eligible(p) : worker[a].at = "ready"
    /\ vstep' = "loop"
    /\ UNCHANGED <<vcursor, credit, worker, banned, completions, outcome, consumer>>

-----------------------------------------------------------------------------
(* Workers, their peers and the consumer.                                  *)

VodWorkerStep(a, w) ==
    /\ worker' = [worker EXCEPT ![a] = w]
    /\ UNCHANGED <<vcursor, credit, banned, completions, vstep, outcome, consumer>>

\* Dial and handshake, or their timeouts.
WorkerConnects(a) ==
    /\ worker[a].at = "connecting"
    /\ \E at \in {"ready", "failed"} : VodWorkerStep(a, [worker[a] EXCEPT !.at = at])

\* Availability::control: choke, unchoke, bitfield, have.
PeerSpeaks(a) ==
    /\ worker[a].at = "ready" \/ worker[a].at = "fetching"
    /\ \/ VodWorkerStep(a, [worker[a] EXCEPT !.unchoked = ~@])
       \/ \E p \in VodPieces : VodWorkerStep(a, [worker[a] EXCEPT !.lacks = {p}])
       \/ worker[a].lacks # {} /\ VodWorkerStep(a, [worker[a] EXCEPT !.lacks = {}])

\* The idle deadline, or an invalid message; a choking peer may stay idle only so long.
WorkerGivesUp(a) ==
    /\ worker[a].at \in {"ready", "fetching"}
    /\ VodWorkerStep(a, [worker[a] EXCEPT !.at = "failed"])

\* assemble_piece: all blocks came, and the hash agrees or it does not.
WorkerFetched(a) ==
    /\ worker[a].at = "fetching"
    /\ \/ /\ completions' = Append(completions, [by |-> a, piece |-> worker[a].job])
          /\ worker' = [worker EXCEPT ![a].at = "ready"]
          /\ UNCHANGED <<vcursor, credit, banned, vstep, outcome, consumer>>
       \/ VodWorkerStep(a, [worker[a] EXCEPT !.at = "hash"])

WorkerPanics(a) ==
    /\ worker[a].at \in {"connecting", "ready", "fetching"}
    /\ VodWorkerStep(a, [worker[a] EXCEPT !.at = "panicked"])

\* The consumer takes the piece in its channel, or hangs up; it need do neither.
ConsumerBecomes(c) ==
    /\ consumer # "gone" /\ outcome = "none" /\ consumer' = c
    /\ UNCHANGED <<vcursor, credit, worker, banned, completions, vstep, outcome>>

ConsumerReads == consumer = "full" /\ ConsumerBecomes("room")
ConsumerLeaves == ConsumerBecomes("gone")

CoordinatorStep ==
    \/ LoopTop \/ EmitPiece \/ ConnectPeers \/ AssignPiece \/ AssignDone
    \/ WaitGone \/ WaitCompletion \/ WaitNotified \/ \E a \in VodPeers : WaitJoined(a) \/ WaitPanicked(a)

VodNext ==
    \/ CoordinatorStep \/ ConsumerReads \/ ConsumerLeaves
    \/ \E a \in VodPeers :
        \/ WorkerConnects(a) \/ PeerSpeaks(a) \/ WorkerGivesUp(a)
        \/ WorkerFetched(a) \/ WorkerPanics(a)

\* The coordinator runs and every deadline of a worker comes; peers and the
\* consumer promise nothing.
VodFairness ==
    /\ WF_vodVars(CoordinatorStep)
    /\ \A a \in VodPeers :
        WF_vodVars(WorkerConnects(a)) /\ WF_vodVars(WorkerGivesUp(a) \/ WorkerFetched(a))

VodSpec == VodInit /\ [][VodNext]_vodVars /\ VodFairness

-----------------------------------------------------------------------------
(* Properties.                                                             *)

\* A piece is fetched by at most one worker, and its owner and that worker's job
\* agree, through failures, reconnections and completions still on their way;
\* verified pieces of the window are never dropped.
CreditsAreOwned ==
    outcome = "none" =>
        /\ \A a, b \in VodPeers : worker[a].job # -1 /\ worker[a].job = worker[b].job => a = b
        /\ \A a \in VodPeers : worker[a].job # -1 => credit[worker[a].job].owner = a
        /\ \A p \in VodPieces : credit[p].owner # NoOwner => worker[credit[p].owner].job = p
        /\ \A p \in VodPieces : p < vcursor => credit[p].got
        /\ Cardinality(Crew) <= VodWorkers

\* The download gives up only with the frontier's budget spent at every address
\* that did not lie.
GivesUpLast ==
    outcome = "unrecoverable" =>
        \A a \in VodPeers \ banned : credit[vcursor].attempts[a] >= VodAttempts

DownloadIsSound == CreditsAreOwned /\ GivesUpLast

\* Nothing but its consumer can hold up a download: it waits for room in the
\* consumer's channel, and cannot admit work meanwhile, or it ends, whatever the
\* peers do or leave undone.
AwaitsConsumer == vstep = "send" /\ consumer = "full"
DownloadEnds == []<>(outcome # "none" \/ AwaitsConsumer)
=============================================================================
