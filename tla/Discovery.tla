------------------------------ MODULE Discovery ------------------------------
(***************************************************************************)
(* One incremental discovery run: announces to trackers and a walk through *)
(* the mainline DHT feed one channel, which a forwarder empties into the   *)
(* caller's channel (discover_peers_incremental, dht_walk_owned), and the  *)
(* process-wide resolver whose few threads look up the host names of both  *)
(* (resolver.rs).                                                          *)
(*                                                                         *)
(* A node of the DHT is an address; the frontier maps distances to         *)
(* addresses, and the bootstrap routers stand at the greatest distances.   *)
(* A datagram may come from anybody, be late, lost or repeated.  Time is a *)
(* number of response windows.                                             *)
(***************************************************************************)
EXTENDS Integers, Sequences, FiniteSets, SequencesExt, FiniteSetsExt

CONSTANTS
  Trackers,     \* the tracker list: 1 .. n
  Boots,        \* bootstrap routers: distance |-> address
  Contacts,     \* what replies may name: <<distance, address>>
  Swarm,        \* peers that anybody may report
  Threads,      \* WORKERS
  Queued,       \* QUEUED
  Parallel,     \* TRACKER_PARALLELISM
  BatchSize,    \* 8 queries of a round
  FrontierCap,  \* 64 entries of the frontier
  PeerTarget,   \* DHT_PEER_TARGET
  PeerCap,      \* MAX_DISCOVERY_PEERS
  InflightTtl,  \* INFLIGHT_TTL, in windows
  Budget,       \* bound: windows of a walk
  MaxQueries    \* bound: queries of a walk

ASSUME DiscoveryAssumption ==
  /\ IsFiniteSet(Trackers) /\ Trackers \subseteq Nat /\ IsFiniteSet(Swarm)
  /\ {Threads, Queued, Parallel, BatchSize, FrontierCap, PeerTarget, PeerCap} \subseteq Nat \ {0}
  /\ {InflightTtl, Budget, MaxQueries} \subseteq Nat

VARIABLES
  hour,      \* the clock
  wants,     \* callers of the resolver that wait for an answer
  names,     \* the resolver's queue
  natives,   \* callers whose request a thread works on
  told,      \* per caller: an answer it has not read
  job,       \* per tracker: where its exchange is
  answer,    \* per tracker: the peers it returned and has not sent
  walk,      \* where the walk is
  frontier, queried, inflight, \* the walk's own tables
  sent,      \* number of queries sent: the next transaction id
  window,    \* end of the response window, and whether an interruption keeps it
  harvest,   \* peers the walk has collected
  source,    \* the channel of both sources
  seen,      \* what the forwarder has let pass
  hold,      \* the peer it is sending
  sink,      \* what the caller was sent
  run,       \* the run: on, draining or done; closed once the caller is gone
  history    \* what happened: replies taken, peers reported, exhaustion

discoveryVars == <<hour, wants, names, natives, told, job, answer, walk, frontier, queried,
                   inflight, sent, window, harvest, source, seen, hold, sink, run, history>>
resolverVars == <<wants, names, natives, told>>
trackerVars == <<job, answer>>
walkVars == <<walk, frontier, queried, inflight, sent, window, harvest>>
channelVars == <<source, seen, hold, sink, run>>

BootKeys == DOMAIN Boots
NodeKeys == BootKeys \cup {c[1] : c \in Contacts}
NodeAddresses == {Boots[b] : b \in BootKeys} \cup {c[2] : c \in Contacts}
Boot(b) == <<"boot", b>>
Tracker(t) == <<"tracker", t>>
Callers == {Boot(b) : b \in BootKeys} \cup {Tracker(t) : t \in Trackers}

-----------------------------------------------------------------------------
(* The resolver.                                                           *)

\* lookup: refused when the queue is full; the calls of a task set happen one
\* after the other, in any order.
LookupAll(callers) ==
  LET room == Queued - Len(names)
      kept == {k \in SUBSET callers : Cardinality(k) = IF Cardinality(callers) > room THEN room ELSE Cardinality(callers)}
  IN \E k \in kept : \E order \in SetToSeqs(k) :
       /\ names' = names \o order
       /\ wants' = wants \cup k
       /\ told' = [c \in Callers |-> IF c \in callers \ k THEN "failure" ELSE told[c]]

\* QueuedCancellation::drop: work that no thread has taken goes with its caller.
GiveUp(callers) ==
  /\ wants' = wants \ callers
  /\ names' = SelectSeq(names, LAMBDA c : c \notin callers)

ThreadTakes ==
  /\ names # <<>> /\ Cardinality(natives) < Threads
  /\ names' = Tail(names) /\ natives' = natives \cup {Head(names)}
  /\ UNCHANGED <<hour, wants, told, trackerVars, walkVars, channelVars, history>>

\* The system's resolver answers, fails or panics; nobody may be left to hear it.
ThreadAnswers(c) ==
  /\ c \in natives
  /\ natives' = natives \ {c} /\ wants' = wants \ {c}
  /\ \E result \in {"address", "failure"} :
       told' = IF c \in wants THEN [told EXCEPT ![c] = result] ELSE told
  /\ UNCHANGED <<hour, names, trackerVars, walkVars, channelVars, history>>

-----------------------------------------------------------------------------
(* Trackers.                                                               *)

Jobs == {t \in Trackers : job[t] \in {"resolving", "announcing"}}
NextTracker == Min({t \in Trackers : job[t] = "todo"})

\* stream_tracker_peers starts the next exchange while fewer than its limit run;
\* a URL that is too long or not udp:// is passed over.
TrackerStarts ==
  /\ run = "on" /\ Cardinality(Jobs) < Parallel /\ \E t \in Trackers : job[t] = "todo"
  /\ ~\E t \in Trackers : job[t] = "sending"
  /\ \/ /\ job' = [job EXCEPT ![NextTracker] = "done"] /\ UNCHANGED <<wants, names, told>>
     \/ /\ job' = [job EXCEPT ![NextTracker] = "resolving"]
        /\ LookupAll({Tracker(NextTracker)})
  /\ UNCHANGED <<hour, natives, answer, walkVars, channelVars, history>>

\* tracker_exchange: a refused address, or none, ends it; so does its deadline,
\* which is always possible.
TrackerResolved(t) ==
  /\ run = "on" /\ job[t] = "resolving" /\ told[Tracker(t)] # "none"
  /\ job' = [job EXCEPT ![t] = IF told[Tracker(t)] = "failure" THEN "done" ELSE "announcing"]
  /\ UNCHANGED <<hour, resolverVars, answer, walkVars, channelVars, history>>

TrackerTimesOut(t) ==
  /\ run = "on" /\ job[t] \in {"resolving", "announcing"}
  /\ GiveUp({Tracker(t)})
  /\ job' = [job EXCEPT ![t] = "done"]
  /\ UNCHANGED <<hour, natives, told, answer, walkVars, channelVars, history>>

TrackerAnswers(t, found) ==
  /\ run = "on" /\ job[t] = "announcing" /\ ~\E u \in Trackers : job[u] = "sending"
  /\ job' = [job EXCEPT ![t] = "sending"]
  /\ answer' = [answer EXCEPT ![t] = found]
  /\ history' = [history EXCEPT !.reported = @ \cup found]
  /\ UNCHANGED <<hour, resolverVars, walkVars, channelVars>>

\* Its peers go to the source channel one by one, waiting for room.
TrackerSends(t) ==
  /\ run = "on" /\ job[t] = "sending"
  /\ \/ /\ answer[t] # {} /\ Len(source) < PeerCap
        /\ \E p \in answer[t] : /\ source' = Append(source, p)
                                /\ answer' = [answer EXCEPT ![t] = @ \ {p}]
        /\ UNCHANGED job
     \/ answer[t] = {} /\ job' = [job EXCEPT ![t] = "done"] /\ UNCHANGED <<answer, source>>
  /\ UNCHANGED <<hour, resolverVars, walkVars, seen, hold, sink, run, history>>

TrackersDone == \A t \in Trackers : job[t] = "done"

-----------------------------------------------------------------------------
(* The walk.                                                               *)

\* Keep the closest.
Capped(f) ==
  LET far == {k \in DOMAIN f : Cardinality({j \in DOMAIN f : j < k}) >= FrontierCap}
  IN [k \in DOMAIN f \ far |-> f[k]]

\* add_bootstrap
Seeded(f, b) == Capped([k \in DOMAIN f \cup {b} |-> IF k = b THEN Boots[b] ELSE f[k]])

\* A node already known at a distance stays; among the new ones the first wins.
Merged(f, named) ==
  LET new == {c[1] : c \in named} \ DOMAIN f
  IN {Capped([k \in DOMAIN f \cup new |-> IF k \in DOMAIN f THEN f[k] ELSE g[k]]) :
        g \in {h \in [new -> NodeAddresses] : \A k \in new : <<k, h[k]>> \in named}}

\* The tasks of the walk that look up a router, and those that have ended.
Lookups == {b \in BootKeys : Boot(b) \in wants \/ told[Boot(b)] # "none"}
BootTold(b) == told[Boot(b)] # "none"

\* lookups.try_join_next at the top of the loop, and join_next while waiting:
\* inside a response window it interrupts the window.
BootstrapJoins(b) ==
  /\ walk \in {"top", "idle", "window"} /\ b \in Lookups /\ BootTold(b)
  /\ told' = [told EXCEPT ![Boot(b)] = "none"]
  /\ frontier' = IF told[Boot(b)] = "address" THEN Seeded(frontier, b) ELSE frontier
  /\ window' = IF walk = "window" THEN [window EXCEPT !.kept = TRUE] ELSE window
  /\ walk' = "top"
  /\ UNCHANGED <<hour, wants, names, natives, trackerVars, queried, inflight, sent, harvest,
                 channelVars, history>>

Unqueried == {k \in DOMAIN frontier : frontier[k] \notin queried}
Batch == {k \in Unqueried : Cardinality({j \in Unqueried : j < k}) < BatchSize}

\* Numbers the queries of a batch that were sent; one that was not keeps no entry.
Numbered(keys) == {<<frontier[k], sent + Cardinality({j \in Batch : j <= k}), hour + InflightTtl>> : k \in keys}

\* No node left to ask, no router to wait for and no window to go back to.
Exhausted == Batch = {} /\ Lookups = {} /\ ~window.kept

Awaited == {q \in inflight : q[3] > hour}

\* The rest of the loop's top when there is nobody to ask: stop, wait for a
\* router, or listen on.
WalkTurn ==
  /\ walk = "top" /\ hour < Budget /\ ~\E b \in Lookups : BootTold(b)
  /\ Batch = {} /\ inflight' = Awaited
  /\ \/ /\ Exhausted
        /\ walk' = "over" /\ history' = [history EXCEPT !.exhausted = TRUE]
        /\ UNCHANGED window
     \/ /\ ~Exhausted /\ Awaited = {} /\ ~window.kept
        /\ walk' = "idle" /\ UNCHANGED <<window, history>>
     \/ /\ ~Exhausted /\ (Awaited # {} \/ window.kept)
        /\ walk' = "window"
        /\ window' = IF window.kept THEN [window EXCEPT !.kept = FALSE]
                     ELSE [ends |-> hour + 1, kept |-> FALSE]
        /\ UNCHANGED history
  /\ UNCHANGED <<hour, resolverVars, trackerVars, frontier, queried, sent, harvest, channelVars>>

\* And when there is: expire, ask the closest and listen.
WalkAsks ==
  /\ walk = "top" /\ ~\E b \in Lookups : BootTold(b)
  /\ hour < Budget /\ Batch # {} /\ sent + Cardinality(Batch) <= MaxQueries
  /\ \E ok \in SUBSET Batch :
       /\ inflight' = Awaited \cup Numbered(ok)
       /\ history' = [history EXCEPT !.asked = @ \cup {<<q[1], q[2]>> : q \in Numbered(ok)}]
  /\ queried' = queried \cup {frontier[k] : k \in Batch}
  /\ sent' = sent + Cardinality(Batch)
  /\ window' = [ends |-> hour + 1, kept |-> FALSE]
  /\ walk' = "window"
  /\ UNCHANGED <<hour, resolverVars, trackerVars, frontier, harvest, channelVars>>

\* The window has passed, or the socket failed.
WindowEnds ==
  /\ walk = "window"
  /\ walk' = "top"
  /\ UNCHANGED <<hour, resolverVars, trackerVars, frontier, queried, inflight, sent, window, harvest, channelVars, history>>

\* The deadline ends the walk at its top and while it waits.
DeadlinePasses ==
  /\ walk \in {"top", "idle"} /\ hour >= Budget /\ walk' = "over"
  /\ UNCHANGED <<hour, resolverVars, trackerVars, frontier, queried, inflight, sent, window, harvest, channelVars, history>>

\* Variant: the transaction id alone decides.
AnswersAny(from, id) == \E q \in inflight : q[2] = id

\* A reply counts when this very node was asked with this transaction id.
AnswersOne(from, id) == \E q \in inflight : q[1] = from /\ q[2] = id

\* collect_response_peers: new peers go to the source channel without waiting;
\* a peer the channel has no room for ends the walk.
Collected(found) ==
  LET new == found \ harvest
      room == PeerCap - Len(source)
  IN IF Cardinality(new) <= room THEN new ELSE CHOOSE s \in SUBSET new : Cardinality(s) = room

\* A datagram from `from' that echoes `id', with nodes and peers.
Datagram(from, id, named, found) ==
  /\ walk = "window" /\ hour < window.ends
  /\ AnswersOne(from, id)
  /\ inflight' = {q \in inflight : ~(q[1] = from /\ q[2] = id)}
  /\ \E f \in Merged(frontier, named) : frontier' = f
  /\ LET sentOn == Collected(found)
         stops == \/ Cardinality(sentOn) < Cardinality(found \ harvest)
                  \/ Cardinality(harvest \cup found) >= PeerTarget
     IN /\ harvest' = harvest \cup found
        /\ \E order \in SetToSeqs(sentOn) : source' = source \o order
        /\ walk' = IF stops THEN "over" ELSE "window"
        /\ history' = [history EXCEPT !.taken = @ \cup {<<from, id>>}, !.reported = @ \cup sentOn]
  /\ UNCHANGED <<hour, resolverVars, trackerVars, queried, sent, window, seen, hold, sink, run>>

\* The walk returns: its lookups go with it.
WalkReturns ==
  /\ walk = "over" /\ walk' = "done"
  /\ GiveUp({Boot(b) : b \in BootKeys})
  /\ told' = [c \in Callers |-> IF c \in {Boot(b) : b \in BootKeys} THEN "none" ELSE told[c]]
  /\ UNCHANGED <<hour, natives, trackerVars, frontier, queried, inflight, sent, window, harvest, channelVars, history>>

-----------------------------------------------------------------------------
(* The combiner.                                                           *)

Forwarding == run \in {"on", "draining"} /\ hold = {}

\* forward_discovery_sources: each new peer is sent on once.
ForwardTakes ==
  /\ Forwarding /\ source # <<>>
  /\ source' = Tail(source)
  /\ hold' = IF Head(source) \in seen THEN {} ELSE {Head(source)}
  /\ seen' = seen \cup {Head(source)}
  /\ UNCHANGED <<hour, resolverVars, trackerVars, walkVars, sink, run, history>>

ForwardSends ==
  /\ run \in {"on", "draining"} /\ hold # {}
  /\ sink' = sink \o SetToSeq(hold) /\ hold' = {}
  /\ run' = IF Cardinality(seen) >= PeerCap THEN "ending" ELSE run
  /\ UNCHANGED <<hour, resolverVars, trackerVars, walkVars, source, seen, history>>

\* Both sources are done: what is left in the channel is still sent.
SourcesEnd ==
  /\ run = "on" /\ TrackersDone /\ walk = "done"
  /\ run' = "draining"
  /\ UNCHANGED <<hour, resolverVars, trackerVars, walkVars, source, seen, hold, sink, history>>

ForwardEnds ==
  /\ run = "draining" /\ hold = {} /\ source = <<>>
  /\ run' = "done"
  /\ UNCHANGED <<hour, resolverVars, trackerVars, walkVars, source, seen, hold, sink, history>>

\* The caller drops its receiver.
CallerLeaves ==
  /\ run \in {"on", "draining"}
  /\ run' = "ending" /\ history' = [history EXCEPT !.left = TRUE]
  /\ UNCHANGED <<hour, resolverVars, trackerVars, walkVars, source, seen, hold, sink>>

\* The run ends early: its tasks are aborted and their queued lookups withdrawn.
RunAborts ==
  /\ run = "ending" /\ run' = "done"
  /\ GiveUp({Boot(b) : b \in BootKeys} \cup {Tracker(t) : t \in Trackers})
  /\ job' = [t \in Trackers |-> "done"] /\ walk' = "done"
  /\ UNCHANGED <<hour, natives, told, answer, frontier, queried, inflight, sent, window, harvest,
                 source, seen, hold, sink, history>>

Passes ==
  /\ hour < Budget /\ hour' = hour + 1
  /\ UNCHANGED <<resolverVars, trackerVars, walkVars, channelVars, history>>

-----------------------------------------------------------------------------
\* discover_peers_incremental: the walk's lookups are called at once.
DiscoveryInit ==
  /\ hour = 0 /\ natives = {}
  /\ LET boots == {Boot(b) : b \in BootKeys}
     IN \E k \in {s \in SUBSET boots : Cardinality(s) = Min({Queued, Cardinality(boots)})} :
          \E order \in SetToSeqs(k) : names = order /\ wants = k
  /\ told = [c \in Callers |-> IF c \in wants \/ c \in {Tracker(t) : t \in Trackers} THEN "none" ELSE "failure"]
  /\ job = [t \in Trackers |-> "todo"] /\ answer = [t \in Trackers |-> {}]
  /\ walk = "top" /\ frontier = [k \in {} |-> 0] /\ queried = {} /\ inflight = {} /\ sent = 0
  /\ window = [ends |-> 0, kept |-> FALSE] /\ harvest = {}
  /\ source = <<>> /\ seen = {} /\ hold = {} /\ sink = <<>> /\ run = "on"
  /\ history = [asked |-> {}, taken |-> {}, reported |-> {}, exhausted |-> FALSE, left |-> FALSE]

DiscoveryNext ==
  \/ ThreadTakes \/ TrackerStarts \/ WalkTurn \/ WalkAsks \/ WindowEnds \/ DeadlinePasses \/ WalkReturns
  \/ ForwardTakes \/ ForwardSends \/ SourcesEnd \/ ForwardEnds \/ CallerLeaves \/ RunAborts \/ Passes
  \/ \E c \in Callers : ThreadAnswers(c)
  \/ \E b \in BootKeys : BootstrapJoins(b)
  \/ \E t \in Trackers : TrackerResolved(t) \/ TrackerTimesOut(t) \/ TrackerSends(t)
  \/ \E t \in Trackers, found \in SUBSET Swarm : TrackerAnswers(t, found)
  \/ \E from \in NodeAddresses, id \in 1 .. MaxQueries, named \in SUBSET Contacts, found \in SUBSET Swarm : Datagram(from, id, named, found)

DiscoverySpec == DiscoveryInit /\ [][DiscoveryNext]_discoveryVars

\* The tasks run, time passes and the caller reads or leaves.  Nothing is
\* assumed of trackers, nodes or the system's resolver.
DiscoveryFairness ==
  /\ WF_discoveryVars(Passes) /\ WF_discoveryVars(TrackerStarts)
  /\ WF_discoveryVars(WalkTurn \/ WalkAsks \/ WindowEnds) /\ WF_discoveryVars(DeadlinePasses)
  /\ WF_discoveryVars(WalkReturns) /\ WF_discoveryVars(ForwardTakes \/ ForwardSends)
  /\ WF_discoveryVars(SourcesEnd) /\ WF_discoveryVars(ForwardEnds) /\ WF_discoveryVars(RunAborts)
  /\ \A t \in Trackers : /\ WF_discoveryVars(TrackerResolved(t) \/ TrackerTimesOut(t))
                         /\ WF_discoveryVars(TrackerSends(t))

DiscoveryFairSpec == DiscoverySpec /\ DiscoveryFairness

-----------------------------------------------------------------------------
\* A thread or a place in the resolver's queue is only taken by a lookup that
\* somebody waits for, or by one that was already running when its caller left.
ResolverIsBounded ==
  /\ Cardinality(natives) <= Threads /\ Len(names) <= Queued
  /\ \A i \in 1 .. Len(names) : names[i] \in wants /\ names[i] \notin natives

\* Every reply taken answers a query this walk sent, to that node, under that id.
RepliesAreCorrelated == history.taken \subseteq history.asked

\* The caller sees a peer once.
PeersComeOnce == IsInjective(sink) /\ ToSet(sink) \subseteq seen

\* The walk calls the DHT exhausted only when it has asked everybody it knows
\* and no router's address is still to come.
ExhaustedIsExhausted == walk = "over" /\ history.exhausted => Unqueried = {} /\ Lookups = {}

\* One source that is done does not cut the other off: what trackers and nodes
\* reported reaches a caller who stays, up to the cap.
NothingIsCutOff ==
  run = "done" /\ ~history.left /\ Cardinality(seen) < PeerCap => history.reported \subseteq ToSet(sink)

\* Discovery and the resolver (discover_peers_incremental, dht_walk_owned,
\* Resolver).
DiscoveryIsSound ==
  /\ ResolverIsBounded /\ RepliesAreCorrelated /\ PeersComeOnce
  /\ ExhaustedIsExhausted /\ NothingIsCutOff

\* What must come about: a run ends, whatever the network and the system's
\* resolver do.
DiscoveryOver == run = "done"
=============================================================================
