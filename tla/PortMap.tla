------------------------------ MODULE PortMap ------------------------------
(***************************************************************************)
(* The inbound port of the daemon as others learn of it (portmap.rs,       *)
(* ace_provider/announce.rs, propagate_mapped_announce_port and the        *)
(* reachability loop of runtime.rs): one task asks the gateway for a       *)
(* mapping and keeps it alive, one hands the mapped port to the announcers *)
(* of streams, and each of those announces it to trackers and the DHT.     *)
(*                                                                         *)
(* The gateway is outside: a call changes it before, and independently of, *)
(* the answer.                                                             *)
(***************************************************************************)
EXTENDS Integers, Sequences, FiniteSets

CONSTANTS
  Choice,     \* port_map_backend: auto, upnp, natpmp or none
  Announcers, \* announce loops of streams
  Lease,      \* ticks of a granted lease
  Interval,   \* SEEDER_ANNOUNCE_INTERVAL
  HintAfter,  \* the ten minutes before the troubleshooting hint
  MaxSeen,    \* bound: peers that echo an address or dial in
  LastHour    \* bound: last tick of a run

ASSUME PortMapAssumption ==
  /\ Choice \in {"auto", "upnp", "natpmp", "none"}
  /\ {Lease, Interval} \subseteq Nat \ {0} /\ {HintAfter, MaxSeen, LastHour} \subseteq Nat

VARIABLES
  hours,     \* the clock
  mapper,    \* the mapping task: step, backend in use, lease deadline, next renewal
  gateway,   \* what the gateway forwards: held or not, and until when
  endpoint,  \* watch channel of the mapped endpoint: value, and whether it is closed
  quit,      \* shutdown signal of the handle
  port,      \* watch channel of the announced port: value and version
  relay,     \* propagate_mapped_announce_port: what it last saw
  loop,      \* per announcer: where it is, version it saw, port it last announced
  evidence,  \* yourip observations per address, the last address, inbound peers
  hinted     \* troubleshooting_hint_emitted

portMapVars == <<hours, mapper, gateway, endpoint, quit, port, relay, loop, evidence, hinted>>

Max2(a, b) == IF a >= b THEN a ELSE b

\* PortMapBackend::candidates
Candidates ==
  CASE Choice = "auto" -> <<"upnp", "natpmp">>
    [] Choice = "none" -> <<>>
    [] OTHER -> <<Choice>>

Backend == Candidates[mapper.at]
Elsewhere == <<hours, quit, port, relay, loop, evidence, hinted>>
At(step) == [mapper EXCEPT !.step = step]
Ended == {"ended", "abandoned"}
Ends == mapper' = At("ended") /\ endpoint' = [endpoint EXCEPT !.closed = TRUE]

-----------------------------------------------------------------------------
(* The mapping task.                                                       *)

\* establish: the attempt failed and the next candidate's turn comes; with
\* none left the task ends.
NextCandidate ==
  IF mapper.at < Len(Candidates)
  THEN mapper' = [At("search") EXCEPT !.at = @ + 1] /\ UNCHANGED endpoint
  ELSE Ends

\* A gateway is known and the request goes out to it.
Asks == mapper' = [At("adding") EXCEPT !.taken = FALSE] /\ UNCHANGED endpoint

\* UPnP searches for a gateway and for the local address towards it, NAT-PMP
\* guesses it from the default route, where there is one.
UpnpSearches(found) ==
  /\ mapper.step = "search" /\ ~quit /\ Backend = "upnp"
  /\ IF found THEN Asks ELSE NextCandidate
  /\ UNCHANGED <<gateway, Elsewhere>>

NatPmpSearches(route) ==
  /\ mapper.step = "search" /\ ~quit /\ Backend = "natpmp"
  /\ IF route THEN Asks ELSE NextCandidate
  /\ UNCHANGED <<gateway, Elsewhere>>

\* AddPortMapping, or a NAT-PMP request, reaches the gateway.
GatewayMaps ==
  /\ mapper.step \in {"adding", "renewing"} /\ ~mapper.taken
  /\ gateway' = [held |-> TRUE, until |-> hours + Lease]
  /\ mapper' = [mapper EXCEPT !.taken = TRUE]
  /\ UNCHANGED <<endpoint, Elsewhere>>

\* The answer.  UPnP then asks for the external address.
Added(ok) ==
  /\ mapper.step = "adding" /\ ~quit
  /\ ok => mapper.taken
  /\ IF ok THEN mapper' = At(IF Backend = "upnp" THEN "address" ELSE "granted") /\ UNCHANGED endpoint
     ELSE NextCandidate
  /\ UNCHANGED <<gateway, Elsewhere>>

AddressAnswered ==
  /\ mapper.step = "address" /\ ~quit
  /\ mapper' = At("granted")
  /\ UNCHANGED <<gateway, endpoint, Elsewhere>>

\* run_port_mapping goes on without the gateway: the endpoint is published and
\* renewal_loop counts the lease from here.  The signal is not looked at again
\* before that.
Published ==
  /\ mapper.step = "granted"
  /\ endpoint' = [endpoint EXCEPT !.value = "mapped"]
  /\ mapper' = [At("mapped") EXCEPT !.expires = hours + Lease, !.refresh = hours + Lease \div 2]
  /\ UNCHANGED <<gateway, Elsewhere>>

\* The signal arrives in the middle of discovery: establish is dropped where it is.
Abandoned ==
  /\ quit /\ mapper.step \in {"search", "adding", "address"}
  /\ mapper' = At("abandoned") /\ endpoint' = [endpoint EXCEPT !.closed = TRUE]
  /\ UNCHANGED <<gateway, Elsewhere>>

\* renewal_loop's select: the signal first, then the end of the lease, then
\* the next renewal.
StopsRenewing ==
  /\ mapper.step = "mapped" /\ quit
  /\ mapper' = At("removing")
  /\ UNCHANGED <<gateway, endpoint, Elsewhere>>

LeaseEnds ==
  /\ mapper.step = "mapped" /\ ~quit /\ hours >= mapper.expires
  /\ mapper' = At("ended") /\ endpoint' = [value |-> "none", closed |-> TRUE]
  /\ UNCHANGED <<gateway, Elsewhere>>

Renews ==
  /\ mapper.step = "mapped" /\ ~quit /\ hours < mapper.expires /\ hours >= mapper.refresh
  /\ mapper' = [At("renewing") EXCEPT !.taken = FALSE]
  /\ UNCHANGED <<gateway, endpoint, Elsewhere>>

\* Only a renewal that succeeded moves the deadline; the next one is due after
\* another half lease in any case.
Renewed(ok) ==
  /\ mapper.step = "renewing"
  /\ ok => mapper.taken
  /\ mapper' = [At("mapped") EXCEPT !.expires = IF ok THEN hours + Lease ELSE @, !.refresh = hours + Lease \div 2]
  /\ UNCHANGED <<gateway, endpoint, Elsewhere>>

\* The removal is tried once, and the task ends whatever comes of it.
Removes(ok) ==
  /\ mapper.step = "removing"
  /\ gateway' = IF ok THEN [gateway EXCEPT !.held = FALSE] ELSE gateway
  /\ Ends
  /\ UNCHANGED Elsewhere

\* PortMapHandle::shutdown or its drop.
Quits == ~quit /\ quit' = TRUE /\ UNCHANGED <<hours, mapper, gateway, endpoint, port, relay, loop, evidence, hinted>>

-----------------------------------------------------------------------------
(* From the mapping to the announcements.                                  *)

External == IF endpoint.value = "mapped" THEN "external" ELSE "local"

\* One turn of the relay: the current endpoint's port, or the listener's own.
\* After the mapping task is gone it is the listener's own for good.
Relays ==
  /\ relay.on /\ ~relay.last /\ (relay.saw # endpoint.value \/ endpoint.closed)
  /\ LET gone == endpoint.closed /\ relay.saw = endpoint.value
         value == IF gone THEN "local" ELSE External
     IN /\ port' = [value |-> value, version |-> port.version + 1]
        /\ relay' = [relay EXCEPT !.saw = endpoint.value, !.last = gone]
  /\ UNCHANGED <<hours, mapper, gateway, endpoint, quit, loop, evidence, hinted>>

\* announce_infohash_periodically_dynamic: read the port, announce it, and
\* sleep until the interval ends or the port changes.
Reads(a) ==
  /\ loop[a].step = "read"
  /\ loop' = [loop EXCEPT ![a] = [@ EXCEPT !.step = "announce", !.version = port.version, !.port = port.value]]
  /\ UNCHANGED <<hours, mapper, gateway, endpoint, quit, port, relay, evidence, hinted>>

\* Variant: the port counts as seen when the announcement is out.
AnnounceDoneMarks(a) ==
  /\ loop[a].step = "announce"
  /\ loop' = [loop EXCEPT ![a].step = "sleep", ![a].wake = hours + Interval, ![a].told = loop[a].port,
                         ![a].version = port.version]
  /\ UNCHANGED <<hours, mapper, gateway, endpoint, quit, port, relay, evidence, hinted>>

AnnounceDone(a) ==
  /\ loop[a].step = "announce"
  /\ loop' = [loop EXCEPT ![a].step = "sleep", ![a].wake = hours + Interval, ![a].told = loop[a].port]
  /\ UNCHANGED <<hours, mapper, gateway, endpoint, quit, port, relay, evidence, hinted>>

Wakes(a) ==
  /\ loop[a].step = "sleep"
  /\ hours >= loop[a].wake \/ loop[a].version # port.version
  /\ loop' = [loop EXCEPT ![a].step = "read"]
  /\ UNCHANGED <<hours, mapper, gateway, endpoint, quit, port, relay, evidence, hinted>>

-----------------------------------------------------------------------------
(* Reachability.                                                           *)

Addresses == {"true", "false"}  \* our address, and what a peer made up

\* YourIpTally::best: most observations, the last one seen among equals.
Best(e) ==
  LET top == {i \in Addresses : e.count[i] > 0 /\ \A j \in Addresses : e.count[i] >= e.count[j]}
  IN IF e.last \in top THEN {e.last} ELSE top

Seen(e) == e.count["true"] + e.count["false"] + e.inbound

\* observe_yourip, note_inbound_peer
Observes(i) ==
  /\ Seen(evidence) < MaxSeen
  /\ evidence' = [evidence EXCEPT !.count[i] = @ + 1, !.last = i]
  /\ UNCHANGED <<hours, mapper, gateway, endpoint, quit, port, relay, loop, hinted>>
InboundPeer ==
  /\ Seen(evidence) < MaxSeen
  /\ evidence' = [evidence EXCEPT !.inbound = @ + 1]
  /\ UNCHANGED <<hours, mapper, gateway, endpoint, quit, port, relay, loop, hinted>>

\* reachability_status_loop: the hint is given once, and only while nothing
\* speaks for the port; the cross check with the mapped address only logs.
StatusTick ==
  /\ hours >= HintAfter /\ evidence.inbound = 0 /\ Best(evidence) = {} /\ ~hinted
  /\ hinted' = TRUE
  /\ UNCHANGED <<hours, mapper, gateway, endpoint, quit, port, relay, loop, evidence>>

-----------------------------------------------------------------------------
\* The gateway forgets a lease that ran out.
GatewayForgets ==
  /\ gateway.held /\ hours >= gateway.until
  /\ gateway' = [gateway EXCEPT !.held = FALSE]
  /\ UNCHANGED <<mapper, endpoint, Elsewhere>>

\* Timers fire on time; only calls to the gateway take their time.
HourPasses ==
  /\ hours < LastHour
  /\ mapper.step = "mapped" => ~quit /\ hours < mapper.expires /\ hours < mapper.refresh
  /\ mapper.step # "granted"
  /\ hours' = hours + 1
  /\ UNCHANGED <<mapper, gateway, endpoint, quit, port, relay, loop, evidence, hinted>>

PortMapInit ==
  /\ hours = 0 /\ quit = FALSE /\ hinted = FALSE
  /\ mapper = [step |-> IF Candidates = <<>> THEN "off" ELSE "search", at |-> 1, taken |-> FALSE, expires |-> 0, refresh |-> 0]
  /\ gateway = [held |-> FALSE, until |-> 0]
  /\ endpoint = [value |-> "none", closed |-> FALSE]
  /\ port = [value |-> "local", version |-> 0]
  /\ relay = [on |-> Candidates # <<>>, saw |-> "nothing", last |-> FALSE]
  /\ loop = [a \in Announcers |-> [step |-> "read", version |-> 0, port |-> "local", told |-> "nothing", wake |-> 0]]
  /\ evidence = [count |-> [i \in Addresses |-> 0], last |-> "none", inbound |-> 0]

MapperSteps ==
  \/ \E ok \in BOOLEAN : UpnpSearches(ok) \/ NatPmpSearches(ok) \/ Added(ok) \/ Renewed(ok) \/ Removes(ok)
  \/ AddressAnswered \/ Published \/ Abandoned \/ StopsRenewing \/ LeaseEnds \/ Renews
AnnouncerSteps(a) == Reads(a) \/ AnnounceDone(a) \/ Wakes(a)

PortMapNext ==
  \/ MapperSteps \/ GatewayMaps \/ GatewayForgets \/ Quits \/ Relays \/ StatusTick \/ InboundPeer \/ HourPasses
  \/ \E a \in Announcers : AnnouncerSteps(a)
  \/ \E i \in Addresses : Observes(i)

PortMapSpec == PortMapInit /\ [][PortMapNext]_portMapVars

\* Calls to the gateway end (their libraries time out), and tasks run.
PortMapFairness ==
  /\ WF_portMapVars(MapperSteps) /\ WF_portMapVars(Relays)
  /\ \A a \in Announcers : WF_portMapVars(AnnouncerSteps(a))

-----------------------------------------------------------------------------
\* A mapped endpoint is on offer just as long as the task that looks after it
\* maps, renews or removes it, and its channel closes when that task ends; the
\* port handed to the announcers is the mapped one only as long as the relay
\* has not seen the endpoint or its task go; an announcer that sleeps without a
\* change pending announced the current port; and the troubleshooting hint is
\* never given before its time.
PortIsHonest ==
  /\ mapper.step \in {"mapped", "renewing", "removing"} <=> endpoint.value = "mapped" /\ ~endpoint.closed
  /\ endpoint.closed <=> mapper.step \in Ended
  /\ port.value = "external" => relay.saw = "mapped" /\ ~relay.last
  /\ \A a \in Announcers :
       loop[a].step = "sleep" /\ loop[a].version = port.version => loop[a].told = port.value
  /\ hinted => hours >= HintAfter

\* Once the mapping task is gone, every announcer ends up with the listener's
\* own port, also one that was in the middle of an announcement when the port
\* changed.
PortFallsBack == <>[](mapper.step \in Ended => \A a \in Announcers : loop[a].told # "external")

\* The comment in run_port_mapping: when the daemon shuts down during discovery
\* "nothing is mapped yet, so nothing to remove".
AbandonedIsUnmapped == mapper.step = "abandoned" => ~gateway.held
=============================================================================
