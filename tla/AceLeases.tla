------------------------------ MODULE AceLeases ------------------------------
(***************************************************************************)
(* Playback leases of the compatibility API (http/leases.rs), the requests *)
(* that mint, use and revoke them (http/compat.rs), the response bodies    *)
(* that live under them (http/streams.rs) and the one reaper task that     *)
(* expires leases of HLS clients, which have no body of their own.         *)
(*                                                                         *)
(* A token is random and minted once; here it is a model value that says   *)
(* which request minted it.  Time is a counter in units of a third of the  *)
(* lease's life.                                                           *)
(***************************************************************************)
EXTENDS Integers, FiniteSets, FiniteSetsExt

CONSTANTS DirectTokens,   \* minted by /ace/getstream without a format
          JsonTokens,     \* minted by /ace/getstream?format=json
          HlsTokens,      \* minted by /ace/manifest.m3u8
          Capacity,       \* ACE_TOKEN_CAPACITY
          Ttl,            \* ACE_TOKEN_TTL
          Horizon         \* bound on time; leases are minted early enough to expire

AceTokens == DirectTokens \cup JsonTokens \cup HlsTokens

ASSUME LeaseAssumption ==
    /\ Capacity \in Nat \ {0} /\ Ttl \in Nat \ {0} /\ Horizon \in Nat
    /\ DirectTokens \cap JsonTokens = {} /\ DirectTokens \cap HlsTokens = {}
    /\ JsonTokens \cap HlsTokens = {}

VARIABLES
    now,        \* Instant::now()
    lease,      \* the leases in the map
    expiry,     \* expires_at of every lease minted
    revoked,    \* leases whose cancel channel was set
    request,    \* the request or response body that works under a token
    reaper,     \* hls_reaper_started, where the task stands and its deadline
    woken       \* a generation of hls_reaper_signal the reaper has not seen

leaseVars == <<now, lease, expiry, revoked, request, reaper, woken>>

Never == Horizon + Ttl + 1

AceInit ==
    /\ now = 0 /\ lease = {} /\ revoked = {}
    /\ expiry = [t \in AceTokens |-> Never]
    /\ request = [t \in AceTokens |-> "idle"]
    /\ reaper = [at |-> "off", deadline |-> Never] /\ woken = FALSE

-----------------------------------------------------------------------------

Pinned == lease \cap HlsTokens
Expired == {t \in lease : expiry[t] <= now}

\* wake_hls_reaper; a receiver that does not exist yet starts at this generation.
Wake == woken' = (woken \/ reaper.at # "off")

\* purge_expired, the first thing every request does with the map.
Purged == lease \ Expired

\* Variant: expired leases and evicted ones leave the map without a word.
TakesSilently(gone) == revoked' = revoked

\* A lease that leaves the map takes its cancel channel along.
Takes(gone) == revoked' = revoked \cup gone

\* The lease that makes room when the map is full: one that expires first.
Evictable ==
    IF Cardinality(Purged) < Capacity THEN {{}}
    ELSE {{o} : o \in {o \in Purged : \A p \in Purged : expiry[o] <= expiry[p]}}

\* insert_with_pin: purge, evict, insert, and tell the reaper when the schedule
\* of HLS leases changed.
Insert(t) ==
    \E evicted \in Evictable :
        /\ lease' = (Purged \ evicted) \cup {t}
        /\ Takes(Expired \cup evicted)
        /\ expiry' = [expiry EXCEPT ![t] = now + Ttl]
        /\ IF t \in HlsTokens \/ evicted \cap HlsTokens # {} THEN Wake ELSE UNCHANGED woken

\* revoke and remove_owned.
EndLease(t) ==
    /\ lease' = lease \ {t}
    /\ Takes({t} \cap lease)
    /\ IF t \in lease THEN Wake ELSE UNCHANGED woken
    /\ UNCHANGED expiry

MayMint(t) == request[t] = "idle" /\ expiry[t] = Never /\ now + Ttl <= Horizon

-----------------------------------------------------------------------------
(* /ace/getstream and /ace/r.                                              *)

\* ace_getstream mints; the JSON answer ends the request.
GetStream(t) ==
    /\ t \in DirectTokens \cup JsonTokens /\ MayMint(t)
    /\ Insert(t)
    /\ request' = [request EXCEPT ![t] = IF t \in DirectTokens THEN "minted" ELSE "given"]
    /\ UNCHANGED <<now, reaper>>

\* The lease is looked up again, now with its deadline and cancel channel.
Lookup(t) ==
    /\ t \in DirectTokens /\ request[t] = "minted"
    /\ lease' = Purged /\ Takes(Expired)
    /\ request' = [request EXCEPT ![t] = IF t \in Purged THEN "opening" ELSE "ended"]
    /\ UNCHANGED <<now, expiry, reaper, woken>>

\* ace_playback: the URL of a JSON answer is opened, perhaps again and again.
AcePlayback(t) ==
    /\ t \in JsonTokens /\ request[t] \in {"given", "ended"}
    /\ lease' = Purged /\ Takes(Expired)
    /\ request' = [request EXCEPT ![t] = IF t \in Purged THEN "opening" ELSE "given"]
    /\ UNCHANGED <<now, expiry, reaper, woken>>

\* get_or_subscribe answers: ace_stream_session_response makes the body.
BodyStarts(t) ==
    /\ request[t] = "opening"
    /\ request' = [request EXCEPT ![t] = "body"]
    /\ UNCHANGED <<now, lease, expiry, revoked, reaper, woken>>

\* get_or_subscribe fails: a direct request takes its lease back.
StartFails(t) ==
    /\ request[t] = "opening"
    /\ IF t \in DirectTokens /\ t \notin Expired
       THEN EndLease(t)
       ELSE UNCHANGED <<lease, expiry, revoked, woken>>
    /\ request' = [request EXCEPT ![t] = IF t \in DirectTokens THEN "failed" ELSE "given"]
    /\ UNCHANGED <<now, reaper>>

\* The client goes away while the source is being opened: the handler is
\* dropped before the guard exists, and the lease is left to expire.
StartDropped(t) ==
    /\ request[t] = "opening"
    /\ request' = [request EXCEPT ![t] = IF t \in DirectTokens THEN "failed" ELSE "given"]
    /\ UNCHANGED <<now, lease, expiry, revoked, reaper, woken>>

\* AceDirectLeaseGuard::drop.
GuardDrops(t) ==
    IF t \in DirectTokens
    THEN EndLease(t) ELSE UNCHANGED <<lease, expiry, revoked, woken>>

\* Variant: a body waits for its cancel channel and not for its deadline.
BodyWaitsForCancel(t) == t \in revoked

\* A body must end at its deadline and when its lease was cancelled; it may end
\* because the source closed or the client left.
BodyMustEnd(t) == expiry[t] <= now \/ t \in revoked

BodyEnds(t) ==
    /\ request[t] = "body"
    /\ request' = [request EXCEPT ![t] = "ended"]
    /\ GuardDrops(t)
    /\ UNCHANGED <<now, reaper>>

-----------------------------------------------------------------------------
(* HLS clients.                                                            *)

\* ace_manifest: the packager runs and its pin goes into the lease.
Manifest(t) ==
    /\ t \in HlsTokens /\ MayMint(t)
    /\ Insert(t)
    /\ request' = [request EXCEPT ![t] = "minted"]
    /\ UNCHANGED <<now, reaper>>

\* The rest of mint_hls: ensure_hls_reaper and one more wake-up.
MintHls(t) ==
    /\ t \in HlsTokens /\ request[t] = "minted"
    /\ request' = [request EXCEPT ![t] = "given"]
    /\ reaper' = IF reaper.at = "off" THEN [reaper EXCEPT !.at = "look"] ELSE reaper
    /\ woken' = TRUE
    /\ UNCHANGED <<now, lease, expiry, revoked>>

\* ace_hls_playback: a poll of the playlist waits under its lease.
HlsPoll(t) ==
    /\ t \in HlsTokens /\ request[t] = "given"
    /\ lease' = Purged /\ Takes(Expired)
    /\ request' = [request EXCEPT ![t] = IF t \in Purged THEN "body" ELSE "given"]
    /\ UNCHANGED <<now, expiry, reaper, woken>>

\* It is answered when the playlist is ready, or refused when its lease or
\* packager went away; the lease is validated again either way.
HlsAnswer(t) ==
    /\ t \in HlsTokens /\ request[t] = "body"
    /\ lease' = Purged /\ Takes(Expired)
    /\ request' = [request EXCEPT ![t] = "given"]
    /\ UNCHANGED <<now, expiry, reaper, woken>>

\* Segments, statistics and commands validate the token and purge.
Validate ==
    /\ Expired # {}
    /\ lease' = Purged /\ Takes(Expired)
    /\ UNCHANGED <<now, expiry, request, reaper, woken>>

\* ace_command?method=stop.
AceCommand(t) ==
    /\ t \in lease \ Expired /\ request[t] \notin {"idle", "minted"}
    /\ EndLease(t)
    /\ UNCHANGED <<now, request, reaper>>

-----------------------------------------------------------------------------
(* The reaper task.                                                        *)

\* next_hls_expiry.
ReaperLooks ==
    /\ reaper.at = "look"
    /\ reaper' = [at |-> "sleep", deadline |-> Min({expiry[t] : t \in Pinned} \cup {Never})]
    /\ UNCHANGED <<now, lease, expiry, revoked, request, woken>>

ReaperSleeps ==
    /\ reaper.at = "sleep"
    /\ \/ /\ woken
          /\ woken' = FALSE
          /\ UNCHANGED <<lease, revoked>>
       \/ /\ reaper.deadline <= now
          /\ lease' = Purged /\ Takes(Expired)
          /\ UNCHANGED woken
    /\ reaper' = [reaper EXCEPT !.at = "look"]
    /\ UNCHANGED <<now, expiry, request>>

AceTick ==
    /\ now < Horizon
    /\ now' = now + 1
    /\ UNCHANGED <<lease, expiry, revoked, request, reaper, woken>>

AceNext ==
    \/ \E t \in AceTokens :
        \/ GetStream(t) \/ Lookup(t) \/ AcePlayback(t)
        \/ BodyStarts(t) \/ StartFails(t) \/ StartDropped(t)
        \/ (t \notin HlsTokens /\ BodyEnds(t))
        \/ Manifest(t) \/ MintHls(t) \/ HlsPoll(t) \/ HlsAnswer(t) \/ AceCommand(t)
    \/ Validate \/ ReaperLooks \/ ReaperSleeps \/ AceTick

\* The reaper is scheduled, time passes, a mint runs to its end, and a body or
\* poll notices its deadline and its cancel channel.  Clients do as they like.
AceFairness ==
    /\ WF_leaseVars(ReaperLooks) /\ WF_leaseVars(ReaperSleeps) /\ WF_leaseVars(AceTick)
    /\ \A t \in AceTokens :
        /\ WF_leaseVars(MintHls(t))
        /\ WF_leaseVars(BodyMustEnd(t) /\ (IF t \in HlsTokens THEN HlsAnswer(t) ELSE BodyEnds(t)))

AceSpec == AceInit /\ [][AceNext]_leaseVars /\ AceFairness

-----------------------------------------------------------------------------
(* Properties.                                                             *)

\* The map holds at most its capacity.
LeasesAreBounded == Cardinality(lease) <= Capacity

\* A body whose lease is no longer in the map has been told, or its own
\* deadline has passed: no viewer outlives its authorization by more than the
\* step it takes to notice.
BodiesAreTold ==
    \A t \in AceTokens : request[t] = "body" /\ t \notin lease => BodyMustEnd(t)

\* The lease of a direct request is gone with its body, also when the body
\* ended because the lease had just expired (remove_owned is no check).
DirectLeaseIsRemoved == \A t \in DirectTokens : request[t] = "ended" => t \notin lease

\* The reaper never sleeps past the first deadline of an HLS client: it knows
\* of it, or a wake-up is pending.
ReaperIsTimely ==
    reaper.at = "sleep" /\ ~woken => \A t \in Pinned : reaper.deadline <= expiry[t]

\* Leases are bounded, revocation and eviction reach the bodies, and a direct
\* request leaves nothing behind.
LeasesAreSound ==
    LeasesAreBounded /\ BodiesAreTold /\ DirectLeaseIsRemoved /\ ReaperIsTimely

\* What must come about again and again: an HLS lease leaves the map, and so gives
\* its pin back, although its client has no body and nobody else asks; and every
\* body ends.
LeasesOver ==
    \A t \in AceTokens : request[t] # "body" /\ (t \in HlsTokens => t \notin lease)
=============================================================================
