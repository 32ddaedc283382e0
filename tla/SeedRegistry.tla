---------------------------- MODULE SeedRegistry ----------------------------
(***************************************************************************)
(* What is served to inbound peers (listen.rs): the registry of stores and *)
(* metadata by key, the leases of the sessions and broadcasts that produce *)
(* them, the construction of a store outside the registry's lock, and the  *)
(* admission of inbound connections under one cap per stream.              *)
(*                                                                         *)
(* A lessee is one pool session or one broadcast; it takes a lease and     *)
(* drops it, again and again.  Stores and entry generations are numbered.  *)
(***************************************************************************)
EXTENDS Integers, Sequences, FiniteSets, FiniteSetsExt, Functions

CONSTANTS Leechers,       \* pool sessions: [name |-> infohash]
          Broadcasters,   \* broadcasts: [name |-> <<infohash, content id>>]
          Inbound,        \* inbound connections
          MaxInbound,     \* max_inbound
          MaxPerStream,   \* max_per_stream
          MaxLeases       \* bound: leases taken in a behaviour

Lessees == DOMAIN Leechers \cup DOMAIN Broadcasters
SeedKeys == Range(Leechers) \cup UNION {{b[1], b[2]} : b \in Range(Broadcasters)}

ASSUME SeedAssumption ==
    /\ DOMAIN Leechers \cap DOMAIN Broadcasters = {}
    /\ IsFiniteSet(Lessees) /\ IsFiniteSet(Inbound)
    /\ "none" \notin SeedKeys   \* the tag of a key that is not known
    /\ \A l \in DOMAIN Broadcasters : Broadcasters[l][1] # Broadcasters[l][2]   \* digests of two documents
    /\ MaxInbound \in Nat /\ MaxPerStream \in Nat /\ MaxLeases \in Nat

VARIABLES
    seedEntry,      \* SeedRegistry.stores
    creating,   \* the rendezvous of each key under construction
    made,       \* the store each rendezvous was initialised with
    lessee,     \* where a lessee stands, with what it holds
    conn,       \* inbound connections
    counts,     \* AdmissionState.counts
    bindings,   \* AdmissionState.bindings
    nextGen, nextMade, leases

seedVars == <<seedEntry, creating, made, lessee, conn, counts, bindings, nextGen, nextMade, leases>>

NoKey == "none"
NoSeed == [gen |-> 0]
Idle == [at |-> "idle", store |-> 0, rendezvous |-> 0, keys |-> <<>>]

InfohashOf(l) == IF l \in DOMAIN Leechers THEN Leechers[l] ELSE Broadcasters[l][1]
Present(k) == seedEntry[k] # NoSeed
NewEntry(canonical) ==
    [gen |-> nextGen, store |-> 0, meta |-> FALSE, producers |-> 0, kind |-> "leech",
     canonical |-> canonical, aliases |-> {}]

SeedInit ==
    /\ seedEntry = [k \in SeedKeys |-> NoSeed]
    /\ creating = [k \in SeedKeys |-> 0] /\ made = <<>>
    /\ lessee = [l \in Lessees |-> Idle]
    /\ conn = [c \in Inbound |-> [at |-> "none", key |-> NoKey, canonical |-> NoKey]]
    /\ counts = [k \in SeedKeys |-> 0]
    /\ bindings = [k \in SeedKeys |-> NoKey]
    /\ nextGen = 1 /\ nextMade = 1 /\ leases = 0

\* require_canonical: a second opinion about a key refuses it until it is removed.
Requires(e, canonical) ==
    IF e.canonical = canonical THEN e ELSE [e EXCEPT !.canonical = NoKey]

EntryOr(k, canonical) == IF Present(k) THEN seedEntry[k] ELSE NewEntry(canonical)

-----------------------------------------------------------------------------
(* lease_store and lease_broadcast.                                        *)

\* get_or_create, the lookup.
LookUp(l) ==
    LET k == InfohashOf(l) IN
    /\ lessee[l].at = "idle" /\ leases < MaxLeases /\ leases' = leases + 1
    /\ seedEntry' = IF Present(k) THEN [seedEntry EXCEPT ![k] = Requires(@, k)] ELSE seedEntry
    /\ lessee' = [lessee EXCEPT ![l] =
                    IF Present(k) /\ seedEntry[k].store # 0
                    THEN [Idle EXCEPT !.at = "lease", !.store = seedEntry[k].store]
                    ELSE [Idle EXCEPT !.at = "rendezvous"]]
    /\ UNCHANGED <<creating, made, conn, counts, bindings, nextGen, nextMade>>

\* The rendezvous of the key, shared by everyone who finds it.
Rendezvous(l) ==
    LET k == InfohashOf(l) IN
    /\ lessee[l].at = "rendezvous"
    /\ IF creating[k] = 0
       THEN /\ creating' = [creating EXCEPT ![k] = Len(made) + 1]
            /\ made' = Append(made, 0)
       ELSE UNCHANGED <<creating, made>>
    /\ lessee' = [lessee EXCEPT ![l].at = "make", ![l].rendezvous = creating'[k]]
    /\ UNCHANGED <<seedEntry, conn, counts, bindings, nextGen, nextMade, leases>>

\* get_or_init: the first constructs the store, the others wait for that one.
MakeStore(l) ==
    LET r == lessee[l].rendezvous IN
    /\ lessee[l].at = "make"
    /\ IF made[r] = 0
       THEN made' = [made EXCEPT ![r] = nextMade] /\ nextMade' = nextMade + 1
       ELSE UNCHANGED <<made, nextMade>>
    /\ lessee' = [lessee EXCEPT ![l].at = "publish", ![l].store = made'[r]]
    /\ UNCHANGED <<seedEntry, creating, conn, counts, bindings, nextGen, leases>>

\* Variant: a constructed store replaces the one the entry already has.
PublishedOver(e, store) == store

\* entry.store.get_or_insert_with: the store that is there wins.
PublishedStore(e, store) == IF e.store = 0 THEN store ELSE e.store

PublishStore(l) ==
    LET k == InfohashOf(l)
        e == Requires(EntryOr(k, k), k)
    IN
    /\ lessee[l].at = "publish"
    /\ seedEntry' = [seedEntry EXCEPT ![k] = [e EXCEPT !.store = PublishedStore(e, lessee[l].store)]]
    /\ nextGen' = IF Present(k) THEN nextGen ELSE nextGen + 1
    /\ lessee' = [lessee EXCEPT ![l].at = "finish",
                                ![l].store = PublishedStore(e, lessee[l].store)]
    /\ UNCHANGED <<creating, made, conn, counts, bindings, nextMade, leases>>

\* creating.remove: whatever rendezvous the key has by now.
FinishCreating(l) ==
    /\ lessee[l].at = "finish"
    /\ creating' = [creating EXCEPT ![InfohashOf(l)] = 0]
    /\ lessee' = [lessee EXCEPT ![l].at = "lease"]
    /\ UNCHANGED <<seedEntry, made, conn, counts, bindings, nextGen, nextMade, leases>>

\* The second half of lease_store, under the lock again.
LeaseStore(l) ==
    LET k == Leechers[l]
        e == Requires(EntryOr(k, k), k)
        store == PublishedStore(e, lessee[l].store)
    IN
    /\ l \in DOMAIN Leechers /\ lessee[l].at = "lease"
    /\ seedEntry' = [seedEntry EXCEPT ![k] = [e EXCEPT !.store = store, !.producers = @ + 1]]
    /\ nextGen' = IF Present(k) THEN nextGen ELSE nextGen + 1
    /\ lessee' = [lessee EXCEPT ![l] = [Idle EXCEPT !.at = "leased", !.store = store,
                                                    !.keys = <<<<k, e.gen>>>>]]
    /\ UNCHANGED <<creating, made, conn, counts, bindings, nextMade, leases>>

\* canonical_aliases: the keys that share a canonical, or {} when one disagrees.
AliasesIn(ent, canonical) ==
    LET group == {canonical} \cup UNION {{k} \cup ent[k].aliases :
                    k \in {k \in SeedKeys : ent[k] # NoSeed /\ ent[k].canonical = canonical}}
    IN  IF \E k \in group : ent[k] # NoSeed /\ ent[k].canonical # canonical THEN {} ELSE group

\* retain_live_aliases: live connections of the stream bind its new aliases too.
Conflicting(aliases, canonical) ==
    \E a \in aliases : bindings[a] \notin {NoKey, canonical}

\* The second half of lease_broadcast: both keys, and what live peers count for.
LeaseBroadcast(l) ==
    LET i == Broadcasters[l][1]
        c == Broadcasters[l][2]
        ei == [Requires(EntryOr(i, i), i) EXCEPT !.aliases = @ \cup {i, c}]
        ec == [Requires(IF Present(c) THEN seedEntry[c]
                        ELSE [NewEntry(i) EXCEPT !.gen = IF Present(i) THEN nextGen ELSE nextGen + 1],
                        i) EXCEPT !.aliases = @ \cup {i, c}]
        store == PublishedStore(ei, lessee[l].store)
        both == [seedEntry EXCEPT
            ![i] = [ei EXCEPT !.producers = @ + 1, !.kind = "broadcast", !.store = store],
            ![c] = [ec EXCEPT !.producers = @ + 1, !.kind = "broadcast", !.meta = TRUE]]
        group == AliasesIn(both, i)
        clash == group # {} /\ counts[i] > 0 /\ Conflicting(group, i)
    IN
    /\ l \in DOMAIN Broadcasters /\ lessee[l].at = "lease"
    /\ seedEntry' = IF clash
                THEN [k \in SeedKeys |-> IF both[k] # NoSeed /\ both[k].canonical = i
                                         THEN [both[k] EXCEPT !.canonical = NoKey] ELSE both[k]]
                ELSE both
    /\ bindings' = IF group # {} /\ counts[i] > 0 /\ ~clash
                   THEN [k \in SeedKeys |-> IF k \in group THEN i ELSE bindings[k]]
                   ELSE bindings
    /\ nextGen' = nextGen + (IF Present(i) THEN 0 ELSE 1) + (IF Present(c) THEN 0 ELSE 1)
    /\ lessee' = [lessee EXCEPT ![l] = [Idle EXCEPT !.at = "leased", !.store = store,
                                          !.keys = <<<<i, ei.gen>>, <<c, ec.gen>>>>]]
    /\ UNCHANGED <<creating, made, conn, counts, nextMade, leases>>

\* SeedLease::drop: only the entry the lease was issued against.
DropLease(l) ==
    LET owns(k) == \E i \in DOMAIN lessee[l].keys : lessee[l].keys[i] = <<k, seedEntry[k].gen>> IN
    /\ lessee[l].at = "leased"
    /\ seedEntry' = [k \in SeedKeys |->
                    IF ~Present(k) \/ ~owns(k) THEN seedEntry[k]
                    ELSE IF seedEntry[k].producers <= 1 THEN NoSeed
                    ELSE [seedEntry[k] EXCEPT !.producers = @ - 1]]
    /\ lessee' = [lessee EXCEPT ![l] = Idle]
    /\ UNCHANGED <<creating, made, conn, counts, bindings, nextGen, nextMade, leases>>

\* reap: a leech entry nobody holds a lease on, once its idle time is over.
Reap(k) ==
    /\ Present(k) /\ seedEntry[k].kind # "broadcast" /\ seedEntry[k].producers = 0
    /\ seedEntry' = [seedEntry EXCEPT ![k] = NoSeed]
    /\ UNCHANGED <<creating, made, lessee, conn, counts, bindings, nextGen, nextMade, leases>>

-----------------------------------------------------------------------------
(* Inbound connections.                                                    *)

\* InboundAdmission::accept: global capacity, without waiting.
Accept(c) ==
    /\ conn[c].at = "none"
    /\ Cardinality({d \in Inbound : conn[d].at # "none"}) < Max({MaxInbound, 1})
    /\ conn' = [conn EXCEPT ![c].at = "handshake"]
    /\ UNCHANGED <<seedEntry, creating, made, lessee, counts, bindings, nextGen, nextMade, leases>>

\* Variant: connections are counted by the key they ask for.
CountedByKey(k) == k

\* The key whose count stands for the whole stream.
CountedAs(k) == seedEntry[k].canonical

MayAdmit(k) ==
    /\ Present(k) /\ (seedEntry[k].store # 0 \/ seedEntry[k].meta)
    /\ seedEntry[k].canonical # NoKey
    /\ LET group == AliasesIn(seedEntry, seedEntry[k].canonical)
       IN  group # {} /\ ~Conflicting(group, seedEntry[k].canonical)
    /\ MaxPerStream # 0 => counts[CountedAs(k)] < MaxPerStream

\* admit_inbound, from within the handshake: entry and count under one lock.
AdmitInbound(c, k) ==
    /\ conn[c].at = "handshake" /\ MayAdmit(k)
    /\ counts' = [counts EXCEPT ![CountedAs(k)] = @ + 1]
    /\ bindings' = [a \in SeedKeys |->
                      IF a \in AliasesIn(seedEntry, seedEntry[k].canonical) THEN seedEntry[k].canonical
                      ELSE bindings[a]]
    /\ conn' = [conn EXCEPT ![c] = [at |-> "serving", key |-> k, canonical |-> CountedAs(k)]]
    /\ UNCHANGED <<seedEntry, creating, made, lessee, nextGen, nextMade, leases>>

\* Refused, failed or finished: the permits go, the last one unbinds the aliases.
ConnectionEnds(c) ==
    LET k == conn[c].canonical IN
    /\ conn[c].at # "none"
    /\ conn' = [conn EXCEPT ![c] = [at |-> "none", key |-> NoKey, canonical |-> NoKey]]
    /\ IF conn[c].at = "serving"
       THEN /\ counts' = [counts EXCEPT ![k] = @ - 1]
            /\ bindings' = [a \in SeedKeys |-> IF counts[k] = 1 /\ bindings[a] = k
                                               THEN NoKey ELSE bindings[a]]
       ELSE UNCHANGED <<counts, bindings>>
    /\ UNCHANGED <<seedEntry, creating, made, lessee, nextGen, nextMade, leases>>

SeedNext ==
    \/ \E l \in Lessees :
        \/ LookUp(l) \/ Rendezvous(l) \/ MakeStore(l) \/ PublishStore(l) \/ FinishCreating(l)
        \/ LeaseStore(l) \/ LeaseBroadcast(l) \/ DropLease(l)
    \/ \E k \in SeedKeys : Reap(k)
    \/ \E c \in Inbound :
        Accept(c) \/ ConnectionEnds(c) \/ \E k \in SeedKeys : AdmitInbound(c, k)

SeedSpec == SeedInit /\ [][SeedNext]_seedVars

-----------------------------------------------------------------------------
(* Properties.                                                             *)

LeaseHolders(k) ==
    {l \in Lessees : \E i \in DOMAIN lessee[l].keys : lessee[l].keys[i][1] = k}

\* Everyone who holds a lease on a key holds the entry that is registered now,
\* with the one store inbound peers are served from, whatever constructions,
\* drops and re-registrations raced; and the entry counts them exactly.
LeasesShareOneStore ==
    /\ \A l \in Lessees : \A i \in DOMAIN lessee[l].keys :
        LET k == lessee[l].keys[i][1] IN
        /\ Present(k) /\ seedEntry[k].gen = lessee[l].keys[i][2]
        /\ k = InfohashOf(l) => seedEntry[k].store = lessee[l].store
    /\ \A k \in SeedKeys : Present(k) => seedEntry[k].producers = Cardinality(LeaseHolders(k))

\* Counts are the connections served, whose keys stay bound to their stream.
ConnectionsAreCounted ==
    /\ \A k \in SeedKeys :
        counts[k] = Cardinality({c \in Inbound : conn[c].canonical = k})
    /\ \A c \in Inbound : conn[c].at = "serving" => bindings[conn[c].key] = conn[c].canonical

\* The keys a live broadcast makes names of one stream.
Names(k) == {k} \cup UNION {{Broadcasters[l][1], Broadcasters[l][2]} :
                l \in {l \in DOMAIN Broadcasters : lessee[l].at = "leased"
                        /\ k \in {Broadcasters[l][1], Broadcasters[l][2]}}}

\* No connection is admitted beyond the cap by asking for the stream under its
\* other name, or by outliving a registration.
CapIsPerStream ==
    \A c \in Inbound : conn[c].at = "handshake" /\ conn'[c].at = "serving" /\ MaxPerStream # 0 =>
        Cardinality({d \in Inbound : conn'[d].key \in Names(conn'[c].key)}) <= MaxPerStream

\* What is seeded is published, leased and counted under the keys that were agreed
\* on, whatever registrations and connections race (listen.rs).
SeedingIsSound ==
    [](LeasesShareOneStore /\ ConnectionsAreCounted) /\ [][CapIsPerStream]_seedVars
=============================================================================
