------------------------------ MODULE WarmPeers ------------------------------
(***************************************************************************)
(* The warm peer cache: hints about peers that produced output, kept in    *)
(* memory for every session of a process and written to one private file   *)
(* by a writer thread (WarmPeerCache, worker, secure::Directory).          *)
(*                                                                         *)
(* A cache is an owner of the path, or a memory-only cache when the path   *)
(* is taken, the file system fails or no path is configured.  The process, *)
(* or the machine with it, may crash between any two steps of a write and  *)
(* start again: `file' is what the directory shows, `safe' what it shows   *)
(* after a power loss that forgets the last rename.  A temporary file that *)
(* a crash leaves behind is never looked at again; its name can only make  *)
(* a later write fail, and an I/O error is a free choice anyway.           *)
(***************************************************************************)
EXTENDS Integers, FiniteSets, FiniteSetsExt

CONSTANTS
  Caches,      \* caches that a run creates
  Sightings,   \* the producers a run may see: swarm, endpoint, whether a source
  Ttl,         \* TTL
  SwarmCap,    \* 256 swarms
  RowCap,      \* 3000 rows
  HostCap,     \* 16 hosts of a swarm
  SourceCap,   \* 8 sources of a swarm
  WarmEnd,     \* bound: last second of a run
  MaxRecords,  \* bound: hints recorded in a run
  MaxCrashes,  \* bound: crashes of the process
  OldRows      \* what an earlier process may have left: sets of sightings of second 0

ASSUME WarmPeersAssumption ==
  /\ Ttl \in Nat /\ WarmEnd \in Nat /\ MaxRecords \in Nat /\ MaxCrashes \in Nat
  /\ SwarmCap \in Nat \ {0} /\ RowCap \in Nat \ {0}
  /\ HostCap \in Nat \ {0} /\ SourceCap \in 1 .. HostCap

VARIABLES
  second,   \* the clock
  warmCrashes,  \* crashes so far
  file,     \* the cache file: its rows, what is wrong with it, whether it is synced
  safe,     \* the cache file that the synced directory names
  flock,    \* the writer that holds the lock file, or {}
  slot,     \* the registry's entry for the path: its owner and retired writer
  cache,    \* per cache: State and what became of its owner
  writer    \* per cache: the writer thread

warmVars == <<second, warmCrashes, file, safe, flock, slot, cache, writer>>

\* bad: "torn" by a power loss, or an unacceptable "inode"; a file with a stale row
\* stands for any other that does not parse
NoFile == [rows |-> {}, bad |-> "no", synced |-> TRUE]
NoSlot == [on |-> FALSE, owner |-> {}, retired |-> {}]
NoCache == [is |-> "unused", rows |-> {}, revision |-> 0, persisted |-> 0, loaded |-> FALSE,
            stop |-> FALSE]
NoWriter == [pc |-> "none", dir |-> FALSE, rows |-> {}, revision |-> 0, last |-> FALSE,
             synced |-> FALSE, wrote |-> FALSE]

-----------------------------------------------------------------------------
(* Rows.                                                                   *)

\* prune
PrunedRows(R) == {r \in R : r.at <= second /\ second - r.at <= Ttl}

Oldest(R) == CHOOSE r \in R : \A q \in R : r.at <= q.at
SlotWithout(R, full, victims) == IF full /\ victims # {} THEN R \ {Oldest(victims)} ELSE R
Freshest(R, s) == Max({r.at : r \in {q \in R : q.swarm = s}})

\* Variant: only the hosts of a swarm are limited.
SourceLimitNone(mine, new) == mine

SourceLimit(mine, new) ==
  SlotWithout(mine, new.source /\ Cardinality({r \in mine : r.source}) >= SourceCap,
          {r \in mine : r.source})

\* insert: an older sighting changes nothing, a source stays a source, and each
\* limit gives up its oldest entry.
InsertRow(R0, row) ==
  LET R == PrunedRows(R0)
      old == {r \in R : r.swarm = row.swarm /\ r.host = row.host}
      swarms == {r.swarm : r \in R}
      crowded == row.swarm \notin swarms /\ Cardinality(swarms) >= SwarmCap
      oldest == CHOOSE s \in swarms : \A t \in swarms : Freshest(R, s) <= Freshest(R, t)
      R1 == IF crowded THEN {r \in R : r.swarm # oldest} ELSE R
      R2 == SlotWithout(R1, old = {} /\ Cardinality(R1) >= RowCap, R1)
      mine == {r \in R2 : r.swarm = row.swarm} \ old
      others == {r \in R2 : r.swarm # row.swarm}
      new == [row EXCEPT !.source = @ \/ \E r \in old : r.source]
      mine1 == SourceLimit(mine, new)
      mine2 == SlotWithout(mine1, Cardinality(mine1) >= HostCap, mine1)
  IN IF \E r \in old : r.at > row.at THEN R ELSE others \cup mine2 \cup {new}

InsertAll(R, rows) == FoldSet(LAMBDA r, acc : InsertRow(acc, r), R, rows)

\* The limits that parse demands of the rows
WithinLimits(R) ==
  /\ Cardinality(R) <= RowCap
  /\ Cardinality({r.swarm : r \in R}) <= SwarmCap
  /\ \A s \in {r.swarm : r \in R} :
       LET mine == {r \in R : r.swarm = s}
       IN /\ Cardinality(mine) <= HostCap
          /\ Cardinality({r \in mine : r.source}) <= SourceCap
          /\ Cardinality({r.host : r \in mine}) = Cardinality(mine)

\* read and parse: one row that is stale, or beyond a limit, rejects the whole file.
Parses(f) == f.bad = "no" /\ f.rows = PrunedRows(f.rows) /\ WithinLimits(f.rows)

-----------------------------------------------------------------------------
(* Caches and the registry of owners.                                      *)

WarmInit ==
  /\ second = 0 /\ warmCrashes = 0
  /\ \E seen \in OldRows :
       file = [NoFile EXCEPT !.rows = {[swarm |-> q[1], host |-> q[2], source |-> q[3], at |-> 0] : q \in seen}]
  /\ safe = file /\ flock = {} /\ slot = NoSlot
  /\ cache = [c \in Caches |-> NoCache]
  /\ writer = [c \in Caches |-> NoWriter]

\* Variant: a slot goes with its owner, though the retired writer still runs.
SweptEarly == IF slot.owner # {} \/ slot.retired = {} THEN slot ELSE NoSlot

\* sweep: a slot goes when its owner is gone and its retired writer has ended.
Swept ==
  IF slot.owner # {} \/ slot.retired = {} THEN slot
  ELSE IF \A c \in slot.retired : writer[c].pc = "done" THEN NoSlot ELSE slot

\* Nobody looks again at a writer that has ended and is joined.
Joined == [c \in Caches |-> IF writer[c].pc = "done" THEN NoWriter ELSE writer[c]]

\* new_inner: the path's owner is shared, a path still being written is not
\* taken over, nor is one more path than the registry keeps; otherwise a new owner
\* starts its writer, and one whose thread does not start is not registered.
NewCache(c) ==
  /\ cache[c].is = "unused" /\ c = CHOOSE d \in Caches : cache[d].is = "unused"
  /\ ~\E d \in slot.owner : cache[d].is = "owner"   \* that one would be shared
  /\ \/ /\ cache' = [cache EXCEPT ![c].is = "memory", ![c].loaded = TRUE]
        /\ slot' = Swept /\ UNCHANGED writer
     \/ /\ ~Swept.on
        /\ cache' = [cache EXCEPT ![c].is = "orphan", ![c].loaded = TRUE]
        /\ slot' = Swept /\ UNCHANGED writer
     \/ /\ ~Swept.on
        /\ cache' = [cache EXCEPT ![c].is = "owner"]
        /\ writer' = [Joined EXCEPT ![c].pc = "open"]
        /\ slot' = [on |-> TRUE, owner |-> {c}, retired |-> {}]
  /\ UNCHANGED <<second, warmCrashes, file, safe, flock>>

\* record_productive.  A cache without a file keeps its rows the same way, and nobody
\* else sees them: only those of an owner are followed.
Records(c, seen) ==
  /\ cache[c].is = "owner"
  /\ MapThenSumSet(LAMBDA d : cache[d].revision, Caches) < MaxRecords
  /\ LET row == [swarm |-> seen[1], host |-> seen[2], source |-> seen[3], at |-> second]
     IN cache' = [cache EXCEPT ![c].rows = InsertRow(@, row), ![c].revision = @ + 1]
  /\ UNCHANGED <<second, warmCrashes, file, safe, flock, slot, writer>>

\* hints prunes what it reads
ReadsHints(c) ==
  /\ cache[c].is = "owner" /\ cache[c].rows # PrunedRows(cache[c].rows)
  /\ cache' = [cache EXCEPT ![c].rows = PrunedRows(@)]
  /\ UNCHANGED <<second, warmCrashes, file, safe, flock, slot, writer>>

\* The last handle of an owner goes: first the count, then Drop stops the
\* writer, then it leaves the writer's handle in the registry.  An owner without a
\* thread leaves nothing there, also when the entry is by then another owner's.  A
\* cache in memory just goes.
Releases(c) ==
  /\ cache[c].is \in {"owner", "orphan"}
  /\ cache' = IF cache[c].is = "owner" THEN [cache EXCEPT ![c].is = "dropping"]
              ELSE [cache EXCEPT ![c].is = "gone", ![c].rows = {}]
  /\ slot' = IF cache[c].is = "owner" THEN [slot EXCEPT !.owner = {}] ELSE [slot EXCEPT !.retired = {}]
  /\ UNCHANGED <<second, warmCrashes, file, safe, flock, writer>>

Stops(c) ==
  /\ cache[c].is = "dropping" /\ ~cache[c].stop
  /\ cache' = [cache EXCEPT ![c].stop = TRUE]
  /\ UNCHANGED <<second, warmCrashes, file, safe, flock, slot, writer>>

Retires(c) ==
  /\ cache[c].is = "dropping" /\ cache[c].stop
  /\ cache' = [cache EXCEPT ![c].is = "gone"]
  /\ slot' = [slot EXCEPT !.retired = {c}]
  /\ UNCHANGED <<second, warmCrashes, file, safe, flock, writer>>

-----------------------------------------------------------------------------
(* The writer thread.                                                      *)

\* Directory::open takes the lock, or the cache stays in memory.
Opens(c) ==
  /\ writer[c].pc = "open"
  /\ \/ flock = {} /\ flock' = {c} /\ writer' = [writer EXCEPT ![c].pc = "load", ![c].dir = TRUE]
     \/ UNCHANGED flock /\ writer' = [writer EXCEPT ![c].pc = "load"]
  /\ UNCHANGED <<second, warmCrashes, file, safe, slot, cache>>

Loads(c) ==
  /\ writer[c].pc = "load"
  /\ cache' = [cache EXCEPT ![c].loaded = TRUE,
       ![c].rows = IF writer[c].dir /\ Parses(file) THEN InsertAll(@, file.rows) ELSE @]
  /\ writer' = [writer EXCEPT ![c].pc = "wait"]
  /\ UNCHANGED <<second, warmCrashes, file, safe, flock, slot>>

\* The loop waits while nothing changed; a change is written at once on request,
\* or after five seconds, which is a free choice here; a stop always writes.
Snapshots(c) ==
  /\ writer[c].pc = "wait"
  /\ cache[c].stop \/ cache[c].revision # cache[c].persisted
  /\ LET rows == PrunedRows(cache[c].rows)
     IN /\ cache' = [cache EXCEPT ![c].rows = rows]
        /\ writer' = [writer EXCEPT ![c].pc = "write", ![c].rows = rows,
                                    ![c].revision = cache[c].revision, ![c].last = cache[c].stop]
  /\ UNCHANGED <<second, warmCrashes, file, safe, flock, slot>>

\* Variant: the temporary file is renamed without a sync.
TempUnsynced(c) ==
  /\ writer[c].pc = "write" /\ writer[c].dir /\ file.bad # "inode"
  /\ writer' = [writer EXCEPT ![c].pc = "rename", ![c].synced = FALSE]
  /\ UNCHANGED <<second, warmCrashes, file, safe, flock, slot, cache>>

\* Directory::write: an inode that is not the cache's own is left alone; otherwise
\* the snapshot is written to a temporary file,
TempWritten(c) ==
  /\ writer[c].pc = "write" /\ writer[c].dir /\ file.bad # "inode"
  /\ writer' = [writer EXCEPT ![c].pc = "sync", ![c].synced = FALSE]
  /\ UNCHANGED <<second, warmCrashes, file, safe, flock, slot, cache>>

\* which is synced,
TempSynced(c) ==
  /\ writer[c].pc = "sync"
  /\ writer' = [writer EXCEPT ![c].pc = "rename", ![c].synced = TRUE]
  /\ UNCHANGED <<second, warmCrashes, file, safe, flock, slot, cache>>

\* renamed over the cache file,
Renames(c) ==
  /\ writer[c].pc = "rename"
  /\ file' = [rows |-> writer[c].rows, bad |-> "no", synced |-> writer[c].synced]
  /\ writer' = [writer EXCEPT ![c].pc = "settle"]
  /\ UNCHANGED <<second, warmCrashes, safe, flock, slot, cache>>

\* and the directory synced.
DirSynced(c) ==
  /\ writer[c].pc = "settle"
  /\ safe' = file
  /\ writer' = [writer EXCEPT ![c].pc = "acknowledge", ![c].wrote = TRUE]
  /\ UNCHANGED <<second, warmCrashes, file, flock, slot, cache>>

\* Variant: the file is in place, so a failing sync of the directory is ignored.
SaveFailsLate(c) ==
  /\ writer[c].pc \in {"write", "sync", "rename", "settle"}
  /\ writer' = [writer EXCEPT ![c].pc = "acknowledge", ![c].wrote = writer[c].pc = "settle"]
  /\ UNCHANGED <<second, warmCrashes, file, safe, flock, slot, cache>>

\* A step fails: the temporary file is unlinked, or it is already the cache file.
SaveFails(c) ==
  /\ writer[c].pc \in {"write", "sync", "rename", "settle"}
  /\ writer' = [writer EXCEPT ![c].pc = "acknowledge", ![c].wrote = FALSE]
  /\ UNCHANGED <<second, warmCrashes, file, safe, flock, slot, cache>>

\* Variant: everything recorded by now counts as written.
AcknowledgedNow(c) == cache[c].revision

\* What a successful write has made durable: the snapshot's revision.
Acknowledged(c) == writer[c].revision

\* A round leaves nothing behind, and the thread that ends was the last to hold the rows.
Acknowledges(c) ==
  /\ writer[c].pc = "acknowledge"
  /\ cache' = [cache EXCEPT ![c].persisted = IF writer[c].wrote THEN Acknowledged(c) ELSE @,
                            ![c].rows = IF writer[c].last THEN {} ELSE @]
  /\ writer' = [writer EXCEPT ![c] = IF @.last THEN [@ EXCEPT !.pc = "done"]
                                     ELSE [NoWriter EXCEPT !.pc = "wait", !.dir = writer[c].dir]]
  /\ flock' = IF writer[c].last THEN flock \ {c} ELSE flock
  /\ UNCHANGED <<second, warmCrashes, file, safe, slot>>

-----------------------------------------------------------------------------
WarmTicks == second < WarmEnd /\ second' = second + 1 /\ UNCHANGED <<warmCrashes, file, safe, flock, slot, cache, writer>>

\* A power loss shows one of the two files, whole only if it was synced; and somebody
\* may have put something else in its place.
Landed(f) == IF f.synced THEN f ELSE [NoFile EXCEPT !.bad = "torn"]
FoundFiles == {Landed(file), Landed(safe), [NoFile EXCEPT !.bad = "inode"]}

\* The process dies, alone or with the machine; the next one has other caches.
WarmCrash ==
  /\ warmCrashes < MaxCrashes /\ warmCrashes' = warmCrashes + 1
  /\ flock' = {} /\ slot' = NoSlot
  /\ cache' = [c \in Caches |-> IF cache[c].is = "unused" THEN NoCache
                              ELSE [NoCache EXCEPT !.is = "gone", !.revision = cache[c].revision]]
  /\ writer' = [c \in Caches |-> NoWriter]
  /\ \/ UNCHANGED <<file, safe>>
     \/ \E f \in FoundFiles : file' = f /\ safe' = f
  /\ UNCHANGED second

WarmNext ==
  \/ WarmTicks \/ WarmCrash
  \/ \E c \in Caches :
       \/ NewCache(c) \/ ReadsHints(c) \/ Releases(c) \/ Stops(c) \/ Retires(c)
       \/ Opens(c) \/ Loads(c) \/ Snapshots(c) \/ Acknowledges(c)
       \/ TempWritten(c) \/ TempSynced(c) \/ Renames(c) \/ DirSynced(c) \/ SaveFails(c)
       \/ \E seen \in Sightings : Records(c, seen)

WarmSpec == WarmInit /\ [][WarmNext]_warmVars

-----------------------------------------------------------------------------
\* At most one writer may touch the file, also while an owner is being
\* replaced, and the registry never shows a path free that is being written.
OneWriter ==
  /\ \A c, d \in Caches :
       (writer[c].pc \notin {"none", "done"} /\ writer[d].pc \notin {"none", "done"}) => c = d
  /\ \A c \in Caches : writer[c].pc \notin {"none", "done"} => slot.on

\* A writer that sees nothing more to write, and one that ended well, leaves
\* everything that is still fresh where a power loss cannot take it away.
CleanIsWritten ==
  \A c \in Caches, f \in {file, safe} :
    /\ writer[c].pc = "wait" /\ cache[c].persisted # 0 /\ cache[c].revision = cache[c].persisted
         => f.synced /\ PrunedRows(cache[c].rows) \subseteq f.rows
    /\ writer[c].pc = "done" /\ writer[c].wrote => f.synced /\ writer[c].rows = f.rows

\* Whatever is in memory could be written and read back: the limits that
\* insert keeps are the ones that parse demands.
RowsParse == \A c \in Caches : Parses([NoFile EXCEPT !.rows = PrunedRows(cache[c].rows)])

\* A start finds a whole file whenever the last process died, and one whose rows keep
\* to the limits, whatever the file was before.
FileIsWhole == \A f \in {file, safe} : f.bad # "torn" /\ WithinLimits(f.rows)

\* The warm peer cache (WarmPeerCache, worker, secure::Directory): nothing is
\* acknowledged that a crash could undo, a crash never leaves half a file, and nothing
\* is written that could not be read back.
WarmCacheIsSound == CleanIsWritten /\ RowsParse /\ FileIsWhole
=============================================================================
