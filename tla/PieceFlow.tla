------------------------------ MODULE PieceFlow ------------------------------
(***************************************************************************)
(* Pieces of a stream, in two parts that share no state: their way from the*)
(* source through signatures, chunks and reassembly, and the store that     *)
(* keeps them.                                                             *)
(***************************************************************************)
EXTENDS Integers, Sequences, FiniteSets, SequencesExt, FiniteSetsExt

(***************************************************************************)
(* A live stream from one end to the other (ace-wire: signing_chunker.rs,  *)
(* chunker.rs, live_auth.rs, live_codec.rs, reassembly.rs): the source cuts*)
(* its bytes into signed pieces and chunks, peers deliver chunks in any    *)
(* order, more than once, damaged or of the wrong length, and the          *)
(* reassembler gives the pieces out in order with their signature removed. *)
(***************************************************************************)

CONSTANTS PieceLen, ChunkLen, SigLen,   \* geometry of the descriptor
          StreamLen,                    \* bytes the source produces
          Reach,                        \* max_ahead of the reassembler
          Keys,                         \* is the source's key known: subset of BOOLEAN
          MaxFaulty, MaxSkips           \* bounds: damaged deliveries, jumps of the cursor

ASSUME AssemblyAssumption ==
    /\ {PieceLen, ChunkLen, SigLen, Reach} \subseteq Nat \ {0}
    /\ PieceLen % ChunkLen = 0 /\ SigLen < PieceLen
    /\ StreamLen \in Nat /\ MaxFaulty \in Nat /\ MaxSkips \in Nat /\ Keys \subseteq BOOLEAN

VARIABLES
    fed,        \* bytes the source has produced
    sbuf,       \* SigningChunker::buf
    cbuf, cabs, \* TsChunker: bytes not chunked yet, and the offset of the next
    chunks,     \* chunks the source has published
    keyed,      \* verify_pubkey is set
    nextPiece,     \* next_emit
    partial,    \* piece -> buffer, offsets seen, bytes counted, publication metadata
    complete,   \* piece -> buffer and publication metadata
    out,        \* pieces emitted: index, media bytes, and whether wire bytes were publishable
    faulty, skips, \* damaged deliveries and jumps so far
    flushed     \* the source ended its stream

assemblyVars == <<fed, sbuf, cbuf, cabs, chunks, keyed, nextPiece, partial, complete, out, faulty, skips, flushed>>

Zero == <<"zero">>
Byte(n) == <<"media", n>>
Sign(payload) == [k \in 1 .. SigLen |-> <<"sig", payload>>]
ChunksPerPiece == PieceLen \div ChunkLen
Capacity == PieceLen - SigLen

AssemblyInit ==
    /\ fed = 0 /\ sbuf = <<>> /\ cbuf = <<>> /\ cabs = 0 /\ chunks = {}
    /\ keyed \in Keys /\ nextPiece = 0
    /\ partial = <<>> /\ complete = <<>> /\ out = <<>>
    /\ faulty = 0 /\ skips = 0 /\ flushed = FALSE

-----------------------------------------------------------------------------
(* The source.                                                             *)

\* make_chunk for the chunk that starts at absolute offset a.
MakeChunk(a, data) ==
    [piece |-> a \div PieceLen, chunk |-> (a % PieceLen) \div ChunkLen,
     head |-> "source", data |-> data]

\* Every full chunk of the bytes buffered at offset a.
FullChunks(bytes, a) ==
    {MakeChunk(a + k * ChunkLen, SubSeq(bytes, k * ChunkLen + 1, (k + 1) * ChunkLen)) :
        k \in 0 .. (Len(bytes) \div ChunkLen) - 1}
Whole(bytes) == (Len(bytes) \div ChunkLen) * ChunkLen

\* SigningChunker::push of one byte: a full payload is signed and chunked.
Push ==
    /\ fed < StreamLen /\ ~flushed
    /\ fed' = fed + 1
    /\ LET buf == Append(sbuf, Byte(fed + 1)) IN
       IF Len(buf) < Capacity
       THEN sbuf' = buf /\ UNCHANGED <<cbuf, cabs, chunks>>
       ELSE LET bytes == cbuf \o buf \o Sign(buf) IN
            /\ sbuf' = <<>>
            /\ chunks' = chunks \union FullChunks(bytes, cabs)
            /\ cbuf' = SubSeq(bytes, Whole(bytes) + 1, Len(bytes)) /\ cabs' = cabs + Whole(bytes)
    /\ UNCHANGED <<keyed, nextPiece, partial, complete, out, faulty, skips, flushed>>

\* flush: what is left is signed as a short last piece.
Flush ==
    /\ ~flushed /\ flushed' = TRUE
    /\ IF sbuf = <<>> THEN UNCHANGED <<sbuf, cbuf, cabs, chunks>>
       ELSE LET bytes == cbuf \o sbuf \o Sign(sbuf)
                tail == SubSeq(bytes, Whole(bytes) + 1, Len(bytes))
            IN /\ chunks' = chunks \union FullChunks(bytes, cabs)
                                   \union (IF tail = <<>> THEN {} ELSE {MakeChunk(cabs + Whole(bytes), tail)})
               /\ sbuf' = <<>> /\ cbuf' = <<>> /\ cabs' = cabs + Len(bytes)
    /\ UNCHANGED <<fed, keyed, nextPiece, partial, complete, out, faulty, skips>>

-----------------------------------------------------------------------------
(* The reassembler.                                                        *)

Fresh == [buf |-> [k \in 1 .. PieceLen |-> Zero], offsets |-> {}, filled |-> 0]
Held(c) == IF c.piece \in DOMAIN partial THEN partial[c.piece]
           ELSE [data |-> Fresh, head |-> c.head, eligible |-> TRUE]

\* Counts a repeated block again (what issue #90 was).
WrittenAgain(d, begin, block) ==
    [buf |-> [k \in 1 .. PieceLen |-> IF k > begin /\ k <= begin + Len(block) THEN block[k - begin] ELSE d.buf[k]],
     offsets |-> d.offsets \union {begin}, filled |-> d.filled + Len(block)]
\* The block overwrites what was there; only a new offset counts.
Written(d, begin, block) ==
    [buf |-> [k \in 1 .. PieceLen |-> IF k > begin /\ k <= begin + Len(block) THEN block[k - begin] ELSE d.buf[k]],
     offsets |-> d.offsets \union {begin},
     filled |-> IF begin \in d.offsets THEN d.filled ELSE d.filled + Len(block)]

\* split_piece and verify_piece: the tail is the source's signature of the rest.
Verifies(buf) == SubSeq(buf, Capacity + 1, PieceLen) = Sign(SubSeq(buf, 1, Capacity))
                 /\ \A k \in 1 .. Capacity : buf[k][1] = "media"

Drop(f, S) == [i \in DOMAIN f \ S |-> f[i]]
With(f, i, v) == [j \in DOMAIN f \union {i} |-> IF j = i THEN v ELSE f[j]]

\* add_live_chunk, then what on_piece does with an error: forget the piece.
AddLiveChunk(c) ==
    LET i == c.piece
        begin == c.chunk * ChunkLen
        d == Written(Held(c).data, begin, c.data)
        geometry == c.chunk < ChunksPerPiece /\ Len(c.data) = ChunkLen
        eligible == Held(c).eligible /\ geometry /\ Held(c).head = c.head
    IN  IF i < nextPiece \/ i \in DOMAIN complete THEN UNCHANGED <<partial, complete>>
        ELSE IF i >= nextPiece + Reach \/ begin + Len(c.data) > PieceLen
                \/ (d.filled >= PieceLen /\ keyed /\ ~Verifies(d.buf))
        THEN partial' = Drop(partial, {i}) /\ UNCHANGED complete
        ELSE IF d.filled >= PieceLen
        THEN /\ complete' = With(complete, i, [buf |-> d.buf, eligible |-> eligible])
             /\ partial' = Drop(partial, {i})
        ELSE partial' = With(partial, i, [data |-> d, head |-> Held(c).head, eligible |-> eligible]) /\ UNCHANGED complete

Deliver ==
    /\ \E c \in chunks : AddLiveChunk(c)
    /\ UNCHANGED <<fed, sbuf, cbuf, cabs, chunks, keyed, nextPiece, out, faulty, skips, flushed>>

\* A damaged delivery: a byte changed, the last byte lost, a byte appended,
\* another header, or another number.
Damaged(c) ==
    {[c EXCEPT !.data[1] = <<"noise">>], [c EXCEPT !.data = SubSeq(@, 1, Len(@) - 1)],
     [c EXCEPT !.data = @ \o <<<<"noise">>>>], [c EXCEPT !.head = "other"],
     [c EXCEPT !.piece = @ + 1], [c EXCEPT !.chunk = @ + 1]}
DeliverDamaged ==
    /\ faulty < MaxFaulty /\ faulty' = faulty + 1
    /\ \E c \in chunks : \E bad \in Damaged(c) : AddLiveChunk(bad)
    /\ UNCHANGED <<fed, sbuf, cbuf, cabs, chunks, keyed, nextPiece, out, skips, flushed>>

\* take_ready_piece: the next piece, without its trailer.  A piece whose
\* metadata stayed eligible was also offered for publication, whole.
TakeReady ==
    /\ nextPiece \in DOMAIN complete
    /\ LET done == complete[nextPiece] IN
       out' = Append(out, [piece |-> nextPiece, media |-> SubSeq(done.buf, 1, Capacity),
                           wire |-> IF done.eligible THEN done.buf ELSE <<>>])
    /\ complete' = Drop(complete, {nextPiece}) /\ nextPiece' = nextPiece + 1
    /\ UNCHANGED <<fed, sbuf, cbuf, cabs, chunks, keyed, partial, faulty, skips, flushed>>

\* skip_to: the caller gives up on pieces the swarm no longer has.
SkipTo ==
    /\ skips < MaxSkips /\ skips' = skips + 1
    /\ \E p \in nextPiece + 1 .. nextPiece + Reach :
          /\ nextPiece' = p
          /\ partial' = Drop(partial, {i \in DOMAIN partial : i < p})
          /\ complete' = Drop(complete, {i \in DOMAIN complete : i < p})
    /\ UNCHANGED <<fed, sbuf, cbuf, cabs, chunks, keyed, out, faulty, flushed>>

AssemblyNext == Push \/ Flush \/ Deliver \/ DeliverDamaged \/ TakeReady \/ SkipTo
AssemblySpec == AssemblyInit /\ [][AssemblyNext]_assemblyVars

-----------------------------------------------------------------------------
\* What the source meant piece p to carry.
Payload(p) == [k \in 1 .. Capacity |-> Byte(p * Capacity + k)]

\* The stream that comes out is the stream that went in: pieces leave in
\* order and never twice; with the source's key every one of them is, whole,
\* a piece the source signed, whatever was delivered (the signature does not
\* cover the number, so a renumbered piece still verifies); as long as nothing
\* was damaged it is the piece of that number, key or no key; and what is
\* handed on to other peers is byte for byte a piece of the source.
StreamIsFaithful ==
    /\ \A a, b \in DOMAIN out : a < b => out[a].piece < out[b].piece
    /\ \A k \in DOMAIN out :
          /\ keyed =>
                \E q \in 0 .. StreamLen \div Capacity :
                   /\ out[k].media = Payload(q)
                   /\ out[k].wire \in {<<>>, Payload(q) \o Sign(Payload(q))}
          /\ faulty = 0 => /\ out[k].media = Payload(out[k].piece)
                           /\ out[k].wire = Payload(out[k].piece) \o Sign(Payload(out[k].piece))

\* Does not hold.  What Partial::filled is documented to be: "Distinct bytes written so
\* far" (reassembly.rs).
FilledIsWritten ==
    \A i \in DOMAIN partial :
       partial[i].data.filled = Cardinality({k \in 1 .. PieceLen : partial[i].data.buf[k] # Zero})

-----------------------------------------------------------------------------
(***************************************************************************)
(* The rolling store of downloaded or broadcast pieces (store.rs) with its *)
(* two backends.  In memory every operation runs under the store's mutex.  *)
(* On disk one actor thread owns the files (store/disk.rs) and serves a    *)
(* queue of commands; the index is updated after the I/O, and whole-piece  *)
(* publications are admitted one at a time and may outlive their callers.  *)
(*                                                                         *)
(* Sizes are counted in chunks.  Only what is held is modelled, not bytes. *)
(***************************************************************************)

CONSTANTS StorePieces,    \* piece indices
          PieceChunks,    \* chunks_per_piece
          StoreMax,       \* max_bytes, in chunks
          Retention,      \* age bound of a live store in memory, in ticks
          MaxOpenPieces,  \* MAX_OPEN_PIECES
          StoreBudget     \* bound on the operations and ticks of a behaviour

ASSUME StoreAssumption ==
    /\ StorePieces \subseteq Nat /\ IsFiniteSet(StorePieces)
    /\ PieceChunks \in Nat \ {0} /\ Retention \in Nat \ {0}
    /\ StoreMax \in Nat /\ StoreMax >= PieceChunks
    /\ MaxOpenPieces \in Nat \ {0} /\ StoreBudget \in Nat

StoreChunks == 0 .. PieceChunks - 1
Publishers == {"live1", "live2"}             \* pools publishing whole pieces
Writers == Publishers \cup {"vod", "broadcast"}

VARIABLES
    backend,    \* "memory", "aged" (memory with a retention) or "disk"
    held,       \* chunks the index or the piece map holds
    known,      \* pieces whose header is not the zero placeholder
    curBytes,   \* cur_bytes of the PieceStore
    diskBytes,  \* cur_bytes of the actor's State
    seen,       \* first_seen and newest_seen
    client,     \* where each writer or reader stands
    mutex,      \* who holds the store's lock across a wait
    queue,      \* commands on their way to the actor
    acting,     \* the command the actor works on
    onDisk,       \* chunks in the file at each piece's path
    lru,        \* pieces with an open descriptor, the oldest first
    stale,      \* descriptors of a file that is no longer at its path
    budget

storeVars == <<backend, held, known, curBytes, diskBytes, seen, client, mutex,
               queue, acting, onDisk, lru, stale, budget>>
fileVars == <<diskBytes, queue, acting, onDisk, lru, stale>>

Unused == [op |-> "none", piece |-> 0, chunk |-> 0, by |-> "none"]
Empty == [p \in StorePieces |-> {}]

StoreInit ==
    /\ backend \in {"memory", "aged", "disk"}
    /\ held = Empty /\ known = {} /\ curBytes = 0 /\ diskBytes = 0
    /\ seen = [first |-> [p \in {} |-> 0], newest |-> 0, now |-> 0]
    /\ client = [w \in Writers \cup {"reader"} |-> [at |-> "idle", piece |-> 0]]
    /\ mutex = "free" /\ queue = <<>> /\ acting = Unused
    /\ onDisk = Empty /\ lru = <<>> /\ stale = {} /\ budget = StoreBudget

-----------------------------------------------------------------------------
(* Accounting and eviction.                                                *)

Pieces(h) == {p \in StorePieces : h[p] # {}}
Bytes(h) == MapThenSumSet(LAMBDA p : Cardinality(h[p]), StorePieces)
HasPiece(h, p) == h[p] = StoreChunks

\* The lowest pieces go until the rest fits.
OverBudget(h, max) ==
    {p \in Pieces(h) : MapThenSumSet(LAMBDA q : Cardinality(h[q]),
                                     {q \in StorePieces : q >= p}) > max}

\* Then the lowest go while they are a whole retention behind the newest arrival.
TooOld(h, s) ==
    {p \in Pieces(h) : \A q \in Pieces(h) :
        q <= p => s.newest - s.first[q] >= Retention}

Without(h, gone) == [p \in StorePieces |-> IF p \in gone THEN {} ELSE h[p]]

\* evict_lowest_tracked keeps first_seen in lockstep.
DropSeen(s, gone) ==
    [s EXCEPT !.first = [p \in DOMAIN s.first \ gone |-> s.first[p]]]

Seen(p) ==
    IF backend # "aged" THEN seen
    ELSE [seen EXCEPT !.newest = seen.now,
                      !.first = [q \in DOMAIN seen.first \cup {p} |->
                                    IF q \in DOMAIN seen.first THEN seen.first[q] ELSE seen.now]]

\* The common end of put_chunk_with_header_at and put_complete_memory.
SettleMemory(p, added, headerKnown) ==
    LET h == [held EXCEPT ![p] = @ \cup added]
        byBytes == OverBudget(h, StoreMax)
        left == Without(h, byBytes)
        s == DropSeen(Seen(p), byBytes)
        byAge == IF backend = "aged" THEN TooOld(left, s) ELSE {}
    IN  /\ held' = Without(left, byAge)
        /\ curBytes' = curBytes - Bytes(held) + Bytes(Without(left, byAge))
        /\ seen' = DropSeen(s, byAge)
        /\ known' = (IF headerKnown THEN known \cup {p} ELSE known) \ (byBytes \cup byAge)

-----------------------------------------------------------------------------
(* The memory backend.                                                     *)

Spend == budget > 0 /\ budget' = budget - 1

StoreTick ==
    /\ backend = "aged" /\ Spend
    /\ seen' = [seen EXCEPT !.now = @ + 1]
    /\ UNCHANGED <<backend, held, known, curBytes, client, mutex, fileVars>>

\* put_chunk_with_header: the broadcast knows the header, a VOD read does not.
MemoryPut(w, p, c) ==
    /\ backend # "disk" /\ mutex = "free" /\ w \in {"vod", "broadcast"} /\ Spend
    /\ SettleMemory(p, {c}, w = "broadcast")
    /\ UNCHANGED <<backend, client, mutex, fileVars>>

\* begin_complete_admission in memory keeps the lock in its ticket ...
MemoryAdmit(w, p) ==
    /\ backend # "disk" /\ mutex = "free" /\ Spend
    /\ client[w].at = "idle"
    /\ mutex' = w
    /\ client' = [client EXCEPT ![w] = [at |-> "reserved", piece |-> p]]
    /\ UNCHANGED <<backend, held, known, curBytes, seen, fileVars>>

\* ... and submit publishes the piece and gives the lock back.
MemorySubmit(w) ==
    /\ backend # "disk" /\ client[w].at = "reserved"
    /\ IF HasPiece(held, client[w].piece)
       THEN UNCHANGED <<held, known, curBytes, seen>>
       ELSE SettleMemory(client[w].piece, StoreChunks, TRUE)
    /\ mutex' = "free"
    /\ client' = [client EXCEPT ![w] = [at |-> "idle", piece |-> 0]]
    /\ UNCHANGED <<backend, fileVars, budget>>

-----------------------------------------------------------------------------
(* Clients of the disk backend.                                            *)

Sent(op, w, p, c) == [op |-> op, piece |-> p, chunk |-> c, by |-> w]
WithPermit == {"reserved", "submitted"}
\* reserve_complete: PendingWire holds the permit until the command is done.
PermitIsFree ==
    /\ \A w \in Publishers : client[w].at # "reserved"
    /\ \A i \in DOMAIN queue : queue[i].op # "whole"
    /\ acting.op \notin {"whole", "index"}

DiskAdmit(w, p) ==
    /\ backend = "disk" /\ mutex = "free" /\ Spend
    /\ client[w].at = "idle" /\ PermitIsFree
    /\ client' = [client EXCEPT ![w] = [at |-> "reserved", piece |-> p]]
    /\ UNCHANGED <<backend, held, known, curBytes, seen, mutex, fileVars>>

DiskSubmit(w) ==
    /\ backend = "disk" /\ client[w].at = "reserved"
    /\ client' = [client EXCEPT ![w] = [at |-> "submitted", piece |-> 0]]
    /\ queue' = Append(queue, Sent("whole", w, client[w].piece, 0))
    /\ UNCHANGED <<backend, held, known, curBytes, diskBytes, seen, mutex, acting, onDisk,
                   lru, stale, budget>>

\* The caller is dropped: a ticket gives its permit back, a command runs on.
PublisherDropped(w) ==
    /\ client[w].at \in WithPermit
    /\ client' = [client EXCEPT ![w] = [at |-> "idle", piece |-> 0]]
    /\ mutex' = IF mutex = w THEN "free" ELSE mutex
    /\ UNCHANGED <<backend, held, known, curBytes, seen, fileVars, budget>>

\* shared_put_complete_piece after its answer: refresh_complete_accounting.
Refresh(w) ==
    /\ client[w].at = "answered" /\ mutex = "free"
    /\ curBytes' = diskBytes
    /\ client' = [client EXCEPT ![w].at = "idle"]
    /\ UNCHANGED <<backend, held, known, seen, mutex, fileVars, budget>>

\* shared_put_chunk_with_header ("vod") sends with the real budget and lets the
\* lock go; put_chunk_with_header ("broadcast") keeps the lock and evicts itself.
DiskPut(w, p, c) ==
    /\ backend = "disk" /\ mutex = "free" /\ w \in {"vod", "broadcast"} /\ Spend
    /\ client[w].at = "idle"
    /\ client' = [client EXCEPT ![w] = [at |-> "submitted", piece |-> 0]]
    /\ mutex' = IF w = "broadcast" THEN w ELSE mutex
    /\ queue' = Append(queue, Sent("put", w, p, c))
    /\ UNCHANGED <<backend, held, known, curBytes, diskBytes, seen, acting, onDisk, lru, stale>>

\* The broadcast's write was answered: take the actor's total over.
SyncRefresh ==
    /\ client["broadcast"].at = "answered"
    /\ curBytes' = diskBytes
    /\ client' = [client EXCEPT !["broadcast"].at = "evicting"]
    /\ UNCHANGED <<backend, held, known, seen, mutex, fileVars, budget>>

\* ... and evict until this copy of the total fits.
SyncEvict ==
    /\ client["broadcast"].at = "evicting"
    /\ IF curBytes > StoreMax
       THEN /\ queue' = Append(queue, Sent("evict", "broadcast", 0, 0))
            /\ client' = [client EXCEPT !["broadcast"].at = "submitted"]
            /\ UNCHANGED mutex
       ELSE /\ mutex' = "free"
            /\ client' = [client EXCEPT !["broadcast"].at = "idle"]
            /\ UNCHANGED queue
    /\ UNCHANGED <<backend, held, known, curBytes, diskBytes, seen, acting, onDisk, lru, stale,
                   budget>>

\* shared_reciprocal_chunk: one permit, which the payload keeps until it is sent.
ReadChunk(p) ==
    /\ backend = "disk" /\ client["reader"].at = "idle" /\ mutex = "free" /\ Spend
    /\ client' = [client EXCEPT !["reader"].at = "submitted"]
    /\ queue' = Append(queue, Sent("get", "reader", p, 0))
    /\ UNCHANGED <<backend, held, known, curBytes, diskBytes, seen, mutex, acting, onDisk, lru,
                   stale>>

ReadDone ==
    /\ client["reader"].at \in {"answered", "lost"}
    /\ client' = [client EXCEPT !["reader"].at = "idle"]
    /\ UNCHANGED <<backend, held, known, curBytes, seen, mutex, fileVars, budget>>

-----------------------------------------------------------------------------
(* The actor.                                                              *)

ActorTakes ==
    /\ acting = Unused /\ queue # <<>>
    /\ acting' = Head(queue) /\ queue' = Tail(queue)
    /\ UNCHANGED <<backend, held, known, curBytes, diskBytes, seen, client, mutex, onDisk, lru,
                   stale, budget>>

Answers(w, at) ==
    /\ acting' = Unused
    /\ client' = IF client[w].at = "submitted"
                 THEN [client EXCEPT ![w].at = at] ELSE client

\* file: the descriptor becomes the newest, the oldest makes room.
Opened(p) ==
    IF Contains(lru, p) THEN Append(SelectSeq(lru, LAMBDA q : q # p), p)
    ELSE Append(IF Len(lru) = MaxOpenPieces THEN Tail(lru) ELSE lru, p)

Closed(gone) == SelectSeq(lru, LAMBDA q : q \notin gone)

\* put and put_complete up to the end of the I/O; a failed write indexes nothing.
ActorWrites ==
    /\ acting.op \in {"put", "whole"}
    /\ LET p == acting.piece
           done == acting.op = "whole" /\ HasPiece(held, p)
       IN  \/ /\ ~done
              /\ acting' = [acting EXCEPT !.op = IF acting.op = "put" THEN "indexPut" ELSE "index"]
              /\ IF acting.op = "put"
                 THEN /\ lru' = Opened(p) /\ UNCHANGED stale
                      /\ onDisk' = IF p \in stale THEN onDisk
                                 ELSE [onDisk EXCEPT ![p] = @ \cup {acting.chunk}]
                 ELSE /\ onDisk' = [onDisk EXCEPT ![p] = StoreChunks]
                      /\ stale' = stale \cup ({p} \cap Range(lru)) /\ UNCHANGED lru
              /\ UNCHANGED client
           \/ /\ Answers(acting.by, IF acting.by = "vod" THEN "idle" ELSE "answered")
              /\ lru' \in IF acting.op = "put" THEN {lru, Opened(p)} ELSE {lru}
              /\ UNCHANGED <<onDisk, stale>>
    /\ UNCHANGED <<backend, held, known, curBytes, diskBytes, seen, mutex, queue, budget>>

\* Variant: the descriptor of the replaced file stays in the cache.
KeepsDescriptor(p) == FALSE

\* put_complete renamed a new file over the path.
DropsDescriptor(p) == acting.op = "index"

\* The index takes the chunks and the lowest pieces leave it, then their files.
ActorIndexes ==
    /\ acting.op \in {"index", "indexPut"}
    /\ LET p == acting.piece
           max == IF acting.by = "broadcast" THEN Bytes(held) + PieceChunks ELSE StoreMax
           added == IF acting.op = "index" THEN StoreChunks ELSE {acting.chunk}
           h == [held EXCEPT ![p] = @ \cup added]
           gone == OverBudget(h, max)
           closing == gone \cup IF DropsDescriptor(p) THEN {p} ELSE {}
       IN  /\ held' = Without(h, gone) /\ diskBytes' = diskBytes - Bytes(held) + Bytes(held')
           /\ known' = (IF acting.by = "vod" THEN known ELSE known \cup {p}) \ gone
           /\ onDisk' = Without(onDisk, gone)
           /\ lru' = Closed(closing) /\ stale' = stale \ closing
    /\ Answers(acting.by, IF acting.by = "vod" THEN "idle" ELSE "answered")
    /\ UNCHANGED <<backend, curBytes, seen, mutex, queue, budget>>

\* get: an entry of the index that cannot be read back is lost.
ActorReads ==
    /\ acting.op = "get"
    /\ LET p == acting.piece
           readable == p \notin stale /\ held[p] \subseteq onDisk[p]
       IN  /\ lru' = IF held[p] # {} THEN Opened(p) ELSE lru
           /\ Answers("reader", IF held[p] = {} \/ readable THEN "answered" ELSE "lost")
    /\ UNCHANGED <<backend, held, known, curBytes, diskBytes, seen, mutex, queue, onDisk, stale,
                   budget>>

\* evict_lowest, for the broadcast's own loop: the freed bytes leave its copy.
ActorEvicts ==
    /\ acting.op = "evict"
    /\ LET gone == IF Pieces(held) = {} THEN {} ELSE {Min(Pieces(held))}
       IN  /\ held' = Without(held, gone) /\ diskBytes' = diskBytes - Bytes(held) + Bytes(held')
           /\ known' = known \ gone
           /\ onDisk' = Without(onDisk, gone) /\ lru' = Closed(gone) /\ stale' = stale \ gone
           /\ curBytes' = IF gone = {} THEN 0 ELSE curBytes - Cardinality(held[Min(gone)])
    /\ Answers("broadcast", "evicting")
    /\ UNCHANGED <<backend, seen, mutex, queue, budget>>

StoreNext ==
    \/ StoreTick
    \/ \E p \in StorePieces :
        \/ \E w \in Writers, c \in StoreChunks : DiskPut(w, p, c) \/ MemoryPut(w, p, c)
        \/ \E w \in Publishers : MemoryAdmit(w, p) \/ DiskAdmit(w, p)
        \/ ReadChunk(p)
    \/ \E w \in Publishers : MemorySubmit(w) \/ DiskSubmit(w) \/ PublisherDropped(w) \/ Refresh(w)
    \/ SyncRefresh \/ SyncEvict \/ ReadDone
    \/ ActorTakes \/ ActorWrites \/ ActorIndexes \/ ActorReads \/ ActorEvicts

StoreSpec == StoreInit /\ [][StoreNext]_storeVars

-----------------------------------------------------------------------------
(* Properties.                                                             *)

\* The byte total is exact and within the budget, whichever writers and
\* evictions interleave; only the broadcast's write may exceed it, and only
\* until its own eviction, which never takes more than its copy of the total.
BudgetHolds ==
    /\ backend # "disk" => curBytes = Bytes(held) /\ curBytes <= StoreMax
    /\ backend = "disk" => diskBytes = Bytes(held) /\ curBytes >= 0
    /\ backend = "disk" /\ mutex # "broadcast" => diskBytes <= StoreMax

\* Every retained piece has an arrival time and no other piece has one.
AgesAreInLockstep == backend = "aged" => DOMAIN seen.first = Pieces(held)

\* What the index offers can be read from the file a lookup would use: no
\* descriptor outlives the file it was opened on, no command finds a hole.
IndexIsReadable ==
    /\ backend = "disk" => \A p \in StorePieces : held[p] \subseteq onDisk[p]
    /\ acting.op # "index" => stale = {}
    /\ client["reader"].at # "lost"
    /\ Len(lru) <= MaxOpenPieces

\* At most one whole piece of wire bytes waits for the actor, dropped callers'
\* ones included.
OnePublicationWaits ==
    Cardinality({i \in DOMAIN queue : queue[i].op = "whole"})
        + (IF acting.op \in {"whole", "index"} THEN 1 ELSE 0) <= 1

StoreIsSound ==
    BudgetHolds /\ AgesAreInLockstep /\ IndexIsReadable /\ OnePublicationWaits
=============================================================================
