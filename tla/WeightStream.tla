------------------------------ MODULE WeightStream ------------------------------
(***************************************************************************)
(* The coalesced weight stream of one worker (runtime/nvme_loader/          *)
(* spark_nvme: coalesced_weights and RangeReader in coalesced.py,           *)
(* prefetch_weights and OwnedStorageBudget in streaming.py), for            *)
(* device = "cuda".                                                         *)
(*                                                                          *)
(* The consumer is the thread of the native model loader.  The pump thread  *)
(* advances the generator produce(): it allocates a batch, reads it tile by *)
(* tile through two reusable pinned tiles with a pool of reader threads,    *)
(* and enqueues each tile's copy on the upload stream.  A semaphore and a   *)
(* queue of one item tie the two threads.  The GPU runs the upload stream   *)
(* and the consumer's stream, each in order, at its own pace.               *)
(*                                                                          *)
(* Bytes are abstracted to where they were read from: <<batch, tile of the  *)
(* batch, version of the file>>.  Waiting with a time-out and trying again  *)
(* is a step that stays disabled.                                           *)
(***************************************************************************)
EXTENDS Naturals, Sequences, FiniteSets

CONSTANTS
    Tiles,    \* batch -> its number of tiles; also its size in the budget
    FileOf,   \* batch -> the checkpoint file it is a range of
    Part,     \* the concurrent reads a tile is split into
    Limit     \* owned_limit, in tiles

N == Len(Tiles)
Batch == 1..N
Block == 1..N   \* GPU allocations; a batch needs one
File == {FileOf[b] : b \in Batch}
NoFile == "closed"
Nothing == <<0, 0, "old">>
TileNo == 1..Limit   \* tiles of an allocation
Content == {Nothing} \cup (Batch \X TileNo \X {"old", "new"})

ASSUME StreamConstants ==
    /\ Tiles \in Seq(Nat \ {0}) /\ FileOf \in [1..Len(Tiles) -> STRING] /\ N > 0
    /\ NoFile \notin File
    /\ IsFiniteSet(Part) /\ Part # {}
    \* coalesced_weights refuses a plan with a batch larger than the budget
    /\ Limit \in Nat /\ \A b \in Batch : Tiles[b] <= Limit

VARIABLES
    pump,      \* where the pump thread is
    terminal,  \* its last item, "done" or "error"
    cur,       \* the batch the generator is at; 0 before the first
    pos,       \* tiles of it read so far
    nextSlot,  \* the tile buffer in use or used next (next_slot % 2)
    fd,        \* the open file
    offset,    \* source_offset, as <<batch, tile>>
    reads,     \* parts of the tile whose read has not returned
    failed,    \* one of the parts failed
    tile,      \* the two tile buffers: part -> content
    uploads,   \* the upload stream: copies enqueued and not done
    refs,      \* OwnedStorageBudget.refs: batches charged to the budget
    blk,       \* batch -> its allocation
    mem,       \* GPU memory: allocation -> tile -> part -> content
    ready,     \* the queue of at most one item, <<kind, batch>>
    slot,      \* the semaphore
    stop,      \* the stop event
    cons,      \* where the consumer is
    got,       \* the batch it received last
    kept,      \* batches the model still holds views of
    uses,      \* the consumer's stream: batches it will read, in order
    used,      \* what the consumer's stream read of a batch
    changed,   \* files whose stamp changed
    result     \* how the stream ended

pumpVars == <<pump, terminal, cur, pos, nextSlot, fd, offset, reads, failed, refs, blk>>
queueVars == <<ready, slot, stop>>
consVars == <<cons, got, kept, result>>
gpuVars == <<tile, uploads, mem, uses, used>>
vars == <<pumpVars, queueVars, consVars, gpuVars, changed>>

Copy == [slot : {0, 1}, batch : Batch, pos : Nat]

TypeOK ==
    /\ pump \in {"acquire", "next", "fill", "read", "put", "close", "terminal", "exited"}
    /\ terminal \in {"done", "error"}
    /\ cur \in 0..N /\ pos \in Nat /\ nextSlot \in {0, 1} /\ fd \in File \cup {NoFile}
    /\ offset \in (0..N) \X Nat /\ reads \subseteq Part /\ failed \in BOOLEAN
    /\ tile \in [{0, 1} -> [Part -> Content]]
    /\ uploads \in Seq(Copy) /\ mem \in [Block -> [TileNo -> [Part -> Content]]]
    /\ refs \subseteq Batch /\ blk \in [Batch -> Block]
    /\ ready \in {<<>>} \cup {<<x>> : x \in ({"tensor"} \X Batch) \cup {<<"done", 0>>, <<"error", 0>>}}
    /\ slot \in {0, 1} /\ stop \in BOOLEAN
    /\ cons \in {"get", "use", "join", "ended"} /\ got \in 0..N /\ kept \subseteq Batch
    /\ uses \in Seq(Batch)
    /\ used \in [Batch -> {"no", "right", "changed", "wrong"}]
    /\ changed \subseteq File
    /\ result \in {"none", "done", "complete", "error", "cancelled", "abort"}

Init ==
    /\ pump = "acquire" /\ terminal = "done" /\ cur = 0 /\ pos = 0 /\ nextSlot = 0
    /\ fd = NoFile /\ offset = <<0, 0>> /\ reads = {} /\ failed = FALSE
    /\ tile = [s \in {0, 1} |-> [p \in Part |-> Nothing]]
    /\ uploads = <<>> /\ refs = {}
    /\ blk = [b \in Batch |-> b]
    /\ mem = [k \in Block |-> [i \in TileNo |-> [p \in Part |-> Nothing]]]
    /\ ready = <<>> /\ slot = 1 /\ stop = FALSE
    /\ cons = "get" /\ got = 0 /\ kept = {} /\ uses = <<>>
    /\ used = [b \in Batch |-> "no"] /\ changed = {} /\ result = "none"

----------------------------------------------------------------------------
(* Storage lifetime and the budget.                                         *)

\* The bytes of some batches, counted in tiles.
Size(B) == Cardinality({x \in Batch \X TileNo : x[1] \in B /\ x[2] <= Tiles[x[1]]})

\* A reference to the batch's storage other than the generator's own variable.
Referenced(b) ==
    \/ ready = <<<<"tensor", b>>>>
    \/ pump = "put" /\ b = cur
    \/ cons = "use" /\ b = got
    \/ b \in kept

\* The storage lives: the generator keeps output until it is resumed or closed.
Alive(b) == Referenced(b) \/ (b = cur /\ pump \notin {"close", "terminal", "exited"})

\* collect(): the charges left once expired storages are dropped.
Collected == {b \in refs : Referenced(b)}

\* Mutant of Reserved: only the batches not collected yet are weighed, not the new one.
ReservedLate(b) == Size(Collected) <= Limit

\* reserve(): room for the batch, or MemoryError; it never waits.
Reserved(b) == Size(Collected) + Tiles[b] <= Limit

\* Mutant of Reusable: without record_stream the consumer's stream is not waited for.
ReusableUnrecorded(k) == \A b \in 1..cur : blk[b] = k => ~Referenced(b)

\* The caching allocator gives an allocation again when its storage is dead and
\* every stream it was recorded on has run past its use (record_stream).  It is
\* taken to reuse the first it can.
Reusable(k) == \A b \in 1..cur : blk[b] = k => ~Referenced(b) /\ b \notin {uses[i] : i \in DOMAIN uses}

----------------------------------------------------------------------------
(* The pump thread: pump() and the generator produce() it advances.         *)

\* The loop test and the semaphore.
Acquire ==
    /\ pump = "acquire"
    /\ \/ stop /\ pump' = "close" /\ UNCHANGED slot
       \/ ~stop /\ slot > 0 /\ slot' = slot - 1 /\ pump' = "next"
    /\ UNCHANGED <<terminal, cur, pos, nextSlot, fd, offset, reads, failed, refs, blk,
                   ready, stop, consVars, gpuVars, changed>>

\* The second look at stop, or the generator is exhausted.
NextEnds ==
    /\ pump = "next"
    /\ stop \/ cur = N
    /\ pump' = "close"
    /\ UNCHANGED <<terminal, cur, pos, nextSlot, fd, offset, reads, failed, refs, blk,
                   queueVars, consVars, gpuVars, changed>>

\* Mutant of NextFails: reserve() waits for the model to let go of a batch.
NextWaits ==
    /\ pump = "next" /\ ~stop /\ cur < N
    /\ \/ /\ FileOf[cur + 1] \in changed
          /\ terminal' = "error" /\ pump' = "close" /\ UNCHANGED refs
       \/ /\ FileOf[cur + 1] \notin changed /\ ~Reserved(cur + 1)
          /\ refs' = Collected /\ UNCHANGED <<terminal, pump>>
    /\ UNCHANGED <<cur, pos, nextSlot, fd, offset, reads, failed, blk,
                   queueVars, consVars, gpuVars, changed>>

\* The file changed, the budget is exhausted, or the file cannot be opened.
NextFails ==
    /\ pump = "next" /\ ~stop /\ cur < N
    /\ \/ FileOf[cur + 1] \in changed /\ UNCHANGED <<refs, fd>>
       \/ FileOf[cur + 1] \notin changed /\ ~Reserved(cur + 1) /\ refs' = Collected /\ UNCHANGED fd
       \/ /\ FileOf[cur + 1] \notin changed /\ Reserved(cur + 1) /\ fd # FileOf[cur + 1]
          /\ refs' = Collected \cup {cur + 1} /\ fd' = NoFile
    /\ terminal' = "error" /\ pump' = "close"
    /\ UNCHANGED <<cur, pos, nextSlot, offset, reads, failed, blk,
                   queueVars, consVars, gpuVars, changed>>

\* Stamp, reserve, allocate, track, and the file of the batch is open.
NextStarts ==
    /\ pump = "next" /\ ~stop /\ cur < N
    /\ FileOf[cur + 1] \notin changed /\ Reserved(cur + 1)
    /\ \E k \in Block : /\ Reusable(k) /\ \A j \in 1..(k - 1) : ~Reusable(j)
                        /\ blk' = [blk EXCEPT ![cur + 1] = k]
    /\ refs' = Collected \cup {cur + 1}
    /\ cur' = cur + 1 /\ pos' = 0 /\ fd' = FileOf[cur + 1]
    /\ pump' = "fill"
    /\ UNCHANGED <<terminal, nextSlot, offset, reads, failed,
                   queueVars, consVars, gpuVars, changed>>

\* The tile's last copy is done: its event was waited for before it is reused.
TileFree(s) == \A i \in DOMAIN uploads : uploads[i].slot # s

\* fill(), one tile: wait for the buffer's event, submit the reads of its parts.
FillTile ==
    /\ pump = "fill"
    /\ TileFree(nextSlot)
    /\ offset' = <<cur, pos + 1>>
    /\ reads' = Part /\ failed' = FALSE
    /\ pump' = "read"
    /\ UNCHANGED <<terminal, cur, pos, nextSlot, fd, refs, blk, queueVars, consVars, gpuVars, changed>>

\* A reader thread: what source_offset and the open file say now, or an error.
ReadPart(p) ==
    /\ p \in reads
    /\ reads' = reads \ {p}
    /\ \/ /\ fd = FileOf[offset[1]]
          /\ tile' = [tile EXCEPT ![nextSlot][p] =
                         <<offset[1], offset[2], IF fd \in changed THEN "new" ELSE "old">>]
          /\ UNCHANGED failed
       \/ failed' = TRUE /\ UNCHANGED tile
    /\ UNCHANGED <<pump, terminal, cur, pos, nextSlot, fd, offset, refs, blk, queueVars,
                   consVars, uploads, mem, uses, used, changed>>

\* Every future was waited for: raise, or enqueue the copy and its event.
TileRead ==
    /\ pump = "read" /\ reads = {}
    /\ \/ failed /\ terminal' = "error" /\ pump' = "close" /\ UNCHANGED <<uploads, pos>>
       \/ /\ ~failed /\ UNCHANGED terminal
          /\ uploads' = Append(uploads, [slot |-> nextSlot, batch |-> cur, pos |-> pos + 1])
          /\ pos' = pos + 1
          /\ pump' = IF pos + 1 = Tiles[cur] THEN "put" ELSE "fill"
    /\ nextSlot' = 1 - nextSlot
    /\ UNCHANGED <<cur, fd, offset, reads, failed, refs, blk, queueVars, consVars,
                   tile, mem, uses, used, changed>>

\* put() of a batch; with stop set the batch is dropped.
PutBatch ==
    /\ pump = "put"
    /\ \/ stop /\ UNCHANGED ready
       \/ ~stop /\ ready = <<>> /\ ready' = <<<<"tensor", cur>>>>
    /\ pump' = "acquire"
    /\ UNCHANGED <<terminal, cur, pos, nextSlot, fd, offset, reads, failed, refs, blk,
                   slot, stop, consVars, gpuVars, changed>>

\* Mutant of CloseReader: the upload stream is not synchronized.
CloseReaderAtOnce ==
    /\ pump = "close"
    /\ reads = {}
    /\ fd' = NoFile
    /\ terminal' \in {terminal, "error"}
    /\ pump' = "terminal"
    /\ UNCHANGED <<cur, pos, nextSlot, offset, reads, failed, refs, blk,
                   queueVars, consVars, gpuVars, changed>>

\* RangeReader.close(): no read runs, the upload stream is drained, the file closed.
CloseReader ==
    /\ pump = "close"
    /\ reads = {} /\ uploads = <<>>
    /\ fd' = NoFile
    /\ terminal' \in {terminal, "error"}
    /\ pump' = "terminal"
    /\ UNCHANGED <<cur, pos, nextSlot, offset, reads, failed, refs, blk,
                   queueVars, consVars, gpuVars, changed>>

\* put() of the terminal item, after cleanup; then the thread ends.
PutTerminal ==
    /\ pump = "terminal"
    /\ \/ stop /\ UNCHANGED ready
       \/ ~stop /\ ready = <<>> /\ ready' = <<<<terminal, 0>>>>
    /\ pump' = "exited"
    /\ UNCHANGED <<terminal, cur, pos, nextSlot, fd, offset, reads, failed, refs, blk,
                   slot, stop, consVars, gpuVars, changed>>

----------------------------------------------------------------------------
(* The consumer: prefetch_weights' generator, coalesced_weights around it    *)
(* and the native model that takes the views.                                *)

Get ==
    /\ cons = "get" /\ ready # <<>>
    /\ ready' = <<>> /\ slot' = slot + 1
    /\ LET kind == ready[1][1] IN
       \/ /\ kind = "tensor"
          /\ got' = ready[1][2] /\ cons' = "use" /\ UNCHANGED <<result, stop>>
       \/ /\ kind # "tensor"
          /\ result' = kind /\ stop' = TRUE /\ cons' = "join" /\ UNCHANGED got
    /\ UNCHANGED <<pumpVars, kept, gpuVars, changed>>

\* The consumer's stream waits for the batch's event and then reads the views;
\* the model may keep some of them.
Use ==
    /\ cons = "use"
    /\ uses' = Append(uses, got)
    /\ kept' \in {kept, kept \cup {got}}
    /\ cons' = "get"
    /\ UNCHANGED <<pumpVars, queueVars, got, result, tile, uploads, mem, used, changed>>

\* The model raises, or closes the generator, at a view of the batch.
Cancel ==
    /\ cons = "use"
    /\ uses' \in {uses, Append(uses, got)}
    /\ stop' = TRUE /\ cons' = "join" /\ result' = "cancelled"
    /\ UNCHANGED <<pumpVars, ready, slot, got, kept, tile, uploads, mem, used, changed>>

\* The model drops its last view of a batch, a fusion being done.
Release(b) ==
    /\ b \in kept
    /\ kept' = kept \ {b}
    /\ UNCHANGED <<pumpVars, queueVars, cons, got, result, gpuVars, changed>>

\* Mutant of Join: the files are not looked at again.
JoinUnstamped ==
    /\ cons = "join" /\ pump = "exited"
    /\ cons' = "ended"
    /\ result' = IF result # "done" THEN result ELSE "complete"
    /\ UNCHANGED <<pumpVars, queueVars, got, kept, gpuVars, changed>>

\* join() succeeded; after "done" every stamp is compared once more.
Join ==
    /\ cons = "join" /\ pump = "exited"
    /\ cons' = "ended"
    /\ result' = IF result # "done" THEN result ELSE IF changed = {} THEN "complete" ELSE "error"
    /\ UNCHANGED <<pumpVars, queueVars, got, kept, gpuVars, changed>>

\* The thread is alive after 30 s: "abort this worker".
JoinTimeout ==
    /\ cons = "join" /\ pump # "exited"
    /\ cons' = "ended" /\ result' = "abort"
    /\ UNCHANGED <<pumpVars, queueVars, got, kept, gpuVars, changed>>

----------------------------------------------------------------------------
(* The GPU and the file system.                                             *)

\* The oldest copy of the upload stream reads its tile buffer now.
Upload ==
    /\ uploads # <<>>
    /\ LET c == Head(uploads) IN mem' = [mem EXCEPT ![blk[c.batch]][c.pos] = tile[c.slot]]
    /\ uploads' = Tail(uploads)
    /\ UNCHANGED <<pumpVars, queueVars, consVars, tile, uses, used, changed>>

\* wait_event: the batch's last copy is done.
EventDone(b) == \A i \in DOMAIN uploads : uploads[i].batch # b

\* What a read of the batch's views finds in GPU memory.
Found(b) ==
    LET all == {mem[blk[b]][i][p] : i \in 1..Tiles[b], p \in Part} IN
    IF \E i \in 1..Tiles[b], p \in Part : <<mem[blk[b]][i][p][1], mem[blk[b]][i][p][2]>> # <<b, i>>
    THEN "wrong"
    ELSE IF \E c \in all : c[3] = "new" THEN "changed" ELSE "right"

\* The consumer's stream reads the views of its next batch.
ReadViews ==
    /\ uses # <<>>
    /\ EventDone(Head(uses))
    /\ used' = [used EXCEPT ![Head(uses)] = Found(Head(uses))]
    /\ uses' = Tail(uses)
    /\ UNCHANGED <<pumpVars, queueVars, consVars, tile, uploads, mem, changed>>

\* Somebody replaces or rewrites a checkpoint file while it is streamed.
Change(f) ==
    /\ f \notin changed /\ cons # "ended"
    /\ changed' = changed \cup {f}
    /\ UNCHANGED <<pumpVars, queueVars, consVars, gpuVars>>

Pump == Acquire \/ NextEnds \/ NextFails \/ NextStarts \/ FillTile \/ TileRead \/ PutBatch
        \/ CloseReader \/ PutTerminal
Consumer == Get \/ Use \/ Cancel \/ Join \/ JoinTimeout
Gpu == Upload \/ ReadViews

\* The stream is over and the GPU idle.
Over ==
    /\ cons = "ended" /\ pump = "exited" /\ uses = <<>>
    /\ UNCHANGED vars

Next ==
    \/ Pump \/ Consumer \/ Gpu \/ Over
    \/ \E p \in Part : ReadPart(p)
    \/ \E b \in Batch : Release(b)
    \/ \E f \in File : Change(f)

Spec == Init /\ [][Next]_vars

\* Threads that can run do, reads return, the GPU runs its streams; the model
\* need not let go of a view.
Fairness ==
    /\ WF_vars(Pump) /\ WF_vars(Consumer) /\ WF_vars(Upload) /\ WF_vars(ReadViews)
    /\ \A p \in Part : WF_vars(ReadPart(p))

FairSpec == Spec /\ Fairness

----------------------------------------------------------------------------
(* Properties.                                                              *)

\* What the consumer's stream reads of a batch are the bytes of that batch: its
\* upload is complete, no tile buffer was refilled under a copy, and the
\* allocation was not given to a later batch.
UsedIntact == \A b \in Batch : used[b] # "wrong"

\* A stream that reports completion handed over every batch, all read from the
\* files as they were inspected, and its producer has cleaned up.
CompleteIsWhole ==
    result = "complete" =>
        /\ \A b \in Batch : used[b] = "right" \/ (used[b] = "no" /\ \E i \in DOMAIN uses : uses[i] = b)
        /\ terminal = "done" /\ fd = NoFile

\* Storage alive at any time is within the owned budget, aliases the model
\* keeps included, and the pump is at most one batch ahead of the consumer.
OwnedWithinBudget ==
    /\ Size({b \in 1..cur : Alive(b)}) <= Limit
    /\ cur <= got + 1

\* Semaphore, queue and buffers are within their types and storage is within
\* the budget.
BudgetOK == TypeOK /\ OwnedWithinBudget

\* When the stream has ended other than by abort, no thread reads, no copy is in
\* flight and the file is closed: staging memory may be freed.
QuietAtEnd ==
    cons = "ended" /\ result # "abort" =>
        pump = "exited" /\ reads = {} /\ uploads = <<>> /\ fd = NoFile

\* The consumer is never left waiting: the stream ends, in success, failure,
\* cancellation or abort, and the pump thread ends as well.
StreamEnds == <>(cons = "ended" /\ pump = "exited")
=============================================================================
