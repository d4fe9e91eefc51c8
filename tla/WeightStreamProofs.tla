--------------------------- MODULE WeightStreamProofs ---------------------------
(***************************************************************************)
(* Proofs about WeightStream, for any batches, files, reads per tile and    *)
(* budget.                                                                  *)
(***************************************************************************)
EXTENDS WeightStream, SequenceTheorems, FiniteSetTheorems, TLAPS

(* The inductive invariant. *)

\* The consumer's stream is still to read b; a copy of b is enqueued.
InUse(b) == \E i \in DOMAIN uses : uses[i] = b
Uploading(b) == \E i \in DOMAIN uploads : uploads[i].batch = b

\* The item in the queue is batch b.
Queued(b) == ready = <<<<"tensor", b>>>>

\* Somebody will still look at the memory of b.
Holds(b) == b \in 1..cur /\ (Referenced(b) \/ InUse(b) \/ (b = cur /\ pump \in {"fill", "read"}))

\* Batches are taken one at a time: the semaphore, the queue and the two threads'
\* places agree on how far the pump is ahead of the consumer.
Turns ==
    /\ got <= cur /\ cur <= got + 1
    /\ cons = "use" => got > 0
    /\ ready # <<>> => slot = 0
    /\ pump = "acquire" /\ slot = 1 => cur = got
    /\ pump = "next" => slot = 0 /\ cur = got /\ ready = <<>>
    /\ pump \in {"fill", "read", "put"} => slot = 0 /\ cur = got + 1 /\ ready = <<>>
    /\ pump \in {"close", "terminal"} /\ ~stop => slot = 0
    /\ \A b \in Batch : Queued(b) => b = cur /\ cur = got + 1 /\ (pump = "acquire" \/ stop)
    /\ ready \in {<<<<"done", 0>>>>, <<<<"error", 0>>>>} => pump = "exited"
    /\ kept \subseteq 1..got
    /\ \A i \in DOMAIN uses : uses[i] <= got

\* Where the pump is in its batch.
Reading ==
    /\ cur > 0 => pos <= Tiles[cur]
    /\ pump \in {"fill", "read"} => pos < Tiles[cur]
    /\ cur > 0 /\ pump \in {"acquire", "next", "put"} => pos = Tiles[cur]
    /\ cur > 0 /\ (cur = got \/ Queued(cur)) => pos = Tiles[cur]
    /\ reads # {} => pump = "read"
    /\ pump = "read" =>
          /\ offset = <<cur, pos + 1>> /\ TileFree(nextSlot)
          /\ ~failed => \A p \in Part \ reads :
                           tile[nextSlot][p][1] = cur /\ tile[nextSlot][p][2] = pos + 1

\* A copy that is not done finds in its tile buffer what it was enqueued for.
Copies ==
    \A j \in DOMAIN uploads :
        /\ uploads[j].batch <= cur
        /\ uploads[j].pos \in 1..Tiles[uploads[j].batch]
        /\ \A p \in Part : /\ tile[uploads[j].slot][p][1] = uploads[j].batch
                           /\ tile[uploads[j].slot][p][2] = uploads[j].pos

\* The memory of a batch has its bytes, or the copy that brings them is enqueued.
Filled(b) == IF b = cur THEN pos ELSE Tiles[b]
Landed(b, i) ==
    \/ \E j \in DOMAIN uploads : uploads[j].batch = b /\ uploads[j].pos = i
    \/ \A p \in Part : mem[blk[b]][i][p][1] = b /\ mem[blk[b]][i][p][2] = i
AllLanded == \A b \in Batch : Holds(b) => \A i \in 1..Filled(b) : Landed(b, i)

\* No two batches whose memory is still read or written share an allocation.
Apart ==
    \A b, c \in Batch : (Holds(b) \/ Uploading(b)) /\ (Holds(c) \/ Uploading(c)) /\ b # c => blk[b] # blk[c]

\* Unless the stream is being stopped, a batch that is still copied is held, so
\* its allocation is not given away; one that the model only keeps is copied.
CopiesHeld ==
    /\ ~stop /\ pump \notin {"close", "terminal", "exited"} => \A b \in Batch : Uploading(b) => Holds(b)
    /\ \A b \in kept : InUse(b) \/ ~Uploading(b)

\* Every batch handed over was read, or will be, unless the model gave up at it.
Handed ==
    /\ cons \in {"get", "use"} => result = "none"
    /\ \A b \in 1..got : \/ used[b] # "no" \/ InUse(b)
                         \/ b = got /\ (cons = "use" \/ result \in {"cancelled", "abort"})

\* How the stream ends.
Ending ==
    /\ pump \in {"terminal", "exited"} => uploads = <<>> /\ fd = NoFile
    /\ pump \in {"close", "terminal"} /\ ~stop /\ terminal = "done" => got = N
    /\ ready = <<<<"done", 0>>>> \/ result \in {"done", "complete"} =>
          pump = "exited" /\ terminal = "done" /\ got = N
    /\ cons = "ended" /\ result # "abort" => pump = "exited"
    /\ result = "complete" => changed = {} /\ cons = "ended"

\* Changed bytes come from a changed file.
Unchanged ==
    changed = {} =>
        /\ \A s \in {0, 1}, p \in Part : tile[s][p][3] # "new"
        /\ \A k \in Block, i \in TileNo, p \in Part : mem[k][i][p][3] # "new"
        /\ \A b \in Batch : used[b] # "changed"

\* Every storage alive is charged to the budget.
Charged == {b \in 1..cur : Alive(b)} \subseteq refs

StreamInv ==
    /\ BudgetOK /\ Charged /\ Turns /\ Reading /\ Copies /\ AllLanded /\ Apart
    /\ CopiesHeld /\ Handed /\ Ending /\ Unchanged /\ UsedIntact
----------------------------------------------------------------------------
(* Constants and items *)

LEMMA NumberFacts == N \in Nat /\ N > 0 /\ Limit \in Nat
  BY StreamConstants DEF StreamConstants, N

LEMMA BatchFacts ==
    /\ \A b \in Batch : Tiles[b] \in Nat /\ Tiles[b] > 0 /\ Tiles[b] <= Limit /\ FileOf[b] \in File
    /\ NoFile \notin File
  BY StreamConstants DEF StreamConstants, N, Batch, File

\* The values of the queue, and what an item is.
Items == {<<>>} \cup {<<x>> : x \in ({"tensor"} \X Batch) \cup {<<"done", 0>>, <<"error", 0>>}}

LEMMA ItemFacts ==
    ASSUME NEW r \in Items
    PROVE  \/ /\ r = <<>> /\ \A b \in Batch : r # <<<<"tensor", b>>>>
              /\ r \notin {<<<<"done", 0>>>>, <<<<"error", 0>>>>}
           \/ /\ r # <<>> /\ r[1][1] = "tensor" /\ r[1][2] \in Batch
              /\ r \notin {<<<<"done", 0>>>>, <<<<"error", 0>>>>}
              /\ \A b \in Batch : r = <<<<"tensor", b>>>> <=> b = r[1][2]
           \/ /\ r # <<>> /\ r[1][1] \in {"done", "error"} /\ r = <<<<r[1][1], 0>>>>
              /\ \A b \in Batch : r # <<<<"tensor", b>>>>
  <1>1. CASE r = <<>>
    BY <1>1
  <1>2. CASE \E b \in Batch : r = <<<<"tensor", b>>>>
    <2>1. PICK b \in Batch : r = <<<<"tensor", b>>>>
      BY <1>2
    <2>2. r # <<>> /\ r[1] = <<"tensor", b>>
      BY <2>1
    <2>3. r[1][1] = "tensor" /\ r[1][2] = b
      BY <2>2
    <2>4. r \notin {<<<<"done", 0>>>>, <<<<"error", 0>>>>}
      BY <2>2
    <2>5. ASSUME NEW c \in Batch, r = <<<<"tensor", c>>>> PROVE c = b
      <3>1. r[1][2] = c
        BY <2>5
      <3> QED BY <2>3, <3>1
    <2> QED BY <2>1, <2>2, <2>3, <2>4, <2>5
  <1>3. CASE \E k \in {"done", "error"} : r = <<<<k, 0>>>>
    <2>1. PICK k \in {"done", "error"} : r = <<<<k, 0>>>>
      BY <1>3
    <2>2. r # <<>> /\ r[1] = <<k, 0>>
      BY <2>1
    <2>3. r[1][1] = k
      BY <2>2
    <2>4. ASSUME NEW b \in Batch PROVE r # <<<<"tensor", b>>>>
      BY <2>3
    <2> QED BY <2>1, <2>2, <2>3, <2>4
  <1> QED BY <1>1, <1>2, <1>3 DEF Items

LEMMA SeqElement ==
    ASSUME NEW S, NEW s \in Seq(S)
    PROVE  \A i \in DOMAIN s : s[i] \in S
  OBVIOUS

\* Dropping the first element, and appending one.
LEMMA TailFacts ==
    ASSUME NEW S, NEW s \in Seq(S), s # <<>>
    PROVE  /\ Head(s) = s[1] /\ 1 \in DOMAIN s /\ Head(s) \in S
           /\ \A i \in DOMAIN Tail(s) : i + 1 \in DOMAIN s /\ Tail(s)[i] = s[i + 1]
           /\ \A i \in DOMAIN s : s[i] = Head(s) \/ (i - 1 \in DOMAIN Tail(s) /\ Tail(s)[i - 1] = s[i])
  <1>1. DOMAIN s = 1..Len(s) /\ Len(s) \in Nat /\ Len(s) > 0 /\ Head(s) = s[1] /\ Head(s) \in S
    OBVIOUS
  <1>2. /\ Tail(s) \in Seq(S) /\ Len(Tail(s)) = Len(s) - 1
        /\ \A i \in 1..Len(Tail(s)) : Tail(s)[i] = s[i + 1]
    BY HeadTailProperties
  <1>3. DOMAIN Tail(s) = 1..(Len(s) - 1)
    BY <1>2
  <1> QED BY <1>1, <1>2, <1>3

LEMMA AppendFacts ==
    ASSUME NEW S, NEW s \in Seq(S), NEW x \in S
    PROVE  /\ \A i \in DOMAIN Append(s, x) : Append(s, x)[i] = x \/ (i \in DOMAIN s /\ Append(s, x)[i] = s[i])
           /\ \A i \in DOMAIN s : i \in DOMAIN Append(s, x) /\ Append(s, x)[i] = s[i]
           /\ \E i \in DOMAIN Append(s, x) : Append(s, x)[i] = x
  <1>1. DOMAIN s = 1..Len(s) /\ Len(s) \in Nat
    OBVIOUS
  <1>2. /\ Append(s, x) \in Seq(S) /\ Len(Append(s, x)) = Len(s) + 1
        /\ \A i \in 1..Len(s) : Append(s, x)[i] = s[i]
        /\ Append(s, x)[Len(s) + 1] = x
    BY AppendProperties
  <1>3. DOMAIN Append(s, x) = 1..(Len(s) + 1)
    BY <1>2
  <1> QED BY <1>1, <1>2, <1>3

----------------------------------------------------------------------------
(* Types *)

PumpType ==
    /\ pump \in {"acquire", "next", "fill", "read", "put", "close", "terminal", "exited"}
    /\ terminal \in {"done", "error"}
    /\ cur \in 0..N /\ pos \in Nat /\ nextSlot \in {0, 1} /\ fd \in File \cup {NoFile}
    /\ offset \in (0..N) \X Nat /\ reads \subseteq Part /\ failed \in BOOLEAN
    /\ refs \subseteq Batch /\ blk \in [Batch -> Block]
QueueType == ready \in Items /\ slot \in {0, 1} /\ stop \in BOOLEAN
ConsType ==
    /\ cons \in {"get", "use", "join", "ended"} /\ got \in 0..N /\ kept \subseteq Batch
    /\ result \in {"none", "done", "complete", "error", "cancelled", "abort"}
GpuType ==
    /\ tile \in [{0, 1} -> [Part -> Content]] /\ uploads \in Seq(Copy)
    /\ mem \in [Block -> [TileNo -> [Part -> Content]]]
    /\ uses \in Seq(Batch) /\ used \in [Batch -> {"no", "right", "changed", "wrong"}]

\* TypeOK, by the thread or device whose state it is.
LEMMA TypeParts ==
    /\ TypeOK <=> PumpType /\ QueueType /\ ConsType /\ GpuType /\ changed \subseteq File
    /\ TypeOK' <=> PumpType' /\ QueueType' /\ ConsType' /\ GpuType' /\ changed' \subseteq File
  BY DEF TypeOK, PumpType, QueueType, ConsType, GpuType, Items

LEMMA SameTypes ==
    /\ PumpType /\ UNCHANGED pumpVars => PumpType'
    /\ QueueType /\ UNCHANGED queueVars => QueueType'
    /\ ConsType /\ UNCHANGED consVars => ConsType'
    /\ GpuType /\ UNCHANGED gpuVars => GpuType'
  <1>1. PumpType /\ UNCHANGED pumpVars => PumpType'
    BY DEF PumpType, pumpVars
  <1>2. QueueType /\ UNCHANGED queueVars => QueueType'
    BY DEF QueueType, queueVars
  <1>3. ConsType /\ UNCHANGED consVars => ConsType'
    BY DEF ConsType, consVars
  <1>4. GpuType /\ UNCHANGED gpuVars => GpuType'
    BY DEF GpuType, gpuVars
  <1> QED BY <1>1, <1>2, <1>3, <1>4

LEMMA PumpTypes ==
    ASSUME PumpType, QueueType, ConsType, Turns,
           Acquire \/ NextEnds \/ NextFails \/ NextStarts \/ FillTile \/ PutBatch \/ CloseReader \/ PutTerminal
    PROVE  PumpType' /\ QueueType'
  <1> USE NumberFacts
  <1>1. CASE Acquire
    BY <1>1 DEF Acquire, PumpType, QueueType
  <1>2. CASE NextEnds
    BY <1>2 DEF NextEnds, PumpType, QueueType, queueVars
  <1>3. CASE NextFails
    <2>1. Collected \subseteq Batch
      BY DEF PumpType, Collected
    <2>2. cur + 1 \in Batch
      BY <1>3 DEF NextFails, PumpType, Batch
    <2> QED BY <1>3, <2>1, <2>2 DEF NextFails, PumpType, QueueType, queueVars
  <1>4. CASE NextStarts
    <2>0. Collected \subseteq Batch
      BY DEF PumpType, Collected
    <2>1. cur + 1 \in Batch
      BY <1>4 DEF NextStarts, PumpType, Batch
    <2>2. QueueType'
      BY <1>4 DEF NextStarts, QueueType, queueVars
    <2>3. blk' \in [Batch -> Block]
      BY <1>4, <2>1 DEF NextStarts, PumpType
    <2>4. cur' \in 0..N /\ fd' \in File \cup {NoFile} /\ refs' \subseteq Batch
      BY <1>4, <2>0, <2>1, BatchFacts DEF NextStarts, PumpType
    <2> QED BY <1>4, <2>2, <2>3, <2>4 DEF NextStarts, PumpType
  <1>5. CASE FillTile
    <2>1. offset' \in (0..N) \X Nat
      BY <1>5 DEF FillTile, PumpType
    <2> QED BY <1>5, <2>1 DEF FillTile, PumpType, QueueType, queueVars
  <1>6. CASE PutBatch
    <2>1. cur \in Batch
      BY <1>6 DEF PutBatch, Turns, PumpType, ConsType, Batch
    <2>2. <<<<"tensor", cur>>>> \in Items
      BY <2>1 DEF Items
    <2> QED BY <1>6, <2>2 DEF PutBatch, PumpType, QueueType
  <1>7. CASE CloseReader
    BY <1>7 DEF CloseReader, PumpType, QueueType, queueVars
  <1>8. CASE PutTerminal
    <2>1. <<<<terminal, 0>>>> \in Items
      BY DEF Items, PumpType
    <2> QED BY <1>8, <2>1 DEF PutTerminal, PumpType, QueueType
  <1> QED BY <1>1, <1>2, <1>3, <1>4, <1>5, <1>6, <1>7, <1>8
LEMMA ReaderTypes ==
    ASSUME PumpType, GpuType, Turns, Reading, ConsType, TileRead \/ (\E p \in Part : ReadPart(p))
    PROVE  PumpType' /\ GpuType'
  <1> USE NumberFacts
  <1>1. CASE TileRead
    <2>1. cur \in Batch
      BY <1>1 DEF TileRead, Turns, PumpType, ConsType, Batch
    <2>2. [slot |-> nextSlot, batch |-> cur, pos |-> pos + 1] \in Copy
      BY <2>1 DEF Copy, PumpType
    <2>3. GpuType'
      <3> DEFINE c == [slot |-> nextSlot, batch |-> cur, pos |-> pos + 1]
      <3>1. uploads' \in {uploads, Append(uploads, c)} /\ UNCHANGED <<tile, mem, uses, used>>
        BY <1>1 DEF TileRead
      <3> HIDE DEF c
      <3>2. uploads' \in Seq(Copy)
        <4>1. uploads \in Seq(Copy) /\ c \in Copy
          BY <2>2 DEF GpuType, c
        <4>2. Append(uploads, c) \in Seq(Copy)
          BY <4>1, AppendProperties
        <4> QED BY <3>1, <4>1, <4>2
      <3> QED BY <3>1, <3>2 DEF GpuType
    <2>4. nextSlot' \in {0, 1} /\ pos' \in Nat
      BY <1>1 DEF TileRead, PumpType
    <2> QED BY <1>1, <2>3, <2>4 DEF TileRead, PumpType
  <1>2. ASSUME NEW p \in Part, ReadPart(p) PROVE PumpType' /\ GpuType'
    <2>1. PumpType'
      BY <1>2 DEF ReadPart, PumpType
    <2>2. pump = "read" /\ cur \in Batch /\ offset = <<cur, pos + 1>> /\ pos < Tiles[cur]
      BY <1>2 DEF ReadPart, Reading, Turns, PumpType, ConsType, Batch
    <2>3. pos + 1 \in TileNo
      BY <2>2, BatchFacts DEF TileNo, PumpType
    <2>4. ASSUME NEW v \in {"old", "new"} PROVE <<offset[1], offset[2], v>> \in Content
      BY <2>2, <2>3 DEF Content
    <2>5. tile' \in [{0, 1} -> [Part -> Content]]
      <3>1. PICK x \in Content : tile' = tile \/ tile' = [tile EXCEPT ![nextSlot][p] = x]
        BY <1>2, <2>4 DEF ReadPart
      <3>2. tile \in [{0, 1} -> [Part -> Content]] /\ nextSlot \in {0, 1}
        BY DEF GpuType, PumpType
      <3> QED BY <3>1, <3>2
    <2>6. UNCHANGED <<uploads, mem, uses, used>>
      BY <1>2 DEF ReadPart
    <2> QED BY <2>1, <2>5, <2>6 DEF GpuType
  <1> QED BY <1>1, <1>2

LEMMA ConsTypes ==
    ASSUME QueueType, ConsType, GpuType, Turns,
           Get \/ Use \/ Cancel \/ (\E b \in Batch : Release(b)) \/ Join \/ JoinTimeout
    PROVE  QueueType' /\ ConsType' /\ GpuType'
  <1> USE NumberFacts
  <1>1. CASE Get
    <2>1. GpuType'
      BY <1>1, SameTypes DEF Get
    <2>2. \/ ready[1][1] = "tensor" /\ ready[1][2] \in Batch
          \/ ready[1][1] \in {"done", "error"}
      BY <1>1, ItemFacts DEF Get, QueueType
    <2>3. slot = 0
      BY <1>1 DEF Get, Turns
    <2>4. QueueType'
      <3>1. ready' = <<>> /\ slot' = 1
        BY <1>1, <2>3 DEF Get
      <3>3. stop' \in BOOLEAN
        BY <1>1 DEF Get, QueueType
      <3>2. <<>> \in Items
        BY DEF Items
      <3> QED BY <3>1, <3>2, <3>3 DEF QueueType
    <2>5. ConsType'
      BY <1>1, <2>2 DEF Get, ConsType, Batch
    <2> QED BY <2>1, <2>4, <2>5
  <1>2. CASE Use \/ Cancel
    <2>1. got \in Batch
      BY <1>2 DEF Use, Cancel, Turns, ConsType, Batch
    <2>2. QueueType'
      BY <1>2 DEF Use, Cancel, QueueType, queueVars
    <2>3. ConsType'
      BY <1>2, <2>1 DEF Use, Cancel, ConsType
    <2>4. GpuType'
      <3>1. uses' \in {uses, Append(uses, got)} /\ UNCHANGED <<tile, uploads, mem, used>>
        BY <1>2 DEF Use, Cancel
      <3>2. uses' \in Seq(Batch)
        <4>1. uses \in Seq(Batch)
          BY DEF GpuType
        <4>2. Append(uses, got) \in Seq(Batch)
          BY <2>1, <4>1, AppendProperties
        <4> QED BY <3>1, <4>1, <4>2
      <3> QED BY <3>1, <3>2 DEF GpuType
    <2> QED BY <2>2, <2>3, <2>4
  <1>3. CASE (\E b \in Batch : Release(b)) \/ Join \/ JoinTimeout
    <2>1. UNCHANGED <<queueVars, gpuVars>>
      BY <1>3 DEF Release, Join, JoinTimeout
    <2>2. ConsType'
      BY <1>3 DEF Release, Join, JoinTimeout, ConsType
    <2> QED BY <2>1, <2>2, SameTypes
  <1> QED BY <1>1, <1>2, <1>3

LEMMA GpuTypes ==
    ASSUME GpuType, PumpType, Copies, Upload \/ ReadViews
    PROVE  GpuType'
  <1> USE NumberFacts
  <1>1. CASE Upload
    <2> DEFINE c == Head(uploads)
    <2>1. c = uploads[1] /\ 1 \in DOMAIN uploads /\ c \in Copy /\ Tail(uploads) \in Seq(Copy)
      BY <1>1 DEF Upload, GpuType
    <2>2. c.pos \in 1..Tiles[c.batch] /\ c.batch \in Batch /\ c.slot \in {0, 1}
      BY <2>1 DEF Copies, Copy
    <2>3. c.pos \in TileNo /\ blk[c.batch] \in Block /\ tile[c.slot] \in [Part -> Content]
      BY <2>2, BatchFacts DEF TileNo, PumpType, GpuType
    <2>4. mem' = [mem EXCEPT ![blk[c.batch]][c.pos] = tile[c.slot]]
      BY <1>1 DEF Upload
    <2> HIDE DEF c
    <2>5. mem' \in [Block -> [TileNo -> [Part -> Content]]]
      BY <2>3, <2>4 DEF GpuType
    <2>6. uploads' \in Seq(Copy)
      BY <1>1, <2>1 DEF Upload
    <2> QED BY <1>1, <2>5, <2>6 DEF Upload, GpuType
  <1>2. CASE ReadViews
    <2>1. Head(uses) \in Batch /\ Tail(uses) \in Seq(Batch)
      BY <1>2 DEF ReadViews, GpuType
    <2>2. Found(Head(uses)) \in {"no", "right", "changed", "wrong"}
      BY DEF Found
    <2> QED BY <1>2, <2>1, <2>2 DEF ReadViews, GpuType
  <1> QED BY <1>1, <1>2
\* Every step keeps the types.
LEMMA TypeStep ==
    ASSUME StreamInv, Next
    PROVE  TypeOK'
  <1>1. /\ PumpType /\ QueueType /\ ConsType /\ GpuType /\ changed \subseteq File
        /\ Turns /\ Reading /\ Copies
    BY TypeParts DEF StreamInv, BudgetOK
  <1>2. CASE Acquire \/ NextEnds \/ NextFails \/ NextStarts \/ FillTile \/ PutBatch \/ CloseReader \/ PutTerminal
    <2>1. PumpType' /\ QueueType'
      BY <1>1, <1>2, PumpTypes
    <2>2. UNCHANGED <<consVars, gpuVars, changed>>
      BY <1>2 DEF Acquire, NextEnds, NextFails, NextStarts, FillTile, PutBatch, CloseReader, PutTerminal
    <2> QED BY <1>1, <2>1, <2>2, SameTypes, TypeParts
  <1>3. CASE TileRead \/ (\E p \in Part : ReadPart(p))
    <2>1. PumpType' /\ GpuType'
      BY <1>1, <1>3, ReaderTypes
    <2>2. UNCHANGED <<queueVars, consVars, changed>>
      BY <1>3 DEF TileRead, ReadPart
    <2> QED BY <1>1, <2>1, <2>2, SameTypes, TypeParts
  <1>4. CASE Get \/ Use \/ Cancel \/ (\E b \in Batch : Release(b)) \/ Join \/ JoinTimeout
    <2>1. QueueType' /\ ConsType' /\ GpuType'
      BY <1>1, <1>4, ConsTypes
    <2>2. UNCHANGED <<pumpVars, changed>>
      BY <1>4 DEF Get, Use, Cancel, Release, Join, JoinTimeout
    <2> QED BY <1>1, <2>1, <2>2, SameTypes, TypeParts
  <1>5. CASE Upload \/ ReadViews
    <2>1. GpuType'
      BY <1>1, <1>5, GpuTypes
    <2>2. UNCHANGED <<pumpVars, queueVars, consVars, changed>>
      BY <1>5 DEF Upload, ReadViews
    <2> QED BY <1>1, <2>1, <2>2, SameTypes, TypeParts
  <1>6. CASE Over
    BY <1>1, <1>6, SameTypes, TypeParts DEF Over, vars
  <1>7. CASE \E f \in File : Change(f)
    <2>1. UNCHANGED <<pumpVars, queueVars, consVars, gpuVars>> /\ changed' \subseteq File
      BY <1>1, <1>7 DEF Change
    <2> QED BY <1>1, <2>1, SameTypes, TypeParts
  <1> QED BY <1>2, <1>3, <1>4, <1>5, <1>6, <1>7 DEF Next, Pump, Consumer, Gpu

----------------------------------------------------------------------------
(* The two threads *)

\* The types of the numbers and flags the threads share.
Small ==
    /\ cur \in Nat /\ cur <= N /\ got \in Nat /\ got <= N /\ pos \in Nat /\ slot \in {0, 1}
    /\ pump \in {"acquire", "next", "fill", "read", "put", "close", "terminal", "exited"}
    /\ terminal \in {"done", "error"} /\ stop \in BOOLEAN

LEMMA SmallType == TypeOK => Small
  BY NumberFacts DEF TypeOK, Small

LEMMA TurnsStep ==
    ASSUME TypeOK, Turns, Next
    PROVE  Turns'
  <1>1. Small
    BY SmallType
  <1>2. ready \in Items /\ uses \in Seq(Batch)
    BY DEF TypeOK, Items
  <1>3. CASE Acquire
    BY <1>1, <1>2, <1>3 DEF Acquire, Turns, Small, Queued, pumpVars, queueVars, consVars, gpuVars
  <1>4. CASE NextEnds
    BY <1>1, <1>2, <1>4 DEF NextEnds, Turns, Small, Queued, pumpVars, queueVars, consVars, gpuVars
  <1>5. CASE NextFails
    BY <1>1, <1>2, <1>5 DEF NextFails, Turns, Small, Queued, pumpVars, queueVars, consVars, gpuVars
  <1>6. CASE NextStarts
    BY <1>1, <1>2, <1>6 DEF NextStarts, Turns, Small, Queued, pumpVars, queueVars, consVars, gpuVars
  <1>7. CASE FillTile
    BY <1>1, <1>2, <1>7 DEF FillTile, Turns, Small, Queued, pumpVars, queueVars, consVars, gpuVars
  <1>8. CASE TileRead
    BY <1>1, <1>2, <1>8 DEF TileRead, Turns, Small, Queued, pumpVars, queueVars, consVars, gpuVars
  <1>9. CASE PutBatch
    <2>1. /\ pump = "put" /\ pump' = "acquire" /\ slot = 0 /\ UNCHANGED <<cur, slot, stop, cons, got, kept, uses>>
          /\ cur = got + 1
      BY <1>9 DEF PutBatch, Turns, consVars, gpuVars
    <2>2. CASE UNCHANGED ready
      BY <1>1, <2>1, <2>2 DEF Turns, Small, Queued
    <2>3. CASE ready' = <<<<"tensor", cur>>>>
      <3>1. ready' # <<>> /\ ready'[1][1] = "tensor" /\ ready'[1][2] = cur
        BY <2>3
      <3>2. ready' \notin {<<<<"done", 0>>>>, <<<<"error", 0>>>>}
        BY <3>1
      <3>3. ASSUME NEW b \in Batch, Queued(b)' PROVE b = cur
        BY <3>1, <3>3 DEF Queued
      <3> QED BY <1>1, <2>1, <3>1, <3>2, <3>3 DEF Turns, Small
    <2> QED BY <1>9, <2>2, <2>3 DEF PutBatch
  <1>10. CASE CloseReader
    BY <1>1, <1>2, <1>10 DEF CloseReader, Turns, Small, Queued, pumpVars, queueVars, consVars, gpuVars
  <1>11. CASE PutTerminal
    BY <1>1, <1>2, <1>11 DEF PutTerminal, Turns, Small, Queued, pumpVars, queueVars, consVars, gpuVars
  <1>12. CASE Get
    <2>1. ready' = <<>> /\ \A b \in Batch : ~Queued(b)'
      BY <1>12 DEF Get, Queued
    <2>2. CASE ready[1][1] = "tensor"
      <3>1. ready[1][2] \in Batch /\ Queued(ready[1][2])
        BY <1>2, <2>2, <1>12, ItemFacts DEF Get, Queued
      <3>2. /\ got' = cur /\ got' = got + 1 /\ cons' = "use" /\ slot' = 1 /\ UNCHANGED <<pump, cur, stop, kept, uses>>
            /\ pump \notin {"next", "fill", "read", "put"} /\ slot = 0
        BY <1>12, <2>2, <3>1 DEF Get, Turns, pumpVars, gpuVars
      <3>3. kept \subseteq 1..(got + 1)
        BY <1>1 DEF Turns, Small
      <3>4. pump = "acquire" \/ stop
        BY <3>1 DEF Turns
      <3>5. \A i \in DOMAIN uses : uses[i] <= got + 1
        <4>1. \A i \in DOMAIN uses : uses[i] \in 1..N
          <5>1. \A i \in DOMAIN uses : uses[i] \in Batch
            BY <1>2, SeqElement
          <5> QED BY <5>1 DEF Batch
        <4> QED BY <1>1, <4>1, NumberFacts DEF Turns, Small
      <3>6. <<>> \notin {<<<<"done", 0>>>>, <<<<"error", 0>>>>}
        OBVIOUS
      <3>7. kept' \subseteq 1..got' /\ \A i \in DOMAIN uses' : uses'[i] <= got'
        BY <3>2, <3>3, <3>5
      <3>8. ~(pump' \in {"close", "terminal"} /\ ~stop')
        BY <3>2, <3>4
      <3>10. got' <= cur' /\ cur' <= got' + 1 /\ (cons' = "use" => got' > 0)
        <4>1. got' = got + 1 /\ cur' = got + 1 /\ got \in Nat
          BY <1>1, <3>2 DEF Small
        <4> QED BY <4>1
      <3>11. pump' \notin {"next", "fill", "read", "put"} /\ (pump' = "acquire" /\ slot' = 1 => cur' = got')
        BY <3>2
      <3>12. ready' \notin {<<<<"done", 0>>>>, <<<<"error", 0>>>>} /\ (ready' # <<>> => slot' = 0)
        BY <2>1, <3>6
      <3> QED BY <2>1, <3>7, <3>8, <3>10, <3>11, <3>12 DEF Turns
    <2>3. CASE ready[1][1] # "tensor"
      <3>1. ready \in {<<<<"done", 0>>>>, <<<<"error", 0>>>>}
        BY <1>2, <2>3, <1>12, ItemFacts DEF Get
      <3>2. pump = "exited" /\ UNCHANGED <<pump, cur, got, kept, uses>> /\ cons' = "join"
        BY <1>12, <2>3, <3>1 DEF Get, Turns, pumpVars, gpuVars
      <3> QED BY <1>1, <2>1, <3>2 DEF Turns, Small
    <2> QED BY <2>2, <2>3
  <1>13. CASE Use
    BY <1>1, <1>2, <1>13 DEF Use, Turns, Small, Queued, pumpVars, queueVars, consVars, gpuVars
  <1>14. CASE Cancel
    BY <1>1, <1>2, <1>14, SMTT(30) DEF Cancel, Turns, Small, Queued, pumpVars, queueVars, consVars, gpuVars
  <1>15. CASE Join
    BY <1>1, <1>2, <1>15 DEF Join, Turns, Small, Queued, pumpVars, queueVars, consVars, gpuVars
  <1>16. CASE JoinTimeout
    BY <1>1, <1>2, <1>16 DEF JoinTimeout, Turns, Small, Queued, pumpVars, queueVars, consVars, gpuVars
  <1>17. CASE Upload
    BY <1>1, <1>2, <1>17 DEF Upload, Turns, Small, Queued, pumpVars, queueVars, consVars, gpuVars
  <1>18. CASE ReadViews
    <2>1. \A i \in DOMAIN uses' : i + 1 \in DOMAIN uses /\ uses'[i] = uses[i + 1]
      BY <1>2, <1>18, TailFacts DEF ReadViews
    <2>2. \A i \in DOMAIN uses' : uses'[i] <= got
      BY <2>1 DEF Turns
    <2> QED BY <1>18, <2>2 DEF ReadViews, Turns, Queued, pumpVars, queueVars, consVars
  <1>19. CASE Over
    BY <1>1, <1>2, <1>19 DEF Over, Turns, Small, Queued, pumpVars, queueVars, consVars, gpuVars, vars
  <1>20. ASSUME NEW p \in Part, ReadPart(p) PROVE Turns'
    BY <1>1, <1>2, <1>20 DEF ReadPart, Turns, Small, Queued, pumpVars, queueVars, consVars, gpuVars
  <1>21. ASSUME NEW b \in Batch, Release(b) PROVE Turns'
    BY <1>1, <1>2, <1>21 DEF Release, Turns, Small, Queued, pumpVars, queueVars, consVars, gpuVars
  <1>22. ASSUME NEW f \in File, Change(f) PROVE Turns'
    BY <1>1, <1>2, <1>22 DEF Change, Turns, Small, Queued, pumpVars, queueVars, consVars, gpuVars
  <1> QED BY <1>3, <1>4, <1>5, <1>6, <1>7, <1>8, <1>9, <1>10, <1>11, <1>12, <1>13, <1>14, <1>15, <1>16, <1>17, <1>18, <1>19, <1>20, <1>21, <1>22 DEF Next, Pump, Consumer, Gpu

\* What get() of the consumer finds: the pump's batch, or the terminal item.
GetsBatch == /\ Queued(cur) /\ cur = got + 1 /\ got' = got + 1 /\ cons' = "use"
             /\ UNCHANGED <<result, stop>> /\ (pump = "acquire" \/ stop)
GetsEnd == /\ pump = "exited" /\ cons' = "join" /\ result' \in {"done", "error"}
           /\ result' = "done" => ready = <<<<"done", 0>>>>
           /\ stop' = TRUE /\ UNCHANGED got

LEMMA GetFacts ==
    ASSUME TypeOK, Turns, Get
    PROVE  (GetsBatch \/ GetsEnd) /\ ready' = <<>> /\ UNCHANGED <<pumpVars, kept, gpuVars, changed>>
  <1>1. ready' = <<>> /\ UNCHANGED <<pumpVars, kept, gpuVars, changed>>
    BY DEF Get
  <1>2. ready \in Items /\ ready # <<>>
    BY DEF Get, TypeOK, Items
  <1>3. CASE ready[1][1] = "tensor"
    <2>1. ready[1][2] \in Batch /\ Queued(ready[1][2])
      BY <1>2, <1>3, ItemFacts DEF Queued
    <2>2. ready[1][2] = cur /\ cur = got + 1 /\ (pump = "acquire" \/ stop)
      BY <2>1 DEF Turns
    <2>3. got' = got + 1 /\ cons' = "use" /\ UNCHANGED <<result, stop>>
      BY <1>3, <2>2 DEF Get
    <2> QED BY <1>1, <2>1, <2>2, <2>3 DEF GetsBatch
  <1>4. CASE ready[1][1] # "tensor"
    <2>1. ready = <<<<ready[1][1], 0>>>> /\ ready[1][1] \in {"done", "error"}
      BY <1>2, <1>4, ItemFacts
    <2>2. pump = "exited"
      BY <2>1 DEF Turns
    <2>3. result' = ready[1][1] /\ stop' = TRUE /\ cons' = "join" /\ got' = got
      BY <1>4 DEF Get
    <2> QED BY <1>1, <2>1, <2>2, <2>3 DEF GetsEnd
  <1> QED BY <1>3, <1>4

LEMMA HandedStep ==
    ASSUME TypeOK, Turns, Handed, Next
    PROVE  Handed'
  <1>1. Small /\ ready \in Items /\ uses \in Seq(Batch)
    BY SmallType DEF TypeOK, Items
  <1>2. CASE Acquire
    BY <1>1, <1>2 DEF Acquire, Handed, Small, InUse, pumpVars, queueVars, consVars, gpuVars
  <1>3. CASE NextEnds
    BY <1>1, <1>3 DEF NextEnds, Handed, Small, InUse, pumpVars, queueVars, consVars, gpuVars
  <1>4. CASE NextFails
    BY <1>1, <1>4 DEF NextFails, Handed, Small, InUse, pumpVars, queueVars, consVars, gpuVars
  <1>5. CASE NextStarts
    BY <1>1, <1>5 DEF NextStarts, Handed, Small, InUse, pumpVars, queueVars, consVars, gpuVars
  <1>6. CASE FillTile
    BY <1>1, <1>6 DEF FillTile, Handed, Small, InUse, pumpVars, queueVars, consVars, gpuVars
  <1>7. CASE TileRead
    BY <1>1, <1>7 DEF TileRead, Handed, Small, InUse, pumpVars, queueVars, consVars, gpuVars
  <1>8. CASE PutBatch
    BY <1>1, <1>8 DEF PutBatch, Handed, Small, InUse, pumpVars, queueVars, consVars, gpuVars
  <1>9. CASE CloseReader
    BY <1>1, <1>9 DEF CloseReader, Handed, Small, InUse, pumpVars, queueVars, consVars, gpuVars
  <1>10. CASE PutTerminal
    BY <1>1, <1>10 DEF PutTerminal, Handed, Small, InUse, pumpVars, queueVars, consVars, gpuVars
  <1>11. CASE Get
    <2>1. UNCHANGED <<used, uses>> /\ cons = "get"
      BY <1>11 DEF Get, gpuVars
    <2>2. CASE GetsBatch
      BY <1>1, <2>1, <2>2 DEF GetsBatch, Handed, Small, InUse
    <2>3. CASE GetsEnd
      BY <1>1, <2>1, <2>3 DEF GetsEnd, Handed, Small, InUse
    <2> QED BY <1>11, <2>2, <2>3, GetFacts
  <1>12. CASE Use
    BY <1>1, <1>12 DEF Use, Handed, Small, InUse, pumpVars, queueVars, consVars, gpuVars
  <1>13. CASE Cancel
    BY <1>1, <1>13 DEF Cancel, Handed, Small, InUse, pumpVars, queueVars, consVars, gpuVars
  <1>14. CASE Join
    BY <1>1, <1>14 DEF Join, Handed, Small, InUse, pumpVars, queueVars, consVars, gpuVars
  <1>15. CASE JoinTimeout
    BY <1>1, <1>15 DEF JoinTimeout, Handed, Small, InUse, pumpVars, queueVars, consVars, gpuVars
  <1>16. CASE Upload
    BY <1>1, <1>16 DEF Upload, Handed, Small, InUse, pumpVars, queueVars, consVars, gpuVars
  <1>17. CASE ReadViews
    <2>1. UNCHANGED <<got, cons, result>> /\ uses' = Tail(uses) /\ uses # <<>>
          /\ used' = [used EXCEPT ![Head(uses)] = Found(Head(uses))]
      BY <1>17 DEF ReadViews, consVars
    <2>2. Found(Head(uses)) # "no" /\ used \in [Batch -> {"no", "right", "changed", "wrong"}]
      BY DEF Found, TypeOK
    <2>3. ASSUME NEW b \in 1..got
          PROVE  \/ used'[b] # "no" \/ InUse(b)'
                 \/ b = got /\ (cons = "use" \/ result \in {"cancelled", "abort"})
      <3>1. b \in Batch
        BY <1>1, NumberFacts DEF Small, Batch
      <3>2. CASE b = Head(uses)
        BY <2>1, <2>2, <3>1, <3>2
      <3>3. CASE b # Head(uses) /\ InUse(b)
        BY <1>1, <2>1, <3>3, TailFacts DEF InUse
      <3>4. CASE b # Head(uses) /\ ~InUse(b)
        BY <2>1, <2>2, <3>1, <3>4 DEF Handed
      <3> QED BY <3>2, <3>3, <3>4
    <2> QED BY <2>1, <2>3 DEF Handed
  <1>18. CASE Over
    BY <1>1, <1>18 DEF Over, Handed, Small, InUse, pumpVars, queueVars, consVars, gpuVars, vars
  <1>19. ASSUME NEW p \in Part, ReadPart(p) PROVE Handed'
    BY <1>1, <1>19 DEF ReadPart, Handed, Small, InUse, pumpVars, queueVars, consVars, gpuVars
  <1>20. ASSUME NEW b \in Batch, Release(b) PROVE Handed'
    BY <1>1, <1>20 DEF Release, Handed, Small, InUse, pumpVars, queueVars, consVars, gpuVars
  <1>21. ASSUME NEW f \in File, Change(f) PROVE Handed'
    BY <1>1, <1>21 DEF Change, Handed, Small, InUse, pumpVars, queueVars, consVars, gpuVars
  <1> QED BY <1>2, <1>3, <1>4, <1>5, <1>6, <1>7, <1>8, <1>9, <1>10, <1>11, <1>12, <1>13, <1>14, <1>15, <1>16, <1>17, <1>18, <1>19, <1>20, <1>21 DEF Next, Pump, Consumer, Gpu

LEMMA EndingStep ==
    ASSUME TypeOK, Turns, Handed, Ending, Next
    PROVE  Ending'
  <1>1. Small /\ ready \in Items
    BY SmallType DEF TypeOK, Items
  <1>2. CASE Acquire
    BY <1>1, <1>2 DEF Acquire, Ending, Turns, Handed, Small, pumpVars, queueVars, consVars, gpuVars
  <1>3. CASE NextEnds
    BY <1>1, <1>3 DEF NextEnds, Ending, Turns, Handed, Small, pumpVars, queueVars, consVars, gpuVars
  <1>4. CASE NextFails
    BY <1>1, <1>4 DEF NextFails, Ending, Turns, Handed, Small, pumpVars, queueVars, consVars, gpuVars
  <1>5. CASE NextStarts
    BY <1>1, <1>5 DEF NextStarts, Ending, Turns, Handed, Small, pumpVars, queueVars, consVars, gpuVars
  <1>6. CASE FillTile
    BY <1>1, <1>6 DEF FillTile, Ending, Turns, Handed, Small, pumpVars, queueVars, consVars, gpuVars
  <1>7. CASE TileRead
    BY <1>1, <1>7 DEF TileRead, Ending, Turns, Handed, Small, pumpVars, queueVars, consVars, gpuVars
  <1>8. CASE PutBatch
    BY <1>1, <1>8 DEF PutBatch, Ending, Turns, Handed, Small, pumpVars, queueVars, consVars, gpuVars
  <1>9. CASE CloseReader
    BY <1>1, <1>9 DEF CloseReader, Ending, Turns, Handed, Small, pumpVars, queueVars, consVars, gpuVars
  <1>10. CASE PutTerminal
    BY <1>1, <1>10 DEF PutTerminal, Ending, Turns, Handed, Small, pumpVars, queueVars, consVars, gpuVars
  <1>11. CASE Get
    <2>1. ready' = <<>> /\ UNCHANGED <<pump, terminal, uploads, fd, changed>> /\ cons = "get"
      BY <1>11 DEF Get, pumpVars, gpuVars
    <2>2. CASE GetsBatch
      BY <1>1, <2>1, <2>2 DEF GetsBatch, Ending, Handed, Small
    <2>3. CASE GetsEnd
      BY <1>1, <2>1, <2>3 DEF GetsEnd, Ending, Handed, Small
    <2> QED BY <1>11, <2>2, <2>3, GetFacts
  <1>12. CASE Use
    BY <1>1, <1>12 DEF Use, Ending, Turns, Handed, Small, pumpVars, queueVars, consVars, gpuVars
  <1>13. CASE Cancel
    BY <1>1, <1>13 DEF Cancel, Ending, Turns, Handed, Small, pumpVars, queueVars, consVars, gpuVars
  <1>14. CASE Join
    BY <1>1, <1>14 DEF Join, Ending, Turns, Handed, Small, pumpVars, queueVars, consVars, gpuVars
  <1>15. CASE JoinTimeout
    BY <1>1, <1>15 DEF JoinTimeout, Ending, Turns, Handed, Small, pumpVars, queueVars, consVars, gpuVars
  <1>16. CASE Upload
    BY <1>1, <1>16 DEF Upload, Ending, Turns, Handed, Small, pumpVars, queueVars, consVars, gpuVars
  <1>17. CASE ReadViews
    BY <1>1, <1>17 DEF ReadViews, Ending, Turns, Handed, Small, pumpVars, queueVars, consVars, gpuVars
  <1>18. CASE Over
    BY <1>1, <1>18 DEF Over, Ending, Turns, Handed, Small, pumpVars, queueVars, consVars, gpuVars, vars
  <1>19. ASSUME NEW p \in Part, ReadPart(p) PROVE Ending'
    BY <1>1, <1>19 DEF ReadPart, Ending, Turns, Handed, Small, pumpVars, queueVars, consVars, gpuVars
  <1>20. ASSUME NEW b \in Batch, Release(b) PROVE Ending'
    BY <1>1, <1>20 DEF Release, Ending, Turns, Handed, Small, pumpVars, queueVars, consVars, gpuVars
  <1>21. ASSUME NEW f \in File, Change(f) PROVE Ending'
    BY <1>1, <1>21 DEF Change, Ending, Turns, Handed, Small, pumpVars, queueVars, consVars, gpuVars
  <1> QED BY <1>2, <1>3, <1>4, <1>5, <1>6, <1>7, <1>8, <1>9, <1>10, <1>11, <1>12, <1>13, <1>14, <1>15, <1>16, <1>17, <1>18, <1>19, <1>20, <1>21 DEF Next, Pump, Consumer, Gpu

LEMMA ReadingStep ==
    ASSUME TypeOK, Turns, Reading, Next
    PROVE  Reading'
  <1>1. Small /\ ready \in Items
    BY SmallType DEF TypeOK, Items
  <1>2. CASE Acquire
    BY <1>1, <1>2 DEF Acquire, Reading, Turns, Small, Queued, TileFree, pumpVars, queueVars, consVars, gpuVars
  <1>3. CASE NextEnds
    BY <1>1, <1>3 DEF NextEnds, Reading, Turns, Small, Queued, TileFree, pumpVars, queueVars, consVars, gpuVars
  <1>4. CASE NextFails
    BY <1>1, <1>4 DEF NextFails, Reading, Turns, Small, Queued, TileFree, pumpVars, queueVars, consVars, gpuVars
  <1>5. CASE NextStarts
    <2>1. /\ pump' = "fill" /\ pos' = 0 /\ cur' = cur + 1 /\ ready' = <<>> /\ UNCHANGED <<got, reads>> /\ reads = {}
          /\ cur = got /\ cur + 1 \in Batch
      BY <1>1, <1>5, NumberFacts DEF NextStarts, Reading, Turns, Small, queueVars, consVars, Batch
    <2>2. Tiles[cur + 1] \in Nat /\ Tiles[cur + 1] > 0 /\ ~Queued(cur)' /\ cur' # got'
      BY <1>1, <2>1, BatchFacts DEF Queued, Small
    <2> QED BY <2>1, <2>2 DEF Reading
  <1>6. CASE FillTile
    BY <1>1, <1>6 DEF FillTile, Reading, Turns, Small, Queued, TileFree, pumpVars, queueVars, consVars, gpuVars
  <1>7. CASE TileRead
    <2>1. /\ pump = "read" /\ reads' = {} /\ ready' = <<>> /\ UNCHANGED <<cur, got>>
          /\ cur = got + 1 /\ cur \in Batch /\ pos < Tiles[cur]
      BY <1>1, <1>7, NumberFacts DEF TileRead, Reading, Turns, Small, queueVars, consVars, Batch
    <2>2. Tiles[cur] \in Nat /\ ~Queued(cur)' /\ cur' # got'
      BY <1>1, <2>1, BatchFacts DEF Queued, Small
    <2>3. \/ pump' = "close" /\ pos' = pos
          \/ pump' = "put" /\ pos' = Tiles[cur]
          \/ pump' = "fill" /\ pos' = pos + 1 /\ pos + 1 # Tiles[cur]
      BY <1>7 DEF TileRead
    <2> QED BY <1>1, <2>1, <2>2, <2>3 DEF Reading, Small
  <1>8. CASE PutBatch
    BY <1>1, <1>8 DEF PutBatch, Reading, Turns, Small, Queued, TileFree, pumpVars, queueVars, consVars, gpuVars
  <1>9. CASE CloseReader
    BY <1>1, <1>9 DEF CloseReader, Reading, Turns, Small, Queued, TileFree, pumpVars, queueVars, consVars, gpuVars
  <1>10. CASE PutTerminal
    BY <1>1, <1>10 DEF PutTerminal, Reading, Turns, Small, Queued, TileFree, pumpVars, queueVars, consVars, gpuVars
  <1>11. CASE Get
    <2>1. ready' = <<>> /\ UNCHANGED <<pump, pos, cur, reads, offset, nextSlot, failed, tile, uploads>>
      BY <1>11 DEF Get, pumpVars, gpuVars
    <2>2. ~Queued(cur)'
      BY <2>1 DEF Queued
    <2>3. cur > 0 /\ cur' = got' => pos = Tiles[cur]
      BY <1>1, <1>11, <2>1, GetFacts DEF GetsBatch, GetsEnd, Reading, Small
    <2> QED BY <2>1, <2>2, <2>3 DEF Reading, TileFree
  <1>12. CASE Use
    BY <1>1, <1>12 DEF Use, Reading, Turns, Small, Queued, TileFree, pumpVars, queueVars, consVars, gpuVars
  <1>13. CASE Cancel
    BY <1>1, <1>13 DEF Cancel, Reading, Turns, Small, Queued, TileFree, pumpVars, queueVars, consVars, gpuVars
  <1>14. CASE Join
    BY <1>1, <1>14 DEF Join, Reading, Turns, Small, Queued, TileFree, pumpVars, queueVars, consVars, gpuVars
  <1>15. CASE JoinTimeout
    BY <1>1, <1>15 DEF JoinTimeout, Reading, Turns, Small, Queued, TileFree, pumpVars, queueVars, consVars, gpuVars
  <1>16. CASE Upload
    <2>1. /\ UNCHANGED <<pump, pos, cur, reads, offset, nextSlot, failed, tile, got, ready>>
          /\ uploads # <<>> /\ uploads' = Tail(uploads) /\ uploads \in Seq(Copy)
      BY <1>16 DEF Upload, pumpVars, queueVars, consVars, TypeOK
    <2>2. TileFree(nextSlot) => TileFree(nextSlot)'
      BY <2>1, TailFacts DEF TileFree
    <2> QED BY <2>1, <2>2 DEF Reading, Queued
  <1>17. CASE ReadViews
    BY <1>1, <1>17 DEF ReadViews, Reading, Turns, Small, Queued, TileFree, pumpVars, queueVars, consVars, gpuVars
  <1>18. CASE Over
    BY <1>1, <1>18 DEF Over, Reading, Turns, Small, Queued, TileFree, pumpVars, queueVars, consVars, gpuVars, vars
  <1>19. ASSUME NEW p \in Part, ReadPart(p) PROVE Reading'
    <2>1. /\ UNCHANGED <<pump, pos, cur, offset, nextSlot, got, ready, uploads>> /\ reads' = reads \ {p} /\ p \in reads
          /\ pump = "read" /\ offset = <<cur, pos + 1>>
      BY <1>19 DEF ReadPart, queueVars, consVars, Reading
    <2>2. ASSUME ~failed', NEW q \in Part \ reads'
          PROVE  tile'[nextSlot][q][1] = cur /\ tile'[nextSlot][q][2] = pos + 1
      <3>1. PICK x : tile' = [tile EXCEPT ![nextSlot][p] = x] /\ ~failed /\ x[1] = cur /\ x[2] = pos + 1
        <4> DEFINE x == <<offset[1], offset[2], IF fd \in changed THEN "new" ELSE "old">>
        <4>1. tile' = [tile EXCEPT ![nextSlot][p] = x] /\ ~failed
          BY <1>19, <2>2 DEF ReadPart
        <4>2. x[1] = cur /\ x[2] = pos + 1
          BY <2>1
        <4> QED BY <4>1, <4>2
      <3>2. tile \in [{0, 1} -> [Part -> Content]] /\ nextSlot \in {0, 1}
        BY DEF TypeOK
      <3>3. CASE q = p
        BY <3>1, <3>2, <3>3
      <3>4. CASE q # p
        BY <2>1, <2>2, <3>1, <3>2, <3>4 DEF Reading
      <3> QED BY <3>3, <3>4
    <2> QED BY <2>1, <2>2 DEF Reading, Queued, TileFree
  <1>20. ASSUME NEW b \in Batch, Release(b) PROVE Reading'
    BY <1>1, <1>20 DEF Release, Reading, Turns, Small, Queued, TileFree, pumpVars, queueVars, consVars, gpuVars
  <1>21. ASSUME NEW f \in File, Change(f) PROVE Reading'
    BY <1>1, <1>21 DEF Change, Reading, Turns, Small, Queued, TileFree, pumpVars, queueVars, consVars, gpuVars
  <1> QED BY <1>2, <1>3, <1>4, <1>5, <1>6, <1>7, <1>8, <1>9, <1>10, <1>11, <1>12, <1>13, <1>14, <1>15, <1>16, <1>17, <1>18, <1>19, <1>20, <1>21 DEF Next, Pump, Consumer, Gpu

----------------------------------------------------------------------------
(* Memory *)

\* A batch is held from when it is allocated on: nothing else makes a batch held.
LEMMA HeldBefore ==
    ASSUME TypeOK, Turns, Next, NEW b \in Batch, Holds(b)'
    PROVE  Holds(b) \/ (NextStarts /\ b = cur + 1)
  <1>1. Small /\ ready \in Items /\ uses \in Seq(Batch) /\ b \in Nat /\ b > 0
    BY SmallType, NumberFacts DEF TypeOK, Items, Batch
  <1>2. CASE Acquire
    BY <1>1, <1>2 DEF Acquire, Holds, Referenced, InUse, Turns, Small, pumpVars, queueVars, consVars, gpuVars
  <1>3. CASE NextEnds
    BY <1>1, <1>3 DEF NextEnds, Holds, Referenced, InUse, Turns, Small, pumpVars, queueVars, consVars, gpuVars
  <1>4. CASE NextFails
    BY <1>1, <1>4 DEF NextFails, Holds, Referenced, InUse, Turns, Small, pumpVars, queueVars, consVars, gpuVars
  <1>5. CASE NextStarts
    <2>1. cur' = cur + 1 /\ pump' = "fill" /\ UNCHANGED <<ready, cons, got, kept, uses>>
      BY <1>5 DEF NextStarts, queueVars, consVars, gpuVars
    <2>2. CASE b # cur + 1
      <3>1. b \in 1..cur
        BY <1>1, <2>1, <2>2 DEF Holds, Small
      <3> QED BY <2>1, <2>2, <3>1 DEF Holds, Referenced, InUse
    <2> QED BY <1>5, <2>2
  <1>6. CASE FillTile
    BY <1>1, <1>6 DEF FillTile, Holds, Referenced, InUse, Turns, Small, pumpVars, queueVars, consVars, gpuVars
  <1>7. CASE TileRead
    BY <1>1, <1>7 DEF TileRead, Holds, Referenced, InUse, Turns, Small, pumpVars, queueVars, consVars, gpuVars
  <1>8. CASE PutBatch
    <2>1. pump = "put" /\ pump' = "acquire" /\ UNCHANGED <<cur, cons, got, kept, uses>>
          /\ (UNCHANGED ready \/ ready' = <<<<"tensor", cur>>>>)
      BY <1>8 DEF PutBatch, consVars, gpuVars
    <2>2. ready' = <<<<"tensor", b>>>> => UNCHANGED ready \/ b = cur
      <3>1. ASSUME ready' = <<<<"tensor", b>>>>, ready' = <<<<"tensor", cur>>>> PROVE b = cur
        <4>1. ready'[1][2] = b
          BY <3>1
        <4>2. ready'[1][2] = cur
          BY <3>1
        <4> QED BY <4>1, <4>2
      <3> QED BY <2>1, <3>1
    <2> QED BY <2>1, <2>2 DEF Holds, Referenced, InUse
  <1>9. CASE CloseReader
    BY <1>1, <1>9 DEF CloseReader, Holds, Referenced, InUse, Turns, Small, pumpVars, queueVars, consVars, gpuVars
  <1>10. CASE PutTerminal
    BY <1>1, <1>10 DEF PutTerminal, Holds, Referenced, InUse, Turns, Small, pumpVars, queueVars, consVars, gpuVars
  <1>11. CASE Get
    <2>1. ready' = <<>> /\ UNCHANGED <<pump, cur, kept, uses>> /\ ready' # <<<<"tensor", b>>>>
      BY <1>11 DEF Get, pumpVars, gpuVars
    <2>2. \/ cons' = "use" /\ got' = cur /\ ready = <<<<"tensor", cur>>>>
          \/ cons' = "join"
      BY <1>11, GetFacts DEF GetsBatch, GetsEnd, Queued
    <2> QED BY <2>1, <2>2 DEF Holds, Referenced, InUse
  <1>12. CASE Use
    BY <1>1, <1>12 DEF Use, Holds, Referenced, InUse, Turns, Small, pumpVars, queueVars, consVars, gpuVars
  <1>13. CASE Cancel
    BY <1>1, <1>13 DEF Cancel, Holds, Referenced, InUse, Turns, Small, pumpVars, queueVars, consVars, gpuVars
  <1>14. CASE Join
    BY <1>1, <1>14 DEF Join, Holds, Referenced, InUse, Turns, Small, pumpVars, queueVars, consVars, gpuVars
  <1>15. CASE JoinTimeout
    BY <1>1, <1>15 DEF JoinTimeout, Holds, Referenced, InUse, Turns, Small, pumpVars, queueVars, consVars, gpuVars
  <1>16. CASE Upload
    BY <1>1, <1>16 DEF Upload, Holds, Referenced, InUse, Turns, Small, pumpVars, queueVars, consVars, gpuVars
  <1>17. CASE ReadViews
    BY <1>1, <1>17 DEF ReadViews, Holds, Referenced, InUse, Turns, Small, pumpVars, queueVars, consVars, gpuVars
  <1>18. CASE Over
    BY <1>1, <1>18 DEF Over, Holds, Referenced, InUse, Turns, Small, pumpVars, queueVars, consVars, gpuVars, vars
  <1>19. ASSUME NEW p \in Part, ReadPart(p) PROVE Holds(b)
    BY <1>1, <1>19 DEF ReadPart, Holds, Referenced, InUse, Turns, Small, pumpVars, queueVars, consVars, gpuVars
  <1>20. ASSUME NEW c \in Batch, Release(c) PROVE Holds(b)
    BY <1>1, <1>20 DEF Release, Holds, Referenced, InUse, Turns, Small, pumpVars, queueVars, consVars, gpuVars
  <1>21. ASSUME NEW f \in File, Change(f) PROVE Holds(b)
    BY <1>1, <1>21 DEF Change, Holds, Referenced, InUse, Turns, Small, pumpVars, queueVars, consVars, gpuVars
  <1> QED BY <1>2, <1>3, <1>4, <1>5, <1>6, <1>7, <1>8, <1>9, <1>10, <1>11, <1>12, <1>13, <1>14, <1>15, <1>16, <1>17, <1>18, <1>19, <1>20, <1>21 DEF Next, Pump, Consumer, Gpu

LEMMA CopyFacts ==
    ASSUME TypeOK
    PROVE  \A j \in DOMAIN uploads : /\ uploads[j].slot \in {0, 1} /\ uploads[j].batch \in Batch
                                     /\ uploads[j].batch \in Nat /\ uploads[j].pos \in Nat
  <1>1. \A j \in DOMAIN uploads : uploads[j] \in Copy
    <2>1. uploads \in Seq(Copy)
      BY DEF TypeOK
    <2> QED BY <2>1, SeqElement
  <1>2. \A c \in Copy : c.slot \in {0, 1} /\ c.batch \in Batch /\ c.pos \in Nat
    BY DEF Copy
  <1>3. Batch \subseteq Nat
    BY NumberFacts DEF Batch
  <1> QED BY <1>1, <1>2, <1>3

LEMMA CopiesStep ==
    ASSUME TypeOK, Turns, Reading, Copies, Next
    PROVE  Copies'
  <1>1. Small /\ uploads \in Seq(Copy) /\ tile \in [{0, 1} -> [Part -> Content]] /\ nextSlot \in {0, 1}
    BY SmallType DEF TypeOK
  <1>2. CASE Acquire
    BY <1>1, <1>2 DEF Acquire, Copies, Small, pumpVars, queueVars, consVars, gpuVars
  <1>3. CASE NextEnds
    BY <1>1, <1>3 DEF NextEnds, Copies, Small, pumpVars, queueVars, consVars, gpuVars
  <1>4. CASE NextFails
    BY <1>1, <1>4 DEF NextFails, Copies, Small, pumpVars, queueVars, consVars, gpuVars
  <1>5. CASE NextStarts
    <2>1. cur' = cur + 1 /\ UNCHANGED <<uploads, tile>>
      BY <1>5 DEF NextStarts, gpuVars
    <2>2. \A j \in DOMAIN uploads : uploads[j].batch \in Nat
      BY CopyFacts
    <2> QED BY <1>1, <2>1, <2>2 DEF Copies, Small
  <1>6. CASE FillTile
    BY <1>1, <1>6 DEF FillTile, Copies, Small, pumpVars, queueVars, consVars, gpuVars
  <1>7. CASE TileRead
    <2> DEFINE c == [slot |-> nextSlot, batch |-> cur, pos |-> pos + 1]
    <2>1. pump = "read" /\ reads = {} /\ UNCHANGED <<cur, tile>>
          /\ (UNCHANGED uploads \/ (~failed /\ uploads' = Append(uploads, c)))
      BY <1>7 DEF TileRead
    <2>2. cur \in Batch /\ pos + 1 \in 1..Tiles[cur] /\ c \in Copy
      BY <1>1, <2>1, NumberFacts, BatchFacts DEF Reading, Turns, Small, Batch, Copy
    <2>3. CASE UNCHANGED uploads
      BY <2>1, <2>3 DEF Copies
    <2>4. CASE ~failed /\ uploads' = Append(uploads, c)
      <3>1. \A p \in Part : tile[nextSlot][p][1] = cur /\ tile[nextSlot][p][2] = pos + 1
        BY <2>1, <2>4 DEF Reading
      <3>2. c.slot = nextSlot /\ c.batch = cur /\ c.pos = pos + 1
        OBVIOUS
      <3> HIDE DEF c
      <3>3. \A j \in DOMAIN uploads' : uploads'[j] = c \/ (j \in DOMAIN uploads /\ uploads'[j] = uploads[j])
        BY <1>1, <2>2, <2>4, AppendFacts
      <3>4. /\ c.batch <= cur /\ c.pos \in 1..Tiles[c.batch]
            /\ \A p \in Part : tile[c.slot][p][1] = c.batch /\ tile[c.slot][p][2] = c.pos
        BY <1>1, <2>2, <3>1, <3>2 DEF Small
      <3> QED BY <2>1, <3>3, <3>4 DEF Copies
    <2> QED BY <2>1, <2>3, <2>4
  <1>8. CASE PutBatch
    BY <1>1, <1>8 DEF PutBatch, Copies, Small, pumpVars, queueVars, consVars, gpuVars
  <1>9. CASE CloseReader
    BY <1>1, <1>9 DEF CloseReader, Copies, Small, pumpVars, queueVars, consVars, gpuVars
  <1>10. CASE PutTerminal
    BY <1>1, <1>10 DEF PutTerminal, Copies, Small, pumpVars, queueVars, consVars, gpuVars
  <1>11. CASE Get
    BY <1>1, <1>11 DEF Get, Copies, Small, pumpVars, queueVars, consVars, gpuVars
  <1>12. CASE Use
    BY <1>1, <1>12 DEF Use, Copies, Small, pumpVars, queueVars, consVars, gpuVars
  <1>13. CASE Cancel
    BY <1>1, <1>13 DEF Cancel, Copies, Small, pumpVars, queueVars, consVars, gpuVars
  <1>14. CASE Join
    BY <1>1, <1>14 DEF Join, Copies, Small, pumpVars, queueVars, consVars, gpuVars
  <1>15. CASE JoinTimeout
    BY <1>1, <1>15 DEF JoinTimeout, Copies, Small, pumpVars, queueVars, consVars, gpuVars
  <1>16. CASE Upload
    BY <1>1, <1>16 DEF Upload, Copies, Small, pumpVars, queueVars, consVars, gpuVars
  <1>17. CASE ReadViews
    BY <1>1, <1>17 DEF ReadViews, Copies, Small, pumpVars, queueVars, consVars, gpuVars
  <1>18. CASE Over
    BY <1>1, <1>18 DEF Over, Copies, Small, pumpVars, queueVars, consVars, gpuVars, vars
  <1>19. ASSUME NEW p \in Part, ReadPart(p) PROVE Copies'
    <2>1. UNCHANGED <<cur, uploads>> /\ TileFree(nextSlot)
      BY <1>19 DEF ReadPart, Reading
    <2>2. \A s \in {0, 1} : s # nextSlot => tile'[s] = tile[s]
      BY <1>1, <1>19 DEF ReadPart
    <2>3. \A j \in DOMAIN uploads : uploads[j].slot \in {0, 1} /\ uploads[j].slot # nextSlot
      BY <2>1, CopyFacts DEF TileFree
    <2> QED BY <2>1, <2>2, <2>3 DEF Copies
  <1>20. ASSUME NEW b \in Batch, Release(b) PROVE Copies'
    BY <1>1, <1>20 DEF Release, Copies, Small, pumpVars, queueVars, consVars, gpuVars
  <1>21. ASSUME NEW f \in File, Change(f) PROVE Copies'
    BY <1>1, <1>21 DEF Change, Copies, Small, pumpVars, queueVars, consVars, gpuVars
  <1> QED BY <1>2, <1>3, <1>4, <1>5, <1>6, <1>7, <1>8, <1>9, <1>10, <1>11, <1>12, <1>13, <1>14, <1>15, <1>16, <1>17, <1>18, <1>19, <1>20, <1>21 DEF Next, Pump, Consumer, Gpu

LEMMA StepKinds ==
    ASSUME Next
    PROVE  UNCHANGED <<uploads, mem, blk, cur, pos>> \/ NextStarts \/ TileRead \/ Upload
  BY DEF Next, Pump, Consumer, Gpu, Acquire, NextEnds, NextFails, FillTile, PutBatch, CloseReader, PutTerminal,
     Get, Use, Cancel, Release, Join, JoinTimeout, ReadViews, ReadPart, Change, Over, vars, pumpVars, gpuVars

\* What TileRead enqueues, and what Upload takes off the stream.
LEMMA TileReadFacts ==
    ASSUME TypeOK, Turns, Reading, TileRead
    PROVE  /\ cur \in Batch /\ Holds(cur) /\ UNCHANGED <<mem, blk, cur>> /\ ~NextStarts
           /\ \A j \in DOMAIN uploads : j \in DOMAIN uploads' /\ uploads'[j] = uploads[j]
           /\ \A b \in Batch : Uploading(b)' => Uploading(b) \/ b = cur
           /\ \/ pos' = pos /\ pump' = "close"
              \/ /\ pos' = pos + 1 /\ pump' \in {"put", "fill"}
                 /\ \E j \in DOMAIN uploads' : uploads'[j].batch = cur /\ uploads'[j].pos = pos + 1
  <1> DEFINE c == [slot |-> nextSlot, batch |-> cur, pos |-> pos + 1]
  <1>1. Small /\ uploads \in Seq(Copy) /\ nextSlot \in {0, 1}
    BY SmallType DEF TypeOK
  <1>2. pump = "read" /\ UNCHANGED <<mem, blk, cur>>
    BY DEF TileRead
  <1>3. cur \in Batch /\ c \in Copy /\ cur \in 1..cur
    BY <1>1, <1>2, NumberFacts DEF Turns, Small, Batch, Copy
  <1>4. Holds(cur) /\ ~NextStarts
    BY <1>2, <1>3 DEF Holds, NextStarts
  <1>5. \/ UNCHANGED <<uploads, pos>> /\ pump' = "close"
        \/ uploads' = Append(uploads, c) /\ pos' = pos + 1 /\ pump' \in {"put", "fill"}
    BY DEF TileRead
  <1>6. c.batch = cur /\ c.pos = pos + 1
    OBVIOUS
  <1> HIDE DEF c
  <1>7. CASE UNCHANGED <<uploads, pos>> /\ pump' = "close"
    BY <1>2, <1>3, <1>4, <1>7 DEF Uploading
  <1>8. CASE uploads' = Append(uploads, c) /\ pos' = pos + 1 /\ pump' \in {"put", "fill"}
    <2>1. /\ \A j \in DOMAIN uploads' : uploads'[j] = c \/ (j \in DOMAIN uploads /\ uploads'[j] = uploads[j])
          /\ \A j \in DOMAIN uploads : j \in DOMAIN uploads' /\ uploads'[j] = uploads[j]
          /\ \E j \in DOMAIN uploads' : uploads'[j] = c
      BY <1>1, <1>3, <1>8, AppendFacts
    <2>2. \A b \in Batch : Uploading(b)' => Uploading(b) \/ b = cur
      BY <1>6, <2>1 DEF Uploading
    <2> QED BY <1>2, <1>3, <1>4, <1>6, <1>8, <2>1, <2>2
  <1> QED BY <1>5, <1>7, <1>8

LEMMA UploadFacts ==
    ASSUME TypeOK, Copies, Upload
    PROVE  \E c \in Copy :
              /\ Uploading(c.batch) /\ UNCHANGED <<blk, cur, pos>> /\ ~NextStarts
              /\ c.batch \in Batch /\ c.pos \in TileNo
              /\ mem' = [mem EXCEPT ![blk[c.batch]][c.pos] = tile[c.slot]]
              /\ \A p \in Part : tile[c.slot][p][1] = c.batch /\ tile[c.slot][p][2] = c.pos
              /\ \A b \in Batch : Uploading(b)' => Uploading(b)
              /\ \A j \in DOMAIN uploads : uploads[j] = c \/ \E i \in DOMAIN uploads' : uploads'[i] = uploads[j]
  <1> DEFINE c == Head(uploads)
  <1>1. /\ uploads # <<>> /\ uploads' = Tail(uploads) /\ UNCHANGED <<blk, cur, pos, pump>>
        /\ mem' = [mem EXCEPT ![blk[c.batch]][c.pos] = tile[c.slot]]
    BY DEF Upload, pumpVars
  <1>2. uploads \in Seq(Copy) /\ cur \in Nat
    BY NumberFacts DEF TypeOK
  <1>3. /\ c = uploads[1] /\ 1 \in DOMAIN uploads /\ c \in Copy
        /\ \A i \in DOMAIN uploads' : i + 1 \in DOMAIN uploads /\ uploads'[i] = uploads[i + 1]
        /\ \A i \in DOMAIN uploads : uploads[i] = c \/ (i - 1 \in DOMAIN uploads' /\ uploads'[i - 1] = uploads[i])
    BY <1>1, <1>2, TailFacts
  <1>4. c.batch \in Batch /\ c.pos \in Nat
    BY <1>3, CopyFacts
  <1>5. /\ c.pos \in 1..Tiles[c.batch]
        /\ \A p \in Part : tile[c.slot][p][1] = c.batch /\ tile[c.slot][p][2] = c.pos
    BY <1>3 DEF Copies
  <1> HIDE DEF c
  <1>6. c.pos \in TileNo
    BY <1>4, <1>5, BatchFacts, NumberFacts DEF TileNo
  <1>7. Uploading(c.batch)
    BY <1>3 DEF Uploading
  <1>8. \A b \in Batch : Uploading(b)' => Uploading(b)
    BY <1>3 DEF Uploading
  <1>9. ~NextStarts
    BY <1>1, <1>2 DEF NextStarts
  <1>10. \A j \in DOMAIN uploads : uploads[j] = c \/ \E i \in DOMAIN uploads' : uploads'[i] = uploads[j]
    BY <1>3
  <1>11. c \in Copy
    BY <1>3
  <1> WITNESS c \in Copy
  <1> QED BY <1>1, <1>4, <1>5, <1>6, <1>7, <1>8, <1>9, <1>10

LEMMA ApartStep ==
    ASSUME TypeOK, Turns, Reading, Copies, Apart, CopiesHeld, Next
    PROVE  Apart'
  <1>1. Small
    BY SmallType
  <1>2. CASE UNCHANGED <<uploads, mem, blk, cur, pos>>
    <2>1. ~NextStarts
      BY <1>1, <1>2 DEF NextStarts, Small
    <2>2. ASSUME NEW b \in Batch, Holds(b)' \/ Uploading(b)' PROVE Holds(b) \/ Uploading(b)
      BY <1>2, <2>1, <2>2, HeldBefore DEF Uploading
    <2> QED BY <1>2, <2>2 DEF Apart
  <1>3. CASE TileRead
    <2>1. /\ cur \in Batch /\ Holds(cur) /\ UNCHANGED blk /\ ~NextStarts
          /\ \A b \in Batch : Uploading(b)' => Uploading(b) \/ b = cur
      BY <1>3, TileReadFacts
    <2>2. ASSUME NEW b \in Batch, Holds(b)' \/ Uploading(b)' PROVE Holds(b) \/ Uploading(b)
      BY <2>1, <2>2, HeldBefore
    <2> QED BY <2>1, <2>2 DEF Apart
  <1>4. CASE Upload
    <2>1. UNCHANGED blk /\ ~NextStarts /\ \A b \in Batch : Uploading(b)' => Uploading(b)
      BY <1>4, UploadFacts
    <2>2. ASSUME NEW b \in Batch, Holds(b)' \/ Uploading(b)' PROVE Holds(b) \/ Uploading(b)
      BY <2>1, <2>2, HeldBefore
    <2> QED BY <2>1, <2>2 DEF Apart
  <1>5. CASE NextStarts
    <2>1. /\ pump = "next" /\ ~stop /\ UNCHANGED uploads /\ cur + 1 \in Batch
          /\ blk \in [Batch -> Block]
      BY <1>1, <1>5, NumberFacts DEF NextStarts, gpuVars, Batch, Small, TypeOK
    <2>2. PICK k \in Block : Reusable(k) /\ blk' = [blk EXCEPT ![cur + 1] = k]
      BY <1>5 DEF NextStarts
    <2>3. ASSUME NEW b \in Batch, Holds(b)' \/ Uploading(b)', b # cur + 1
          PROVE  Holds(b) /\ blk'[b] = blk[b] /\ blk[b] # k
      <3>1. Holds(b)
        BY <2>1, <2>3, HeldBefore DEF Uploading, CopiesHeld
      <3>2. b \in 1..cur /\ (Referenced(b) \/ InUse(b))
        BY <2>1, <3>1 DEF Holds
      <3>3. blk[b] # k
        BY <2>2, <3>2 DEF Reusable, InUse
      <3> QED BY <2>1, <2>2, <2>3, <3>1, <3>3
    <2>4. blk'[cur + 1] = k
      BY <2>1, <2>2
    <2> QED BY <2>3, <2>4 DEF Apart
  <1> QED BY <1>2, <1>3, <1>4, <1>5, StepKinds

LEMMA LandedStep ==
    ASSUME TypeOK, Turns, Reading, Copies, Apart, AllLanded, Next
    PROVE  AllLanded'
  <1>1. Small
    BY SmallType
  <1>2. CASE UNCHANGED <<uploads, mem, blk, cur, pos>>
    <2>1. ~NextStarts
      BY <1>1, <1>2 DEF NextStarts, Small
    <2>2. ASSUME NEW b \in Batch, Holds(b)' PROVE Holds(b)
      BY <2>1, <2>2, HeldBefore
    <2>3. ASSUME NEW b \in Batch, Holds(b)', NEW i \in 1..Filled(b)' PROVE Landed(b, i)'
      <3>1. i \in 1..Filled(b)
        BY <1>2, <2>3 DEF Filled
      <3>2. Landed(b, i)
        BY <2>2, <2>3, <3>1 DEF AllLanded
      <3> QED BY <1>2, <3>2 DEF Landed
    <2> QED BY <2>3 DEF AllLanded
  <1>3. CASE NextStarts
    <2>1. cur' = cur + 1 /\ pos' = 0 /\ pump = "next" /\ UNCHANGED <<uploads, mem>>
      BY <1>3 DEF NextStarts, gpuVars
    <2>2. \A b \in Batch : b # cur + 1 => blk'[b] = blk[b]
      BY <1>3 DEF NextStarts, TypeOK
    <2>3. ASSUME NEW b \in Batch, Holds(b)', NEW i \in 1..Filled(b)' PROVE Landed(b, i)'
      <3>1. CASE b = cur + 1
        BY <2>1, <2>3, <3>1 DEF Filled
      <3>2. CASE b # cur + 1
        <4>1. Holds(b)
          BY <2>3, <3>2, HeldBefore
        <4>2. Filled(b)' = Tiles[b] /\ Filled(b) = Tiles[b]
          BY <1>1, <2>1, <3>2, <4>1 DEF Filled, Reading, Holds, Small
        <4>3. Landed(b, i)
          BY <2>3, <4>1, <4>2 DEF AllLanded
        <4> QED BY <2>1, <2>2, <3>2, <4>3 DEF Landed
      <3> QED BY <3>1, <3>2
    <2> QED BY <2>3 DEF AllLanded
  <1>4. CASE TileRead
    <2>1. /\ cur \in Batch /\ Holds(cur) /\ UNCHANGED <<mem, blk, cur>> /\ ~NextStarts
          /\ \A j \in DOMAIN uploads : j \in DOMAIN uploads' /\ uploads'[j] = uploads[j]
      BY <1>4, TileReadFacts
    <2>2. \/ pos' = pos
          \/ /\ pos' = pos + 1
             /\ \E j \in DOMAIN uploads' : uploads'[j].batch = cur /\ uploads'[j].pos = pos + 1
      BY <1>4, TileReadFacts
    <2>3. ASSUME NEW b \in Batch, Holds(b)', NEW i \in 1..Filled(b)' PROVE Landed(b, i)'
      <3>1. Holds(b)
        BY <2>1, <2>3, HeldBefore
      <3>2. CASE i \in 1..Filled(b)
        <4>1. Landed(b, i)
          BY <3>1, <3>2 DEF AllLanded
        <4> QED BY <2>1, <4>1 DEF Landed
      <3>3. CASE i \notin 1..Filled(b)
        <4>1. b = cur /\ pos' = pos + 1 /\ i = pos + 1
          BY <1>1, <2>1, <2>2, <2>3, <3>3 DEF Filled, Small
        <4> QED BY <1>1, <2>2, <4>1 DEF Landed, Small
      <3> QED BY <3>2, <3>3
    <2> QED BY <2>3 DEF AllLanded
  <1>5. CASE Upload
    <2>1. PICK c \in Copy :
              /\ Uploading(c.batch) /\ UNCHANGED <<blk, cur, pos>> /\ ~NextStarts
              /\ c.batch \in Batch /\ c.pos \in TileNo
              /\ mem' = [mem EXCEPT ![blk[c.batch]][c.pos] = tile[c.slot]]
              /\ \A p \in Part : tile[c.slot][p][1] = c.batch /\ tile[c.slot][p][2] = c.pos
              /\ \A b \in Batch : Uploading(b)' => Uploading(b)
              /\ \A j \in DOMAIN uploads : uploads[j] = c \/ \E i \in DOMAIN uploads' : uploads'[i] = uploads[j]
      BY <1>5, UploadFacts
    <2>2. mem \in [Block -> [TileNo -> [Part -> Content]]] /\ blk \in [Batch -> Block]
      BY DEF TypeOK
    <2>3. ASSUME NEW k \in Block, NEW i \in TileNo
          PROVE  mem'[k][i] = IF k = blk[c.batch] /\ i = c.pos THEN tile[c.slot] ELSE mem[k][i]
      BY <2>1, <2>2
    <2>4. ASSUME NEW b \in Batch, Holds(b)', NEW i \in 1..Filled(b)' PROVE Landed(b, i)'
      <3>1. Holds(b) /\ i \in 1..Filled(b)
        BY <2>1, <2>4, HeldBefore DEF Filled
      <3>2. Landed(b, i)
        BY <3>1 DEF AllLanded
      <3>3. blk[b] \in Block /\ i \in TileNo
        <4>1. Tiles[b] \in Nat /\ Tiles[b] <= Limit /\ Limit \in Nat
          BY BatchFacts, NumberFacts
        <4>2. Filled(b) \in Nat /\ Filled(b) <= Tiles[b]
          BY <1>1, <3>1, <4>1 DEF Filled, Reading, Small, Holds
        <4> QED BY <2>2, <3>1, <4>1, <4>2 DEF TileNo
      <3>4. CASE b = c.batch /\ i = c.pos
        <4>1. mem'[blk[b]][i] = tile[c.slot] /\ blk' = blk
          BY <2>1, <2>3, <3>3, <3>4
        <4>2. \A p \in Part : tile[c.slot][p][1] = b /\ tile[c.slot][p][2] = i
          BY <2>1, <3>4
        <4> QED BY <4>1, <4>2 DEF Landed
      <3>5. CASE ~(b = c.batch /\ i = c.pos)
        <4>1. ~(blk[b] = blk[c.batch] /\ i = c.pos)
          BY <2>1, <3>1, <3>5 DEF Apart
        <4>2. mem'[blk'[b]][i] = mem[blk[b]][i]
          BY <2>1, <2>3, <3>3, <4>1
        <4>3. CASE \A p \in Part : mem[blk[b]][i][p][1] = b /\ mem[blk[b]][i][p][2] = i
          BY <4>2, <4>3 DEF Landed
        <4>4. CASE \E j \in DOMAIN uploads : uploads[j].batch = b /\ uploads[j].pos = i
          <5>1. PICK j \in DOMAIN uploads : uploads[j].batch = b /\ uploads[j].pos = i
            BY <4>4
          <5>2. \E k \in DOMAIN uploads' : uploads'[k] = uploads[j]
            BY <2>1, <3>5, <5>1
          <5> QED BY <5>1, <5>2 DEF Landed
        <4> QED BY <3>2, <4>3, <4>4 DEF Landed
      <3> QED BY <3>4, <3>5
    <2> QED BY <2>4 DEF AllLanded
  <1> QED BY <1>2, <1>3, <1>4, <1>5, StepKinds

LEMMA StillInUse ==
    ASSUME TypeOK, ReadViews, NEW b, b # Head(uses), InUse(b)
    PROVE  InUse(b)'
  <1>1. uses \in Seq(Batch) /\ uses # <<>> /\ uses' = Tail(uses)
    BY DEF TypeOK, ReadViews
  <1>2. PICK i \in DOMAIN uses : uses[i] = b
    BY DEF InUse
  <1>3. i - 1 \in DOMAIN uses' /\ uses'[i - 1] = b
    BY <1>1, <1>2, TailFacts
  <1> QED BY <1>3 DEF InUse

LEMMA HeldStep ==
    ASSUME TypeOK, Turns, Copies, CopiesHeld, Next, ~stop', pump' \notin {"close", "terminal", "exited"},
           NEW b \in Batch, Uploading(b), Uploading(b)'
    PROVE  Holds(b)'
  <1>1. Small /\ ready \in Items /\ uses \in Seq(Batch) /\ b \in Nat /\ b > 0
    BY SmallType, NumberFacts DEF TypeOK, Items, Batch
  <1>0. Holds(b)
    <2>1. ~stop
      BY DEF Next, Pump, Consumer, Gpu, Acquire, NextEnds, NextFails, NextStarts, FillTile, TileRead, PutBatch,
         CloseReader, PutTerminal, Get, Use, Cancel, Release, Join, JoinTimeout, Upload, ReadViews, ReadPart,
         Change, Over, vars, queueVars
    <2>2. pump \notin {"close", "terminal", "exited"}
      BY DEF Next, Pump, Consumer, Gpu, Acquire, NextEnds, NextFails, NextStarts, FillTile, TileRead, PutBatch,
         CloseReader, PutTerminal, Get, Use, Cancel, Release, Join, JoinTimeout, Upload, ReadViews, ReadPart,
         Change, Over, vars, pumpVars
    <2> QED BY <2>1, <2>2 DEF CopiesHeld
  <1>2. CASE Acquire
    BY <1>0, <1>1, <1>2 DEF Acquire, Holds, Referenced, InUse, Turns, Small, CopiesHeld, pumpVars, queueVars, consVars, gpuVars
  <1>3. CASE NextEnds
    BY <1>0, <1>1, <1>3 DEF NextEnds, Holds, Referenced, InUse, Turns, Small, CopiesHeld, pumpVars, queueVars, consVars, gpuVars
  <1>4. CASE NextFails
    BY <1>0, <1>1, <1>4 DEF NextFails, Holds, Referenced, InUse, Turns, Small, CopiesHeld, pumpVars, queueVars, consVars, gpuVars
  <1>5. CASE NextStarts
    BY <1>0, <1>1, <1>5 DEF NextStarts, Holds, Referenced, InUse, Turns, Small, CopiesHeld, pumpVars, queueVars, consVars, gpuVars
  <1>6. CASE FillTile
    BY <1>0, <1>1, <1>6 DEF FillTile, Holds, Referenced, InUse, Turns, Small, CopiesHeld, pumpVars, queueVars, consVars, gpuVars
  <1>7. CASE TileRead
    BY <1>0, <1>1, <1>7 DEF TileRead, Holds, Referenced, InUse, Turns, Small, CopiesHeld, pumpVars, queueVars, consVars, gpuVars
  <1>8. CASE PutBatch
    BY <1>0, <1>1, <1>8 DEF PutBatch, Holds, Referenced, InUse, Turns, Small, CopiesHeld, pumpVars, queueVars, consVars, gpuVars
  <1>9. CASE CloseReader
    BY <1>0, <1>1, <1>9 DEF CloseReader, Holds, Referenced, InUse, Turns, Small, CopiesHeld, pumpVars, queueVars, consVars, gpuVars
  <1>10. CASE PutTerminal
    BY <1>0, <1>1, <1>10 DEF PutTerminal, Holds, Referenced, InUse, Turns, Small, CopiesHeld, pumpVars, queueVars, consVars, gpuVars
  <1>11. CASE Get
    BY <1>0, <1>1, <1>11 DEF Get, Holds, Referenced, InUse, Turns, Small, CopiesHeld, pumpVars, queueVars, consVars, gpuVars
  <1>12. CASE Use
    BY <1>0, <1>1, <1>12 DEF Use, Holds, Referenced, InUse, Turns, Small, CopiesHeld, pumpVars, queueVars, consVars, gpuVars
  <1>13. CASE Cancel
    BY <1>0, <1>1, <1>13 DEF Cancel, Holds, Referenced, InUse, Turns, Small, CopiesHeld, pumpVars, queueVars, consVars, gpuVars
  <1>14. CASE Join
    BY <1>0, <1>1, <1>14 DEF Join, Holds, Referenced, InUse, Turns, Small, CopiesHeld, pumpVars, queueVars, consVars, gpuVars
  <1>15. CASE JoinTimeout
    BY <1>0, <1>1, <1>15 DEF JoinTimeout, Holds, Referenced, InUse, Turns, Small, CopiesHeld, pumpVars, queueVars, consVars, gpuVars
  <1>16. CASE Upload
    BY <1>0, <1>1, <1>16 DEF Upload, Holds, Referenced, InUse, Turns, Small, CopiesHeld, pumpVars, queueVars, consVars, gpuVars
  <1>17. CASE ReadViews
    <2>1. b # Head(uses)
      BY <1>17 DEF ReadViews, EventDone, Uploading
    <2>2. InUse(b) => InUse(b)'
      BY <1>17, <2>1, StillInUse
    <2> QED BY <1>0, <1>17, <2>2 DEF ReadViews, Holds, Referenced, pumpVars, queueVars, consVars
  <1>18. CASE Over
    BY <1>0, <1>1, <1>18 DEF Over, Holds, Referenced, InUse, Turns, Small, CopiesHeld, pumpVars, queueVars, consVars, gpuVars, vars
  <1>19. ASSUME NEW p \in Part, ReadPart(p) PROVE Holds(b)'
    BY <1>0, <1>1, <1>19 DEF ReadPart, Holds, Referenced, InUse, Turns, Small, CopiesHeld, pumpVars, queueVars, consVars, gpuVars
  <1>20. ASSUME NEW c \in Batch, Release(c) PROVE Holds(b)'
    BY <1>0, <1>1, <1>20 DEF Release, Holds, Referenced, InUse, Turns, Small, CopiesHeld, pumpVars, queueVars, consVars, gpuVars
  <1>21. ASSUME NEW f \in File, Change(f) PROVE Holds(b)'
    BY <1>0, <1>1, <1>21 DEF Change, Holds, Referenced, InUse, Turns, Small, CopiesHeld, pumpVars, queueVars, consVars, gpuVars
  <1> QED BY <1>2, <1>3, <1>4, <1>5, <1>6, <1>7, <1>8, <1>9, <1>10, <1>11, <1>12, <1>13, <1>14, <1>15, <1>16, <1>17, <1>18, <1>19, <1>20, <1>21 DEF Next, Pump, Consumer, Gpu

LEMMA KeptStep ==
    ASSUME TypeOK, Turns, Reading, Copies, CopiesHeld, Next, NEW b \in kept'
    PROVE  InUse(b)' \/ ~Uploading(b)'
  <1>1. Small /\ ready \in Items /\ uses \in Seq(Batch)
    BY SmallType, NumberFacts DEF TypeOK, Items, Batch
  <1>2. CASE Acquire
    BY <1>1, <1>2 DEF Acquire, InUse, Uploading, Turns, Small, CopiesHeld, pumpVars, queueVars, consVars, gpuVars
  <1>3. CASE NextEnds
    BY <1>1, <1>3 DEF NextEnds, InUse, Uploading, Turns, Small, CopiesHeld, pumpVars, queueVars, consVars, gpuVars
  <1>4. CASE NextFails
    BY <1>1, <1>4 DEF NextFails, InUse, Uploading, Turns, Small, CopiesHeld, pumpVars, queueVars, consVars, gpuVars
  <1>5. CASE NextStarts
    BY <1>1, <1>5 DEF NextStarts, InUse, Uploading, Turns, Small, CopiesHeld, pumpVars, queueVars, consVars, gpuVars
  <1>6. CASE FillTile
    BY <1>1, <1>6 DEF FillTile, InUse, Uploading, Turns, Small, CopiesHeld, pumpVars, queueVars, consVars, gpuVars
  <1>7. CASE TileRead
    BY <1>1, <1>7, SMTT(30) DEF TileRead, InUse, Uploading, Turns, Small, CopiesHeld, pumpVars, queueVars, consVars, gpuVars
  <1>8. CASE PutBatch
    BY <1>1, <1>8 DEF PutBatch, InUse, Uploading, Turns, Small, CopiesHeld, pumpVars, queueVars, consVars, gpuVars
  <1>9. CASE CloseReader
    BY <1>1, <1>9 DEF CloseReader, InUse, Uploading, Turns, Small, CopiesHeld, pumpVars, queueVars, consVars, gpuVars
  <1>10. CASE PutTerminal
    BY <1>1, <1>10 DEF PutTerminal, InUse, Uploading, Turns, Small, CopiesHeld, pumpVars, queueVars, consVars, gpuVars
  <1>11. CASE Get
    BY <1>1, <1>11 DEF Get, InUse, Uploading, Turns, Small, CopiesHeld, pumpVars, queueVars, consVars, gpuVars
  <1>12. CASE Use
    BY <1>1, <1>12 DEF Use, InUse, Uploading, Turns, Small, CopiesHeld, pumpVars, queueVars, consVars, gpuVars
  <1>13. CASE Cancel
    BY <1>1, <1>13 DEF Cancel, InUse, Uploading, Turns, Small, CopiesHeld, pumpVars, queueVars, consVars, gpuVars
  <1>14. CASE Join
    BY <1>1, <1>14 DEF Join, InUse, Uploading, Turns, Small, CopiesHeld, pumpVars, queueVars, consVars, gpuVars
  <1>15. CASE JoinTimeout
    BY <1>1, <1>15 DEF JoinTimeout, InUse, Uploading, Turns, Small, CopiesHeld, pumpVars, queueVars, consVars, gpuVars
  <1>16. CASE Upload
    <2>1. b \in kept /\ b \in Batch /\ UNCHANGED uses
      BY <1>16 DEF Upload, consVars, TypeOK
    <2>2. Uploading(b)' => Uploading(b)
      BY <1>16, <2>1, UploadFacts
    <2> QED BY <2>1, <2>2 DEF CopiesHeld, InUse
  <1>17. CASE ReadViews
    <2>1. b \in kept /\ (Uploading(b)' <=> Uploading(b))
      BY <1>17 DEF ReadViews, consVars, Uploading
    <2>2. CASE b = Head(uses)
      BY <1>17, <2>1, <2>2 DEF ReadViews, EventDone, Uploading
    <2>3. CASE b # Head(uses)
      <3>1. InUse(b) => InUse(b)'
        BY <1>17, <2>3, StillInUse
      <3> QED BY <2>1, <3>1 DEF CopiesHeld
    <2> QED BY <2>2, <2>3
  <1>18. CASE Over
    BY <1>1, <1>18 DEF Over, InUse, Uploading, Turns, Small, CopiesHeld, pumpVars, queueVars, consVars, gpuVars, vars
  <1>19. ASSUME NEW p \in Part, ReadPart(p) PROVE InUse(b)' \/ ~Uploading(b)'
    BY <1>1, <1>19 DEF ReadPart, InUse, Uploading, Turns, Small, CopiesHeld, pumpVars, queueVars, consVars, gpuVars
  <1>20. ASSUME NEW c \in Batch, Release(c) PROVE InUse(b)' \/ ~Uploading(b)'
    BY <1>1, <1>20 DEF Release, InUse, Uploading, Turns, Small, CopiesHeld, pumpVars, queueVars, consVars, gpuVars
  <1>21. ASSUME NEW f \in File, Change(f) PROVE InUse(b)' \/ ~Uploading(b)'
    BY <1>1, <1>21 DEF Change, InUse, Uploading, Turns, Small, CopiesHeld, pumpVars, queueVars, consVars, gpuVars
  <1> QED BY <1>2, <1>3, <1>4, <1>5, <1>6, <1>7, <1>8, <1>9, <1>10, <1>11, <1>12, <1>13, <1>14, <1>15, <1>16, <1>17, <1>18, <1>19, <1>20, <1>21 DEF Next, Pump, Consumer, Gpu

LEMMA CopiesHeldStep ==
    ASSUME TypeOK, Turns, Reading, Copies, CopiesHeld, Next
    PROVE  CopiesHeld'
  <1>1. ASSUME ~stop', pump' \notin {"close", "terminal", "exited"}, NEW b \in Batch, Uploading(b)'
        PROVE  Holds(b)'
    <2>1. CASE Uploading(b)
      BY <1>1, <2>1, HeldStep
    <2>2. CASE ~Uploading(b)
      <3>1. ~UNCHANGED uploads
        BY <1>1, <2>2 DEF Uploading
      <3>2. TileRead
        BY <1>1, <2>2, <3>1, StepKinds, UploadFacts DEF NextStarts, gpuVars
      <3>3. b = cur /\ pump' \in {"put", "fill"} /\ cur' = cur /\ cur \in Batch
        BY <1>1, <2>2, <3>2, TileReadFacts
      <3>4. cur \in 1..cur
        BY <3>3, NumberFacts DEF Batch
      <3> QED BY <3>3, <3>4 DEF Holds, Referenced
    <2> QED BY <2>1, <2>2
  <1>2. ASSUME NEW b \in kept' PROVE InUse(b)' \/ ~Uploading(b)'
    BY KeptStep
  <1> QED BY <1>1, <1>2 DEF CopiesHeld

\* The views the consumer's stream reads next are in memory.
LEMMA ReadViewsFinds ==
    ASSUME TypeOK, Turns, Reading, AllLanded, ReadViews
    PROVE  Found(Head(uses)) # "wrong"
  <1> DEFINE b == Head(uses)
  <1>1. uses \in Seq(Batch) /\ uses # <<>> /\ EventDone(b)
    BY DEF TypeOK, ReadViews
  <1>2. b \in Batch /\ b = uses[1] /\ 1 \in DOMAIN uses
    BY <1>1, TailFacts
  <1>3. Small /\ b \in Nat /\ b > 0 /\ b <= got
    BY <1>2, SmallType, NumberFacts DEF Turns, Batch
  <1>4. Holds(b)
    BY <1>2, <1>3 DEF Holds, InUse, Turns, Small
  <1>5. Filled(b) = Tiles[b]
    BY <1>3 DEF Filled, Reading, Turns, Small
  <1>6. \A i \in 1..Tiles[b] : Landed(b, i)
    BY <1>2, <1>4, <1>5 DEF AllLanded
  <1>7. \A i \in 1..Tiles[b], p \in Part : mem[blk[b]][i][p][1] = b /\ mem[blk[b]][i][p][2] = i
    BY <1>1, <1>6 DEF Landed, EventDone
  <1> HIDE DEF b
  <1>8. \A i \in 1..Tiles[b], p \in Part : <<mem[blk[b]][i][p][1], mem[blk[b]][i][p][2]>> = <<b, i>>
    BY <1>7
  <1>9. Found(b) # "wrong"
    BY <1>8 DEF Found
  <1> QED BY <1>9 DEF b

LEMMA UsedStep ==
    ASSUME TypeOK, Turns, Reading, AllLanded, UsedIntact, Next
    PROVE  UsedIntact'
  <1>1. CASE ReadViews
    <2>1. used' = [used EXCEPT ![Head(uses)] = Found(Head(uses))] /\ Found(Head(uses)) # "wrong"
      BY <1>1, ReadViewsFinds DEF ReadViews
    <2> QED BY <2>1 DEF UsedIntact, TypeOK
  <1>2. CASE ~ReadViews
    <2>1. UNCHANGED used
      BY <1>2 DEF Next, Pump, Consumer, Gpu, Acquire, NextEnds, NextFails, NextStarts, FillTile, TileRead, PutBatch,
         CloseReader, PutTerminal, Get, Use, Cancel, Release, Join, JoinTimeout, Upload, ReadPart,
         Change, Over, vars, gpuVars
    <2> QED BY <2>1 DEF UsedIntact
  <1> QED BY <1>1, <1>2

LEMMA UnchangedStep ==
    ASSUME TypeOK, Copies, Unchanged, Next
    PROVE  Unchanged'
  <1>1. CASE ReadViews
    <2>1. UNCHANGED <<changed, tile, mem>> /\ used' = [used EXCEPT ![Head(uses)] = Found(Head(uses))]
      BY <1>1 DEF ReadViews
    <2>2. ASSUME changed = {} PROVE Found(Head(uses)) # "changed"
      <3> DEFINE b == Head(uses)
      <3>1. uses \in Seq(Batch) /\ uses # <<>> /\ blk \in [Batch -> Block]
        BY <1>1 DEF TypeOK, ReadViews
      <3>2. b \in Batch
        BY <3>1, TailFacts
      <3> HIDE DEF b
      <3>3. blk[b] \in Block /\ \A i \in 1..Tiles[b] : i \in TileNo
        BY <3>1, <3>2, BatchFacts, NumberFacts DEF TileNo
      <3>4. \A i \in 1..Tiles[b], p \in Part : mem[blk[b]][i][p][3] # "new"
        BY <2>2, <3>3 DEF Unchanged
      <3>5. Found(b) # "changed"
        BY <3>4 DEF Found
      <3> QED BY <3>5 DEF b
    <2> QED BY <2>1, <2>2 DEF Unchanged, TypeOK
  <1>2. CASE Upload
    <2>1. UNCHANGED <<changed, tile, used>>
      BY <1>2 DEF Upload
    <2>2. PICK c \in Copy : /\ c.batch \in Batch /\ c.pos \in TileNo
                            /\ mem' = [mem EXCEPT ![blk[c.batch]][c.pos] = tile[c.slot]]
      BY <1>2, UploadFacts
    <2>3. c.slot \in {0, 1} /\ mem \in [Block -> [TileNo -> [Part -> Content]]] /\ blk \in [Batch -> Block]
      BY DEF TypeOK, Copy
    <2>4. ASSUME NEW k \in Block, NEW i \in TileNo
          PROVE  mem'[k][i] = mem[k][i] \/ mem'[k][i] = tile[c.slot]
      BY <2>2, <2>3
    <2>5. ASSUME changed = {}, NEW k \in Block, NEW i \in TileNo, NEW p \in Part
          PROVE  mem'[k][i][p][3] # "new"
      <3>1. mem[k][i][p][3] # "new" /\ tile[c.slot][p][3] # "new"
        BY <2>3, <2>5 DEF Unchanged
      <3> QED BY <2>4, <3>1
    <2> QED BY <2>1, <2>5 DEF Unchanged
  <1>3. CASE \E p \in Part : ReadPart(p)
    <2>1. PICK q \in Part : ReadPart(q)
      BY <1>3
    <2>2. UNCHANGED <<changed, mem, used>>
      BY <2>1 DEF ReadPart
    <2>3. tile \in [{0, 1} -> [Part -> Content]]
      BY DEF TypeOK
    <2>4. ASSUME changed = {}, NEW s \in {0, 1}, NEW p \in Part PROVE tile'[s][p][3] # "new"
      <3>1. tile' = tile \/ tile' = [tile EXCEPT ![nextSlot][q] = <<offset[1], offset[2], "old">>]
        BY <2>1, <2>4 DEF ReadPart
      <3>2. tile'[s][p] = tile[s][p] \/ tile'[s][p] = <<offset[1], offset[2], "old">>
        BY <2>3, <3>1
      <3> QED BY <2>4, <3>2 DEF Unchanged
    <2> QED BY <2>2, <2>4 DEF Unchanged
  <1>4. CASE \E f \in File : Change(f)
    BY <1>4 DEF Change, Unchanged
  <1>5. CASE ~(ReadViews \/ Upload \/ (\E p \in Part : ReadPart(p)) \/ (\E f \in File : Change(f)))
    <2>1. UNCHANGED <<changed, tile, mem, used>>
      BY <1>5 DEF Next, Pump, Consumer, Gpu, Acquire, NextEnds, NextFails, NextStarts, FillTile, TileRead, PutBatch,
         CloseReader, PutTerminal, Get, Use, Cancel, Release, Join, JoinTimeout, Over, vars, gpuVars
    <2> QED BY <2>1 DEF Unchanged
  <1> QED BY <1>1, <1>2, <1>3, <1>4, <1>5

----------------------------------------------------------------------------
(* The budget *)

\* The tiles that Size counts.
Cells(B) == {x \in Batch \X TileNo : x[1] \in B /\ x[2] <= Tiles[x[1]]}

LEMMA CellsFinite == ASSUME NEW B PROVE IsFiniteSet(Cells(B)) /\ Size(B) \in Nat
  <1>1. IsFiniteSet(Batch) /\ IsFiniteSet(TileNo)
    BY NumberFacts, FS_Interval DEF Batch, TileNo
  <1>2. IsFiniteSet(Batch \X TileNo)
    BY <1>1, FS_Product
  <1>3. Cells(B) \in SUBSET (Batch \X TileNo)
    BY DEF Cells
  <1>4. IsFiniteSet(Cells(B))
    BY <1>2, <1>3, FS_Subset
  <1>5. Size(B) = Cardinality(Cells(B))
    BY DEF Size, Cells
  <1> QED BY <1>4, <1>5, FS_CardinalityType

\* Fewer batches are no larger.
LEMMA SizeMonotone == ASSUME NEW A, NEW B, A \subseteq B PROVE Size(A) <= Size(B)
  <1>1. Cells(A) \in SUBSET Cells(B)
    BY DEF Cells
  <1>2. IsFiniteSet(Cells(B))
    BY CellsFinite
  <1>3. Cardinality(Cells(A)) <= Cardinality(Cells(B))
    BY <1>1, <1>2, FS_Subset
  <1>4. Size(A) = Cardinality(Cells(A)) /\ Size(B) = Cardinality(Cells(B))
    BY DEF Size, Cells
  <1> QED BY <1>3, <1>4

\* One more batch adds at most its tiles.
LEMMA SizeAdd == ASSUME NEW A, NEW b \in Batch PROVE Size(A \cup {b}) <= Size(A) + Tiles[b]
  <1>1. Tiles[b] \in Nat /\ Tiles[b] > 0 /\ Tiles[b] <= Limit /\ Limit \in Nat
    BY BatchFacts, NumberFacts
  <1>2. Cells(A \cup {b}) = Cells(A) \cup Cells({b})
    BY DEF Cells
  <1>3. Cells({b}) = {b} \X (1..Tiles[b])
    <2>1. ASSUME NEW x \in Cells({b}) PROVE x \in {b} \X (1..Tiles[b])
      <3>1. x \in Batch \X TileNo /\ x[1] = b /\ x[2] <= Tiles[x[1]]
        BY <2>1 DEF Cells
      <3>2. x[2] \in 1..Tiles[b]
        BY <1>1, <3>1 DEF TileNo
      <3> QED BY <3>1, <3>2
    <2>2. ASSUME NEW x \in {b} \X (1..Tiles[b]) PROVE x \in Cells({b})
      <3>1. x[1] = b /\ x[2] \in 1..Tiles[b] /\ x = <<x[1], x[2]>>
        BY <2>2
      <3>2. x[2] \in TileNo /\ x[2] <= Tiles[b]
        BY <1>1, <3>1 DEF TileNo
      <3>3. x \in Batch \X TileNo
        BY <3>1, <3>2
      <3> QED BY <3>1, <3>2, <3>3 DEF Cells
    <2> QED BY <2>1, <2>2
  <1>4. Cardinality(Cells({b})) = Tiles[b]
    <2>1. IsFiniteSet({b}) /\ Cardinality({b}) = 1
      BY FS_Singleton
    <2>2. IsFiniteSet(1..Tiles[b]) /\ Cardinality(1..Tiles[b]) = Tiles[b]
      <3>1. 1 \in Int /\ Tiles[b] \in Int /\ ~(1 > Tiles[b]) /\ Tiles[b] - 1 + 1 = Tiles[b]
        BY <1>1
      <3>2. Cardinality(1..Tiles[b]) = IF 1 > Tiles[b] THEN 0 ELSE Tiles[b] - 1 + 1
        BY <3>1, FS_Interval
      <3> QED BY <3>1, <3>2, FS_Interval
    <2>3. Cardinality({b} \X (1..Tiles[b])) = Tiles[b]
      <3> DEFINE S == {b}
                 T == 1..Tiles[b]
      <3>1. IsFiniteSet(S) /\ Cardinality(S) = 1 /\ IsFiniteSet(T) /\ Cardinality(T) = Tiles[b]
        BY <2>1, <2>2
      <3> HIDE DEF S, T
      <3>2. Cardinality(S \X T) = Cardinality(S) * Cardinality(T)
        BY <3>1, FS_Product
      <3>3. Cardinality(S \X T) = Tiles[b]
        BY <1>1, <3>1, <3>2
      <3> QED BY <3>3 DEF S, T
    <2> QED BY <1>3, <2>3
  <1>5. IsFiniteSet(Cells(A)) /\ IsFiniteSet(Cells({b}))
    BY CellsFinite
  <1>6. /\ Cardinality(Cells(A) \cup Cells({b}))
               = Cardinality(Cells(A)) + Cardinality(Cells({b})) - Cardinality(Cells(A) \cap Cells({b}))
        /\ Cardinality(Cells(A)) \in Nat
        /\ Cardinality(Cells(A) \cap Cells({b})) \in Nat
    <2>1. IsFiniteSet(Cells(A) \cap Cells({b}))
      BY <1>5, FS_Intersection
    <2> QED BY <1>5, <2>1, FS_Union, FS_CardinalityType
  <1>7. Size(A \cup {b}) = Cardinality(Cells(A) \cup Cells({b})) /\ Size(A) = Cardinality(Cells(A))
    BY <1>2 DEF Size, Cells
  <1> QED BY <1>1, <1>4, <1>6, <1>7

\* A storage lives from its allocation on: no other step brings one to life.
LEMMA AliveBefore ==
    ASSUME TypeOK, Turns, Next, ~NextStarts, NEW b \in Batch, Alive(b)'
    PROVE  Alive(b)
  <1>1. Small /\ ready \in Items /\ b \in Nat /\ b > 0
    BY SmallType, NumberFacts DEF TypeOK, Items, Batch
  <1>2. CASE Acquire
    BY <1>1, <1>2 DEF Acquire, Alive, Referenced, Turns, Small, pumpVars, queueVars, consVars, gpuVars
  <1>3. CASE NextEnds
    BY <1>1, <1>3 DEF NextEnds, Alive, Referenced, Turns, Small, pumpVars, queueVars, consVars, gpuVars
  <1>4. CASE NextFails
    BY <1>1, <1>4 DEF NextFails, Alive, Referenced, Turns, Small, pumpVars, queueVars, consVars, gpuVars
  <1>5. CASE NextStarts
    BY <1>5
  <1>6. CASE FillTile
    BY <1>1, <1>6 DEF FillTile, Alive, Referenced, Turns, Small, pumpVars, queueVars, consVars, gpuVars
  <1>7. CASE TileRead
    BY <1>1, <1>7 DEF TileRead, Alive, Referenced, Turns, Small, pumpVars, queueVars, consVars, gpuVars
  <1>8. CASE PutBatch
    <2>1. pump = "put" /\ pump' = "acquire" /\ UNCHANGED <<cur, cons, got, kept>>
          /\ (UNCHANGED ready \/ ready' = <<<<"tensor", cur>>>>)
      BY <1>8 DEF PutBatch, consVars
    <2>2. ready' = <<<<"tensor", b>>>> => UNCHANGED ready \/ b = cur
      <3>1. ASSUME ready' = <<<<"tensor", b>>>>, ready' = <<<<"tensor", cur>>>> PROVE b = cur
        <4>1. ready'[1][2] = b
          BY <3>1
        <4>2. ready'[1][2] = cur
          BY <3>1
        <4> QED BY <4>1, <4>2
      <3> QED BY <2>1, <3>1
    <2> QED BY <2>1, <2>2 DEF Alive, Referenced
  <1>9. CASE CloseReader
    BY <1>1, <1>9 DEF CloseReader, Alive, Referenced, Turns, Small, pumpVars, queueVars, consVars, gpuVars
  <1>10. CASE PutTerminal
    <2>1. UNCHANGED <<cur, cons, got, kept>> /\ pump = "terminal" /\ pump' = "exited"
      BY <1>10 DEF PutTerminal, consVars
    <2>2. ready' # <<<<"tensor", b>>>> \/ UNCHANGED ready
      <3>1. terminal # "tensor" /\ (UNCHANGED ready \/ ready' = <<<<terminal, 0>>>>)
        BY <1>1, <1>10 DEF PutTerminal, Small
      <3>2. ASSUME ready' = <<<<"tensor", b>>>>, ready' = <<<<terminal, 0>>>> PROVE FALSE
        <4>1. ready'[1][1] = "tensor"
          BY <3>2
        <4>2. ready'[1][1] = terminal
          BY <3>2
        <4> QED BY <3>1, <4>1, <4>2
      <3> QED BY <3>1, <3>2
    <2> QED BY <2>1, <2>2 DEF Alive, Referenced
  <1>11. CASE Get
    <2>1. ready' = <<>> /\ UNCHANGED <<pump, cur, kept>> /\ ready' # <<<<"tensor", b>>>>
      BY <1>11 DEF Get, pumpVars
    <2>2. \/ cons' = "use" /\ got' = cur /\ ready = <<<<"tensor", cur>>>>
          \/ cons' = "join"
      BY <1>11, GetFacts DEF GetsBatch, GetsEnd, Queued
    <2> QED BY <2>1, <2>2 DEF Alive, Referenced
  <1>12. CASE Use
    BY <1>1, <1>12 DEF Use, Alive, Referenced, Turns, Small, pumpVars, queueVars, consVars, gpuVars
  <1>13. CASE Cancel
    BY <1>1, <1>13 DEF Cancel, Alive, Referenced, Turns, Small, pumpVars, queueVars, consVars, gpuVars
  <1>14. CASE Join
    BY <1>1, <1>14 DEF Join, Alive, Referenced, Turns, Small, pumpVars, queueVars, consVars, gpuVars
  <1>15. CASE JoinTimeout
    BY <1>1, <1>15 DEF JoinTimeout, Alive, Referenced, Turns, Small, pumpVars, queueVars, consVars, gpuVars
  <1>16. CASE Upload
    BY <1>1, <1>16 DEF Upload, Alive, Referenced, Turns, Small, pumpVars, queueVars, consVars, gpuVars
  <1>17. CASE ReadViews
    BY <1>1, <1>17 DEF ReadViews, Alive, Referenced, Turns, Small, pumpVars, queueVars, consVars, gpuVars
  <1>18. CASE Over
    BY <1>1, <1>18 DEF Over, Alive, Referenced, Turns, Small, pumpVars, queueVars, consVars, gpuVars, vars
  <1>19. ASSUME NEW p \in Part, ReadPart(p) PROVE Alive(b)
    BY <1>1, <1>19 DEF ReadPart, Alive, Referenced, Turns, Small, pumpVars, queueVars, consVars, gpuVars
  <1>20. ASSUME NEW c \in Batch, Release(c) PROVE Alive(b)
    BY <1>1, <1>20 DEF Release, Alive, Referenced, Turns, Small, pumpVars, queueVars, consVars, gpuVars
  <1>21. ASSUME NEW f \in File, Change(f) PROVE Alive(b)
    BY <1>1, <1>21 DEF Change, Alive, Referenced, Turns, Small, pumpVars, queueVars, consVars, gpuVars
  <1> QED BY <1>2, <1>3, <1>4, <1>5, <1>6, <1>7, <1>8, <1>9, <1>10, <1>11, <1>12, <1>13, <1>14, <1>15, <1>16, <1>17, <1>18, <1>19, <1>20, <1>21 DEF Next, Pump, Consumer, Gpu

LEMMA ChargedStep ==
    ASSUME TypeOK, Turns, Charged, Next
    PROVE  Charged'
  <1>1. cur \in Nat /\ cur <= N /\ N \in Nat
    BY NumberFacts DEF TypeOK
  <1>2. CASE NextStarts
    <2>1. /\ cur' = cur + 1 /\ refs' = Collected \cup {cur + 1} /\ pump = "next"
          /\ UNCHANGED <<ready, cons, got, kept>> /\ pump' = "fill"
      BY <1>2 DEF NextStarts, queueVars, consVars
    <2>2. ASSUME NEW b \in 1..(cur + 1), Alive(b)', b # cur + 1 PROVE b \in Collected
      <3>1. b \in 1..cur
        BY <1>1, <2>2
      <3>2. Referenced(b)
        BY <2>1, <2>2 DEF Alive, Referenced
      <3>3. b \in refs
        BY <3>1, <3>2 DEF Alive, Charged
      <3> QED BY <3>2, <3>3 DEF Collected
    <2> QED BY <2>1, <2>2 DEF Charged
  <1>3. CASE NextFails
    <2>1. /\ cur' = cur /\ (UNCHANGED refs \/ Collected \subseteq refs') /\ pump = "next"
          /\ UNCHANGED <<ready, cons, got, kept>> /\ pump' = "close"
      BY <1>3 DEF NextFails, queueVars, consVars
    <2>2. ASSUME NEW b \in 1..cur, Alive(b)' PROVE b \in refs'
      <3>1. Referenced(b)
        BY <2>1, <2>2 DEF Alive, Referenced
      <3>2. b \in refs
        BY <2>2, <3>1 DEF Alive, Charged
      <3> QED BY <2>1, <3>1, <3>2 DEF Collected
    <2> QED BY <2>1, <2>2 DEF Charged
  <1>4. CASE ~NextStarts /\ ~NextFails
    <2>1. UNCHANGED <<cur, refs>>
      BY <1>4 DEF Next, Pump, Consumer, Gpu, Acquire, NextEnds, FillTile, TileRead, PutBatch, CloseReader, PutTerminal,
         Get, Use, Cancel, Release, Join, JoinTimeout, Upload, ReadViews, ReadPart, Change, Over, vars, pumpVars
    <2>2. ASSUME NEW b \in 1..cur, Alive(b)' PROVE b \in refs
      <3>1. b \in Batch
        BY <1>1, <2>2, NumberFacts DEF Batch
      <3>2. Alive(b)
        BY <1>4, <2>2, <3>1, AliveBefore
      <3> QED BY <2>2, <3>2 DEF Charged
    <2> QED BY <2>1, <2>2 DEF Charged
  <1> QED BY <1>2, <1>3, <1>4

\* reserve() weighs what is still referenced, and the batch's own tiles.
LEMMA OwnedStep ==
    ASSUME TypeOK, Turns, Turns', Charged, OwnedWithinBudget, Next
    PROVE  OwnedWithinBudget'
  <1> DEFINE A == {b \in 1..cur : Alive(b)}
  <1>1. cur \in Nat /\ cur <= N /\ N \in Nat /\ Limit \in Nat
    BY NumberFacts DEF TypeOK
  <1>2. cur' <= got' + 1
    BY DEF Turns
  <1>3. CASE NextStarts
    <2>1. /\ cur' = cur + 1 /\ Reserved(cur + 1) /\ pump = "next" /\ cur < N
          /\ UNCHANGED <<ready, cons, got, kept>> /\ pump' = "fill"
      BY <1>3 DEF NextStarts, queueVars, consVars
    <2>2. cur + 1 \in Batch
      BY <1>1, <2>1 DEF Batch
    <2>3. A' \subseteq Collected \cup {cur + 1}
      <3>1. ASSUME NEW b \in 1..(cur + 1), Alive(b)', b # cur + 1 PROVE b \in Collected
        <4>1. b \in 1..cur
          BY <1>1, <3>1
        <4>2. Referenced(b)
          BY <2>1, <3>1 DEF Alive, Referenced
        <4>3. b \in refs
          BY <4>1, <4>2 DEF Alive, Charged
        <4> QED BY <4>2, <4>3 DEF Collected
      <3> QED BY <2>1, <3>1
    <2>4. Size(Collected \cup {cur + 1}) <= Size(Collected) + Tiles[cur + 1]
      BY <2>2, SizeAdd
    <2>5. Size(A') <= Size(Collected \cup {cur + 1})
      BY <2>3, SizeMonotone
    <2>6. Size(Collected) + Tiles[cur + 1] <= Limit
      BY <2>1 DEF Reserved
    <2>7. /\ Size(A') \in Nat /\ Size(Collected \cup {cur + 1}) \in Nat /\ Size(Collected) \in Nat
          /\ Tiles[cur + 1] \in Nat
      BY <2>2, CellsFinite, BatchFacts
    <2>8. Size(A') <= Limit
      BY <1>1, <2>4, <2>5, <2>6, <2>7
    <2> QED BY <1>2, <2>8 DEF OwnedWithinBudget, Size
  <1>4. CASE ~NextStarts
    <2>1. UNCHANGED cur
      BY <1>4 DEF Next, Pump, Consumer, Gpu, Acquire, NextEnds, NextFails, FillTile, TileRead, PutBatch, CloseReader,
         PutTerminal, Get, Use, Cancel, Release, Join, JoinTimeout, Upload, ReadViews, ReadPart, Change, Over,
         vars, pumpVars
    <2>2. A' \subseteq A
      <3>1. ASSUME NEW b \in 1..cur, Alive(b)' PROVE Alive(b)
        <4>1. b \in Batch
          BY <1>1, <3>1 DEF Batch
        <4> QED BY <1>4, <3>1, <4>1, AliveBefore
      <3> QED BY <2>1, <3>1
    <2>3. Size(A') <= Size(A)
      BY <2>2, SizeMonotone
    <2>4. Size(A') \in Nat /\ Size(A) \in Nat
      BY CellsFinite
    <2>5. Size(A) <= Limit
      BY DEF OwnedWithinBudget
    <2>6. Size(A') <= Limit
      BY <1>1, <2>3, <2>4, <2>5
    <2> QED BY <1>2, <2>6 DEF OwnedWithinBudget, Size
  <1> QED BY <1>3, <1>4

----------------------------------------------------------------------------
(* The invariant *)

LEMMA InitInv == Init => StreamInv
  <1> SUFFICES ASSUME Init PROVE StreamInv
    OBVIOUS
  <1> USE NumberFacts
  <1>1. TypeOK
    <2>1. Nothing \in Content
      BY DEF Content
    <2>2. mem \in [Block -> [TileNo -> [Part -> Content]]] /\ tile \in [{0, 1} -> [Part -> Content]]
      BY <2>1 DEF Init
    <2>3. blk \in [Batch -> Block]
      BY DEF Init, Batch, Block
    <2>4. uploads \in Seq(Copy) /\ uses \in Seq(Batch)
      BY DEF Init
    <2>5. offset \in (0..N) \X Nat
      BY DEF Init
    <2> QED BY <2>2, <2>3, <2>4, <2>5 DEF Init, TypeOK
  <1>2. ready = <<>> /\ cur = 0 /\ got = 0 /\ 1..cur = {} /\ 1..got = {} /\ uses = <<>> /\ uploads = <<>>
    BY DEF Init
  <1>3. DOMAIN uses = {} /\ DOMAIN uploads = {}
    BY <1>2
  <1>4. Turns
    BY <1>2, <1>3 DEF Init, Turns, Queued
  <1>5. Reading
    BY <1>2 DEF Init, Reading
  <1>6. Copies /\ AllLanded /\ Apart /\ CopiesHeld /\ Handed
    <2>1. \A b \in Batch : ~Holds(b) /\ ~Uploading(b)
      BY <1>2, <1>3 DEF Holds, Uploading
    <2> QED BY <1>2, <1>3, <2>1 DEF Init, Copies, AllLanded, Apart, CopiesHeld, Handed
  <1>7. Ending
    BY <1>2 DEF Init, Ending
  <1>8. Unchanged /\ UsedIntact
    BY DEF Init, Unchanged, UsedIntact, Nothing
  <1>9. Charged
    BY <1>2 DEF Charged
  <1>10. OwnedWithinBudget
    <2>1. {b \in 1..cur : Alive(b)} = {}
      BY <1>2
    <2>2. Cells({}) = {}
      BY DEF Cells
    <2>3. Size({}) = 0
      BY <2>2, FS_EmptySet DEF Size, Cells
    <2> QED BY <1>2, <2>1, <2>3 DEF OwnedWithinBudget
  <1> QED BY <1>1, <1>4, <1>5, <1>6, <1>7, <1>8, <1>9, <1>10 DEF StreamInv, BudgetOK

LEMMA NextInv == StreamInv /\ [Next]_vars => StreamInv'
  <1>1. ASSUME StreamInv, Next PROVE StreamInv'
    <2>1. /\ TypeOK /\ OwnedWithinBudget /\ Charged /\ Turns /\ Reading /\ Copies /\ AllLanded /\ Apart
          /\ CopiesHeld /\ Handed /\ Ending /\ Unchanged /\ UsedIntact
      BY <1>1 DEF StreamInv, BudgetOK
    <2>2. TypeOK'
      BY <1>1, TypeStep
    <2>3. Turns'
      BY <1>1, <2>1, TurnsStep
    <2>4. Reading'
      BY <1>1, <2>1, ReadingStep
    <2>5. Copies'
      BY <1>1, <2>1, CopiesStep
    <2>6. AllLanded'
      BY <1>1, <2>1, LandedStep
    <2>7. Apart' /\ CopiesHeld'
      BY <1>1, <2>1, ApartStep, CopiesHeldStep
    <2>8. Handed'
      BY <1>1, <2>1, HandedStep
    <2>9. Ending'
      BY <1>1, <2>1, EndingStep
    <2>10. Unchanged' /\ UsedIntact'
      BY <1>1, <2>1, UnchangedStep, UsedStep
    <2>11. Charged'
      BY <1>1, <2>1, ChargedStep
    <2>12. OwnedWithinBudget'
      BY <1>1, <2>1, <2>3, OwnedStep
    <2> QED BY <2>2, <2>3, <2>4, <2>5, <2>6, <2>7, <2>8, <2>9, <2>10, <2>11, <2>12 DEF StreamInv, BudgetOK
  <1>2. ASSUME StreamInv, UNCHANGED vars PROVE StreamInv'
    <2>1. UNCHANGED <<pump, terminal, cur, pos, nextSlot, fd, offset, reads, failed, refs, blk, ready, slot, stop,
                      cons, got, kept, result, tile, uploads, mem, uses, used, changed>>
      BY <1>2 DEF vars, pumpVars, queueVars, consVars, gpuVars
    <2>2. /\ TypeOK /\ OwnedWithinBudget /\ Charged /\ Turns /\ Reading /\ Copies /\ AllLanded /\ Apart
          /\ CopiesHeld /\ Handed /\ Ending /\ Unchanged /\ UsedIntact
      BY <1>2 DEF StreamInv, BudgetOK
    <2>3. TypeOK'
      BY <2>1, <2>2 DEF TypeOK
    <2>4. OwnedWithinBudget' /\ Charged'
      BY <2>1, <2>2 DEF OwnedWithinBudget, Charged, Alive, Referenced
    <2>5. Turns' /\ Handed' /\ Ending' /\ Unchanged' /\ UsedIntact'
      BY <2>1, <2>2 DEF Turns, Handed, Ending, Unchanged, UsedIntact, Queued, InUse
    <2>6. Reading' /\ Copies'
      BY <2>1, <2>2 DEF Reading, Copies, Queued, TileFree
    <2>7. AllLanded' /\ Apart' /\ CopiesHeld'
      BY <2>1, <2>2 DEF AllLanded, Apart, CopiesHeld, Landed, Filled, Holds, Uploading, InUse, Referenced
    <2> QED BY <2>3, <2>4, <2>5, <2>6, <2>7 DEF StreamInv, BudgetOK
  <1> QED BY <1>1, <1>2

\* The invariant of the stream holds in every reachable state.
THEOREM StreamInvariant == Spec => []StreamInv
  BY InitInv, NextInv, PTL DEF Spec

\* Whatever the consumer's stream reads of a batch are that batch's bytes: the
\* double-buffered tiles, the upload stream and the caching allocator never mix two.
THEOREM ViewsAreIntact == Spec => []UsedIntact
  <1>1. StreamInv => UsedIntact
    BY DEF StreamInv
  <1> QED BY <1>1, StreamInvariant, PTL

\* The storages alive never exceed owned_limit, kept views included, and the pump
\* is at most one batch ahead.
THEOREM BudgetIsKept == Spec => []BudgetOK
  <1>1. StreamInv => BudgetOK
    BY DEF StreamInv
  <1> QED BY <1>1, StreamInvariant, PTL

\* A stream that completes handed over every batch, as the files were inspected.
THEOREM CompletionIsWhole == Spec => []CompleteIsWhole
  <1>1. StreamInv => CompleteIsWhole
    <2> SUFFICES ASSUME StreamInv, result = "complete" PROVE CompleteIsWhole
      BY DEF CompleteIsWhole
    <2>1. TypeOK /\ Handed /\ Ending /\ Unchanged /\ UsedIntact
      BY DEF StreamInv, BudgetOK
    <2>2. changed = {} /\ pump = "exited" /\ terminal = "done" /\ got = N /\ fd = NoFile
      BY <2>1 DEF Ending
    <2>3. ASSUME NEW b \in Batch
          PROVE  used[b] = "right" \/ (used[b] = "no" /\ \E i \in DOMAIN uses : uses[i] = b)
      <3>1. used[b] \in {"no", "right", "changed", "wrong"} /\ used[b] # "wrong" /\ used[b] # "changed"
        BY <2>1, <2>2 DEF TypeOK, UsedIntact, Unchanged
      <3>2. used[b] # "no" \/ InUse(b)
        BY <2>1, <2>2 DEF Handed, Batch, Ending
      <3> QED BY <3>1, <3>2 DEF InUse
    <2> QED BY <2>2, <2>3 DEF CompleteIsWhole
  <1> QED BY <1>1, StreamInvariant, PTL

\* When the stream has ended other than by abort nothing of the reader is in flight.
THEOREM EndIsQuiet == Spec => []QuietAtEnd
  <1>1. StreamInv => QuietAtEnd
    <2> SUFFICES ASSUME StreamInv, cons = "ended", result # "abort"
                 PROVE  pump = "exited" /\ reads = {} /\ uploads = <<>> /\ fd = NoFile
      BY DEF QuietAtEnd
    <2>1. pump = "exited" /\ uploads = <<>> /\ fd = NoFile
      BY DEF StreamInv, Ending
    <2> QED BY <2>1 DEF StreamInv, Reading
  <1> QED BY <1>1, StreamInvariant, PTL
============================================================================
