------------------------------ MODULE DirectStream ------------------------------
(***************************************************************************)
(* stream() of runtime/nvme_loader/spark_nvme/transport.py: the extents of  *)
(* an artifact are read into `depth` pinned staging slots by as many pool   *)
(* threads, checked against their digests, and copied to the GPU storages   *)
(* on one copy stream.  The main thread collects finished reads, enqueues   *)
(* the copy and its event, and submits the next extent into the same slot.  *)
(***************************************************************************)
EXTENDS Naturals, Sequences, FiniteSets

CONSTANTS
    NumExtents,   \* the extents are 1..NumExtents, taken in this order
    Depth         \* the number of staging slots and of pool threads

Slot == 1..Depth
Extent == 1..NumExtents
\* What a slot or a destination can hold: the bytes of an extent as published,
\* bytes being overwritten or damaged, or what was there before.
Torn == 0
Bytes == Extent \cup {Torn}

VARIABLES
    damaged,   \* extents whose bytes on disk do not match their digest
    next,      \* the next extent to submit
    task,      \* slot -> its read: [at, extent]
    stage,     \* slot -> the bytes in it
    copies,    \* the copy stream: <<slot, extent>> enqueued and not done
    dest,      \* extent -> the bytes in its destination, once written
    main,      \* where the main thread is
    fdOpen

vars == <<damaged, next, task, stage, copies, dest, main, fdOpen>>

Task == [at : {"none", "submitted", "reading", "good", "bad"}, extent : 0..NumExtents]
NoTask == [at |-> "none", extent |-> 0]
Unwritten == [bytes |-> Torn, written |-> FALSE]

TypeOK ==
    /\ damaged \subseteq Extent /\ next \in 1..(NumExtents + 1)
    /\ task \in [Slot -> Task] /\ stage \in [Slot -> Bytes]
    /\ \A i \in DOMAIN copies : copies[i] \in Slot \X Extent
    /\ dest \in [Extent -> [bytes : Bytes, written : BOOLEAN]]
    /\ main \in {"start", "loop", "unwind", "returned", "raised"} /\ fdOpen \in BOOLEAN

Init ==
    /\ damaged \in SUBSET Extent
    /\ next = 1 /\ task = [s \in Slot |-> NoTask] /\ stage = [s \in Slot |-> Torn]
    /\ copies = <<>> /\ dest = [e \in Extent |-> Unwritten]
    /\ main = "start" /\ fdOpen = FALSE

----------------------------------------------------------------------------
(* The main thread.                                                         *)

\* Open the file and submit one read per slot while there are extents.
Start ==
    /\ main = "start"
    /\ task' = [s \in Slot |-> IF s <= NumExtents THEN [at |-> "submitted", extent |-> s] ELSE NoTask]
    /\ next' = IF Depth < NumExtents THEN Depth + 1 ELSE NumExtents + 1
    /\ fdOpen' = TRUE /\ main' = "loop"
    /\ UNCHANGED <<damaged, stage, copies, dest>>

\* A finished read: enqueue the copy with its event, submit the next extent.
Collect(s) ==
    /\ main = "loop" /\ task[s].at = "good"
    /\ copies' = Append(copies, <<s, task[s].extent>>)
    /\ task' = [task EXCEPT ![s] = IF next <= NumExtents
                                   THEN [at |-> "submitted", extent |-> next] ELSE NoTask]
    /\ next' = IF next <= NumExtents THEN next + 1 ELSE next
    /\ UNCHANGED <<damaged, stage, dest, main, fdOpen>>

\* A failed read raises out of the loop; the pool waits for the other reads.
CollectBad(s) ==
    /\ main = "loop" /\ task[s].at = "bad"
    /\ task' = [task EXCEPT ![s] = NoTask]
    /\ main' = "unwind"
    /\ UNCHANGED <<damaged, next, stage, copies, dest, fdOpen>>

Running(s) == task[s].at \in {"submitted", "reading"}

\* The pool has shut down and the copy stream is drained before the file closes
\* and the staging memory goes.
Drained == (\A s \in Slot : ~Running(s)) /\ copies = <<>>

Return ==
    /\ main = "loop" /\ \A s \in Slot : task[s].at = "none"
    /\ Drained
    /\ main' = "returned" /\ fdOpen' = FALSE
    /\ UNCHANGED <<damaged, next, task, stage, copies, dest>>

Raise ==
    /\ main = "unwind"
    /\ Drained
    /\ main' = "raised" /\ fdOpen' = FALSE
    /\ UNCHANGED <<damaged, next, task, stage, copies, dest>>

----------------------------------------------------------------------------
(* A pool thread, and the GPU.                                              *)

\* Mutant of EventDone: the event is not waited for.
NoEvent(s) == TRUE

\* The event of the slot's last copy: wait until the copy is done.
EventDone(s) == \A i \in DOMAIN copies : copies[i][1] # s

\* The read overwrites the slot from here on.
ReadBegins(s) ==
    /\ task[s].at = "submitted"
    /\ EventDone(s)
    /\ task' = [task EXCEPT ![s].at = "reading"]
    /\ stage' = [stage EXCEPT ![s] = Torn]
    /\ UNCHANGED <<damaged, next, copies, dest, main, fdOpen>>

\* The bytes are there and match their digest; otherwise the read raises, as it
\* does at a short or failed read.
ReadEnds(s) ==
    /\ task[s].at = "reading"
    /\ \/ /\ fdOpen /\ task[s].extent \notin damaged
          /\ stage' = [stage EXCEPT ![s] = task[s].extent]
          /\ task' = [task EXCEPT ![s].at = "good"]
       \/ task' = [task EXCEPT ![s].at = "bad"] /\ UNCHANGED stage
    /\ UNCHANGED <<damaged, next, copies, dest, main, fdOpen>>

\* The oldest copy reads its slot now.
CopyDone ==
    /\ copies # <<>>
    /\ LET s == Head(copies)[1] e == Head(copies)[2] IN
       dest' = [dest EXCEPT ![e] = [bytes |-> stage[s], written |-> TRUE]]
    /\ copies' = Tail(copies)
    /\ UNCHANGED <<damaged, next, task, stage, main, fdOpen>>

\* Main thread: it gets on as long as the pool and the GPU do.
Main == Start \/ Return \/ Raise \/ \E s \in Slot : Collect(s) \/ CollectBad(s)
Pool(s) == ReadBegins(s) \/ ReadEnds(s)

Next == Main \/ CopyDone \/ \E s \in Slot : Pool(s)
=============================================================================
