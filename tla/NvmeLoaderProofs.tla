---------------------------- MODULE NvmeLoaderProofs ----------------------------
(***************************************************************************)
(* Proofs about NvmeLoader and the transfer it composes, for any number of  *)
(* extents, staging slots and faults.                                       *)
(***************************************************************************)
EXTENDS NvmeLoader, TLAPS

Slot == 1..Depth
Extent == 1..NumExtents
Destination == [bytes : Extent \cup {0}, written : BOOLEAN]
Task == [at : {"none", "submitted", "reading", "good", "bad"}, extent : 0..NumExtents]

StreamType ==
    /\ next \in 1..(NumExtents + 1)
    /\ task \in [Slot -> Task] /\ stage \in [Slot -> Extent \cup {0}]
    /\ copies \in Seq(Slot \X Extent)
    /\ dest \in [Extent -> Destination]
    /\ main \in {"start", "loop", "unwind", "returned", "raised"} /\ fdOpen \in BOOLEAN

\* A copy on the stream still finds its extent in its slot: the slot's next read
\* has not begun.
CopiesFit ==
    \A i \in DOMAIN copies :
        /\ stage[copies[i][1]] = copies[i][2]
        /\ task[copies[i][1]].at \in {"none", "submitted"}

\* A read is of an extent, and a good one has left it in its slot.
TasksFit ==
    /\ \A s \in Slot : task[s].at # "none" => task[s].extent \in Extent
    /\ \A s \in Slot : task[s].at = "good" => stage[s] = task[s].extent

\* What was written is the extent's own bytes.
DestFits == \A e \in Extent : dest[e].written => dest[e].bytes = e

\* An extent submitted by the loop is being read, being copied, or there; a slot
\* is idle only when nothing is left to submit.
Accounted ==
    main = "loop" =>
        /\ \A e \in Extent : e < next =>
              \/ \E s \in Slot : task[s].at # "none" /\ task[s].extent = e
              \/ \E i \in DOMAIN copies : copies[i][2] = e
              \/ dest[e].written
        /\ \A s \in Slot : task[s].at = "none" => next = NumExtents + 1

\* Before the stream starts nothing is written; after it nothing is in flight, and
\* everything is written if it returned.
EndsFit ==
    /\ main = "start" => copies = <<>> /\ \A e \in Extent : ~dest[e].written
    /\ main = "start" => \A s \in Slot : task[s].at = "none"
    /\ main \in {"returned", "raised"} => copies = <<>> /\ \A s \in Slot : ~DS!Running(s)
    /\ main = "returned" => \A e \in Extent : dest[e].written

StreamInv == StreamType /\ CopiesFit /\ TasksFit /\ DestFits /\ Accounted /\ EndsFit

USE DEF Slot, Extent, Task, Destination, DS!Slot, DS!Extent, DS!Bytes, DS!Torn

\* There are extents and slots.
LEMMA Sizes == NumExtents \in Nat \ {0} /\ Depth \in Nat \ {0}
  BY LoaderConstants DEF LoaderConstants

USE Sizes

\* Append keeps a sequence's elements and adds one behind them.
LEMMA AppendFacts ==
    ASSUME NEW S, NEW q \in Seq(S), NEW x \in S
    PROVE  /\ Len(Append(q, x)) = Len(q) + 1
           /\ \A i \in DOMAIN q : i \in DOMAIN Append(q, x) /\ Append(q, x)[i] = q[i]
           /\ Append(q, x)[Len(q) + 1] = x /\ Len(q) + 1 \in DOMAIN Append(q, x)
           /\ \A i \in DOMAIN Append(q, x) : i \in DOMAIN q \/ i = Len(q) + 1
  OBVIOUS

\* Nothing was started yet.
LEMMA FreshStream ==
    ASSUME next = 1, task = [s \in Slot |-> DS!NoTask], stage = [s \in Slot |-> 0], copies = <<>>,
           dest = [e \in Extent |-> DS!Unwritten], main = "start", fdOpen = FALSE
    PROVE  StreamInv
  <1>1. DS!NoTask \in Task /\ DS!Unwritten \in Destination /\ ~DS!Unwritten.written /\ DS!NoTask.at = "none"
    BY DEF DS!NoTask, DS!Unwritten
  <1>2. StreamType
    <2>1. task \in [Slot -> Task] /\ stage \in [Slot -> Extent \cup {0}] /\ dest \in [Extent -> Destination]
      BY <1>1
    <2>2. next \in 1..(NumExtents + 1) /\ copies \in Seq(Slot \X Extent)
      OBVIOUS
    <2> QED
      BY <2>1, <2>2 DEF StreamType
  <1> QED
    BY <1>1, <1>2 DEF StreamInv, CopiesFit, TasksFit, DestFits, Accounted, EndsFit

\* Opening the file submits one read per slot.
LEMMA StartStream ==
    ASSUME StreamInv, DS!Start
    PROVE  StreamInv'
  <1> USE DEF StreamInv
  <1>1. /\ main = "start" /\ main' = "loop" /\ copies' = <<>> /\ copies = <<>> /\ dest' = dest /\ stage' = stage
        /\ task' = [s \in Slot |-> IF s <= NumExtents THEN [at |-> "submitted", extent |-> s] ELSE DS!NoTask]
        /\ next' = IF Depth < NumExtents THEN Depth + 1 ELSE NumExtents + 1
    BY DEF DS!Start, EndsFit
  <1>2. \A s \in Slot : /\ s <= NumExtents => task'[s] = [at |-> "submitted", extent |-> s]
                        /\ ~(s <= NumExtents) => task'[s] = [at |-> "none", extent |-> 0]
    BY <1>1 DEF DS!NoTask
  <1>3. StreamType'
    <2>1. task' \in [Slot -> Task]
      BY <1>1 DEF DS!NoTask
    <2>2. next' \in 1..(NumExtents + 1)
      BY <1>1
    <2> QED
      BY <1>1, <2>1, <2>2 DEF StreamType, DS!Start
  <1>4. CopiesFit' /\ DestFits' /\ EndsFit'
    BY <1>1 DEF CopiesFit, DestFits, EndsFit
  <1>5. TasksFit'
    <2>1. ASSUME NEW s \in Slot, task'[s].at # "none"
          PROVE  s \in Extent /\ task'[s].extent = s /\ task'[s].at = "submitted"
      <3>1. s <= NumExtents
        <4> SUFFICES ASSUME ~(s <= NumExtents) PROVE FALSE
          OBVIOUS
        <4>1. task'[s] = [at |-> "none", extent |-> 0]
          BY <1>2
        <4> QED
          BY <4>1, <2>1
      <3>2. task'[s] = [at |-> "submitted", extent |-> s]
        BY <1>2, <3>1
      <3> QED
        BY <3>1, <3>2
    <2> QED
      BY <2>1 DEF TasksFit
  <1>6. Accounted'
    <2>1. \A e \in Extent : e < next' => e \in Slot /\ task'[e].at # "none" /\ task'[e].extent = e
      BY <1>1, <1>2
    <2>2. \A s \in Slot : task'[s].at = "none" => next' = NumExtents + 1
      BY <1>1, <1>2
    <2> QED
      BY <2>1, <2>2 DEF Accounted
  <1> QED
    BY <1>3, <1>4, <1>5, <1>6

\* A good read is handed to the copy stream and its slot gets the next extent.
LEMMA CollectStream ==
    ASSUME StreamInv, NEW s \in Slot, DS!Collect(s)
    PROVE  StreamInv'
  <1> USE DEF StreamInv
  <1> DEFINE e0 == task[s].extent
             t0 == IF next <= NumExtents THEN [at |-> "submitted", extent |-> next] ELSE DS!NoTask
  <1>1. /\ main = "loop" /\ task[s].at = "good" /\ copies' = Append(copies, <<s, e0>>)
        /\ task' = [task EXCEPT ![s] = t0]
        /\ next' = IF next <= NumExtents THEN next + 1 ELSE next
        /\ stage' = stage /\ dest' = dest /\ main' = main /\ fdOpen' = fdOpen
    BY DEF DS!Collect
  <1>2. e0 \in Extent /\ stage[s] = e0 /\ t0 \in Task /\ t0.at \in {"none", "submitted"}
        /\ (t0.at # "none" => t0.extent \in Extent /\ t0.extent = next)
        /\ (t0.at = "none" => next = NumExtents + 1) /\ (next <= NumExtents => t0.at # "none")
    BY <1>1 DEF TasksFit, StreamType, DS!NoTask
  <1>a. copies \in Seq(Slot \X Extent) /\ task \in [Slot -> Task] /\ next \in 1..(NumExtents + 1)
    BY DEF StreamType
  <1>b. <<s, e0>> \in Slot \X Extent
    BY <1>2
  <1> HIDE DEF t0, e0
  <1>3. /\ copies' \in Seq(Slot \X Extent) /\ Len(copies') = Len(copies) + 1
        /\ \A i \in DOMAIN copies : i \in DOMAIN copies' /\ copies'[i] = copies[i]
        /\ copies'[Len(copies) + 1] = <<s, e0>> /\ Len(copies) + 1 \in DOMAIN copies'
        /\ \A i \in DOMAIN copies' : i \in DOMAIN copies \/ i = Len(copies) + 1
    <2>1. Append(copies, <<s, e0>>) \in Seq(Slot \X Extent)
      BY <1>a, <1>b
    <2> DEFINE S == Slot \X Extent
               x == <<s, e0>>
    <2>a. copies \in Seq(S) /\ x \in S
      BY <1>a, <1>b
    <2> HIDE DEF S, x
    <2>2. /\ Len(Append(copies, x)) = Len(copies) + 1
          /\ \A i \in DOMAIN copies : i \in DOMAIN Append(copies, x) /\ Append(copies, x)[i] = copies[i]
          /\ Append(copies, x)[Len(copies) + 1] = x /\ Len(copies) + 1 \in DOMAIN Append(copies, x)
          /\ \A i \in DOMAIN Append(copies, x) : i \in DOMAIN copies \/ i = Len(copies) + 1
      BY <2>a, AppendFacts
    <2> USE DEF x
    <2> QED
      BY <1>1, <2>1, <2>2, Zenon
  <1>4. /\ task'[s] = t0 /\ \A r \in Slot : r # s => task'[r] = task[r]
        /\ task' \in [Slot -> Task]
    BY <1>1, <1>2, <1>a
  <1>5. StreamType'
    <2>1. next' \in 1..(NumExtents + 1)
      BY <1>1, <1>a
    <2> QED
      BY <1>1, <1>3, <1>4, <2>1 DEF StreamType
  <1>6. CopiesFit'
    <2> SUFFICES ASSUME NEW i \in DOMAIN copies'
                 PROVE  /\ stage[copies'[i][1]] = copies'[i][2]
                        /\ task'[copies'[i][1]].at \in {"none", "submitted"}
      BY <1>1 DEF CopiesFit
    <2>1. CASE i = Len(copies) + 1
      BY <2>1, <1>2, <1>3, <1>4
    <2>2. CASE i \in DOMAIN copies
      <3>1. copies[i][1] \in Slot
        BY <2>2, <1>a
      <3>2. copies'[i] = copies[i]
        BY <2>2, <1>3
      <3>3. CASE copies[i][1] = s
        BY <2>2, <3>2, <3>3, <1>2, <1>4 DEF CopiesFit
      <3>4. CASE copies[i][1] # s
        BY <2>2, <3>1, <3>2, <3>4, <1>4 DEF CopiesFit
      <3> QED
        BY <3>3, <3>4
    <2> QED
      BY <1>3, <2>1, <2>2
  <1>7. TasksFit'
    BY <1>1, <1>2, <1>4 DEF TasksFit
  <1>8. DestFits' /\ EndsFit'
    BY <1>1 DEF DestFits, EndsFit
  <1>9. Accounted'
    <2>1. ASSUME NEW e \in Extent, e < next'
          PROVE  \/ \E r \in Slot : task'[r].at # "none" /\ task'[r].extent = e
                 \/ \E i \in DOMAIN copies' : copies'[i][2] = e
                 \/ dest'[e].written
      <3>1. CASE e = next
        BY <3>1, <1>2, <1>4
      <3>2. CASE e < next
        <4>1. CASE \E i \in DOMAIN copies : copies[i][2] = e
          BY <4>1, <1>3
        <4>2. CASE dest[e].written
          BY <4>2, <1>1
        <4>3. ASSUME NEW r \in Slot, task[r].at # "none", task[r].extent = e
              PROVE  (\E q \in Slot : task'[q].at # "none" /\ task'[q].extent = e)
                     \/ \E i \in DOMAIN copies' : copies'[i][2] = e
          <5>1. CASE r = s
            <6>1. copies'[Len(copies) + 1][2] = e
              BY <4>3, <5>1, <1>3 DEF e0
            <6> QED
              BY <6>1, <1>3
          <5>2. CASE r # s
            BY <4>3, <5>2, <1>4
          <5> QED
            BY <5>1, <5>2
        <4> QED
          BY <3>2, <1>1, <4>1, <4>2, <4>3 DEF Accounted
      <3> QED
        BY <2>1, <3>1, <3>2, <1>1, <1>a
    <2>2. \A r \in Slot : task'[r].at = "none" => next' = NumExtents + 1
      BY <1>1, <1>2, <1>a, <1>4 DEF Accounted
    <2> QED
      BY <2>1, <2>2 DEF Accounted
  <1> QED
    BY <1>5, <1>6, <1>7, <1>8, <1>9

\* A failed read ends the loop.
LEMMA CollectBadStream ==
    ASSUME StreamInv, NEW s \in Slot, DS!CollectBad(s)
    PROVE  StreamInv'
  <1> USE DEF StreamInv
  <1>1. /\ main' = "unwind" /\ UNCHANGED <<next, stage, copies, dest, fdOpen>>
        /\ task' = [task EXCEPT ![s] = [at |-> "none", extent |-> 0]]
    BY DEF DS!CollectBad, DS!NoTask
  <1>2. /\ task' \in [Slot -> Task] /\ task'[s] = [at |-> "none", extent |-> 0]
        /\ \A r \in Slot : r # s => task'[r] = task[r]
    BY <1>1 DEF StreamType
  <1>3. \A i \in DOMAIN copies : copies[i][1] \in Slot
    BY DEF StreamType
  <1>4. task'[s].at = "none"
    BY <1>2
  <1>5. StreamType'
    BY <1>1, <1>2 DEF StreamType
  <1>6. CopiesFit'
    BY <1>1, <1>2, <1>3, <1>4 DEF CopiesFit
  <1>7. TasksFit'
    BY <1>1, <1>2, <1>4 DEF TasksFit
  <1>8. DestFits' /\ Accounted' /\ EndsFit'
    BY <1>1 DEF DestFits, Accounted, EndsFit
  <1> QED
    BY <1>5, <1>6, <1>7, <1>8

\* stream() returns or raises with nothing in flight; it returns with every extent
\* written.
LEMMA EndStream ==
    ASSUME StreamInv, DS!Return \/ DS!Raise
    PROVE  StreamInv'
  <1> USE DEF StreamInv
  <1>1. /\ UNCHANGED <<next, task, stage, copies, dest>> /\ fdOpen' \in BOOLEAN
        /\ main' \in {"returned", "raised"} /\ copies = <<>>
        /\ \A s \in Slot : ~DS!Running(s)
    BY DEF DS!Return, DS!Raise, DS!Drained
  <1>2. StreamType' /\ CopiesFit' /\ TasksFit' /\ DestFits' /\ Accounted'
    BY <1>1 DEF StreamType, CopiesFit, TasksFit, DestFits, Accounted
  <1>3. ASSUME main' = "returned" PROVE \A e \in Extent : dest[e].written
    <2>1. main = "loop" /\ \A s \in Slot : task[s].at = "none"
      BY <1>3 DEF DS!Return, DS!Raise
    <2>2. 1 \in Slot
      OBVIOUS
    <2>3. next = NumExtents + 1
      BY <2>1, <2>2 DEF Accounted
    <2>4. \A e \in Extent : e < next
      BY <2>3
    <2> QED
      BY <1>1, <2>1, <2>4 DEF Accounted
  <1>4. EndsFit'
    BY <1>1, <1>3 DEF EndsFit, DS!Running
  <1> QED
    BY <1>2, <1>4

\* A read begins only when no copy out of its slot is left.
LEMMA ReadBeginsStream ==
    ASSUME StreamInv, NEW s \in Slot, DS!ReadBegins(s)
    PROVE  StreamInv'
  <1> USE DEF StreamInv
  <1> DEFINE e0 == task[s].extent
  <1>1. /\ task[s].at = "submitted" /\ UNCHANGED <<next, copies, dest, main, fdOpen>>
        /\ task' = [task EXCEPT ![s].at = "reading"] /\ stage' = [stage EXCEPT ![s] = 0]
        /\ \A i \in DOMAIN copies : copies[i][1] # s
    BY DEF DS!ReadBegins, DS!EventDone
  <1>2. task[s] \in Task
    BY DEF StreamType
  <1>3. /\ task' \in [Slot -> Task] /\ stage' \in [Slot -> Extent \cup {0}]
        /\ task'[s] = [at |-> "reading", extent |-> e0]
        /\ \A r \in Slot : r # s => task'[r] = task[r] /\ stage'[r] = stage[r]
    BY <1>1, <1>2 DEF StreamType
  <1>4. task'[s].at = "reading" /\ task'[s].extent = e0
    BY <1>3
  <1>5. \A i \in DOMAIN copies : copies[i][1] \in Slot
    BY DEF StreamType
  <1>6. StreamType'
    BY <1>1, <1>3 DEF StreamType
  <1>7. CopiesFit'
    BY <1>1, <1>3, <1>5 DEF CopiesFit
  <1>8. TasksFit'
    BY <1>1, <1>3, <1>4 DEF TasksFit
  <1>9. Accounted'
    <2>1. \A r \in Slot : task[r].at # "none" => task'[r].at # "none" /\ task'[r].extent = task[r].extent
      BY <1>3, <1>4
    <2>2. \A r \in Slot : task'[r].at = "none" => task[r].at = "none"
      BY <1>3, <1>4
    <2> QED
      BY <1>1, <2>1, <2>2 DEF Accounted
  <1>10. main \notin {"start", "returned", "raised"}
    BY <1>1 DEF EndsFit, DS!Running
  <1>11. DestFits' /\ EndsFit'
    BY <1>1, <1>10 DEF DestFits, EndsFit
  <1> QED
    BY <1>6, <1>7, <1>8, <1>9, <1>11

\* A read ends with its extent in the slot, or it is bad.
LEMMA ReadEndsStream ==
    ASSUME StreamInv, NEW s \in Slot, DS!ReadEnds(s)
    PROVE  StreamInv'
  <1> USE DEF StreamInv
  <1> DEFINE e0 == task[s].extent
  <1>1. task[s].at = "reading" /\ UNCHANGED <<next, copies, dest, main, fdOpen>>
    BY DEF DS!ReadEnds
  <1>2. task[s] \in Task /\ e0 \in Extent
    BY <1>1 DEF StreamType, TasksFit
  <1>3. PICK a \in {"good", "bad"} :
           /\ task' = [task EXCEPT ![s].at = a]
           /\ \/ a = "good" /\ stage' = [stage EXCEPT ![s] = e0]
              \/ a = "bad" /\ stage' = stage
    BY DEF DS!ReadEnds
  <1>4. /\ task' \in [Slot -> Task] /\ stage' \in [Slot -> Extent \cup {0}]
        /\ task'[s] = [at |-> a, extent |-> e0]
        /\ \A r \in Slot : r # s => task'[r] = task[r] /\ stage'[r] = stage[r]
        /\ a = "good" => stage'[s] = e0
    BY <1>2, <1>3 DEF StreamType
  <1>5. task'[s].at = a /\ task'[s].extent = e0
    BY <1>4
  <1>6. \A i \in DOMAIN copies : copies[i][1] \in Slot /\ copies[i][1] # s
    <2>1. \A i \in DOMAIN copies : copies[i][1] \in Slot
      BY DEF StreamType
    <2>2. \A i \in DOMAIN copies : copies[i][1] # s
      BY <1>1 DEF CopiesFit
    <2> QED
      BY <2>1, <2>2
  <1>7. StreamType'
    BY <1>1, <1>4 DEF StreamType
  <1>8. CopiesFit'
    BY <1>1, <1>4, <1>6, ZenonT(40) DEF CopiesFit
  <1>9. TasksFit'
    BY <1>2, <1>4, <1>5 DEF TasksFit
  <1>10. Accounted'
    <2>1. \A r \in Slot : task[r].at # "none" => task'[r].at # "none" /\ task'[r].extent = task[r].extent
      BY <1>4, <1>5
    <2>2. \A r \in Slot : task'[r].at = "none" => task[r].at = "none"
      BY <1>4, <1>5
    <2> QED
      BY <1>1, <2>1, <2>2 DEF Accounted
  <1>11. main \notin {"start", "returned", "raised"}
    BY <1>1 DEF EndsFit, DS!Running
  <1>12. DestFits' /\ EndsFit'
    BY <1>1, <1>11 DEF DestFits, EndsFit
  <1> QED
    BY <1>7, <1>8, <1>9, <1>10, <1>12

\* Tail drops the first element and keeps the others, one place ahead.
LEMMA TailFacts ==
    ASSUME NEW S, NEW q \in Seq(S), q # <<>>
    PROVE  /\ Tail(q) \in Seq(S) /\ 1 \in DOMAIN q /\ Head(q) = q[1] /\ Head(q) \in S
           /\ \A i \in DOMAIN Tail(q) : i + 1 \in DOMAIN q /\ Tail(q)[i] = q[i + 1]
           /\ \A i \in DOMAIN q : i # 1 => i - 1 \in DOMAIN Tail(q) /\ Tail(q)[i - 1] = q[i]
  OBVIOUS

\* The oldest copy puts its extent where it belongs.
LEMMA CopyStream ==
    ASSUME StreamInv, DS!CopyDone
    PROVE  /\ StreamInv'
           /\ \E e \in Extent :
                 dest' = [dest EXCEPT ![e] = [bytes |-> e, written |-> TRUE]]
           /\ main \notin {"returned", "raised"} /\ main' = main
  <1> USE DEF StreamInv
  <1> DEFINE S == Slot \X Extent
             s == Head(copies)[1]
             e == Head(copies)[2]
  <1>1. /\ copies # <<>> /\ copies' = Tail(copies) /\ UNCHANGED <<next, task, stage, main, fdOpen>>
        /\ dest' = [dest EXCEPT ![e] = [bytes |-> stage[s], written |-> TRUE]]
    BY DEF DS!CopyDone
  <1>2. copies \in Seq(S)
    BY DEF StreamType
  <1>3. /\ copies' \in Seq(S) /\ 1 \in DOMAIN copies /\ Head(copies) = copies[1] /\ Head(copies) \in S
        /\ \A i \in DOMAIN copies' : i + 1 \in DOMAIN copies /\ copies'[i] = copies[i + 1]
        /\ \A i \in DOMAIN copies : i # 1 => i - 1 \in DOMAIN copies' /\ copies'[i - 1] = copies[i]
    <2> HIDE DEF S
    <2> QED
      BY <1>1, <1>2, TailFacts
  <1>4. s \in Slot /\ e \in Extent /\ stage[s] = e
    BY <1>3 DEF CopiesFit
  <1> HIDE DEF s
  <1>5. dest' = [dest EXCEPT ![e] = [bytes |-> e, written |-> TRUE]]
    BY <1>1, <1>4
  <1>6. main \notin {"start", "returned", "raised"}
    BY <1>1 DEF EndsFit
  <1> HIDE DEF e
  <1>7. /\ dest' \in [Extent -> Destination] /\ dest'[e] = [bytes |-> e, written |-> TRUE]
        /\ \A x \in Extent : x # e => dest'[x] = dest[x]
    BY <1>4, <1>5 DEF StreamType
  <1>8. dest'[e].written /\ dest'[e].bytes = e
    BY <1>7
  <1>9. StreamType'
    BY <1>1, <1>3, <1>7 DEF StreamType
  <1>10. CopiesFit'
    <2> SUFFICES ASSUME NEW i \in DOMAIN copies'
                 PROVE  /\ stage[copies'[i][1]] = copies'[i][2]
                        /\ task[copies'[i][1]].at \in {"none", "submitted"}
      BY <1>1 DEF CopiesFit
    <2>1. i + 1 \in DOMAIN copies /\ copies'[i] = copies[i + 1]
      BY <1>3
    <2> QED
      BY <2>1 DEF CopiesFit
  <1>11. TasksFit' /\ EndsFit'
    BY <1>1, <1>6 DEF TasksFit, EndsFit
  <1>12. DestFits'
    BY <1>7, <1>8 DEF DestFits
  <1>13. Accounted'
    <2>1. ASSUME NEW x \in Extent, dest[x].written \/ \E i \in DOMAIN copies : copies[i][2] = x
          PROVE  dest'[x].written \/ \E i \in DOMAIN copies' : copies'[i][2] = x
      <3>1. CASE x = e
        BY <3>1, <1>8
      <3>2. CASE x # e
        <4>1. CASE dest[x].written
          BY <3>2, <4>1, <1>7
        <4>2. ASSUME NEW i \in DOMAIN copies, copies[i][2] = x
              PROVE  \E j \in DOMAIN copies' : copies'[j][2] = x
          <5>1. i # 1
            BY <3>2, <4>2, <1>3 DEF e
          <5>2. i - 1 \in DOMAIN copies' /\ copies'[i - 1][2] = x
            BY <4>2, <5>1, <1>3
          <5> QED
            BY <5>2
        <4> QED
          BY <2>1, <4>1, <4>2
      <3> QED
        BY <3>1, <3>2
    <2> QED
      BY <1>1, <2>1 DEF Accounted
  <1> QED
    BY <1>1, <1>4, <1>5, <1>6, <1>9, <1>10, <1>11, <1>12, <1>13

----------------------------------------------------------------------------
(* The loader around it.                                                     *)

\* Whatever stands at the artifact's path, or may come back to it, is synced.
SyncedIn(a) == a.there => a.weights = "synced" /\ a.manifest = "synced"

LoaderType ==
    /\ mode \in Mode
    /\ worker \in {"down", "check", "restoring", "native", "bypass", "publishing", "loaded", "serving"}
    /\ pub \in 0..6 /\ art \in Artifact /\ aside \in Artifact
    /\ loaded \in {"no", "native", "restored"} /\ faults \in 0..MaxFaults

\* A worker that restores nothing has not started the stream; one that is done
\* loading has not, or has returned from it.
WorkerFits ==
    /\ worker \in {"check", "native", "bypass", "publishing"} => main = "start"
    /\ worker \in {"loaded", "serving"} =>
          \/ loaded = "native" /\ main = "start"
          \/ loaded = "restored" /\ main = "returned"
    /\ worker = "publishing" => loaded = "native"

LoaderInv == StreamInv /\ LoaderType /\ SyncedIn(art) /\ SyncedIn(aside) /\ WorkerFits

\* The records publish() and the renames leave.
LEMMA ArtifactFacts ==
    /\ NoArtifact \in Artifact /\ SyncedIn(NoArtifact)
    /\ Written(4) \in Artifact /\ SyncedIn(Written(4))
    /\ Written(6) \in Artifact /\ SyncedIn(Written(6))
    /\ \A a \in Artifact : SyncedIn(a) =>
          /\ [a EXCEPT !.linked = TRUE] \in Artifact /\ SyncedIn([a EXCEPT !.linked = TRUE])
  <1>1. NoArtifact \in Artifact /\ SyncedIn(NoArtifact)
    BY DEF NoArtifact, Artifact, SyncedIn
  <1>2. Written(4) = [there |-> TRUE, weights |-> "synced", manifest |-> "synced", linked |-> FALSE,
                      rotten |-> FALSE, damaged |-> {}]
        /\ Written(6) = Written(4)
    BY DEF Written
  <1>3. Written(4) \in Artifact /\ SyncedIn(Written(4))
    <2> DEFINE w == [there |-> TRUE, weights |-> "synced", manifest |-> "synced", linked |-> FALSE,
                     rotten |-> FALSE, damaged |-> {}]
    <2>1. w \in Artifact /\ w.weights = "synced" /\ w.manifest = "synced"
      BY DEF Artifact
    <2> QED
      BY <1>2, <2>1 DEF SyncedIn
  <1>4. \A a \in Artifact : SyncedIn(a) =>
          /\ [a EXCEPT !.linked = TRUE] \in Artifact /\ SyncedIn([a EXCEPT !.linked = TRUE])
    BY DEF Artifact, SyncedIn
  <1> QED
    BY <1>1, <1>2, <1>3, <1>4

\* A power failure leaves a synced artifact as it is.
LEMMA LeftFacts ==
    ASSUME NEW a \in Artifact, a.there, SyncedIn(a), NEW b \in Left(a)
    PROVE  b \in Artifact /\ SyncedIn(b)
  <1>a. a.weights = "synced" /\ a.manifest = "synced"
    BY DEF SyncedIn
  <1>1. b = [a EXCEPT !.weights = "synced", !.manifest = "synced", !.linked = TRUE]
    <2>1. PICK w \in {"synced"}, m \in {"synced"} :
             b = [a EXCEPT !.weights = w, !.manifest = m, !.linked = TRUE]
      BY <1>a DEF Left
    <2> QED
      BY <2>1
  <1> QED
    BY <1>1 DEF Artifact, SyncedIn

\* A rank that has not started, with or without an artifact.
LEMMA InitLoader == Init => LoaderInv
  <1> SUFFICES ASSUME Init PROVE LoaderInv
    OBVIOUS
  <1>1. StreamInv
    BY FreshStream DEF Init, DS!Init
  <1>2. art \in Artifact /\ SyncedIn(art) /\ aside \in Artifact /\ SyncedIn(aside)
    BY ArtifactFacts DEF Init
  <1>3. LoaderType
    BY <1>2, LoaderConstants DEF Init, LoaderType, LoaderConstants
  <1> QED
    BY <1>1, <1>2, <1>3 DEF Init, LoaderInv, WorkerFits

\* The invariant of the stream does not look at the artifact.
LEMMA SameStream ==
    ASSUME StreamInv, UNCHANGED streamVars
    PROVE  StreamInv'
  <1> QED
    BY DEF streamVars, StreamInv, StreamType, CopiesFit, TasksFit, DestFits, Accounted, EndsFit, DS!Running

\* A step of the transfer keeps the stream's invariant.
LEMMA TransferStream ==
    ASSUME StreamInv, DS!Next
    PROVE  StreamInv'
  <1>1. CASE DS!Start
    BY <1>1, StartStream
  <1>2. CASE DS!Return \/ DS!Raise
    BY <1>2, EndStream
  <1>3. ASSUME NEW s \in Slot, DS!Collect(s) \/ DS!CollectBad(s) PROVE StreamInv'
    BY <1>3, CollectStream, CollectBadStream
  <1>4. CASE DS!CopyDone
    BY <1>4, CopyStream
  <1>5. ASSUME NEW s \in Slot, DS!Pool(s) PROVE StreamInv'
    BY <1>5, ReadBeginsStream, ReadEndsStream DEF DS!Pool
  <1> QED
    BY <1>1, <1>2, <1>3, <1>4, <1>5 DEF DS!Next, DS!Main

\* What a step of the loader does to the artifact keeps it synced.
LEMMA ArtifactStep ==
    ASSUME LoaderInv, [Next]_vars
    PROVE  art' \in Artifact /\ SyncedIn(art') /\ aside' \in Artifact /\ SyncedIn(aside')
  <1>1. art \in Artifact /\ SyncedIn(art) /\ aside \in Artifact /\ SyncedIn(aside)
    BY DEF LoaderInv, LoaderType
  <1>2. CASE PublishStep
    <2>1. pub = RenameAt => pub = 4
      BY DEF RenameAt
    <2> QED
      BY <1>1, <1>2, <2>1, ArtifactFacts DEF PublishStep
  <1>3. CASE PowerFailure
    BY <1>1, <1>3, ArtifactFacts, LeftFacts DEF PowerFailure
  <1>4. CASE Damage
    <2>1. ASSUME NEW e \in Extent, art' = [art EXCEPT !.damaged = @ \cup {e}]
          PROVE  art' \in Artifact /\ SyncedIn(art')
      BY <1>1, <2>1 DEF Artifact, SyncedIn
    <2>2. ASSUME art' = [art EXCEPT !.rotten = TRUE]
          PROVE  art' \in Artifact /\ SyncedIn(art')
      BY <1>1, <2>2 DEF Artifact, SyncedIn
    <2> QED
      BY <1>1, <1>4, <2>1, <2>2 DEF Damage
  <1>5. CASE (art' = art /\ aside' = aside) \/ SetAside
    BY <1>1, <1>5, ArtifactFacts DEF SetAside
  <1> QED
    BY <1>2, <1>3, <1>4, <1>5
       DEF Next, Load, vars, Launch, PlanFails, NoRestore, Reject, BeginRestore, Transfer, RestoreDone,
           RestoreFails, NativeLoad, NativeFails, PublishDone, PublishFails, Serve, PeerFailed, Stop, Crash,
           SetAsideFails

\* A step of the loader is a new worker, a step of the transfer, or leaves the
\* stream alone.
LEMMA StreamStep ==
    ASSUME LoaderInv, [Next]_vars
    PROVE  StreamInv'
  <1>0. StreamInv
    BY DEF LoaderInv
  <1>1. CASE Launch
    <2>1. /\ next' = 1 /\ task' = [s \in Slot |-> DS!NoTask] /\ stage' = [s \in Slot |-> 0] /\ copies' = <<>>
          /\ dest' = [e \in Extent |-> DS!Unwritten] /\ main' = "start" /\ fdOpen' = FALSE
      BY <1>1 DEF Launch
    <2>2. DS!NoTask \in Task /\ DS!Unwritten \in Destination /\ ~DS!Unwritten.written /\ DS!NoTask.at = "none"
      BY DEF DS!NoTask, DS!Unwritten
    <2>3. StreamType'
      <3>1. task' \in [Slot -> Task] /\ stage' \in [Slot -> Extent \cup {0}] /\ dest' \in [Extent -> Destination]
        BY <2>1, <2>2
      <3>2. next' \in 1..(NumExtents + 1) /\ copies' \in Seq(Slot \X Extent)
        BY <2>1
      <3> QED
        BY <2>1, <3>1, <3>2 DEF StreamType
    <2> QED
      BY <2>1, <2>2, <2>3 DEF StreamInv, CopiesFit, TasksFit, DestFits, Accounted, EndsFit
  <1>2. CASE Transfer
    BY <1>0, <1>2, TransferStream DEF Transfer
  <1>3. CASE UNCHANGED streamVars
    BY <1>0, <1>3, SameStream
  <1> QED
    BY <1>1, <1>2, <1>3
       DEF Next, Load, vars, PlanFails, NoRestore, Reject, BeginRestore, RestoreDone,
           RestoreFails, NativeLoad, NativeFails, PublishStep, PublishDone, PublishFails, Serve, PeerFailed,
           Stop, Crash, PowerFailure, Damage, SetAsideFails

\* Only the stream moves main, and only while the worker restores.
LEMMA WorkerStep ==
    ASSUME LoaderInv, [Next]_vars
    PROVE  WorkerFits'
  <1>0. WorkerFits
    BY DEF LoaderInv
  <1>1. CASE Launch
    BY <1>1 DEF Launch, WorkerFits
  <1>2. CASE Transfer
    BY <1>2 DEF Transfer, WorkerFits
  <1>3. CASE NativeLoad
    BY <1>0, <1>3 DEF NativeLoad, WorkerFits, streamVars
  <1>4. CASE RestoreDone
    BY <1>4 DEF RestoreDone, WorkerFits, streamVars
  <1>5. CASE worker' = "down"
    BY <1>5 DEF WorkerFits
  <1>6. CASE /\ main' = main
             /\ \/ worker' = worker /\ loaded' = loaded
                \/ worker = "check" /\ worker' \in {"native", "bypass", "restoring"}
                \/ worker = "publishing" /\ worker' = "loaded" /\ loaded' = loaded
                \/ worker = "loaded" /\ worker' = "serving" /\ loaded' = loaded
    BY <1>0, <1>6 DEF WorkerFits
  <1> QED
    BY <1>1, <1>2, <1>3, <1>4, <1>5, <1>6
       DEF Next, Load, vars, PlanFails, NoRestore, Reject, BeginRestore, RestoreFails, NativeFails, PublishStep,
           PublishDone, PublishFails, Serve, PeerFailed, Stop, Crash, PowerFailure, Damage,
           SetAsideFails, Exit, streamVars

\* The loader's own variables keep their types.
LEMMA TypeStep ==
    ASSUME LoaderInv, [Next]_vars
    PROVE  LoaderType'
  <1>0. LoaderType /\ MaxFaults \in Nat
    BY LoaderConstants DEF LoaderInv, LoaderConstants
  <1>1. art' \in Artifact /\ aside' \in Artifact
    BY ArtifactStep
  <1>2. faults' \in 0..MaxFaults
    BY <1>0 DEF LoaderType, Next, Load, vars, Launch, PlanFails, NoRestore, Reject, BeginRestore, Transfer,
           RestoreDone, RestoreFails, NativeLoad, NativeFails, PublishStep, PublishDone, PublishFails, Serve,
           PeerFailed, Stop, Crash, PowerFailure, Damage, SetAsideFails, Fault
  <1>3. pub' \in 0..6
    BY <1>0 DEF LoaderType, Next, Load, vars, Launch, PlanFails, NoRestore, Reject, BeginRestore, Transfer,
           RestoreDone, RestoreFails, NativeLoad, NativeFails, PublishStep, PublishDone, PublishFails, Serve,
           PeerFailed, Stop, Crash, PowerFailure, Damage, SetAsideFails
  <1>4. /\ mode' = mode
        /\ worker' \in {"down", "check", "restoring", "native", "bypass", "publishing", "loaded", "serving"}
        /\ loaded' \in {"no", "native", "restored"}
    BY <1>0 DEF LoaderType, Next, Load, vars, Launch, PlanFails, NoRestore, Reject, BeginRestore, Transfer,
           RestoreDone, RestoreFails, NativeLoad, NativeFails, PublishStep, PublishDone, PublishFails, Serve,
           PeerFailed, Stop, Crash, PowerFailure, Damage, SetAsideFails, Exit
  <1> QED
    BY <1>0, <1>1, <1>2, <1>3, <1>4 DEF LoaderType

\* The invariant holds throughout.
LEMMA LoaderInvariant == Spec => []LoaderInv
  <1>1. LoaderInv /\ [Next]_vars => LoaderInv'
    <2> SUFFICES ASSUME LoaderInv, [Next]_vars PROVE LoaderInv'
      OBVIOUS
    <2> QED
      BY StreamStep, TypeStep, ArtifactStep, WorkerStep DEF LoaderInv
  <1> QED
    BY InitLoader, <1>1, PTL DEF Spec

\* For any number of extents, slots and faults: a worker that is done loading has
\* its storages from one source, natively or with every extent restored.
THEOREM StoragesAreWhole == Spec => []LoadedIsWhole
  <1>1. LoaderInv => LoadedIsWhole
    <2> SUFFICES ASSUME LoaderInv, worker \in {"loaded", "serving"}
                 PROVE  IF loaded = "native" THEN \A e \in Extent : ~dest[e].written
                        ELSE \A e \in Extent : dest[e] = [bytes |-> e, written |-> TRUE]
      BY DEF LoadedIsWhole
    <2>1. dest \in [Extent -> Destination]
      BY DEF LoaderInv, StreamInv, StreamType
    <2>2. CASE loaded = "native"
      BY <2>2 DEF LoaderInv, WorkerFits, StreamInv, EndsFit
    <2>3. CASE loaded # "native"
      <3>1. main = "returned"
        BY <2>3 DEF LoaderInv, WorkerFits
      <3>2. \A e \in Extent : dest[e].written /\ dest[e].bytes = e
        BY <3>1 DEF LoaderInv, StreamInv, EndsFit, DestFits
      <3>3. ASSUME NEW e \in Extent PROVE dest[e] = [bytes |-> e, written |-> TRUE]
        <4>1. dest[e] \in Destination /\ dest[e].written = TRUE /\ dest[e].bytes = e
          BY <2>1, <3>2
        <4> QED
          BY <4>1
      <3> QED
        BY <2>3, <3>3
    <2> QED
      BY <2>2, <2>3
  <1> QED
    BY <1>1, LoaderInvariant, PTL

\* For any number of faults: what stands at the artifact's path is complete.
THEOREM ArtifactIsWhole == Spec => []ArtifactOK
  <1>1. LoaderInv => ArtifactOK
    <2> SUFFICES ASSUME LoaderInv PROVE ArtifactOK
      OBVIOUS
    <2>1. art.damaged \subseteq Extent
      BY DEF LoaderInv, LoaderType, Artifact
    <2>2. DS!TypeOK
      BY <2>1 DEF LoaderInv, StreamInv, StreamType, DS!TypeOK, DS!Task
    <2>3. TypeOK
      BY <2>2 DEF LoaderInv, LoaderType, TypeOK
    <2>4. PublishedIsWhole
      BY DEF LoaderInv, SyncedIn, PublishedIsWhole, Complete
    <2> QED
      BY <2>3, <2>4 DEF ArtifactOK
  <1> QED
    BY <1>1, LoaderInvariant, PTL

----------------------------------------------------------------------------
(* The transfer implements RestoreContract.                                  *)

arrivedMap == {<<e, dest[e].bytes>> : e \in {x \in DS!Extent : dest[x].written}}
outcomeMap == IF main \in {"returned", "raised"} THEN main ELSE "running"

\* What has arrived are the written extents' own bytes.
LEMMA ArrivedIsOwn ==
    ASSUME StreamInv
    PROVE  arrivedMap = RC!Own({x \in Extent : dest[x].written})
  BY DEF arrivedMap, RC!Own, StreamInv, DestFits

\* Each step of the transfer is an arrival, the return, an exception or nothing to
\* the contract.
LEMMA TransferMaps ==
    ASSUME StreamInv, StreamInv', DS!Next
    PROVE  RC!Next \/ UNCHANGED <<arrivedMap, outcomeMap>>
  <1>1. CASE DS!CopyDone
    <2>1. PICK e \in Extent : dest' = [dest EXCEPT ![e] = [bytes |-> e, written |-> TRUE]]
      BY <1>1, CopyStream
    <2>2. main \notin {"returned", "raised"} /\ main' = main
      BY <1>1, CopyStream
    <2>3. dest \in [Extent -> Destination]
      BY DEF StreamInv, StreamType
    <2> DEFINE W == {x \in Extent : dest[x].written}
    <2>4. {x \in Extent : dest'[x].written} = W \cup {e}
      BY <2>1, <2>3
    <2>5. arrivedMap' = RC!Own({x \in Extent : dest'[x].written})
      BY DEF arrivedMap, RC!Own, StreamInv, DestFits
    <2>6. RC!Own(W \cup {e}) = RC!Own(W) \cup RC!Own({e})
      BY DEF RC!Own
    <2>7. arrivedMap' = arrivedMap \cup RC!Own({e})
      BY <2>4, <2>5, <2>6, ArrivedIsOwn
    <2>8. RC!Arrive({e})
      BY <2>2, <2>7 DEF RC!Arrive, arrivedMap
    <2>9. {e} \in SUBSET Extent
      OBVIOUS
    <2> QED
      BY <2>8, <2>9 DEF RC!Next
  <1>2. CASE DS!Return
    <2>1. main = "loop" /\ main' = "returned" /\ dest' = dest
      BY <1>2 DEF DS!Return
    <2>2. {x \in Extent : dest[x].written} = Extent
      BY <2>1 DEF StreamInv, EndsFit
    <2>3. arrivedMap = RC!Own(Extent)
      BY <2>2, ArrivedIsOwn
    <2>4. RC!Return
      BY <2>1, <2>3 DEF RC!Return, arrivedMap
    <2> QED
      BY <2>4 DEF RC!Next
  <1>3. CASE DS!Raise
    <2>1. main = "unwind" /\ main' = "raised" /\ dest' = dest
      BY <1>3 DEF DS!Raise
    <2>2. RC!Raise
      BY <2>1 DEF RC!Raise
    <2> QED
      BY <2>2 DEF RC!Next
  <1>4. CASE dest' = dest /\ outcomeMap' = outcomeMap
    BY <1>4 DEF arrivedMap
  <1> QED
    BY <1>1, <1>2, <1>3, <1>4
       DEF DS!Next, DS!Main, DS!Pool, DS!Start, DS!Collect, DS!CollectBad, DS!ReadBegins, DS!ReadEnds, outcomeMap

\* Each step of the loader is one of the contract.
LEMMA LoaderMaps ==
    ASSUME LoaderInv, LoaderInv', [Next]_vars
    PROVE  RC!Next \/ UNCHANGED <<arrivedMap, outcomeMap>>
  <1>1. CASE Launch
    <2>1. main' = "start" /\ dest' = [e \in Extent |-> DS!Unwritten]
      BY <1>1 DEF Launch
    <2>2. \A e \in Extent : ~dest'[e].written
      BY <2>1 DEF DS!Unwritten
    <2>3. RC!NewWorker
      BY <2>1, <2>2 DEF RC!NewWorker
    <2> QED
      BY <2>3 DEF RC!Next
  <1>2. CASE Transfer
    BY <1>2, TransferMaps DEF Transfer, LoaderInv
  <1>3. CASE UNCHANGED streamVars
    BY <1>3 DEF streamVars, arrivedMap, outcomeMap
  <1> QED
    BY <1>1, <1>2, <1>3
       DEF Next, Load, vars, PlanFails, NoRestore, Reject, BeginRestore, RestoreDone,
           RestoreFails, NativeLoad, NativeFails, PublishStep, PublishDone, PublishFails, Serve, PeerFailed,
           Stop, Crash, PowerFailure, Damage, SetAsideFails

\* For any number of extents and slots, stream() keeps its contract across
\* workers: own bytes only, complete on return, nothing written afterwards.
THEOREM StreamKeepsContract == Spec => RestoreKeepsContract
  <1>1. Init => RC!Init
    <2> SUFFICES ASSUME Init PROVE RC!Init
      OBVIOUS
    <2>1. main = "start" /\ \A e \in Extent : ~dest[e].written
      BY DEF Init, DS!Init, DS!Unwritten
    <2> QED
      BY <2>1 DEF RC!Init
  <1>2. LoaderInv /\ LoaderInv' /\ [Next]_vars => [RC!Next]_<<arrivedMap, outcomeMap>>
    BY LoaderMaps
  <1> QED
    BY <1>1, <1>2, LoaderInvariant, PTL DEF Spec, RestoreKeepsContract, RC!Spec, arrivedMap, outcomeMap
=============================================================================
