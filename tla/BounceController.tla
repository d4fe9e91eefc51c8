---------------------------- MODULE BounceController ----------------------------
(***************************************************************************)
(* One rank's data mover: BounceController / SlabBounceController, driven   *)
(* by SlabWorker and MultiNodeSlabConnectorWorker                           *)
(* (runtime/vllm029/.../kv_offload/tiering/multinode.py).  A job moves      *)
(* blocks between the GPU and the slab files in two hops through a small    *)
(* pinned bounce buffer: a store is a GPU->bounce copy and a file write, a  *)
(* load a file read and a bounce->GPU copy.  Jobs are cut into chunks as    *)
(* bounce slots come free.                                                  *)
(*                                                                          *)
(* The main thread submits jobs, pumps and collects; copies, writes and     *)
(* reads end on other threads at any time.  One pump is five phases; within *)
(* a phase all that get_finished returned is handled, and more may end      *)
(* between the phases.  Which free slot is taken first is left open.        *)
(***************************************************************************)
EXTENDS Naturals, FiniteSets

CONSTANTS
    Job,      \* job ids; an id is used once
    Store,    \* the store jobs; the others are loads
    NumItems,     \* job -> number of its items (blocks)
    Slot      \* bounce slots (n_bounce)

ASSUME BounceConstants ==
    /\ Store \subseteq Job
    /\ NumItems \in [Job -> Nat \ {0}]
    /\ IsFiniteSet(Slot) /\ Slot # {}

Index == UNION {1..NumItems[j] : j \in Job}

Item == {p \in Job \X Index : p[2] <= NumItems[p[1]]}

VARIABLES
    jobs,      \* the keys of the jobs dict
    job,       \* job -> its _DirectJob counters, and the keys before it in the dict
    subs,      \* copies, writes and reads in flight: the chunks in copies / reads
    free,      \* free bounce slots
    results,   \* results not yet taken: <<job, success>>
    failed,    \* _failed_gpu_blocks: items whose GPU block was not loaded
    phase,     \* where the main thread is in pump()
    flushing,  \* the main thread is in wait_all()
    reported,  \* <<job, success>> handed to the connector
    invalid,   \* items whose GPU blocks were reported as load errors
    moved      \* items whose second hop succeeded

vars == <<jobs, job, subs, free, results, failed, phase, flushing, reported, invalid, moved>>

\* A chunk: items of one job, the slot of each, the hop it is in, how that ended.
Sub == [job : Job, at : UNION {[I -> Slot] : I \in SUBSET Index},
        hop : {"g2b", "write", "read", "b2g"}, end : {"running", "ok", "bad"}]

Chunk(j, at, hop, end) == [job |-> j, at |-> at, hop |-> hop, end |-> end]

TypeOK ==
    /\ jobs \subseteq Job
    /\ job \in [Job -> [next : Nat, done : Nat, failed : BOOLEAN, older : SUBSET Job]]
    /\ subs \subseteq Sub
    /\ free \subseteq Slot
    /\ results \subseteq Job \X BOOLEAN /\ reported \subseteq Job \X BOOLEAN
    /\ failed \subseteq Item /\ invalid \subseteq Item /\ moved \subseteq Item
    /\ phase \in {"idle", "copies", "writes", "reads", "loads", "start"}
    /\ flushing \in BOOLEAN

----------------------------------------------------------------------------

ItemsOf(s) == {<<s.job, i>> : i \in DOMAIN s.at}

ItemsIn(S) == UNION {ItemsOf(s) : s \in S}

SlotsOf(s) == {s.at[i] : i \in DOMAIN s.at}

Ended(hop) == {s \in subs : s.hop = hop /\ s.end # "running"}

\* submit refuses a job without keys or with unequal numbers of keys and GPU blocks;
\* the connector scheduler builds both lists from the same blocks and none empty.
Submit(j) ==
    /\ phase = "idle" /\ ~flushing
    /\ job[j].next = 0
    /\ jobs' = jobs \cup {j}
    /\ job' = [job EXCEPT ![j] = [next |-> 1, done |-> 0, failed |-> FALSE, older |-> jobs]]
    /\ UNCHANGED <<subs, free, results, failed, phase, flushing, reported, invalid, moved>>

\* A copy, write or read ends on its stream or thread.  A store chunk and a load
\* chunk fail as a whole (the pool reports one result per sub-job).
End(s, end) ==
    /\ s.end = "running"
    /\ end = "bad" => s.hop \in {"write", "read"}
    /\ subs' = (subs \ {s}) \cup {Chunk(s.job, s.at, s.hop, end)}
    /\ UNCHANGED <<jobs, job, free, results, failed, phase, flushing, reported, invalid, moved>>

\* pump() is called by every get_finished, and by wait_all while there are jobs.
PumpBegin ==
    /\ phase = "idle"
    /\ flushing => jobs # {}
    /\ phase' = "copies"
    /\ UNCHANGED <<jobs, job, subs, free, results, failed, flushing, reported, invalid, moved>>

\* Chunks whose first hop is over go on to the second.
NextHop(S, hop) == {Chunk(s.job, s.at, hop, "running") : s \in S}

\* Mutant: a failed chunk is not counted.
CountGood(S, j) ==
    Cardinality(ItemsIn({s \in S : s.job = j /\ s.end # "bad"}))

\* The items of job j in the chunks S.
Count(S, j) == Cardinality(ItemsIn({s \in S : s.job = j}))

\* Mutant: the last chunk's outcome stands for the job.
FailedLast(S, j) ==
    IF \E s \in S : s.job = j THEN \E s \in S : s.job = j /\ s.end = "bad" ELSE job[j].failed

Failed(S, j) == job[j].failed \/ \E s \in S : s.job = j /\ s.end = "bad"

\* Mutant: a job is over when its last chunk has been started.
OverWhenStarted(S) ==
    {j \in Job : (\E s \in S : s.job = j) /\ job[j].next = NumItems[j] + 1}

\* The jobs that have all their items with the chunks S.
Over(S) ==
    {j \in Job : (\E s \in S : s.job = j) /\ job[j].done + Count(S, j) = NumItems[j]}

\* Mutant: the slots of a failed chunk are not given back.
FreedGood(S) == UNION {SlotsOf(s) : s \in {x \in S : x.end # "bad"}}

Freed(S) == UNION {SlotsOf(s) : s \in S}

\* Chunks leave the controller: slots freed, items counted, jobs finished.
Retire(S) ==
    /\ free' = free \cup Freed(S)
    /\ job' = [j \in Job |-> [next |-> job[j].next, done |-> job[j].done + Count(S, j),
                              failed |-> Failed(S, j),
                              older |-> {i \in job[j].older : Over(S) \cap {i, j} = {}}]]
    /\ jobs' = jobs \ Over(S)
    /\ results' = results \cup {<<j, ~Failed(S, j)>> : j \in Over(S)}

PumpCopies ==
    /\ phase = "copies"
    /\ subs' = (subs \ Ended("g2b")) \cup NextHop(Ended("g2b"), "write")
    /\ phase' = "writes"
    /\ UNCHANGED <<jobs, job, free, results, failed, flushing, reported, invalid, moved>>

PumpWrites ==
    /\ phase = "writes"
    /\ Retire(Ended("write"))
    /\ subs' = subs \ Ended("write")
    /\ moved' = moved \cup ItemsIn({s \in Ended("write") : s.end = "ok"})
    /\ phase' = "reads"
    /\ UNCHANGED <<failed, flushing, reported, invalid>>

PumpReads ==
    LET bad  == {s \in Ended("read") : s.end = "bad"}
        good == Ended("read") \ bad
    IN  /\ phase = "reads"
        /\ Retire(bad)
        /\ subs' = (subs \ Ended("read")) \cup NextHop(good, "b2g")
        /\ failed' = failed \cup ItemsIn(bad)
        /\ phase' = "loads"
        /\ UNCHANGED <<flushing, reported, invalid, moved>>

PumpLoads ==
    /\ phase = "loads"
    /\ Retire(Ended("b2g"))
    /\ subs' = subs \ Ended("b2g")
    /\ moved' = moved \cup ItemsIn(Ended("b2g"))
    /\ phase' = "start"
    /\ UNCHANGED <<failed, flushing, reported, invalid>>

Waiting(j) == j \in jobs /\ job[j].next <= NumItems[j]

\* The order in which jobs get free slots: loads first, then by age.
Before(i, j) ==
    \/ i \notin Store /\ j \in Store
    \/ (i \in Store <=> j \in Store) /\ i \in job[j].older

ChunkSize(j) ==
    LET left == NumItems[j] + 1 - job[j].next
    IN  IF left < Cardinality(free) THEN left ELSE Cardinality(free)

StartChunk(j) ==
    /\ phase = "start" /\ Waiting(j) /\ free # {}
    /\ \A i \in Job : Waiting(i) => ~Before(i, j)
    /\ LET I == job[j].next .. job[j].next + ChunkSize(j) - 1
       IN  /\ \E at \in [I -> free] :
                 /\ \A a, b \in I : at[a] = at[b] => a = b
                 /\ subs' = subs \cup
                      {Chunk(j, at, IF j \in Store THEN "g2b" ELSE "read", "running")}
                 /\ free' = free \ {at[i] : i \in I}
           /\ job' = [job EXCEPT ![j].next = @ + ChunkSize(j)]
    /\ UNCHANGED <<jobs, results, failed, phase, flushing, reported, invalid, moved>>

\* The pump ends.  In get_finished the results are taken, then the failed GPU
\* blocks; wait_all leaves both for the next get_finished.
PumpEnd ==
    /\ phase = "start"
    /\ free = {} \/ \A j \in Job : ~Waiting(j)
    /\ phase' = "idle"
    /\ IF flushing THEN UNCHANGED <<results, failed, reported, invalid>>
       ELSE /\ reported' = reported \cup results /\ results' = {}
            /\ invalid' = invalid \cup failed /\ failed' = {}
    /\ UNCHANGED <<jobs, job, subs, free, flushing, moved>>

\* wait(job_ids): pump until no job is left.
Flush ==
    /\ phase = "idle" /\ ~flushing /\ jobs # {}
    /\ flushing' = TRUE
    /\ UNCHANGED <<jobs, job, subs, free, results, failed, phase, reported, invalid, moved>>

FlushDone ==
    /\ phase = "idle" /\ flushing /\ jobs = {}
    /\ flushing' = FALSE
    /\ UNCHANGED <<jobs, job, subs, free, results, failed, phase, reported, invalid, moved>>

Init ==
    /\ jobs = {}
    /\ job = [j \in Job |-> [next |-> 0, done |-> 0, failed |-> FALSE, older |-> {}]]
    /\ subs = {} /\ free = Slot
    /\ results = {} /\ failed = {} /\ reported = {} /\ invalid = {} /\ moved = {}
    /\ phase = "idle" /\ flushing = FALSE

Pump == PumpBegin \/ PumpCopies \/ PumpWrites \/ PumpReads \/ PumpLoads
          \/ (\E j \in Job : StartChunk(j)) \/ PumpEnd

Next ==
    \/ \E j \in Job : Submit(j)
    \/ \E s \in subs, end \in {"ok", "bad"} : End(s, end)
    \/ Pump \/ Flush \/ FlushDone

Spec == Init /\ [][Next]_vars

\* The engine calls get_finished every step (wait_all loops), the streams and the
\* pools' threads end what they were given.
EndOf(j) == \E s \in subs, end \in {"ok", "bad"} : s.job = j /\ End(s, end)

FairSpec ==
    /\ Spec
    /\ WF_vars(Pump) /\ WF_vars(FlushDone)
    /\ \A j \in Job : WF_vars(EndOf(j))

----------------------------------------------------------------------------
(* Properties *)

\* The bounce buffer is neither leaked nor shared: every slot is free or belongs to
\* one block of one chunk.
SlotsConserved ==
    \A b \in Slot :
        LET users == {u \in subs \X Index : u[2] \in DOMAIN u[1].at /\ u[1].at[u[2]] = b}
        IN  Cardinality(users) = IF b \in free THEN 0 ELSE 1

\* Every block of a job is moved once: those started are in one chunk or counted.
ItemsAccounted ==
    \A j \in jobs :
        LET mine == {s \in subs : s.job = j}
        IN  /\ \A s, t \in mine : s # t => ItemsOf(s) \cap ItemsOf(t) = {}
            /\ job[j].done + Cardinality(ItemsIn(mine)) + 1 = job[j].next

\* A job is in the table while any of its chunks is in flight, so that when wait_all
\* returns nothing reads or writes the GPU blocks ("Returning early would let the
\* connector reuse GPU blocks a store is still reading").
NoOrphan == \A s \in subs : s.job \in jobs

\* The controller's books agree with the chunks in flight, between any two phases
\* of pump: it is well typed and the three conditions above hold together.
ChunksOK == TypeOK /\ SlotsConserved /\ ItemsAccounted /\ NoOrphan

\* Refinement: BounceController keeps the contract of a rank's data mover.  A job is
\* taken once it is submitted; a block's transfer has ended once its chunk was
\* started and is no longer in flight.
EndedItems ==
    {p \in Item : p[2] < job[p[1]].next /\ \A s \in subs : p \notin ItemsOf(s)}

Contract == INSTANCE TransferContract WITH
    Load <- Job \ Store, taken <- {j \in Job : job[j].next > 0}, ended <- EndedItems

ImplementsContract == Contract!Spec

\* Every submitted job is reported.
JobReported == \A j \in Job : j \in jobs ~> \E ok \in BOOLEAN : <<j, ok>> \in reported

\* wait_all returns.
FlushEnds == flushing ~> ~flushing
=============================================================================
