-------------------------- MODULE ConnectorProofs --------------------------
(***************************************************************************)
(* Proofs about OffloadingConnector, for any number of requests, blocks,    *)
(* ranks, jobs, steps in flight, preemptions, failures and resets: first    *)
(* the tables of the connector and of the engine agree (TableInv), then     *)
(* what requests count as computed is in GPU memory (MemInv), last what     *)
(* stores have yet to read is too (FlushInv).                               *)
(***************************************************************************)
EXTENDS OffloadingConnector, FiniteSetTheorems, WellFoundedInduction, TLAPS

Status == {"unborn", "waiting", "loading", "received", "running", "finished", "gone"}

ReqRec == [status : Status, computed : Nat, blocks : Seq(Block)]
ConnRec == [tracked : BOOLEAN, next : Nat, jobs : SUBSET Job]
JobRec == [req : Request, store : BOOLEAN, keys : SUBSET Key, blocks : SUBSET Block,
           pending : Nat, failed : BOOLEAN]
XferRec == [req : Request, store : BOOLEAN, pairs : SUBSET (Block \X Key),
            at : {"queued", "deferred", "started"}, busy : SUBSET Rank,
            unreported : SUBSET Rank, bad : [Rank -> SUBSET Block]]
Report == [job : Job, req : Request, load : BOOLEAN, ranks : SUBSET Rank, last : BOOLEAN,
           bad : SUBSET Block]
StepRec == [flush : SUBSET Job, loads : SUBSET Job, stores : SUBSET Job,
            writes : SUBSET (Block \X Key), reqs : SUBSET Request, frees : SUBSET Block,
            state : {"queued", "launched", "ran"}, report : SUBSET Report]
BatchRec == [phase : {"plan", "stores"}, loads : SUBSET Job, alloc : SUBSET Block,
             sched : SUBSET Request, built : SUBSET Request, preempted : SUBSET Request,
             owed : SUBSET Request, admitted : SUBSET Request,
             writes : SUBSET (Block \X Key), stores : SUBSET Job]

\* Requests: what is computed has a block.
ReqsFit ==
    /\ req \in [Request -> ReqRec]
    /\ \A r \in Request : req[r].computed <= N(r) /\ req[r].computed <= Len(req[r].blocks)

\* The schedule() in progress: what it scheduled runs, and its step will have room.
BatchFits ==
    /\ batch \in BatchRec
    /\ \A r \in batch.sched : req[r].status = "running"
    /\ batch.phase = "stores" => Len(steps) < Depth

\* Live requests are tracked, and the tables name each other's entries.
TablesFit ==
    /\ conn \in [Request -> ConnRec]
    /\ \A r \in Request : conn[r].next <= N(r)
    /\ \A r \in Request : req[r].status = "unborn" => conn[r].next = 0
    /\ \A r \in Request : req[r].status \in {"waiting", "loading", "received", "running"} => conn[r].tracked
    /\ \A r \in Request : \A j \in conn[r].jobs : j < nextJob /\ (j \in DOMAIN jobs => jobs[j].req = r)
    /\ \A j \in DOMAIN jobs : j \in conn[jobs[j].req].jobs /\ conn[jobs[j].req].tracked

\* Job ids are given out once.
IdsFit ==
    /\ nextJob \in 0..MaxJobs /\ stale \in Nat /\ stale <= nextJob
    /\ DOMAIN jobs \subseteq Job /\ jobs \in [DOMAIN jobs -> JobRec]
    /\ DOMAIN xfer \subseteq Job /\ xfer \in [DOMAIN xfer -> XferRec]
    /\ steps \in Seq(StepRec) /\ Len(steps) <= Depth
    /\ \A j \in DOMAIN jobs : stale <= j /\ j < nextJob
    /\ \A j \in DOMAIN xfer : j < nextJob
    /\ \A s \in DOMAIN steps : \A m \in steps[s].report : m.job < nextJob

\* Ranks that have not reported the job, and those whose report is in step s.
Silent(j) == IF j \in DOMAIN xfer THEN xfer[j].unreported ELSE {}
Told(s, j) == UNION {m.ranks : m \in {n \in steps[s].report : n.job = j}}
Awaited(j) == Silent(j) \cup UNION {Told(s, j) : s \in DOMAIN steps}

\* A rank reports a job once.
ReportsFit ==
    /\ \A s \in DOMAIN steps : steps[s].state = "queued" => steps[s].report = {}
    /\ \A s \in DOMAIN steps : \A m, n \in steps[s].report : m.job = n.job => m = n
    /\ \A s \in DOMAIN steps, j \in Job : Told(s, j) \cap Silent(j) = {}
    /\ \A s, t \in DOMAIN steps : s # t => \A j \in Job : Told(s, j) \cap Told(t, j) = {}

\* The count of a job is the number of ranks awaited.
Counted ==
    \A j \in DOMAIN jobs : Awaited(j) # {} /\ jobs[j].pending = Cardinality(Awaited(j))

\* Every key of the tier has one slot.
TierFits ==
    /\ stored \subseteq Key /\ IsFiniteSet(stored) /\ IsFiniteSet(Storing)
    /\ stored \cap Storing = {}
    /\ \A i, j \in DOMAIN jobs : i # j /\ jobs[i].store /\ jobs[j].store => jobs[i].keys \cap jobs[j].keys = {}
    /\ Cardinality(stored \cup Storing) <= Slots

MemoryFits == gpu \in [Block -> Key \cup {NoKey}]

FlushFits == toFlush \subseteq Job

TableInv ==
    /\ ReqsFit /\ BatchFits /\ TablesFit /\ IdsFit /\ ReportsFit /\ Counted /\ TierFits
    /\ FinishedAccounted /\ NoHole /\ MemoryFits /\ FlushFits

\* Without resets of the connector, no job id outlives its job.
JobsKept == \A r \in Request : conn[r].jobs \subseteq DOMAIN jobs

----------------------------------------------------------------------------
(* The operators *)

LEMMA MinExists ==
    ASSUME NEW S, S \subseteq Nat, S # {}
    PROVE  Min(S) \in S /\ \A y \in S : Min(S) <= y
  <1> DEFINE R == {p \in Nat \X Nat : p[1] < p[2]}
  <1>1. PICK x \in S : \A y \in S : ~(<<y, x>> \in R)
    <2>1. IsWellFoundedOn(R, Nat)
      BY NatLessThanWellFounded DEF OpToRel
    <2> HIDE DEF R
    <2> QED
      BY <2>1, WFMin
  <1>2. ASSUME NEW y \in S PROVE x <= y
    <2>1. x \in Nat /\ y \in Nat /\ ~(y < x)
      BY <1>1
    <2> QED
      BY <2>1
  <1> QED
    BY <1>2 DEF Min

LEMMA MaxExists ==
    ASSUME NEW n \in Nat, NEW S, S \subseteq 0..n, S # {}
    PROVE  Max(S) \in S /\ \A y \in S : Max(S) >= y
  <1> DEFINE T == {n - y : y \in S}
  <1>0. \A y \in S : y \in Nat /\ n - y \in Nat
    OBVIOUS
  <1>1. T \subseteq Nat /\ T # {}
    BY <1>0
  <1>2. Min(T) \in T /\ \A z \in T : Min(T) <= z
    BY <1>1, MinExists
  <1>3. PICK x \in S : Min(T) = n - x
    BY <1>2
  <1>4. \A y \in S : n - x <= n - y
    BY <1>2, <1>3
  <1>5. \A y \in S : x >= y
    BY <1>0, <1>4
  <1> QED
    BY <1>5 DEF Max

LEMMA LengthOfKeys ==
    ASSUME NEW r \in Request
    PROVE  N(r) \in Nat /\ \A i \in 1..N(r) : KeyAt(r, i) \in Key
  BY OffloadingConnectorAssumption DEF OffloadingConnectorAssumption, N, KeyAt

\* The hit of a request is a part of it.
LEMMA LookupRange ==
    ASSUME NEW r \in Request
    PROVE  Lookup(r) \in Int /\ Lookup(r) <= N(r)
  <1> DEFINE P(S) == {n \in 0..N(r) : KeysTo(r, n) \subseteq S}
  <1>1. ASSUME NEW S PROVE Prefix(r, S) \in 0..N(r)
    <2>1. 0 \in P(S)
      BY LengthOfKeys DEF KeysTo
    <2>2. P(S) \subseteq 0..N(r) /\ P(S) # {}
      BY <2>1
    <2>3. Max(P(S)) \in P(S)
      BY <2>2, MaxExists, LengthOfKeys
    <2> QED
      BY <2>3 DEF Prefix
  <1>2. Prefix(r, stored) \in 0..N(r)
    BY <1>1
  <1> QED
    BY <1>2, LengthOfKeys DEF Lookup

LEMMA LacksRange ==
    ASSUME ReqsFit, NEW r \in Request, NEW n \in Nat
    PROVE  Lacks(r, n) \in Nat /\ req[r].computed + n <= Len(req[r].blocks) + Lacks(r, n)
  <1> DEFINE x == req[r].computed + n - Len(req[r].blocks)
  <1>1. x \in Int
    BY DEF ReqsFit, ReqRec
  <1>2. Lacks(r, n) \in {0, x} /\ Lacks(r, n) >= 0 /\ Lacks(r, n) >= x
    <2>1. \E m \in {0, x} : \A y \in {0, x} : m >= y
      BY <1>1
    <2> HIDE DEF x
    <2> QED
      BY <2>1, <1>1 DEF Lacks, Max, x
  <1> QED
    BY <1>1, <1>2 DEF ReqsFit, ReqRec

LEMMA OffloadableRange ==
    ASSUME ReqsFit, NEW r \in Request
    PROVE  Offloadable(r) \in Nat /\ Offloadable(r) <= req[r].computed
  <1> DEFINE a == req[r].computed
             b == Prompt[r]
  <1>1. a \in Nat /\ b \in Nat
    BY OffloadingConnectorAssumption DEF ReqsFit, ReqRec, OffloadingConnectorAssumption
  <1>2. \E m \in {a, b} : \A y \in {a, b} : m <= y
    BY <1>1
  <1> HIDE DEF a, b
  <1>3. Min({a, b}) \in {a, b} /\ Min({a, b}) <= a
    BY <1>2 DEF Min
  <1> QED
    BY <1>1, <1>3 DEF Offloadable, a, b

LEMMA StorableRange ==
    ASSUME NEW n \in Nat
    PROVE  Storable(n) \in Nat /\ Storable(n) <= n
  BY DEF Storable

\* What is given to a request is in the pool and new to it.
LEMMA AllocationsFit ==
    ASSUME NEW n \in Nat, NEW new \in Allocations(n)
    PROVE  /\ new \in Seq(Block) /\ Len(new) = n /\ DOMAIN new = 1..n
           /\ \A i \in 1..n : new[i] \in Free
  <1>1. new \in [1..n -> Free] /\ Free \subseteq Block
    BY DEF Allocations, Free
  <1>2. new \in [1..n -> Block]
    BY <1>1
  <1> QED
    BY <1>1, <1>2

LEMMA ValidToRange ==
    ASSUME ReqsFit, NEW r \in Request, NEW invalid
    PROVE  ValidTo(r, invalid) \in Nat /\ ValidTo(r, invalid) <= req[r].computed
  <1> DEFINE bad == {i \in 1..req[r].computed : req[r].blocks[i] \in invalid}
  <1>1. req[r].computed \in Nat
    BY DEF ReqsFit, ReqRec
  <1>2. bad # {} => Min(bad) \in bad
    BY <1>1, MinExists
  <1> QED
    BY <1>1, <1>2 DEF ValidTo

----------------------------------------------------------------------------
(* Steps that touch no job *)

Live == {"waiting", "loading", "received", "running"}

\* Only the fences of the steps in flight change.
FreesOnly ==
    /\ steps' \in Seq(StepRec) /\ Len(steps') = Len(steps) /\ DOMAIN steps' = DOMAIN steps
    /\ \A s \in DOMAIN steps :
          /\ steps'[s].flush = steps[s].flush /\ steps'[s].loads = steps[s].loads
          /\ steps'[s].stores = steps[s].stores /\ steps'[s].writes = steps[s].writes
          /\ steps'[s].reqs = steps[s].reqs /\ steps'[s].state = steps[s].state
          /\ steps'[s].report = steps[s].report

LEMMA SameSteps ==
    ASSUME steps \in Seq(StepRec), UNCHANGED steps
    PROVE  FreesOnly
  BY DEF FreesOnly

LEMMA FencedKeeps ==
    ASSUME ReqsFit, steps \in Seq(StepRec), NEW R \in SUBSET Request, steps' = FencedFree(R)
    PROVE  FreesOnly
  <1> DEFINE late == {r \in R : \E s \in DOMAIN steps : r \in steps[s].reqs}
             last == Max({s \in DOMAIN steps : steps[s].reqs # {}})
             more == UNION {ToSet(req[r].blocks) : r \in late}
  <1>1. CASE late = {}
    BY <1>1, SameSteps DEF FencedFree
  <1>2. CASE late # {}
    <2>1. more \subseteq Block
      BY DEF ReqsFit, ReqRec, ToSet
    <2>2. steps' = [steps EXCEPT ![last].frees = @ \cup more]
      BY <1>2 DEF FencedFree
    <2>3. PICK l : l = last
      OBVIOUS
    <2>4. PICK B : B = more
      OBVIOUS
    <2>5. steps' = [steps EXCEPT ![l].frees = @ \cup B] /\ B \subseteq Block
      BY <2>1, <2>2, <2>3, <2>4
    <2> HIDE DEF late, last, more
    <2>6. DOMAIN steps' = DOMAIN steps /\ Len(steps') = Len(steps) /\ DOMAIN steps = 1..Len(steps)
      BY <2>5
    <2>7. ASSUME NEW s \in DOMAIN steps
          PROVE  \E F \in SUBSET Block : steps'[s] = [steps[s] EXCEPT !.frees = F]
      <3>1. steps[s] \in StepRec
        OBVIOUS
      <3>2. CASE s = l
        BY <2>5, <2>7, <3>1, <3>2 DEF StepRec
      <3>3. CASE s # l
        BY <2>5, <2>7, <3>1, <3>3 DEF StepRec
      <3> QED
        BY <3>2, <3>3
    <2>8. \A s \in DOMAIN steps : steps'[s] \in StepRec
      <3> SUFFICES ASSUME NEW s \in DOMAIN steps PROVE steps'[s] \in StepRec
        OBVIOUS
      <3>1. steps[s] \in StepRec
        OBVIOUS
      <3> QED
        BY <2>7, <3>1, ZenonT(60) DEF StepRec
    <2>9. steps' \in Seq(StepRec)
      <3>1. Len(steps) \in Nat
        OBVIOUS
      <3>2. steps' = [s \in DOMAIN steps |-> steps'[s]]
        BY <2>5
      <3> QED
        BY <2>6, <2>8, <3>1, <3>2
    <2>10. \A s \in DOMAIN steps : steps[s] \in StepRec
      OBVIOUS
    <2> QED
      BY <2>6, <2>7, <2>9, <2>10 DEF FreesOnly, StepRec
  <1> QED
    BY <1>1, <1>2

\* Fences are not part of the accounts.
LEMMA StepsFrame ==
    ASSUME TableInv, FreesOnly, UNCHANGED <<jobs, xfer, nextJob, stale, stored>>
    PROVE  IdsFit' /\ ReportsFit' /\ Counted' /\ TierFits'
  <1>1. /\ \A j : Silent(j)' = Silent(j)
        /\ \A j : \A s \in DOMAIN steps : Told(s, j)' = Told(s, j)
    BY DEF Silent, Told, FreesOnly
  <1>2. \A j : Awaited(j)' = Awaited(j)
    BY <1>1 DEF Awaited, FreesOnly
  <1>3. IdsFit'
    BY DEF TableInv, IdsFit, FreesOnly
  <1>4. ReportsFit'
    BY <1>1 DEF TableInv, ReportsFit, FreesOnly
  <1>5. Counted'
    BY <1>2 DEF TableInv, Counted
  <1>6. TierFits'
    BY DEF TableInv, TierFits, Storing
  <1> QED
    BY <1>3, <1>4, <1>5, <1>6

\* A step that moves requests that are alive.
LEMMA ReqFrame ==
    ASSUME TableInv, FreesOnly, UNCHANGED <<conn, jobs, pendingOf, nextJob, stale, xfer, stored, seen, gpu>>,
           ReqsFit', BatchFits', FlushFits',
           \A r \in Request : req'[r].status = req[r].status
                              \/ (req[r].status \in Live /\ req'[r].status \in Live)
    PROVE  TableInv'
  <1>1. IdsFit' /\ ReportsFit' /\ Counted' /\ TierFits'
    BY StepsFrame
  <1>2. \A r \in Request : IsFinished(r)' <=> IsFinished(r)
    BY DEF IsFinished, Live
  <1>3. \A j \in DOMAIN jobs : jobs[j].req \in Request
    BY DEF TableInv, IdsFit, JobRec
  <1>4. TablesFit'
    BY DEF TableInv, TablesFit, Live
  <1>5. FinishedAccounted'
    BY <1>2, <1>3 DEF TableInv, FinishedAccounted
  <1>6. NoHole' /\ MemoryFits'
    BY DEF TableInv, NoHole, MemoryFits
  <1> QED
    BY <1>1, <1>4, <1>5, <1>6 DEF TableInv

LEMMA ArriveKeeps ==
    ASSUME TableInv, NEW r \in Request, Arrive(r)
    PROVE  TableInv'
  <1>1. /\ req \in [Request -> ReqRec] /\ conn \in [Request -> ConnRec] /\ steps \in Seq(StepRec)
        /\ req[r].status = "unborn" /\ batch.sched = {}
        /\ req' = [req EXCEPT ![r].status = "waiting"] /\ conn' = [conn EXCEPT ![r].tracked = TRUE]
        /\ UNCHANGED <<jobs, pendingOf, toFlush, nextJob, stale, batch, steps, xfer, gpu, stored, seen>>
    BY DEF Arrive, Idle, NoBatch, TableInv, ReqsFit, TablesFit, IdsFit
  <1>2. /\ req' \in [Request -> ReqRec] /\ req'[r].status = "waiting"
        /\ \A q \in Request : req'[q].computed = req[q].computed /\ req'[q].blocks = req[q].blocks
        /\ \A q \in Request : q # r => req'[q].status = req[q].status
    BY <1>1 DEF ReqRec, Status
  <1>3. /\ conn' \in [Request -> ConnRec] /\ conn'[r].tracked
        /\ \A q \in Request : conn'[q].next = conn[q].next /\ conn'[q].jobs = conn[q].jobs
        /\ \A q \in Request : q # r => conn'[q].tracked = conn[q].tracked
    BY <1>1 DEF ConnRec
  <1>4. IdsFit' /\ ReportsFit' /\ Counted' /\ TierFits'
    BY <1>1, SameSteps, StepsFrame
  <1>5. ReqsFit'
    BY <1>2 DEF TableInv, ReqsFit
  <1>6. BatchFits'
    BY <1>1 DEF TableInv, BatchFits
  <1>7. TablesFit'
    BY <1>1, <1>2, <1>3 DEF TableInv, TablesFit, IdsFit, JobRec
  <1>8. FinishedAccounted'
    <2>1. \A q \in Request : IsFinished(q)' <=> IsFinished(q)
      BY <1>1, <1>2 DEF IsFinished
    <2>2. \A j \in DOMAIN jobs : jobs[j].req \in Request
      BY DEF TableInv, IdsFit, JobRec
    <2>3. ~IsFinished(r)
      BY <1>1 DEF IsFinished
    <2> QED
      BY <1>1, <1>3, <2>1, <2>2, <2>3 DEF TableInv, FinishedAccounted
  <1>9. NoHole'
    <2>1. KeysTo(r, conn[r].next) = {}
      BY <1>1 DEF TableInv, TablesFit, KeysTo
    <2> QED
      BY <1>1, <1>3, <2>1 DEF TableInv, NoHole
  <1>10. MemoryFits' /\ FlushFits'
    BY <1>1 DEF TableInv, MemoryFits, FlushFits
  <1> QED
    BY <1>4, <1>5, <1>6, <1>7, <1>8, <1>9, <1>10 DEF TableInv

LEMMA ScheduledKeeps ==
    ASSUME TableInv, NEW r \in Request, NEW n \in Nat, req[r].status \in Live, batch.phase = "plan",
           req[r].computed + n <= N(r), NEW new \in Allocations(Lacks(r, n)), Scheduled(r, n, new),
           UNCHANGED <<conn, jobs, pendingOf, toFlush, nextJob, stale, steps, xfer, gpu, stored, seen>>
    PROVE  TableInv'
  <1> DEFINE all == req[r].blocks \o new
  <1>1. req \in [Request -> ReqRec] /\ batch \in BatchRec /\ steps \in Seq(StepRec)
    BY DEF TableInv, ReqsFit, BatchFits, IdsFit
  <1>2. /\ Lacks(r, n) \in Nat /\ req[r].computed + n <= Len(req[r].blocks) + Lacks(r, n)
        /\ new \in Seq(Block) /\ Len(new) = Lacks(r, n)
    BY LacksRange, AllocationsFit DEF TableInv
  <1>3. all \in Seq(Block) /\ Len(all) = Len(req[r].blocks) + Lacks(r, n)
    <2>1. req[r].blocks \in Seq(Block)
      BY <1>1 DEF ReqRec
    <2> QED
      BY <1>2, <2>1, SMTT(60)
  <1>4. /\ req' = [req EXCEPT ![r] = [status |-> "running", blocks |-> all, computed |-> req[r].computed + n]]
        /\ batch'.sched = batch.sched \cup {r} /\ batch'.phase = "plan"
    BY <1>1 DEF Scheduled, BatchRec
  <1>5. batch' \in BatchRec
    <2>1. \A i \in req[r].computed + 1 .. req[r].computed + n : <<all[i], KeyAt(r, i)>> \in Block \X Key
      BY <1>1, <1>2, <1>3, LengthOfKeys, SMTT(60) DEF ReqRec
    <2>2. {<<all[i], KeyAt(r, i)>> : i \in req[r].computed + 1 .. req[r].computed + n} \subseteq Block \X Key
      BY <2>1
    <2>3. ToSet(new) \subseteq Block
      BY <1>2 DEF ToSet
    <2> HIDE DEF all
    <2> QED
      BY <1>1, <2>2, <2>3 DEF Scheduled, BatchRec, all
  <1> HIDE DEF all
  <1>6. ReqsFit'
    BY <1>1, <1>2, <1>3, <1>4 DEF TableInv, ReqsFit, ReqRec, Status
  <1>7. BatchFits'
    BY <1>1, <1>4, <1>5 DEF TableInv, BatchFits
  <1>8. \A q \in Request : req'[q].status = req[q].status \/ (req[q].status \in Live /\ req'[q].status \in Live)
    <2>1. /\ req'[r].status = "running" /\ \A q \in Request : q # r => req'[q].status = req[q].status
      BY <1>1, <1>4
    <2> QED
      BY <2>1 DEF Live
  <1>9. FreesOnly /\ FlushFits'
    BY <1>1, SameSteps DEF TableInv, FlushFits
  <1> QED
    BY <1>6, <1>7, <1>8, <1>9, ReqFrame

LEMMA PreemptKeeps ==
    ASSUME TableInv, NEW r \in Request, Preempt(r)
    PROVE  TableInv'
  <1>1. /\ req \in [Request -> ReqRec] /\ batch \in BatchRec /\ steps \in Seq(StepRec)
        /\ req[r].status = "running" /\ r \notin batch.sched
        /\ req' = [req EXCEPT ![r] = [status |-> "waiting", computed |-> 0, blocks |-> <<>>]]
        /\ UNCHANGED <<conn, jobs, pendingOf, nextJob, stale, xfer, gpu, stored, seen>>
        /\ FlushFits'
    BY DEF Preempt, TableInv, ReqsFit, BatchFits, IdsFit, FlushFits
  <1>2. FreesOnly
    BY FencedKeeps, <1>1 DEF Preempt, TableInv
  <1>3. batch' \in BatchRec /\ batch'.sched = batch.sched /\ batch'.phase = batch.phase
    <2>1. PICK q \in Request : batch' = [batch EXCEPT !.preempted = @ \cup {r}, !.owed = @ \cup {q}]
      BY DEF Preempt
    <2> QED
      BY <1>1, <2>1 DEF BatchRec
  <1>4. ReqsFit'
    BY <1>1, LengthOfKeys DEF TableInv, ReqsFit, ReqRec, Status
  <1>5. BatchFits'
    BY <1>1, <1>2, <1>3 DEF TableInv, BatchFits, FreesOnly
  <1>6. /\ req'[r].status = "waiting" /\ \A q \in Request : q # r => req'[q].status = req[q].status
    BY <1>1
  <1>7. \A q \in Request : req'[q].status = req[q].status \/ (req[q].status \in Live /\ req'[q].status \in Live)
    BY <1>1, <1>6 DEF Live
  <1> QED
    BY <1>1, <1>2, <1>4, <1>5, <1>7, ReqFrame

LEMMA PromoteKeeps ==
    ASSUME TableInv, NEW r \in Request, Promote(r)
    PROVE  TableInv'
  <1>1. /\ req \in [Request -> ReqRec] /\ steps \in Seq(StepRec) /\ req[r].status = "received"
        /\ UNCHANGED <<conn, jobs, pendingOf, nextJob, stale, batch, steps, xfer, gpu, stored, seen>>
        /\ FlushFits'
    BY DEF Promote, TableInv, ReqsFit, IdsFit, FlushFits
  <1>a. PICK B : B = IF req[r].computed > 0 THEN req[r].blocks ELSE <<>>
    OBVIOUS
  <1>b. B \in Seq(Block) /\ req[r].computed <= Len(B)
    BY <1>a DEF TableInv, ReqsFit, ReqRec
  <1>2. req' = [req EXCEPT ![r] = [status |-> "waiting", computed |-> req[r].computed, blocks |-> B]]
    BY <1>1, <1>a DEF Promote, ReqRec
  <1>3. ReqsFit'
    BY <1>1, <1>2, <1>b DEF TableInv, ReqsFit, ReqRec, Status
  <1>5. /\ req'[r].status = "waiting" /\ req[r].status = "received"
        /\ \A q \in Request : q # r => req'[q].status = req[q].status
    BY <1>1, <1>2
  <1>4. BatchFits'
    BY <1>1, <1>5 DEF TableInv, BatchFits, BatchRec
  <1>6. \A q \in Request : req'[q].status = req[q].status \/ (req[q].status \in Live /\ req'[q].status \in Live)
    BY <1>5 DEF Live
  <1>7. FreesOnly
    BY <1>1, SameSteps
  <1> QED
    BY <1>1, <1>3, <1>4, <1>6, <1>7, ReqFrame

LEMMA WatchedType ==
    ASSUME IdsFit, FinishedAccounted
    PROVE  pendingOf \subseteq Block \X Job
  BY DEF IdsFit, FinishedAccounted, JobRec

LEMMA BuildMetaKeeps ==
    ASSUME TableInv, BuildMeta
    PROVE  TableInv'
  <1>1. /\ batch \in BatchRec /\ steps \in Seq(StepRec) /\ Len(steps) < Depth
        /\ UNCHANGED <<req, conn, jobs, pendingOf, nextJob, stale, steps, xfer, gpu, stored, seen>>
    BY DEF BuildMeta, Planning, TableInv, BatchFits, IdsFit
  <1>2. batch' \in BatchRec /\ batch'.sched = batch.sched
    BY <1>1 DEF BuildMeta, BatchRec
  <1>3. BatchFits' /\ ReqsFit'
    BY <1>1, <1>2 DEF TableInv, BatchFits, ReqsFit
  <1>4. FreesOnly
    BY <1>1, SameSteps
  <1>5. \A q \in Request : req'[q].status = req[q].status
    BY <1>1
  <1>6. FlushFits'
    <2>1. FlushPreempted \subseteq Job
      BY <1>1 DEF FlushPreempted, TableInv, TablesFit, ConnRec, BatchRec
    <2>2. FlushReused \subseteq Job
      BY WatchedType DEF FlushReused, TableInv
    <2> QED
      BY <2>1, <2>2 DEF BuildMeta, TableInv, FlushFits
  <1> QED
    BY <1>1, <1>3, <1>4, <1>5, <1>6, ReqFrame

----------------------------------------------------------------------------
(* The steps in flight and the workers *)

LEMMA IssueStepKeeps ==
    ASSUME TableInv, IssueStep
    PROVE  TableInv'
  <1> DEFINE new == [flush |-> toFlush, loads |-> batch.loads, stores |-> batch.stores,
                     writes |-> batch.writes, reqs |-> batch.sched, frees |-> {},
                     state |-> "queued", report |-> {}]
  <1>1. /\ batch \in BatchRec /\ steps \in Seq(StepRec) /\ Len(steps) < Depth /\ batch' = NoBatch
        /\ UNCHANGED <<req, conn, jobs, pendingOf, nextJob, stale, xfer, gpu, stored, seen>>
        /\ steps' = Append(steps, new)
        /\ FlushFits'
    BY DEF IssueStep, TableInv, BatchFits, IdsFit, FlushFits
  <1>2. new \in StepRec
    BY <1>1 DEF BatchRec, StepRec, TableInv, FlushFits
  <1>3. new.report = {} /\ new.state = "queued"
    OBVIOUS
  <1> HIDE DEF new
  <1>4. /\ steps' \in Seq(StepRec) /\ Len(steps') = Len(steps) + 1
        /\ DOMAIN steps = 1..Len(steps) /\ DOMAIN steps' = 1..Len(steps) + 1
        /\ steps'[Len(steps) + 1] = new /\ \A s \in DOMAIN steps : steps'[s] = steps[s]
        /\ Depth \in Nat /\ Len(steps) \in Nat
    BY <1>1, <1>2, OffloadingConnectorAssumption DEF OffloadingConnectorAssumption
  <1>n. PICK n : n = Len(steps) + 1
    OBVIOUS
  <1>5. /\ \A j : Silent(j)' = Silent(j)
        /\ \A j : \A s \in DOMAIN steps : Told(s, j)' = Told(s, j)
        /\ \A j : Told(n, j)' = {}
    BY <1>1, <1>3, <1>4, <1>n DEF Silent, Told
  <1>6. \A s \in DOMAIN steps' : s \in DOMAIN steps \/ s = n
    BY <1>4, <1>n
  <1>7. \A j : Awaited(j)' = Awaited(j)
    <2>1. \A s \in DOMAIN steps : s \in DOMAIN steps'
      BY <1>4
    <2> QED
      BY <1>5, <1>6, <2>1 DEF Awaited
  <1>8. IdsFit'
    <2>1. \A s \in DOMAIN steps' : \A m \in steps'[s].report : m.job < nextJob'
      BY <1>1, <1>3, <1>4, <1>6, <1>n DEF TableInv, IdsFit
    <2>2. Len(steps') <= Depth
      BY <1>1, <1>4
    <2> QED
      BY <1>1, <1>4, <2>1, <2>2 DEF TableInv, IdsFit
  <1>9. ReportsFit'
    BY <1>3, <1>4, <1>5, <1>6, <1>n DEF TableInv, ReportsFit
  <1>10. Counted'
    BY <1>1, <1>7 DEF TableInv, Counted
  <1>11. BatchFits'
    BY <1>1 DEF BatchFits, NoBatch, BatchRec
  <1>12. ReqsFit' /\ TablesFit' /\ TierFits' /\ NoHole' /\ MemoryFits'
    BY <1>1 DEF TableInv, ReqsFit, TablesFit, TierFits, Storing, NoHole, MemoryFits
  <1>13. FinishedAccounted'
    BY <1>1 DEF TableInv, FinishedAccounted, IsFinished
  <1> QED
    BY <1>1, <1>8, <1>9, <1>10, <1>11, <1>12, <1>13 DEF TableInv

LEMMA WrittenType ==
    ASSUME MemoryFits, NEW pairs
    PROVE  Written(pairs) \in [Block -> Key \cup {NoKey}]
  <1>1. ASSUME NEW b \in Block
        PROVE  (IF \E k \in Key : <<b, k>> \in pairs THEN CHOOSE k \in Key : <<b, k>> \in pairs ELSE gpu[b])
                  \in Key \cup {NoKey}
    BY DEF MemoryFits
  <1> QED
    BY <1>1 DEF Written

\* A worker's step changes what the reports say and where the copies are, not who is awaited.
LEMMA WorkerFrame ==
    ASSUME TableInv, UNCHANGED <<req, conn, jobs, pendingOf, toFlush, nextJob, stale, batch, stored, seen>>,
           IdsFit', ReportsFit', MemoryFits', Len(steps') = Len(steps),
           \A j \in DOMAIN jobs : Awaited(j)' = Awaited(j)
    PROVE  TableInv'
  <1>1. Counted'
    BY DEF TableInv, Counted
  <1>2. ReqsFit' /\ BatchFits' /\ TablesFit' /\ TierFits' /\ NoHole' /\ FlushFits'
    BY DEF TableInv, ReqsFit, BatchFits, TablesFit, TierFits, Storing, NoHole, FlushFits
  <1>3. FinishedAccounted'
    BY DEF TableInv, FinishedAccounted, IsFinished
  <1> QED
    BY <1>1, <1>2, <1>3 DEF TableInv

LEMMA ForwardDoneKeeps ==
    ASSUME TableInv, NEW s \in DOMAIN steps, ForwardDone(s)
    PROVE  TableInv'
  <1>1. /\ steps \in Seq(StepRec) /\ steps[s].state = "launched"
        /\ steps' = [steps EXCEPT ![s].state = "ran"] /\ gpu' = Written(steps[s].writes)
        /\ UNCHANGED <<req, conn, jobs, pendingOf, toFlush, nextJob, stale, batch, xfer, stored, seen>>
    BY DEF ForwardDone, TableInv, IdsFit
  <1>2. /\ DOMAIN steps' = DOMAIN steps /\ Len(steps') = Len(steps) /\ DOMAIN steps = 1..Len(steps)
        /\ \A t \in DOMAIN steps : steps[t] \in StepRec
        /\ \A t \in DOMAIN steps : t # s => steps'[t] = steps[t]
        /\ steps'[s] = [steps[s] EXCEPT !.state = "ran"]
    BY <1>1
  <1>a. steps' = [t \in DOMAIN steps |-> steps'[t]]
    BY <1>1
  <1>3. \A t \in DOMAIN steps : steps'[t] \in StepRec /\ steps'[t].report = steps[t].report
    BY <1>2 DEF StepRec
  <1>4. steps'[s].state = "ran"
    BY <1>2 DEF StepRec
  <1>5. steps' \in Seq(StepRec)
    <2>1. Len(steps) \in Nat
      BY <1>1
    <2> QED
      BY <1>2, <1>a, <1>3, <2>1
  <1>6. /\ \A j : Silent(j)' = Silent(j)
        /\ \A j : \A t \in DOMAIN steps : Told(t, j)' = Told(t, j)
    BY <1>1, <1>2, <1>3 DEF Silent, Told
  <1>7. \A j : Awaited(j)' = Awaited(j)
    BY <1>2, <1>6 DEF Awaited
  <1>8. IdsFit'
    BY <1>1, <1>2, <1>3, <1>5 DEF TableInv, IdsFit
  <1>9. ReportsFit'
    <2>1. \A t \in DOMAIN steps : steps'[t].state = "queued" => steps[t].state = "queued"
      BY <1>2, <1>4
    <2> QED
      BY <1>2, <1>3, <1>6, <2>1 DEF TableInv, ReportsFit
  <1>10. MemoryFits'
    BY <1>1, WrittenType DEF TableInv, MemoryFits
  <1> QED
    BY <1>1, <1>2, <1>7, <1>8, <1>9, <1>10, WorkerFrame

LEMMA TransferDoneKeeps ==
    ASSUME TableInv, NEW j \in DOMAIN xfer, NEW k \in Rank, NEW bad \in Outcomes(j), TransferDone(j, k, bad)
    PROVE  TableInv'
  <1>1. /\ xfer \in [DOMAIN xfer -> XferRec] /\ DOMAIN xfer \subseteq Job
        /\ xfer' = [xfer EXCEPT ![j].busy = @ \ {k}, ![j].bad[k] = bad]
        /\ UNCHANGED <<req, conn, jobs, pendingOf, toFlush, nextJob, stale, batch, steps, stored, seen>>
    BY DEF TransferDone, TableInv, IdsFit
  <1>2. bad \subseteq Block
    <2>1. xfer[j].pairs \subseteq Block \X Key
      BY <1>1 DEF XferRec
    <2> QED
      BY <2>1 DEF Outcomes
  <1>3. /\ xfer' \in [DOMAIN xfer -> XferRec] /\ DOMAIN xfer' = DOMAIN xfer
        /\ \A i \in DOMAIN xfer : xfer'[i].unreported = xfer[i].unreported
    BY <1>1, <1>2, ZenonT(60) DEF XferRec
  <1>4. /\ \A i : Silent(i)' = Silent(i)
        /\ \A i : \A s \in DOMAIN steps : Told(s, i)' = Told(s, i)
    BY <1>1, <1>3 DEF Silent, Told
  <1>5. \A i : Awaited(i)' = Awaited(i)
    BY <1>1, <1>4 DEF Awaited
  <1>6. IdsFit'
    BY <1>1, <1>3 DEF TableInv, IdsFit
  <1>7. ReportsFit'
    BY <1>1, <1>4 DEF TableInv, ReportsFit
  <1>8. MemoryFits'
    <2>1. \E P : gpu' = gpu \/ gpu' = Written(P)
      BY DEF TransferDone
    <2> QED
      BY <2>1, WrittenType DEF TableInv, MemoryFits
  <1>9. Len(steps') = Len(steps)
    BY <1>1
  <1> QED
    BY <1>1, <1>5, <1>6, <1>7, <1>8, <1>9, WorkerFrame

LEMMA LaunchKeeps ==
    ASSUME TableInv, NEW s \in DOMAIN steps, Launch(s)
    PROVE  TableInv'
  <1> DEFINE step == steps[s]
             flushed == step.flush \cap DOMAIN xfer
             Now(j) == [xfer[j] EXCEPT
                 !.at = IF j \in step.stores THEN "deferred"
                        ELSE IF j \in step.loads \/ @ = "deferred" THEN "started" ELSE @,
                 !.busy = IF j \in flushed THEN {} ELSE @]
             Tell(j) == IF Now(j).at = "started" THEN Now(j).unreported \ Now(j).busy ELSE {}
             told == {j \in DOMAIN xfer : Tell(j) # {}}
             All(j) == Now(j).unreported \ Tell(j) = {}
             Msg(j) == [job |-> j, req |-> xfer[j].req, load |-> ~xfer[j].store,
                        ranks |-> Tell(j), last |-> All(j),
                        bad |-> UNION {xfer[j].bad[k] : k \in Tell(j)}]
             report == {Msg(j) : j \in told}
  <1>1. /\ steps \in Seq(StepRec) /\ xfer \in [DOMAIN xfer -> XferRec] /\ DOMAIN xfer \subseteq Job
        /\ UNCHANGED <<req, conn, jobs, pendingOf, toFlush, nextJob, stale, batch, stored, seen>>
    BY ZenonT(60) DEF Launch, TableInv, IdsFit
  <1>2. step.state = "queued"
    BY ZenonT(60) DEF Launch
  <1>3. steps' = [steps EXCEPT ![s].state = "launched", ![s].report = report]
    BY ZenonT(60) DEF Launch
  <1>4. xfer' = [j \in {i \in DOMAIN xfer : ~(i \in told /\ All(i))} |->
                   [Now(j) EXCEPT !.unreported = @ \ Tell(j)]]
    BY ZenonT(60) DEF Launch
  <1>5. MemoryFits'
    <2>1. \E P : gpu' = Written(P)
      BY ZenonT(60) DEF Launch
    <2> QED
      BY <2>1, WrittenType DEF TableInv, MemoryFits
  \* what every transfer becomes, and the ranks that report it
  <1>6. ASSUME NEW j \in DOMAIN xfer
        PROVE  /\ Now(j) \in XferRec /\ Now(j).unreported = xfer[j].unreported
               /\ Tell(j) \subseteq xfer[j].unreported
    <2>1. xfer[j] \in XferRec
      BY <1>1
    <2>2. Now(j) \in XferRec /\ Now(j).unreported = xfer[j].unreported
      BY <2>1 DEF XferRec
    <2> QED
      BY <2>2
  <1>7. PICK tell : tell = [j \in DOMAIN xfer |-> Tell(j)]
    OBVIOUS
  <1>8. PICK now : now = [j \in DOMAIN xfer |-> Now(j)]
    OBVIOUS
  <1>9. PICK rep : rep = report
    OBVIOUS
  <1>10. /\ \A j \in DOMAIN xfer : /\ now[j] \in XferRec /\ now[j].unreported = xfer[j].unreported
                                   /\ tell[j] \subseteq xfer[j].unreported
         /\ told = {j \in DOMAIN xfer : tell[j] # {}}
         /\ \A j \in DOMAIN xfer : All(j) <=> xfer[j].unreported \ tell[j] = {}
    BY <1>6, <1>7, <1>8
  <1>11. xfer' = [j \in {i \in DOMAIN xfer : ~(tell[i] # {} /\ xfer[i].unreported \ tell[i] = {})} |->
                   [now[j] EXCEPT !.unreported = @ \ tell[j]]]
    <2>1. {i \in DOMAIN xfer : ~(i \in told /\ All(i))}
             = {i \in DOMAIN xfer : ~(tell[i] # {} /\ xfer[i].unreported \ tell[i] = {})}
      BY <1>10
    <2>2. \A j \in DOMAIN xfer : [Now(j) EXCEPT !.unreported = @ \ Tell(j)] = [now[j] EXCEPT !.unreported = @ \ tell[j]]
      BY <1>7, <1>8, ZenonT(60)
    <2> HIDE DEF Now, Tell, told, All
    <2> QED
      BY <1>4, <2>1, <2>2
  <1>12. /\ \A m \in rep : m.job \in DOMAIN xfer /\ m.ranks = tell[m.job] /\ tell[m.job] # {}
         /\ \A m, n \in rep : m.job = n.job => m = n
         /\ \A j \in DOMAIN xfer : tell[j] # {} => \E m \in rep : m.job = j
    <2> HIDE DEF Now, Tell, All
    <2>1. \A j \in DOMAIN xfer : tell[j] = Tell(j)
      BY <1>7
    <2>2. \A j : Msg(j).job = j /\ Msg(j).ranks = Tell(j)
      OBVIOUS
    <2> HIDE DEF Msg
    <2>3. \A m \in rep : \E j \in told : m = Msg(j)
      BY <1>9
    <2>4. \A m \in rep : m.job \in DOMAIN xfer /\ m.ranks = tell[m.job] /\ tell[m.job] # {}
      BY <2>1, <2>2, <2>3
    <2>5. \A m, n \in rep : m.job = n.job => m = n
      BY <2>2, <2>3
    <2>6. ASSUME NEW j \in DOMAIN xfer, tell[j] # {} PROVE \E m \in rep : m.job = j
      <3>1. Msg(j) \in rep
        BY <1>9, <2>1, <2>6
      <3> QED
        BY <2>2, <3>1
    <2> QED
      BY <2>4, <2>5, <2>6
  <1>13. rep \subseteq Report
    <2>1. ASSUME NEW j \in told
          PROVE  Msg(j) \in Report
      <3>0. j \in DOMAIN xfer /\ j \in Job /\ xfer[j] \in XferRec
        BY <1>1
      <3>1. j \in Job /\ xfer[j] \in XferRec /\ Tell(j) \subseteq Rank
        <4>1. Tell(j) \subseteq xfer[j].unreported
          BY <1>6, <3>0
        <4>2. xfer[j].unreported \subseteq Rank
          BY <3>0 DEF XferRec
        <4> QED
          BY <3>0, <4>1, <4>2
      <3>2. xfer[j].req \in Request /\ xfer[j].store \in BOOLEAN /\ xfer[j].bad \in [Rank -> SUBSET Block]
        BY <3>1 DEF XferRec
      <3>3. UNION {xfer[j].bad[k] : k \in Tell(j)} \subseteq Block
        BY <3>1, <3>2
      <3>4. All(j) \in BOOLEAN /\ (~xfer[j].store) \in BOOLEAN
        BY SMTT(60)
      <3> HIDE DEF All, Tell
      <3> QED
        BY <3>1, <3>2, <3>3, <3>4 DEF Report
    <2> QED
      BY <1>9, <2>1
  <1>14. steps' = [steps EXCEPT ![s].state = "launched", ![s].report = rep]
    BY <1>3, <1>9
  <1> HIDE DEF Now, Tell, told, All, Msg, report
  <1>15. /\ DOMAIN steps' = DOMAIN steps /\ Len(steps') = Len(steps) /\ DOMAIN steps = 1..Len(steps)
         /\ \A t \in DOMAIN steps : steps[t] \in StepRec
         /\ \A t \in DOMAIN steps : t # s => steps'[t] = steps[t]
         /\ steps'[s] = [steps[s] EXCEPT !.state = "launched", !.report = rep]
    BY <1>1, <1>14
  <1>16. steps' = [t \in DOMAIN steps |-> steps'[t]]
    BY <1>1, <1>14
  <1>17. steps'[s] \in StepRec /\ steps'[s].report = rep /\ steps'[s].state = "launched"
    BY <1>13, <1>15, ZenonT(60) DEF StepRec
  <1>18. steps' \in Seq(StepRec)
    <2>1. Len(steps) \in Nat /\ \A t \in DOMAIN steps : steps'[t] \in StepRec
      BY <1>1, <1>15, <1>17
    <2> QED
      BY <1>15, <1>16, <2>1
  <1>19. /\ DOMAIN xfer' \subseteq DOMAIN xfer /\ xfer' \in [DOMAIN xfer' -> XferRec]
         /\ \A j \in DOMAIN xfer' : xfer'[j].unreported = xfer[j].unreported \ tell[j]
         /\ \A j \in DOMAIN xfer : j \notin DOMAIN xfer' => xfer[j].unreported \ tell[j] = {}
    <2>1. \A j \in DOMAIN xfer : /\ [now[j] EXCEPT !.unreported = @ \ tell[j]] \in XferRec
                                 /\ [now[j] EXCEPT !.unreported = @ \ tell[j]].unreported = xfer[j].unreported \ tell[j]
      BY <1>10 DEF XferRec
    <2> QED
      BY <1>11, <2>1
  <1>20. /\ \A j \in DOMAIN xfer : Silent(j)' = Silent(j) \ tell[j] /\ tell[j] \subseteq Silent(j)
         /\ \A j : j \notin DOMAIN xfer => Silent(j)' = {} /\ Silent(j) = {}
    BY <1>10, <1>19 DEF Silent
  <1>21. /\ \A j : \A t \in DOMAIN steps : t # s => Told(t, j)' = Told(t, j)
         /\ \A j \in DOMAIN xfer : Told(s, j)' = tell[j]
         /\ \A j : j \notin DOMAIN xfer => Told(s, j)' = {}
         /\ \A j : Told(s, j) = {}
    <2>1. steps[s].report = {}
      BY <1>2 DEF TableInv, ReportsFit
    <2>2. \A j \in DOMAIN xfer : Told(s, j)' = tell[j]
      BY <1>12, <1>17 DEF Told
    <2>3. \A j : j \notin DOMAIN xfer => Told(s, j)' = {}
      BY <1>12, <1>17 DEF Told
    <2> QED
      BY <1>15, <2>1, <2>2, <2>3 DEF Told
  <1>22. ASSUME NEW j PROVE Awaited(j)' = Awaited(j)
    <2>1. CASE j \in DOMAIN xfer
      <3>1. Silent(j)' \cup Told(s, j)' = Silent(j)
        BY <1>20, <1>21, <2>1
      <3> QED
        BY <1>15, <1>20, <1>21, <2>1, <3>1 DEF Awaited
    <2>2. CASE j \notin DOMAIN xfer
      BY <1>15, <1>20, <1>21, <2>2 DEF Awaited
    <2> QED
      BY <2>1, <2>2
  <1>23. IdsFit'
    <2>1. \A t \in DOMAIN steps' : \A m \in steps'[t].report : m.job < nextJob'
      <3>1. \A m \in rep : m.job < nextJob
        BY <1>12 DEF TableInv, IdsFit
      <3> QED
        BY <1>1, <1>15, <1>17, <3>1 DEF TableInv, IdsFit
    <2> QED
      BY <1>1, <1>15, <1>18, <1>19, <2>1 DEF TableInv, IdsFit
  <1>24. ReportsFit'
    <2>1. \A t \in DOMAIN steps' : steps'[t].state = "queued" => steps'[t].report = {}
      BY <1>15, <1>17 DEF TableInv, ReportsFit
    <2>2. \A t \in DOMAIN steps' : \A m, n \in steps'[t].report : m.job = n.job => m = n
      BY <1>12, <1>15, <1>17 DEF TableInv, ReportsFit
    <2>3. \A t \in DOMAIN steps, j \in Job : Told(t, j) \cap Silent(j) = {}
      BY DEF TableInv, ReportsFit
    <2>4. \A t, u \in DOMAIN steps : t # u => \A j \in Job : Told(t, j) \cap Told(u, j) = {}
      BY DEF TableInv, ReportsFit
    <2>5. ASSUME NEW t \in DOMAIN steps, NEW j \in Job PROVE Told(t, j)' \cap Silent(j)' = {}
      <3>1. CASE t = s
        BY <1>20, <1>21, <3>1
      <3>2. CASE t # s
        BY <1>20, <1>21, <2>3, <3>2
      <3> QED
        BY <3>1, <3>2
    <2>6. ASSUME NEW t \in DOMAIN steps, NEW j \in Job, t # s
          PROVE  Told(t, j)' \cap Told(s, j)' = {}
      <3>1. CASE j \in DOMAIN xfer
        BY <1>20, <1>21, <2>3, <2>6, <3>1
      <3>2. CASE j \notin DOMAIN xfer
        BY <1>21, <3>2
      <3> QED
        BY <3>1, <3>2
    <2>7. ASSUME NEW t \in DOMAIN steps, NEW u \in DOMAIN steps, t # u, NEW j \in Job
          PROVE  Told(t, j)' \cap Told(u, j)' = {}
      BY <1>21, <2>4, <2>6, <2>7
    <2> QED
      BY <1>15, <2>1, <2>2, <2>5, <2>7 DEF ReportsFit
  <1> QED
    BY <1>1, <1>5, <1>15, <1>22, <1>23, <1>24, WorkerFrame

----------------------------------------------------------------------------
(* New jobs *)

LEMMA JobType ==
    ASSUME NEW r \in Request, NEW store \in BOOLEAN, NEW K \in SUBSET Key, NEW B \in SUBSET Block,
           NEW P \in SUBSET (Block \X Key)
    PROVE  /\ JobOf(r, store, K, B) \in JobRec /\ JobOf(r, store, K, B).pending = Cardinality(Rank)
           /\ JobOf(r, store, K, B).store = store /\ JobOf(r, store, K, B).keys = K
           /\ JobOf(r, store, K, B).req = r
           /\ TransferOf(r, store, P) \in XferRec /\ TransferOf(r, store, P).unreported = Rank
  <1>1. Cardinality(Rank) \in Nat
    BY OffloadingConnectorAssumption, FS_CardinalityType DEF OffloadingConnectorAssumption
  <1>2. JobOf(r, store, K, B) \in JobRec
    BY <1>1 DEF JobOf, JobRec
  <1>3. TransferOf(r, store, P) \in XferRec
    BY DEF TransferOf, XferRec
  <1> QED
    BY <1>2, <1>3 DEF JobOf, TransferOf

\* A request that is alive gets a job.
LEMMA NewJob ==
    ASSUME TableInv, nextJob < MaxJobs, NEW r \in Request, req[r].status \in Live,
           NEW store \in BOOLEAN, NEW K \in SUBSET Key, NEW B \in SUBSET Block, NEW P \in SUBSET (Block \X Key),
           jobs' = With(jobs, nextJob, JobOf(r, store, K, B)),
           xfer' = With(xfer, nextJob, TransferOf(r, store, P)),
           NEW h \in Nat, h <= N(r),
           conn' \in [Request -> ConnRec], \A q \in Request : conn'[q].tracked = conn[q].tracked,
           \A q \in Request : q # r => conn'[q] = conn[q],
           conn'[r].next = h, conn'[r].jobs = conn[r].jobs \cup {nextJob},
           nextJob' = nextJob + 1, UNCHANGED <<steps, stale, pendingOf>>,
           \A q \in Request : req'[q].status = req[q].status
                              \/ (req[q].status \in Live /\ req'[q].status \in Live)
    PROVE  /\ TablesFit' /\ IdsFit' /\ ReportsFit' /\ Counted' /\ FinishedAccounted'
           /\ DOMAIN jobs' = DOMAIN jobs \cup {nextJob} /\ nextJob \notin DOMAIN jobs
           /\ \A j \in DOMAIN jobs : jobs'[j] = jobs[j]
           /\ jobs'[nextJob].store = store /\ jobs'[nextJob].keys = K /\ jobs'[nextJob].req = r
  <1>1. PICK id : id = nextJob
    OBVIOUS
  <1>2. /\ id \in Job /\ id \in Nat /\ nextJob \in Nat
        /\ id \notin DOMAIN jobs /\ id \notin DOMAIN xfer
    BY <1>1, OffloadingConnectorAssumption, SMTT(60) DEF TableInv, IdsFit, Job, OffloadingConnectorAssumption
  <1>3. /\ DOMAIN jobs' = DOMAIN jobs \cup {id} /\ jobs'[id] = JobOf(r, store, K, B)
        /\ \A j \in DOMAIN jobs : jobs'[j] = jobs[j]
        /\ jobs' = [j \in DOMAIN jobs' |-> jobs'[j]]
    BY <1>1, <1>2 DEF With
  <1>4. /\ DOMAIN xfer' = DOMAIN xfer \cup {id} /\ xfer'[id] = TransferOf(r, store, P)
        /\ \A j \in DOMAIN xfer : xfer'[j] = xfer[j]
        /\ xfer' = [j \in DOMAIN xfer' |-> xfer'[j]]
    BY <1>1, <1>2 DEF With
  <1>5. IsFiniteSet(Rank) /\ Rank # {} /\ Cardinality(Rank) \in Nat
    BY OffloadingConnectorAssumption, FS_CardinalityType DEF OffloadingConnectorAssumption
  <1>6. /\ jobs'[id] \in JobRec /\ jobs'[id].pending = Cardinality(Rank)
        /\ jobs'[id].store = store /\ jobs'[id].keys = K /\ jobs'[id].req = r
    BY <1>3, JobType
  <1>7. xfer'[id] \in XferRec /\ xfer'[id].unreported = Rank
    BY <1>4, JobType
  <1>8. /\ jobs \in [DOMAIN jobs -> JobRec] /\ xfer \in [DOMAIN xfer -> XferRec]
        /\ conn \in [Request -> ConnRec]
    BY DEF TableInv, IdsFit, TablesFit
  <1>9. jobs' \in [DOMAIN jobs' -> JobRec] /\ xfer' \in [DOMAIN xfer' -> XferRec]
    BY <1>3, <1>4, <1>6, <1>7, <1>8
  <1>10. IdsFit'
    <2>1. DOMAIN jobs' \subseteq Job /\ DOMAIN xfer' \subseteq Job
      BY <1>2, <1>3, <1>4 DEF TableInv, IdsFit
    <2>2. nextJob' \in 0..MaxJobs /\ stale' \in Nat /\ stale' <= nextJob'
      BY <1>2, OffloadingConnectorAssumption, SMTT(60) DEF TableInv, IdsFit, OffloadingConnectorAssumption
    <2>3. \A j \in DOMAIN jobs' : stale' <= j /\ j < nextJob'
      BY <1>1, <1>2, <1>3 DEF TableInv, IdsFit, Job
    <2>4. \A j \in DOMAIN xfer' : j < nextJob'
      BY <1>1, <1>2, <1>4 DEF TableInv, IdsFit, Job
    <2>5. \A s \in DOMAIN steps' : \A m \in steps'[s].report : m.job < nextJob'
      <3>1. ASSUME NEW s \in DOMAIN steps, NEW m \in steps[s].report
            PROVE  m.job \in Nat /\ m.job < nextJob
        <4>1. steps[s] \in StepRec /\ m.job < nextJob
          BY DEF TableInv, IdsFit
        <4>2. m \in Report
          BY <4>1 DEF StepRec
        <4> QED
          BY <4>1, <4>2 DEF Report, Job
      <3> QED
        BY <1>2, <3>1
    <2> QED
      BY <1>9, <2>1, <2>2, <2>3, <2>4, <2>5 DEF TableInv, IdsFit
  <1>11. /\ \A j : j # id => Silent(j)' = Silent(j)
         /\ Silent(id)' = Rank /\ Silent(id) = {}
         /\ \A j : \A s \in DOMAIN steps : Told(s, j)' = Told(s, j)
         /\ \A s \in DOMAIN steps : Told(s, id) = {}
    <2>1. \A s \in DOMAIN steps : \A m \in steps[s].report : m.job # id
      BY <1>1, <1>2 DEF TableInv, IdsFit
    <2> QED
      BY <1>2, <1>4, <1>7, <2>1 DEF Silent, Told
  <1>12. ReportsFit'
    <2>1. \A s \in DOMAIN steps, j \in Job : Told(s, j)' \cap Silent(j)' = {}
      BY <1>11 DEF TableInv, ReportsFit
    <2>2. \A s, t \in DOMAIN steps : s # t => \A j \in Job : Told(s, j)' \cap Told(t, j)' = {}
      BY <1>11 DEF TableInv, ReportsFit
    <2> QED
      BY <2>1, <2>2 DEF TableInv, ReportsFit
  <1>13. Counted'
    <2>1. \A j : j # id => Awaited(j)' = Awaited(j)
      BY <1>11 DEF Awaited
    <2>2. Awaited(id)' = Rank
      BY <1>11 DEF Awaited
    <2>3. ASSUME NEW j \in DOMAIN jobs'
          PROVE  Awaited(j)' # {} /\ jobs'[j].pending = Cardinality(Awaited(j)')
      <3>1. CASE j = id
        BY <1>5, <1>6, <2>2, <3>1
      <3>2. CASE j # id
        BY <1>3, <2>1, <2>3, <3>2 DEF TableInv, Counted
      <3> QED
        BY <3>1, <3>2
    <2> QED
      BY <2>3 DEF Counted
  <1>14. /\ conn' \in [Request -> ConnRec]
         /\ \A q \in Request : conn'[q].tracked = conn[q].tracked
         /\ \A q \in Request : q # r => conn'[q] = conn[q]
         /\ conn'[r].next = h /\ conn'[r].jobs = conn[r].jobs \cup {id}
    BY <1>1
  <1>15. conn[r].tracked /\ ~IsFinished(r)
    BY DEF TableInv, TablesFit, Live, IsFinished
  <1>16. \A j \in DOMAIN jobs : jobs[j].req \in Request
    BY <1>8 DEF JobRec
  <1>17. TablesFit'
    <2>1. \A q \in Request : conn'[q].next <= N(q)
      BY <1>14 DEF TableInv, TablesFit
    <2>2. \A q \in Request : req'[q].status = "unborn" => conn'[q].next = 0
      BY <1>14 DEF TableInv, TablesFit, Live
    <2>3. \A q \in Request : req'[q].status \in {"waiting", "loading", "received", "running"} => conn'[q].tracked
      BY <1>14 DEF TableInv, TablesFit, Live
    <2>4. ASSUME NEW q \in Request, NEW j \in conn'[q].jobs
          PROVE  j < nextJob' /\ (j \in DOMAIN jobs' => jobs'[j].req = q)
      <3>1. CASE j = id
        <4>1. q = r
          BY <1>1, <1>2, <1>14, <2>4, <3>1 DEF TableInv, TablesFit
        <4> QED
          BY <1>1, <1>2, <1>6, <3>1, <4>1
      <3>2. CASE j # id
        <4>1. j \in conn[q].jobs
          BY <1>14, <2>4, <3>2
        <4>2. j \in Nat /\ j < nextJob /\ (j \in DOMAIN jobs => jobs[j].req = q)
          BY <1>8, <4>1 DEF TableInv, TablesFit, ConnRec, Job
        <4> QED
          BY <1>2, <1>3, <3>2, <4>2
      <3> QED
        BY <3>1, <3>2
    <2>5. ASSUME NEW j \in DOMAIN jobs'
          PROVE  j \in conn'[jobs'[j].req].jobs /\ conn'[jobs'[j].req].tracked
      <3>1. CASE j = id
        BY <1>6, <1>14, <1>15, <3>1
      <3>2. CASE j # id
        <4>1. j \in DOMAIN jobs /\ jobs'[j] = jobs[j]
          BY <1>3, <3>2
        <4>2. j \in conn[jobs[j].req].jobs /\ conn[jobs[j].req].tracked
          BY <4>1 DEF TableInv, TablesFit
        <4> QED
          BY <1>14, <1>16, <4>1, <4>2
      <3> QED
        BY <3>1, <3>2
    <2> QED
      BY <1>14, <2>1, <2>2, <2>3, <2>4, <2>5 DEF TablesFit
  <1>18. FinishedAccounted'
    <2> DEFINE Fin(q) == req'[q].status \in {"finished", "gone"}
    <2>1. \A q \in Request : Fin(q) <=> IsFinished(q)
      BY DEF IsFinished, Live
    <2>2. \A q \in Request : conn'[q].tracked /\ Fin(q) => conn'[q].jobs # {}
      BY <1>14, <2>1 DEF TableInv, FinishedAccounted
    <2>3. {j \in DOMAIN jobs' : Fin(jobs'[j].req)} = {j \in DOMAIN jobs : IsFinished(jobs[j].req)}
      <3>1. ~Fin(r)
        BY <1>15, <2>1
      <3>2. ASSUME NEW j \in DOMAIN jobs PROVE Fin(jobs'[j].req) <=> IsFinished(jobs[j].req)
        BY <1>3, <1>16, <2>1
      <3> HIDE DEF Fin
      <3> QED
        BY <1>3, <1>6, <3>1, <3>2
    <2>4. pendingOf' = UNION {{<<b, j>> : b \in jobs'[j].blocks} : j \in {i \in DOMAIN jobs' : Fin(jobs'[i].req)}}
      <3> HIDE DEF Fin
      <3>1. pendingOf = UNION {{<<b, j>> : b \in jobs[j].blocks} : j \in {i \in DOMAIN jobs : IsFinished(jobs[i].req)}}
        BY DEF TableInv, FinishedAccounted
      <3> QED
        BY <1>3, <2>3, <3>1
    <2> QED
      BY <2>2, <2>4 DEF FinishedAccounted, IsFinished
  <1> QED
    BY <1>1, <1>2, <1>3, <1>6, <1>10, <1>12, <1>13, <1>17, <1>18

LEMMA AdmitLoadKeeps ==
    ASSUME TableInv, NEW r \in Request, AdmitLoad(r)
    PROVE  TableInv'
  <1>1. PICK h : h = Lookup(r)
    OBVIOUS
  <1>2. h \in Nat /\ h > 0 /\ h <= N(r) /\ N(r) \in Nat
    BY <1>1, LookupRange, LengthOfKeys DEF AdmitLoad
  <1>3. PICK new \in Allocations(h) :
          LET pairs == {<<new[i], KeyAt(r, i)>> : i \in 1..h} IN
          /\ req' = [req EXCEPT ![r] = [status |-> "loading", computed |-> h, blocks |-> new]]
          /\ batch' = [batch EXCEPT !.loads = @ \cup {nextJob}, !.alloc = @ \cup ToSet(new)]
          /\ jobs' = With(jobs, nextJob, JobOf(r, FALSE, KeysTo(r, h), {}))
          /\ xfer' = With(xfer, nextJob, TransferOf(r, FALSE, pairs))
    BY <1>1 DEF AdmitLoad
  <1>4. PICK P : P = {<<new[i], KeyAt(r, i)>> : i \in 1..h}
    OBVIOUS
  <1>5. /\ new \in Seq(Block) /\ Len(new) = h /\ DOMAIN new = 1..h /\ ToSet(new) \subseteq Block
        /\ \A i \in 1..h : new[i] \in Block
    <2>1. new \in Seq(Block) /\ Len(new) = h /\ DOMAIN new = 1..h
      BY <1>2, AllocationsFit
    <2> QED
      BY <2>1 DEF ToSet
  <1>6. P \in SUBSET (Block \X Key) /\ KeysTo(r, h) \in SUBSET Key
    BY <1>2, <1>4, <1>5, LengthOfKeys DEF KeysTo
  <1>7. /\ req \in [Request -> ReqRec] /\ batch \in BatchRec /\ conn \in [Request -> ConnRec]
        /\ nextJob \in Job /\ nextJob < MaxJobs /\ req[r].status = "waiting" /\ batch.phase = "plan"
    BY OffloadingConnectorAssumption
       DEF AdmitLoad, Planning, TableInv, ReqsFit, BatchFits, TablesFit, IdsFit, Job, OffloadingConnectorAssumption
  <1>8. /\ jobs' = With(jobs, nextJob, JobOf(r, FALSE, KeysTo(r, h), {}))
        /\ xfer' = With(xfer, nextJob, TransferOf(r, FALSE, P))
        /\ nextJob' = nextJob + 1 /\ seen' = seen \cup KeysTo(r, h)
        /\ UNCHANGED <<pendingOf, toFlush, stale, steps, gpu, stored>>
    BY <1>1, <1>3, <1>4 DEF AdmitLoad
  <1>9. /\ conn' \in [Request -> ConnRec]
        /\ \A q \in Request : conn'[q].tracked = conn[q].tracked
        /\ \A q \in Request : q # r => conn'[q] = conn[q]
        /\ conn'[r].next = h /\ conn'[r].jobs = conn[r].jobs \cup {nextJob}
    <2>1. conn' = [conn EXCEPT ![r].jobs = @ \cup {nextJob}, ![r].next = h]
      BY <1>1 DEF AdmitLoad
    <2> QED
      BY <1>2, <1>7, <2>1 DEF ConnRec
  <1>10. /\ req'[r].status = "loading" /\ \A q \in Request : q # r => req'[q] = req[q]
    BY <1>3, <1>7
  <1>11. \A q \in Request : req'[q].status = req[q].status \/ (req[q].status \in Live /\ req'[q].status \in Live)
    BY <1>7, <1>10 DEF Live
  <1>12. req[r].status \in Live
    BY <1>7 DEF Live
  <1>13. /\ TablesFit' /\ IdsFit' /\ ReportsFit' /\ Counted' /\ FinishedAccounted'
         /\ DOMAIN jobs' = DOMAIN jobs \cup {nextJob} /\ nextJob \notin DOMAIN jobs
         /\ \A j \in DOMAIN jobs : jobs'[j] = jobs[j]
         /\ jobs'[nextJob].store = FALSE
    BY <1>2, <1>6, <1>7, <1>8, <1>9, <1>11, <1>12, NewJob
  <1>14. ReqsFit'
    BY <1>2, <1>3, <1>5, <1>7 DEF TableInv, ReqsFit, ReqRec, Status
  <1>15. BatchFits'
    <2>1. batch' \in BatchRec /\ batch'.sched = batch.sched /\ batch'.phase = "plan"
      BY <1>3, <1>5, <1>7 DEF BatchRec
    <2>2. r \notin batch.sched
      BY <1>7 DEF TableInv, BatchFits
    <2>3. batch.sched \subseteq Request
      BY <1>7 DEF BatchRec
    <2> QED
      BY <1>10, <2>1, <2>2, <2>3 DEF TableInv, BatchFits
  <1>16. TierFits'
    <2>1. Storing' = Storing
      BY <1>13 DEF Storing
    <2>2. \A i, j \in DOMAIN jobs' : i # j /\ jobs'[i].store /\ jobs'[j].store => jobs'[i].keys \cap jobs'[j].keys = {}
      BY <1>13 DEF TableInv, TierFits
    <2> QED
      BY <1>8, <2>1, <2>2 DEF TableInv, TierFits
  <1>17. NoHole'
    <2>1. \A q \in Request : conn'[q].tracked = conn[q].tracked /\ (q # r => conn'[q].next = conn[q].next)
      BY <1>7, <1>9
    <2>2. conn'[r].next = h
      BY <1>7, <1>9
    <2> QED
      BY <1>8, <2>1, <2>2 DEF TableInv, NoHole
  <1>18. MemoryFits' /\ FlushFits'
    BY <1>8 DEF TableInv, MemoryFits, FlushFits
  <1> QED
    BY <1>13, <1>14, <1>15, <1>16, <1>17, <1>18 DEF TableInv

\* What the store of a scheduled request covers.
LEMMA StoreSpan ==
    ASSUME TableInv, NEW r \in batch.sched
    PROVE  /\ r \in Request /\ req[r].status = "running" /\ conn[r].tracked
           /\ Storable(Offloadable(r)) \in Nat /\ Storable(Offloadable(r)) <= N(r)
           /\ Storable(Offloadable(r)) <= Len(req[r].blocks)
           /\ N(r) \in Nat /\ conn[r].next \in Nat /\ req[r].blocks \in Seq(Block)
  <1>1. r \in Request /\ req[r].status = "running"
    BY DEF TableInv, BatchFits, BatchRec
  <1>2. conn[r].tracked /\ conn[r].next \in Nat
    BY <1>1 DEF TableInv, TablesFit, ConnRec
  <1>3. /\ Offloadable(r) \in Nat /\ Offloadable(r) <= req[r].computed /\ req[r].computed \in Nat
        /\ req[r].computed <= N(r) /\ req[r].computed <= Len(req[r].blocks)
        /\ N(r) \in Nat /\ req[r].blocks \in Seq(Block)
    BY <1>1, OffloadableRange, LengthOfKeys DEF TableInv, ReqsFit, ReqRec
  <1>4. Storable(Offloadable(r)) \in Nat /\ Storable(Offloadable(r)) <= Offloadable(r)
    BY <1>3, StorableRange
  <1> QED
    BY <1>1, <1>2, <1>3, <1>4

\* Progress to n is covered by what was offered up to next and from there to n.
LEMMA NoHoleTo ==
    ASSUME TableInv, NEW r \in Request, NEW n \in Nat, conn[r].tracked,
           \A q \in Request : conn'[q].tracked = conn[q].tracked /\ (q # r => conn'[q].next = conn[q].next),
           conn'[r].next = n,
           seen' = seen \cup {KeyAt(r, i) : i \in conn[r].next + 1 .. n}
    PROVE  NoHole'
  <1>1. conn[r].next \in Nat /\ KeysTo(r, conn[r].next) \subseteq seen
    BY DEF TableInv, TablesFit, ConnRec, NoHole
  <1>2. KeysTo(r, n) \subseteq seen'
    <2> SUFFICES ASSUME NEW i \in 1..n PROVE KeyAt(r, i) \in seen'
      BY DEF KeysTo
    <2>1. CASE i <= conn[r].next
      <3>1. KeyAt(r, i) \in KeysTo(r, conn[r].next)
        BY <1>1, <2>1 DEF KeysTo
      <3> QED
        BY <1>1, <3>1
    <2>2. CASE i > conn[r].next
      <3>1. i \in conn[r].next + 1 .. n
        BY <1>1, <2>2
      <3> QED
        BY <3>1
    <2> QED
      BY <1>1, <2>1, <2>2
  <1> QED
    BY <1>2 DEF TableInv, NoHole

\* The tier makes room for what it accepts.
LEMMA RoomFor ==
    ASSUME TableInv, NEW K \in SUBSET Key, IsFiniteSet(K), NEW E \in Victims(K), stored' = stored \ E,
           Storing' = Storing \cup NewKeys(K)
    PROVE  /\ stored' \subseteq Key /\ IsFiniteSet(stored') /\ IsFiniteSet(Storing') /\ stored' \cap Storing' = {}
           /\ Cardinality(stored' \cup Storing') <= Slots
  <1> DEFINE U == stored \cup Storing
             new == NewKeys(K)
  <1>1. /\ stored \subseteq Key /\ IsFiniteSet(stored) /\ IsFiniteSet(Storing) /\ stored \cap Storing = {}
        /\ Cardinality(U) <= Slots /\ Slots \in Nat
    BY OffloadingConnectorAssumption DEF TableInv, TierFits, OffloadingConnectorAssumption
  <1>2. new \subseteq K /\ new \cap U = {} /\ IsFiniteSet(new)
    BY FS_Subset DEF NewKeys
  <1>3. IsFiniteSet(U)
    BY <1>1, FS_Union
  <1>4. E \subseteq stored /\ IsFiniteSet(E)
    BY <1>1, FS_Subset DEF Victims
  <1>5. Cardinality(U) \in Nat /\ Cardinality(new) \in Nat /\ Cardinality(E) \in Nat
    BY <1>2, <1>3, <1>4, FS_CardinalityType
  <1>6. Cardinality(E) >= Cardinality(U) + Cardinality(new) - Slots
    BY <1>1, <1>5 DEF Victims, Used
  <1>7. IsFiniteSet(U \ E) /\ Cardinality(U \ E) = Cardinality(U) - Cardinality(E)
    <2>1. IsFiniteSet(U \ E) /\ Cardinality(U \ E) = Cardinality(U) - Cardinality(U \cap E)
      BY <1>3, FS_Difference
    <2>2. U \cap E = E
      BY <1>4
    <2> QED
      BY <2>1, <2>2
  <1>8. stored' \cup Storing' = (U \ E) \cup new
    BY <1>1, <1>4
  <1>9. Cardinality((U \ E) \cup new) <= Cardinality(U \ E) + Cardinality(new)
    <2>1. /\ Cardinality((U \ E) \cup new) = Cardinality(U \ E) + Cardinality(new) - Cardinality((U \ E) \cap new)
          /\ IsFiniteSet((U \ E) \cap new)
      BY <1>2, <1>7, FS_Union, FS_Intersection
    <2>2. Cardinality((U \ E) \cap new) \in Nat
      BY <2>1, FS_CardinalityType
    <2>3. Cardinality(U \ E) \in Nat
      BY <1>7, FS_CardinalityType
    <2> QED
      BY <1>5, <2>1, <2>2, <2>3
  <1>10. IsFiniteSet((U \ E) \cup new)
    BY <1>2, <1>7, FS_Union
  <1>11. Cardinality((U \ E) \cup new) \in Nat
    BY <1>10, FS_CardinalityType
  <1>12. Cardinality(stored' \cup Storing') <= Slots
    <2>1. Cardinality(stored' \cup Storing') = Cardinality((U \ E) \cup new)
      BY <1>8
    <2>2. Cardinality((U \ E) \cup new) <= Slots
      <3>1. PICK u, n, e, d, x : /\ u = Cardinality(U) /\ n = Cardinality(new) /\ e = Cardinality(E)
                                 /\ d = Cardinality(U \ E) /\ x = Cardinality((U \ E) \cup new)
        OBVIOUS
      <3>2. /\ u \in Nat /\ n \in Nat /\ e \in Nat /\ x \in Nat /\ Slots \in Nat
            /\ e >= u + n - Slots /\ d = u - e /\ x <= d + n
        BY <1>1, <1>5, <1>6, <1>7, <1>9, <1>11, <3>1
      <3>3. x <= Slots
        BY <3>2
      <3> QED
        BY <3>1, <3>3
    <2> QED
      BY <2>1, <2>2
  <1>13. IsFiniteSet(stored') /\ IsFiniteSet(Storing')
    BY <1>1, <1>2, FS_Subset, FS_Union
  <1>14. stored' \subseteq Key /\ stored' \cap Storing' = {}
    BY <1>1, <1>2
  <1> QED
    BY <1>12, <1>13, <1>14

LEMMA BuildStoreKeeps ==
    ASSUME TableInv, NEW r \in Request, BuildStore(r)
    PROVE  TableInv'
  <1> DEFINE n == Storable(Offloadable(r))
             span == conn[r].next + 1 .. n
             offer == {KeyAt(r, i) : i \in span}
             new == NewKeys(offer)
             pairs == {<<req[r].blocks[i], KeyAt(r, i)>> : i \in {m \in span : KeyAt(r, m) \in new}}
  <1>1. r \in batch.sched
    BY DEF BuildStore
  <1>2. /\ req[r].status = "running" /\ conn[r].tracked
        /\ n \in Nat /\ n <= N(r) /\ n <= Len(req[r].blocks)
        /\ N(r) \in Nat /\ conn[r].next \in Nat /\ req[r].blocks \in Seq(Block)
    BY <1>1, StoreSpan
  <1>3. StoredTo(Offloadable(r)) = n
    BY DEF StoredTo
  <1>4. /\ req \in [Request -> ReqRec] /\ batch \in BatchRec /\ conn \in [Request -> ConnRec]
        /\ steps \in Seq(StepRec)
        /\ UNCHANGED <<req, pendingOf, toFlush, stale, steps, gpu>>
    BY DEF BuildStore, TableInv, ReqsFit, BatchFits, TablesFit, IdsFit
  <1>5. MemoryFits' /\ FlushFits' /\ ReqsFit'
    BY <1>4 DEF TableInv, MemoryFits, FlushFits, ReqsFit
  <1>6. ASSUME batch' \in BatchRec, batch'.sched = batch.sched, batch'.phase = batch.phase
        PROVE  BatchFits'
    BY <1>4, <1>6 DEF TableInv, BatchFits
  <1>7. CASE /\ new = {}
             /\ conn' = [conn EXCEPT ![r].next = StoredTo(Offloadable(r))]
             /\ seen' = seen \cup offer
             /\ batch' = [batch EXCEPT !.built = @ \cup {r}]
             /\ UNCHANGED <<jobs, xfer, nextJob, stored>>
    <2> HIDE DEF n
    <2>1. /\ conn' \in [Request -> ConnRec] /\ conn'[r].next = n
          /\ \A q \in Request : conn'[q].tracked = conn[q].tracked /\ conn'[q].jobs = conn[q].jobs
          /\ \A q \in Request : q # r => conn'[q].next = conn[q].next
      BY <1>2, <1>3, <1>4, <1>7 DEF ConnRec
    <2>2. BatchFits'
      BY <1>4, <1>6, <1>7 DEF BatchRec
    <2>3. IdsFit' /\ ReportsFit' /\ Counted' /\ TierFits'
      BY <1>4, <1>7, SameSteps, StepsFrame
    <2>4. TablesFit'
      BY <1>2, <1>4, <1>7, <2>1 DEF TableInv, TablesFit, IdsFit, JobRec
    <2>5. FinishedAccounted'
      BY <1>4, <1>7, <2>1 DEF TableInv, FinishedAccounted, IsFinished
    <2>6. NoHole'
      BY <1>2, <1>7, <2>1, NoHoleTo
    <2> QED
      BY <1>5, <2>2, <2>3, <2>4, <2>5, <2>6 DEF TableInv
  <1>8. CASE /\ batch' = [batch EXCEPT !.built = @ \cup {r}]
             /\ UNCHANGED <<conn, jobs, xfer, nextJob, stored, seen>>
    <2>1. BatchFits'
      BY <1>4, <1>6, <1>8 DEF BatchRec
    <2>2. FreesOnly /\ \A q \in Request : req'[q].status = req[q].status
      BY <1>4, SameSteps
    <2> QED
      BY <1>4, <1>5, <1>8, <2>1, <2>2, ReqFrame
  <1>9. CASE /\ new # {} /\ nextJob < MaxJobs
             /\ \E E \in Victims(offer) : stored' = stored \ E
             /\ jobs' = With(jobs, nextJob, JobOf(r, TRUE, new, {p[1] : p \in pairs}))
             /\ xfer' = With(xfer, nextJob, TransferOf(r, TRUE, pairs))
             /\ conn' = [conn EXCEPT ![r].next = StoredTo(Offloadable(r)), ![r].jobs = @ \cup {nextJob}]
             /\ nextJob' = nextJob + 1
             /\ seen' = seen \cup offer
             /\ batch' = [batch EXCEPT !.built = @ \cup {r}, !.stores = @ \cup {nextJob}]
    <2>1. \A i \in span : i \in 1..N(r) /\ i \in 1..Len(req[r].blocks)
      BY <1>2
    <2>2. offer \subseteq Key
      BY <2>1, LengthOfKeys
    <2>3. IsFiniteSet(offer)
      <3>1. [i \in span |-> KeyAt(r, i)] \in Surjection(span, offer)
        BY DEF Surjection
      <3>2. IsFiniteSet(span)
        <4>1. PICK a, b : a = conn[r].next + 1 /\ b = n
          OBVIOUS
        <4>2. a \in Int /\ b \in Int
          BY <1>2, <4>1
        <4>3. IsFiniteSet(a..b)
          BY <4>2, FS_Interval
        <4> QED
          BY <4>1, <4>3
      <3> HIDE DEF span, offer
      <3> QED
        BY <3>1, <3>2, FS_Surjection
    <2>4. new \subseteq offer
      BY DEF NewKeys
    <2>5. pairs \subseteq Block \X Key
      <3>1. \A i \in span : req[r].blocks[i] \in Block /\ KeyAt(r, i) \in Key
        BY <1>2, <2>1, LengthOfKeys
      <3> HIDE DEF span, new
      <3> QED
        BY <3>1
    <2>6. {p[1] : p \in pairs} \subseteq Block
      BY <2>5
    <2>7. nextJob \in Job
      BY <1>9, OffloadingConnectorAssumption DEF TableInv, IdsFit, Job, OffloadingConnectorAssumption
    <2>8. PICK K, P, B, O : K = new /\ P = pairs /\ B = {p[1] : p \in pairs} /\ O = offer
      OBVIOUS
    <2>9. /\ K \in SUBSET Key /\ P \in SUBSET (Block \X Key) /\ B \in SUBSET Block /\ O \in SUBSET Key
          /\ IsFiniteSet(O) /\ K = NewKeys(O)
      BY <2>2, <2>3, <2>4, <2>5, <2>6, <2>8
    <2>10. /\ jobs' = With(jobs, nextJob, JobOf(r, TRUE, K, B))
           /\ xfer' = With(xfer, nextJob, TransferOf(r, TRUE, P))
           /\ \E E \in Victims(O) : stored' = stored \ E
      BY <1>9, <2>8
    <2> HIDE DEF n, new, pairs
    <2>11. /\ conn' \in [Request -> ConnRec]
           /\ \A q \in Request : conn'[q].tracked = conn[q].tracked
           /\ \A q \in Request : q # r => conn'[q] = conn[q]
           /\ conn'[r].next = n /\ conn'[r].jobs = conn[r].jobs \cup {nextJob}
      BY <1>2, <1>3, <1>4, <1>9, <2>7 DEF ConnRec
    <2>12. /\ req[r].status \in Live
           /\ \A q \in Request : req'[q].status = req[q].status \/ (req[q].status \in Live /\ req'[q].status \in Live)
      BY <1>2, <1>4 DEF Live
    <2>13. /\ TablesFit' /\ IdsFit' /\ ReportsFit' /\ Counted' /\ FinishedAccounted'
           /\ DOMAIN jobs' = DOMAIN jobs \cup {nextJob} /\ nextJob \notin DOMAIN jobs
           /\ \A j \in DOMAIN jobs : jobs'[j] = jobs[j]
           /\ jobs'[nextJob].store = TRUE /\ jobs'[nextJob].keys = K /\ jobs'[nextJob].req = r
      <3>1. n \in Nat /\ n <= N(r) /\ nextJob < MaxJobs /\ nextJob' = nextJob + 1 /\ UNCHANGED <<steps, stale, pendingOf>>
        BY <1>2, <1>4, <1>9
      <3>2. PICK h \in Nat : h = n
        BY <3>1
      <3>3. TRUE \in BOOLEAN /\ h <= N(r) /\ conn'[r].next = h
        BY <2>11, <3>1, <3>2
      <3> QED
        BY <2>9, <2>10, <2>11, <2>12, <3>1, <3>3, NewJob
    <2>14. BatchFits'
      BY <1>4, <1>6, <1>9, <2>7 DEF BatchRec
    <2>15. TierFits'
      <3>1. Storing' = Storing \cup K
        BY <2>13 DEF Storing
      <3>2. /\ stored' \subseteq Key /\ IsFiniteSet(stored') /\ IsFiniteSet(Storing') /\ stored' \cap Storing' = {}
            /\ Cardinality(stored' \cup Storing') <= Slots
        BY <2>9, <2>10, <3>1, RoomFor
      <3>3. \A j \in DOMAIN jobs : jobs[j].store => jobs[j].keys \cap K = {}
        BY <2>9 DEF NewKeys, Storing
      <3>4. \A i, j \in DOMAIN jobs' : i # j /\ jobs'[i].store /\ jobs'[j].store => jobs'[i].keys \cap jobs'[j].keys = {}
        <4>1. \A i, j \in DOMAIN jobs : i # j /\ jobs[i].store /\ jobs[j].store => jobs[i].keys \cap jobs[j].keys = {}
          BY DEF TableInv, TierFits
        <4> QED
          BY <2>13, <3>3, <4>1
      <3> QED
        BY <3>2, <3>4 DEF TierFits
    <2>16. NoHole'
      BY <1>2, <1>9, <2>11, NoHoleTo
    <2> QED
      BY <1>5, <2>13, <2>14, <2>15, <2>16 DEF TableInv
  <1> QED
    BY <1>7, <1>8, <1>9 DEF BuildStore

----------------------------------------------------------------------------
(* The output of a step *)

LEMMA ProcessOutputKeeps ==
    ASSUME TableInv, ProcessOutput
    PROVE  TableInv'
  <1> DEFINE step == Head(steps)
             report == Current(step.report)
             invalid == UNION {m.bad : m \in {n \in step.report : n.load}}
             Count(j) == IF \E m \in report : m.job = j
                         THEN Cardinality((CHOOSE m \in report : m.job = j).ranks) ELSE 0
             Failed(j) == jobs[j].failed \/ \E m \in report : m.job = j /\ m.bad # {}
             done == {j \in DOMAIN jobs : jobs[j].pending = Count(j)}
             dropped == UNION {jobs[j].keys : j \in {i \in DOMAIN jobs : ~jobs[i].store /\ Failed(i)}}
             added == UNION {jobs[j].keys : j \in {i \in done : jobs[i].store /\ ~Failed(i)}}
             Left(r) == conn[r].jobs \ done
             received == {m.req : m \in {n \in step.report : n.load /\ n.last}}
  <1>1. /\ steps # <<>> /\ batch = NoBatch /\ steps' = Tail(steps)
        /\ stored' = (stored \ dropped) \cup added
        /\ jobs' = [j \in DOMAIN jobs \ done |->
                      [jobs[j] EXCEPT !.pending = @ - Count(j), !.failed = Failed(j)]]
        /\ pendingOf' = {p \in pendingOf : p[2] \notin done}
        /\ conn' = [r \in Request |->
                      [conn[r] EXCEPT !.jobs = Left(r),
                         !.tracked = @ /\ ~(IsFinished(r) /\ Left(r) = {} /\ conn[r].jobs # {})]]
        /\ req' = [r \in Request |->
             IF r \in received /\ req[r].status = "finished"
             THEN [status |-> "gone", computed |-> 0, blocks |-> <<>>]
             ELSE IF req[r].status = "loading"
             THEN [req[r] EXCEPT !.computed = ValidTo(r, invalid),
                                 !.status = IF r \in received THEN "received" ELSE @]
             ELSE req[r]]
        /\ UNCHANGED <<toFlush, nextJob, stale, batch, xfer, gpu, seen>>
    BY DEF ProcessOutput
  <1>2. /\ req \in [Request -> ReqRec] /\ conn \in [Request -> ConnRec] /\ steps \in Seq(StepRec)
        /\ jobs \in [DOMAIN jobs -> JobRec] /\ DOMAIN jobs \subseteq Job
    BY DEF TableInv, ReqsFit, TablesFit, IdsFit
  <1>3. PICK D : D = done
    OBVIOUS
  <1>4. D \subseteq DOMAIN jobs
    BY <1>3
  \* requests
  <1>5. ASSUME NEW r \in Request
        PROVE  /\ req'[r] \in ReqRec /\ req'[r].computed <= N(r) /\ req'[r].computed <= Len(req'[r].blocks)
               /\ \/ req'[r].status = req[r].status
                  \/ req[r].status = "finished" /\ req'[r].status = "gone"
                  \/ req[r].status = "loading" /\ req'[r].status = "received"
    <2>1. PICK v : v = ValidTo(r, invalid)
      OBVIOUS
    <2>2. v \in Nat /\ v <= req[r].computed
      BY <2>1, ValidToRange DEF TableInv
    <2>3. req[r] \in ReqRec /\ req[r].computed <= N(r) /\ req[r].computed <= Len(req[r].blocks) /\ N(r) \in Nat
      BY LengthOfKeys DEF TableInv, ReqsFit
    <2> HIDE DEF received, invalid
    <2>4. req'[r] = IF r \in received /\ req[r].status = "finished"
                    THEN [status |-> "gone", computed |-> 0, blocks |-> <<>>]
                    ELSE IF req[r].status = "loading"
                    THEN [req[r] EXCEPT !.computed = v, !.status = IF r \in received THEN "received" ELSE @]
                    ELSE req[r]
      BY <1>1, <2>1
    <2>5. CASE r \in received /\ req[r].status = "finished"
      BY <2>3, <2>4, <2>5 DEF ReqRec, Status
    <2>6. CASE req[r].status = "loading"
      <3>1. PICK x \in {"received", "loading"} : req'[r] = [req[r] EXCEPT !.computed = v, !.status = x]
        BY <2>4, <2>6
      <3>2. req'[r] = [status |-> x, computed |-> v, blocks |-> req[r].blocks]
        BY <2>3, <3>1 DEF ReqRec
      <3> QED
        BY <2>2, <2>3, <2>6, <3>1, <3>2 DEF ReqRec, Status
    <2>7. CASE ~(r \in received /\ req[r].status = "finished") /\ req[r].status # "loading"
      BY <2>3, <2>4, <2>7
    <2> QED
      BY <2>5, <2>6, <2>7
  <1>6. ReqsFit'
    <2>1. req' \in [Request -> ReqRec]
      <3>1. req' = [r \in Request |-> req'[r]]
        BY <1>1
      <3> QED
        BY <1>5, <3>1
    <2> QED
      BY <1>5, <2>1 DEF ReqsFit
  <1>7. \A r \in Request : (req'[r].status \in {"finished", "gone"}) <=> IsFinished(r)
    BY <1>5 DEF IsFinished
  <1> HIDE DEF invalid, received
  \* steps
  <1>8. /\ Len(steps) \in Nat /\ Len(steps) >= 1 /\ 1 \in DOMAIN steps /\ step = steps[1]
        /\ steps' \in Seq(StepRec) /\ Len(steps') = Len(steps) - 1 /\ DOMAIN steps = 1..Len(steps)
        /\ DOMAIN steps' = 1..Len(steps) - 1
        /\ \A t \in DOMAIN steps' : t + 1 \in DOMAIN steps /\ steps'[t] = steps[t + 1]
    <2>1. steps # <<>> /\ steps' = Tail(steps) /\ steps \in Seq(StepRec)
      BY <1>1, <1>2
    <2>2. Len(steps) \in Nat /\ Len(steps) >= 1 /\ DOMAIN steps = 1..Len(steps) /\ step = steps[1]
      BY <2>1
    <2>3. steps' \in Seq(StepRec) /\ Len(steps') = Len(steps) - 1 /\ DOMAIN steps' = 1..Len(steps) - 1
      BY <2>1, <2>2
    <2>4. \A t \in DOMAIN steps' : t + 1 \in DOMAIN steps /\ steps'[t] = steps[t + 1]
      BY <2>1, <2>2, <2>3
    <2> QED
      BY <2>2, <2>3, <2>4
  <1>9. /\ \A t \in DOMAIN steps, j \in Job : Told(t, j) \cap Silent(j) = {}
        /\ \A t, u \in DOMAIN steps : t # u => \A j \in Job : Told(t, j) \cap Told(u, j) = {}
        /\ \A t \in DOMAIN steps : \A m, n \in steps[t].report : m.job = n.job => m = n
    BY DEF TableInv, ReportsFit
  <1>10. /\ \A j : Silent(j)' = Silent(j)
         /\ \A t \in DOMAIN steps' : \A j : Told(t, j)' = Told(t + 1, j)
    BY <1>1, <1>8 DEF Silent, Told
  <1>11. ReportsFit'
    <2>1. \A t \in DOMAIN steps' : steps'[t].state = "queued" => steps'[t].report = {}
      BY <1>8 DEF TableInv, ReportsFit
    <2>2. \A t \in DOMAIN steps' : \A m, n \in steps'[t].report : m.job = n.job => m = n
      BY <1>8, <1>9
    <2>3. \A t \in DOMAIN steps', j \in Job : Told(t, j)' \cap Silent(j)' = {}
      BY <1>8, <1>9, <1>10
    <2>4. \A t, u \in DOMAIN steps' : t # u => \A j \in Job : Told(t, j)' \cap Told(u, j)' = {}
      <3> SUFFICES ASSUME NEW t \in DOMAIN steps', NEW u \in DOMAIN steps', t # u, NEW j \in Job
                   PROVE  Told(t, j)' \cap Told(u, j)' = {}
        OBVIOUS
      <3>1. t + 1 \in DOMAIN steps /\ u + 1 \in DOMAIN steps /\ t + 1 # u + 1
        BY <1>8
      <3>2. Told(t + 1, j) \cap Told(u + 1, j) = {}
        BY <1>9, <3>1
      <3> QED
        BY <1>10, <3>2
    <2> QED
      BY <2>1, <2>2, <2>3, <2>4 DEF ReportsFit
  \* counts
  <1>12. ASSUME NEW j \in DOMAIN jobs PROVE Count(j) = Cardinality(Told(1, j))
    <2>1. \A m \in steps[1].report : m.job = j => m \in report
      BY <1>8 DEF Current, TableInv, IdsFit
    <2>2. \A m \in report : m \in steps[1].report
      BY <1>8 DEF Current
    <2>3. CASE \E m \in report : m.job = j
      <3>1. PICK m : m = CHOOSE x \in report : x.job = j
        OBVIOUS
      <3>2. m \in report /\ m.job = j
        BY <2>3, <3>1
      <3>3. Told(1, j) = m.ranks
        BY <1>8, <1>9, <2>2, <3>2 DEF Told
      <3> QED
        BY <2>3, <3>1, <3>3
    <2>4. CASE ~\E m \in report : m.job = j
      <3>1. Told(1, j) = {}
        BY <2>1, <2>4 DEF Told
      <3> QED
        BY <2>4, <3>1, FS_EmptySet
    <2> QED
      BY <2>3, <2>4
  <1>13. ASSUME NEW j \in DOMAIN jobs
         PROVE  /\ Told(1, j) \subseteq Awaited(j) /\ IsFiniteSet(Awaited(j))
                /\ Awaited(j)' = Awaited(j) \ Told(1, j)
    <2>1. j \in Job
      BY <1>2
    <2>2. Told(1, j) \subseteq Awaited(j)
      BY <1>8 DEF Awaited
    <2>3. Awaited(j) \subseteq Rank
      <3>1. Silent(j) \subseteq Rank
        BY DEF Silent, TableInv, IdsFit, XferRec
      <3>2. ASSUME NEW t \in DOMAIN steps PROVE Told(t, j) \subseteq Rank
        <4>1. steps[t] \in StepRec
          BY <1>2
        <4>2. \A m \in steps[t].report : m.ranks \subseteq Rank
          BY <4>1 DEF StepRec, Report
        <4> QED
          BY <4>2 DEF Told
      <3> QED
        BY <3>1, <3>2 DEF Awaited
    <2>4. IsFiniteSet(Awaited(j))
      BY <2>3, FS_Subset, OffloadingConnectorAssumption DEF OffloadingConnectorAssumption
    <2>5. ASSUME NEW k \in Awaited(j), k \notin Told(1, j) PROVE k \in Awaited(j)'
      <3>1. CASE k \in Silent(j)
        BY <1>10, <3>1 DEF Awaited
      <3>2. CASE k \notin Silent(j)
        <4>1. PICK t \in DOMAIN steps : k \in Told(t, j)
          BY <3>2 DEF Awaited
        <4>2. PICK u : u = t - 1
          OBVIOUS
        <4>3. u \in DOMAIN steps' /\ u + 1 = t
          BY <1>8, <2>5, <4>1, <4>2
        <4>4. k \in Told(u, j)'
          BY <1>10, <4>1, <4>3
        <4> QED
          BY <4>3, <4>4 DEF Awaited
      <3> QED
        BY <3>1, <3>2
    <2>6. ASSUME NEW k \in Awaited(j)' PROVE k \in Awaited(j) /\ k \notin Told(1, j)
      <3>1. CASE k \in Silent(j)
        BY <1>8, <1>9, <2>1, <3>1 DEF Awaited
      <3>2. CASE k \notin Silent(j)
        <4>1. PICK u \in DOMAIN steps' : k \in Told(u, j)'
          BY <1>10, <2>6, <3>2 DEF Awaited
        <4>2. u + 1 \in DOMAIN steps /\ k \in Told(u + 1, j) /\ u + 1 # 1
          BY <1>8, <1>10, <4>1
        <4>3. k \notin Told(1, j)
          BY <1>8, <1>9, <2>1, <4>2
        <4> QED
          BY <4>2, <4>3 DEF Awaited
      <3> QED
        BY <3>1, <3>2
    <2> QED
      BY <2>2, <2>4, <2>5, <2>6
  <1>14. ASSUME NEW j \in DOMAIN jobs
         PROVE  /\ jobs[j].pending - Count(j) \in Nat
                /\ jobs[j].pending - Count(j) = Cardinality(Awaited(j)')
                /\ jobs[j].pending # Count(j) => Awaited(j)' # {}
    <2> HIDE DEF Count
    <2>1. jobs[j].pending = Cardinality(Awaited(j)) /\ Count(j) = Cardinality(Told(1, j))
      BY <1>12 DEF TableInv, Counted
    <2>2. /\ IsFiniteSet(Awaited(j)')
          /\ Cardinality(Awaited(j)') = Cardinality(Awaited(j)) - Cardinality(Awaited(j) \cap Told(1, j))
      BY <1>13, FS_Difference
    <2>3. Awaited(j) \cap Told(1, j) = Told(1, j)
      BY <1>13
    <2>4. Cardinality(Awaited(j)') \in Nat
      BY <2>2, FS_CardinalityType
    <2>5. jobs[j].pending - Count(j) = Cardinality(Awaited(j)')
      BY <2>1, <2>2, <2>3
    <2>6. Awaited(j)' = {} => Cardinality(Awaited(j)') = 0
      BY FS_EmptySet
    <2>7. IsFiniteSet(Told(1, j))
      BY <1>13, FS_Subset
    <2>8. Cardinality(Awaited(j)) \in Nat /\ Cardinality(Told(1, j)) \in Nat
      BY <1>13, <2>7, FS_CardinalityType, SMTT(60)
    <2> QED
      BY <2>1, <2>4, <2>5, <2>6, <2>8
  \* jobs
  <1>15. /\ DOMAIN jobs' = DOMAIN jobs \ D /\ jobs' \in [DOMAIN jobs' -> JobRec]
         /\ \A j \in DOMAIN jobs' : /\ jobs'[j].req = jobs[j].req /\ jobs'[j].store = jobs[j].store
                                    /\ jobs'[j].keys = jobs[j].keys /\ jobs'[j].blocks = jobs[j].blocks
                                    /\ jobs'[j].pending = jobs[j].pending - Count(j)
    <2>1. \A j \in DOMAIN jobs : jobs[j].pending - Count(j) \in Nat /\ Failed(j) \in BOOLEAN
      BY <1>2, <1>14 DEF JobRec
    <2>2. \A j \in DOMAIN jobs : jobs[j] \in JobRec
      BY <1>2
    <2> HIDE DEF Count, Failed, done
    <2>3. jobs' = [j \in DOMAIN jobs \ D |-> [jobs[j] EXCEPT !.pending = @ - Count(j), !.failed = Failed(j)]]
      BY <1>1, <1>3
    <2>4. ASSUME NEW j \in DOMAIN jobs \ D
          PROVE  /\ jobs'[j] \in JobRec
                 /\ jobs'[j].req = jobs[j].req /\ jobs'[j].store = jobs[j].store
                 /\ jobs'[j].keys = jobs[j].keys /\ jobs'[j].blocks = jobs[j].blocks
                 /\ jobs'[j].pending = jobs[j].pending - Count(j)
      <3>1. jobs'[j] = [jobs[j] EXCEPT !.pending = @ - Count(j), !.failed = Failed(j)]
        BY <2>3
      <3>2. PICK c, f : c = jobs[j].pending - Count(j) /\ f = Failed(j)
        OBVIOUS
      <3>3. jobs'[j] = [jobs[j] EXCEPT !.pending = c, !.failed = f] /\ c \in Nat /\ f \in BOOLEAN
        BY <2>1, <3>1, <3>2
      <3> QED
        BY <2>2, <3>2, <3>3 DEF JobRec
    <2> QED
      BY <2>3, <2>4, ZenonT(60)
  <1>16. Counted'
    <2>1. \A j \in DOMAIN jobs' : j \in DOMAIN jobs /\ jobs[j].pending # Count(j)
      BY <1>3, <1>15, SMTT(60)
    <2> HIDE DEF Count
    <2> QED
      BY <1>14, <1>15, <2>1 DEF Counted
  <1>17. IdsFit'
    <2>1. \A t \in DOMAIN steps' : \A m \in steps'[t].report : m.job < nextJob'
      BY <1>1, <1>8 DEF TableInv, IdsFit
    <2>2. Len(steps') <= Depth
      BY <1>8, OffloadingConnectorAssumption, SMTT(60) DEF TableInv, IdsFit, OffloadingConnectorAssumption
    <2> QED
      BY <1>1, <1>8, <1>15, <2>1, <2>2 DEF TableInv, IdsFit
  \* the connector's view of requests
  <1>18. /\ conn' \in [Request -> ConnRec]
         /\ \A r \in Request :
               /\ conn'[r].next = conn[r].next /\ conn'[r].jobs = conn[r].jobs \ D
               /\ conn'[r].tracked <=> (conn[r].tracked /\ ~(IsFinished(r) /\ conn[r].jobs \ D = {} /\ conn[r].jobs # {}))
    <2> HIDE DEF done
    <2>1. \A r \in Request : conn[r] \in ConnRec
      BY <1>2
    <2>2. conn' = [r \in Request |->
                      [conn[r] EXCEPT !.jobs = conn[r].jobs \ D,
                         !.tracked = @ /\ ~(IsFinished(r) /\ conn[r].jobs \ D = {} /\ conn[r].jobs # {})]]
      BY <1>1, <1>3
    <2> QED
      BY <2>1, <2>2, ZenonT(60) DEF ConnRec
  <1>19. TablesFit'
    <2>1. \A r \in Request : conn'[r].next <= N(r)
      BY <1>18 DEF TableInv, TablesFit
    <2>2. \A r \in Request : req'[r].status = "unborn" => conn'[r].next = 0
      BY <1>5, <1>18 DEF TableInv, TablesFit
    <2>3. ASSUME NEW r \in Request, req'[r].status \in {"waiting", "loading", "received", "running"}
          PROVE  conn'[r].tracked
      <3>1. ~IsFinished(r) /\ req[r].status \in {"waiting", "loading", "received", "running"}
        BY <1>5, <2>3 DEF IsFinished
      <3> QED
        BY <1>18, <3>1 DEF TableInv, TablesFit
    <2>4. \A r \in Request : \A j \in conn'[r].jobs : j < nextJob' /\ (j \in DOMAIN jobs' => jobs'[j].req = r)
      <3> SUFFICES ASSUME NEW r \in Request, NEW j \in conn'[r].jobs
                   PROVE  j < nextJob' /\ (j \in DOMAIN jobs' => jobs'[j].req = r)
        BY SMTT(60)
      <3>1. j \in conn[r].jobs /\ nextJob' = nextJob
        BY <1>1, <1>18
      <3>2. j < nextJob /\ (j \in DOMAIN jobs => jobs[j].req = r)
        BY <3>1 DEF TableInv, TablesFit
      <3> QED
        BY <1>15, <3>1, <3>2
    <2>5. ASSUME NEW j \in DOMAIN jobs' PROVE j \in conn'[jobs'[j].req].jobs /\ conn'[jobs'[j].req].tracked
      <3>1. /\ j \in DOMAIN jobs /\ j \notin D /\ jobs'[j].req = jobs[j].req /\ jobs[j].req \in Request
            /\ j \in conn[jobs[j].req].jobs /\ conn[jobs[j].req].tracked
        BY <1>2, <1>15 DEF TableInv, TablesFit, JobRec
      <3>2. j \in conn[jobs[j].req].jobs \ D
        BY <3>1
      <3> QED
        BY <1>18, <3>1, <3>2
    <2> QED
      BY <1>18, <2>1, <2>2, <2>3, <2>4, <2>5 DEF TablesFit
  <1>20. FinishedAccounted'
    <2> DEFINE Fin(q) == req'[q].status \in {"finished", "gone"}
    <2>1. \A r \in Request : conn'[r].tracked /\ Fin(r) => conn'[r].jobs # {}
      BY <1>7, <1>18 DEF TableInv, FinishedAccounted
    <2>2. pendingOf = UNION {{<<b, j>> : b \in jobs[j].blocks} : j \in {i \in DOMAIN jobs : IsFinished(jobs[i].req)}}
      BY DEF TableInv, FinishedAccounted
    <2>3. pendingOf' = {p \in pendingOf : p[2] \notin D}
      BY <1>1, <1>3
    <2>4. \A j \in DOMAIN jobs' : Fin(jobs'[j].req) <=> IsFinished(jobs[j].req)
      BY <1>2, <1>7, <1>15 DEF JobRec
    <2> HIDE DEF Fin
    <2>5. pendingOf' = UNION {{<<b, j>> : b \in jobs'[j].blocks} : j \in {i \in DOMAIN jobs' : Fin(jobs'[i].req)}}
      <3>1. \A b, j : <<b, j>> \in pendingOf <=> j \in DOMAIN jobs /\ IsFinished(jobs[j].req) /\ b \in jobs[j].blocks
        BY <2>2
      <3>2. \A p \in pendingOf : \E b, j : p = <<b, j>>
        BY <2>2
      <3>3. ASSUME NEW p \in pendingOf'
            PROVE  \E j \in DOMAIN jobs' : Fin(jobs'[j].req) /\ \E b \in jobs'[j].blocks : p = <<b, j>>
        <4>1. PICK b, j : p = <<b, j>> /\ p \in pendingOf /\ j \notin D
          BY <2>3, <3>2, <3>3
        <4>2. j \in DOMAIN jobs /\ IsFinished(jobs[j].req) /\ b \in jobs[j].blocks
          BY <3>1, <4>1
        <4> QED
          BY <1>15, <2>4, <4>1, <4>2
      <3>4. ASSUME NEW j \in DOMAIN jobs', Fin(jobs'[j].req), NEW b \in jobs'[j].blocks
            PROVE  <<b, j>> \in pendingOf'
        <4>1. j \in DOMAIN jobs /\ j \notin D /\ IsFinished(jobs[j].req) /\ b \in jobs[j].blocks
          BY <1>15, <2>4, <3>4
        <4> QED
          BY <2>3, <3>1, <4>1
      <3> QED
        BY <3>3, <3>4
    <2> QED
      BY <2>1, <2>5 DEF FinishedAccounted, IsFinished, Fin
  \* the tier
  <1>21. TierFits'
    <2> HIDE DEF done, Failed
    <2>1. /\ stored \subseteq Key /\ IsFiniteSet(stored) /\ IsFiniteSet(Storing) /\ stored \cap Storing = {}
          /\ \A i, j \in DOMAIN jobs : i # j /\ jobs[i].store /\ jobs[j].store => jobs[i].keys \cap jobs[j].keys = {}
          /\ Cardinality(stored \cup Storing) <= Slots /\ Slots \in Nat
      BY OffloadingConnectorAssumption DEF TableInv, TierFits, OffloadingConnectorAssumption
    <2>2. Storing' \subseteq Storing
      BY <1>15 DEF Storing
    <2>3. \A k \in added : \E i \in D : jobs[i].store /\ k \in jobs[i].keys
      BY <1>3
    <2>4. \A k \in Storing' : \E i \in DOMAIN jobs \ D : jobs[i].store /\ k \in jobs[i].keys
      BY <1>15 DEF Storing
    <2>5. added \subseteq Storing
      BY <1>4, <2>3 DEF Storing
    <2>6. added \cap Storing' = {}
      BY <1>4, <2>1, <2>3, <2>4
    <2>7. PICK A, R : A = added /\ R = dropped
      OBVIOUS
    <2> HIDE DEF added, dropped
    <2>8. stored' = (stored \ R) \cup A /\ A \subseteq Storing /\ A \cap Storing' = {}
      BY <1>1, <2>5, <2>6, <2>7
    <2>9. Storing \subseteq Key
      BY <1>2 DEF Storing, JobRec
    <2>10. IsFiniteSet(stored \cup Storing)
      BY <2>1, FS_Union
    <2>11. stored' \cup Storing' \subseteq stored \cup Storing
      BY <2>2, <2>8
    <2>12. /\ IsFiniteSet(stored' \cup Storing') /\ Cardinality(stored' \cup Storing') <= Cardinality(stored \cup Storing)
      BY <2>10, <2>11, FS_Subset
    <2>13. IsFiniteSet(stored') /\ IsFiniteSet(Storing')
      BY <2>12, FS_Subset
    <2>14. Cardinality(stored' \cup Storing') <= Slots
      <3>1. Cardinality(stored' \cup Storing') \in Nat /\ Cardinality(stored \cup Storing) \in Nat
        BY <2>10, <2>12, FS_CardinalityType
      <3> QED
        BY <2>1, <2>12, <3>1
    <2>15. stored' \subseteq Key /\ stored' \cap Storing' = {}
      BY <2>1, <2>2, <2>8, <2>9
    <2>16. \A i, j \in DOMAIN jobs' : i # j /\ jobs'[i].store /\ jobs'[j].store => jobs'[i].keys \cap jobs'[j].keys = {}
      BY <1>15, <2>1
    <2> QED
      BY <2>13, <2>14, <2>15, <2>16 DEF TierFits
  <1>22. BatchFits'
    BY <1>1, ZenonT(60) DEF BatchFits, NoBatch, BatchRec
  <1>23. NoHole' /\ MemoryFits' /\ FlushFits'
    BY <1>1, <1>18 DEF TableInv, NoHole, MemoryFits, FlushFits
  <1> QED
    BY <1>6, <1>11, <1>16, <1>17, <1>19, <1>20, <1>21, <1>22, <1>23 DEF TableInv

----------------------------------------------------------------------------
(* The end of a request, resets *)

LEMMA FinishKeeps ==
    ASSUME TableInv, NEW r \in Request, Finish(r)
    PROVE  TableInv'
  <1>1. /\ batch = NoBatch /\ req[r].status \in Live /\ conn[r].jobs \subseteq DOMAIN jobs
        /\ conn' = [conn EXCEPT ![r].tracked = Kept(r)] /\ pendingOf' = pendingOf \cup Watched(r)
        /\ UNCHANGED <<jobs, toFlush, nextJob, stale, batch, xfer, gpu, stored, seen>>
    BY DEF Finish, Idle, Live
  <1>2. /\ req \in [Request -> ReqRec] /\ conn \in [Request -> ConnRec] /\ steps \in Seq(StepRec)
        /\ jobs \in [DOMAIN jobs -> JobRec]
    BY DEF TableInv, ReqsFit, TablesFit, IdsFit
  <1>3. FreesOnly
    <2>1. steps' = steps \/ steps' = FencedFree({r})
      BY DEF Finish
    <2> QED
      BY <1>2, <2>1, SameSteps, FencedKeeps DEF TableInv
  <1>4. /\ req' \in [Request -> ReqRec] /\ req'[r].status \in {"finished", "gone"}
        /\ req'[r].computed <= N(r) /\ req'[r].computed <= Len(req'[r].blocks)
        /\ \A q \in Request : q # r => req'[q] = req[q]
    <2>1. CASE req[r].status = "loading"
      <3>1. req' = [req EXCEPT ![r] = [@ EXCEPT !.status = "finished"]]
        BY <2>1 DEF Finish
      <3> QED
        BY <1>2, <3>1 DEF ReqRec, Status, TableInv, ReqsFit
    <2>2. CASE req[r].status # "loading"
      <3>1. req' = [req EXCEPT ![r] = [status |-> "gone", computed |-> 0, blocks |-> <<>>]]
        BY <2>2 DEF Finish
      <3> QED
        BY <1>2, <3>1, LengthOfKeys DEF ReqRec, Status
    <2> QED
      BY <2>1, <2>2
  <1>5. ReqsFit'
    BY <1>4 DEF TableInv, ReqsFit
  <1>6. IdsFit' /\ ReportsFit' /\ Counted' /\ TierFits'
    BY <1>1, <1>3, StepsFrame
  <1>7. BatchFits'
    BY <1>1 DEF BatchFits, NoBatch, BatchRec
  <1>8. /\ conn' \in [Request -> ConnRec]
        /\ \A q \in Request : conn'[q].next = conn[q].next /\ conn'[q].jobs = conn[q].jobs
        /\ \A q \in Request : q # r => conn'[q].tracked = conn[q].tracked
        /\ conn'[r].tracked <=> conn[r].jobs # {}
    BY <1>1, <1>2, ZenonT(60) DEF Kept, ConnRec
  <1>9. \A j \in DOMAIN jobs : jobs[j].req \in Request
    BY <1>2 DEF JobRec
  <1>10. TablesFit'
    <2>1. ASSUME NEW j \in DOMAIN jobs' PROVE j \in conn'[jobs'[j].req].jobs /\ conn'[jobs'[j].req].tracked
      <3>1. j \in DOMAIN jobs /\ jobs' = jobs /\ j \in conn[jobs[j].req].jobs /\ conn[jobs[j].req].tracked
        BY <1>1 DEF TableInv, TablesFit
      <3> QED
        BY <1>8, <1>9, <3>1
    <2>2. \A q \in Request : req'[q].status \in {"waiting", "loading", "received", "running"} => conn'[q].tracked
      BY <1>4, <1>8 DEF TableInv, TablesFit
    <2>3. \A q \in Request : conn'[q].next <= N(q) /\ (req'[q].status = "unborn" => conn'[q].next = 0)
      BY <1>4, <1>8 DEF TableInv, TablesFit
    <2>4. \A q \in Request : \A j \in conn'[q].jobs : j < nextJob' /\ (j \in DOMAIN jobs' => jobs'[j].req = q)
      BY <1>1, <1>8 DEF TableInv, TablesFit
    <2> QED
      BY <1>8, <2>1, <2>2, <2>3, <2>4 DEF TablesFit
  <1>11. FinishedAccounted'
    <2> DEFINE Fin(q) == req'[q].status \in {"finished", "gone"}
    <2>1. Fin(r) /\ \A q \in Request : q # r => (Fin(q) <=> IsFinished(q))
      BY <1>4 DEF IsFinished
    <2>2. ~IsFinished(r)
      BY <1>1 DEF IsFinished, Live
    <2> HIDE DEF Fin
    <2>3. \A q \in Request : conn'[q].tracked /\ Fin(q) => conn'[q].jobs # {}
      BY <1>8, <2>1 DEF TableInv, FinishedAccounted
    <2>4. \A j : j \in conn[r].jobs <=> j \in DOMAIN jobs /\ jobs[j].req = r
      BY <1>1, <1>9 DEF TableInv, TablesFit
    <2>5. \A b, j : <<b, j>> \in Watched(r) <=> j \in conn[r].jobs /\ b \in jobs[j].blocks
      BY DEF Watched
    <2>6. \A b, j : <<b, j>> \in pendingOf <=> j \in DOMAIN jobs /\ IsFinished(jobs[j].req) /\ b \in jobs[j].blocks
      BY DEF TableInv, FinishedAccounted
    <2>7. \A p \in pendingOf' : \E b, j : p = <<b, j>>
      BY <1>1 DEF TableInv, FinishedAccounted, Watched
    <2>8. \A b, j : <<b, j>> \in pendingOf' <=> j \in DOMAIN jobs /\ Fin(jobs[j].req) /\ b \in jobs[j].blocks
      BY <1>1, <1>9, <2>1, <2>2, <2>4, <2>5, <2>6
    <2>9. pendingOf' = UNION {{<<b, j>> : b \in jobs[j].blocks} : j \in {i \in DOMAIN jobs : Fin(jobs[i].req)}}
      BY <2>7, <2>8
    <2> QED
      BY <1>1, <2>3, <2>9 DEF FinishedAccounted, IsFinished, Fin
  <1>12. NoHole'
    BY <1>1, <1>8 DEF TableInv, NoHole, TablesFit, Live
  <1>13. MemoryFits' /\ FlushFits'
    BY <1>1 DEF TableInv, MemoryFits, FlushFits
  <1> QED
    BY <1>5, <1>6, <1>7, <1>10, <1>11, <1>12, <1>13 DEF TableInv

LEMMA ResetKeeps ==
    ASSUME TableInv, NEW kind \in ResetKinds, Reset(kind)
    PROVE  TableInv'
  <1> DEFINE R == {r \in Request : kind.running /\ req[r].status = "running"}
  <1>1. /\ batch = NoBatch /\ steps' = FencedFree(R)
        /\ req' = [r \in Request |-> IF r \in R
                     THEN [status |-> "waiting", computed |-> 0, blocks |-> <<>>] ELSE req[r]]
        /\ UNCHANGED <<nextJob, batch, xfer, gpu>>
        /\ ResetConnector \/ UNCHANGED <<toFlush, conn, stored, seen, stale, jobs, pendingOf>>
    BY DEF Reset, Idle
  <1>2. /\ req \in [Request -> ReqRec] /\ conn \in [Request -> ConnRec] /\ steps \in Seq(StepRec)
        /\ nextJob \in Nat
    BY OffloadingConnectorAssumption DEF TableInv, ReqsFit, TablesFit, IdsFit, OffloadingConnectorAssumption
  <1>3. FreesOnly
    BY <1>1, <1>2, FencedKeeps DEF TableInv
  <1>4. ASSUME NEW r \in Request
        PROVE  /\ req'[r] \in ReqRec /\ req'[r].computed <= N(r) /\ req'[r].computed <= Len(req'[r].blocks)
               /\ \/ req'[r].status = req[r].status
                  \/ req[r].status = "running" /\ req'[r].status = "waiting"
    <2>1. CASE r \in R
      BY <1>1, <2>1, LengthOfKeys DEF ReqRec, Status
    <2>2. CASE r \notin R
      BY <1>1, <1>2, <2>2 DEF TableInv, ReqsFit
    <2> QED
      BY <2>1, <2>2
  <1>5. ReqsFit'
    <2>1. req' = [r \in Request |-> req'[r]]
      BY <1>1
    <2> QED
      BY <1>4, <2>1 DEF ReqsFit
  <1>6. BatchFits'
    BY <1>1 DEF BatchFits, NoBatch, BatchRec
  <1>7. \A q \in Request : req'[q].status = req[q].status \/ (req[q].status \in Live /\ req'[q].status \in Live)
    BY <1>4 DEF Live
  <1> HIDE DEF R
  <1>8. CASE UNCHANGED <<toFlush, conn, stored, seen, stale, jobs, pendingOf>>
    <2>1. FlushFits'
      BY <1>8 DEF TableInv, FlushFits
    <2> QED
      BY <1>1, <1>3, <1>5, <1>6, <1>7, <1>8, <2>1, ReqFrame
  <1>9. CASE ResetConnector
    <2>1. /\ toFlush' = DOMAIN jobs /\ conn' = [r \in Request |-> AfterReset(r)]
          /\ stored' = {} /\ seen' = {} /\ stale' = nextJob /\ jobs' = <<>> /\ pendingOf' = {}
      BY <1>9 DEF ResetConnector, FlushAll
    <2>2. DOMAIN jobs' = {} /\ jobs' \in [DOMAIN jobs' -> JobRec]
      BY <2>1
    <2>3. ASSUME NEW r \in Request
          PROVE  /\ conn'[r] \in ConnRec /\ conn'[r].jobs \subseteq conn[r].jobs
                 /\ IsFinished(r) => ~conn'[r].tracked /\ conn'[r].next = conn[r].next
                 /\ ~IsFinished(r) => conn'[r].tracked = conn[r].tracked /\ conn'[r].next = 0
      <3>1. conn[r] \in ConnRec /\ conn'[r] = AfterReset(r)
        BY <1>2, <2>1
      <3>2. CASE IsFinished(r)
        BY <3>1, <3>2 DEF AfterReset, ConnRec
      <3>3. CASE ~IsFinished(r)
        BY <3>1, <3>3 DEF AfterReset, ConnRec
      <3> QED
        BY <3>2, <3>3
    <2>4. IdsFit'
      BY <1>1, <1>2, <1>3, <2>1, <2>2 DEF TableInv, IdsFit, FreesOnly
    <2>5. /\ \A j : Silent(j)' = Silent(j)
          /\ \A j : \A s \in DOMAIN steps : Told(s, j)' = Told(s, j)
      BY <1>1, <1>3 DEF Silent, Told, FreesOnly
    <2>6. ReportsFit'
      BY <1>3, <2>5 DEF TableInv, ReportsFit, FreesOnly
    <2>7. Counted'
      BY <2>2 DEF Counted
    <2>8. TierFits'
      <3>1. Storing' = {}
        BY <2>2 DEF Storing
      <3>2. IsFiniteSet({}) /\ Cardinality({}) = 0 /\ Slots \in Nat
        BY FS_EmptySet, OffloadingConnectorAssumption DEF OffloadingConnectorAssumption
      <3>3. stored' \cup Storing' = {}
        BY <2>1, <3>1
      <3> QED
        BY <2>1, <2>2, <3>1, <3>2, <3>3 DEF TierFits
    <2>9. TablesFit'
      <3>1. conn' \in [Request -> ConnRec]
        <4>1. conn' = [r \in Request |-> conn'[r]]
          BY <2>1
        <4> QED
          BY <2>3, <4>1
      <3>2. \A r \in Request : conn'[r].next <= N(r)
        BY <2>3, LengthOfKeys DEF TableInv, TablesFit
      <3>3. \A r \in Request : req'[r].status = "unborn" => conn'[r].next = 0
        BY <1>4, <2>3 DEF IsFinished
      <3>4. \A r \in Request : req'[r].status \in {"waiting", "loading", "received", "running"} => conn'[r].tracked
        BY <1>4, <2>3 DEF IsFinished, TableInv, TablesFit
      <3>5. \A r \in Request : \A j \in conn'[r].jobs : j < nextJob'
        BY <1>1, <2>3 DEF TableInv, TablesFit
      <3> QED
        BY <2>2, <3>1, <3>2, <3>3, <3>4, <3>5 DEF TablesFit
    <2>10. FinishedAccounted'
      <3>1. \A r \in Request : conn'[r].tracked => req'[r].status \notin {"finished", "gone"}
        BY <1>4, <2>3 DEF IsFinished
      <3> QED
        BY <2>1, <2>2, <3>1 DEF FinishedAccounted, IsFinished
    <2>11. NoHole'
      <3>1. \A r \in Request : conn'[r].tracked => conn'[r].next = 0
        BY <2>3
      <3>2. \A r : KeysTo(r, 0) = {}
        BY DEF KeysTo
      <3> QED
        BY <3>1, <3>2 DEF NoHole
    <2>12. MemoryFits' /\ FlushFits'
      BY <1>1, <2>1 DEF TableInv, MemoryFits, FlushFits, IdsFit
    <2> QED
      BY <1>5, <1>6, <2>4, <2>6, <2>7, <2>8, <2>9, <2>10, <2>11, <2>12 DEF TableInv
  <1> QED
    BY <1>1, <1>8, <1>9

----------------------------------------------------------------------------
(* The theorems *)

LEMMA InitTables == Init => TableInv
  <1> SUFFICES ASSUME Init PROVE TableInv
    OBVIOUS
  <1> USE DEF Init
  <1>1. ReqsFit
    BY LengthOfKeys DEF ReqsFit, ReqRec, Status
  <1>2. BatchFits
    BY DEF BatchFits, NoBatch, BatchRec
  <1>3. DOMAIN jobs = {} /\ DOMAIN xfer = {} /\ DOMAIN steps = {} /\ Len(steps) = 0
    OBVIOUS
  <1>4. TablesFit
    BY <1>3, LengthOfKeys DEF TablesFit, ConnRec
  <1>5. IdsFit
    BY <1>3, OffloadingConnectorAssumption DEF IdsFit, OffloadingConnectorAssumption
  <1>6. ReportsFit /\ Counted
    BY <1>3 DEF ReportsFit, Counted
  <1>7. TierFits
    <2>1. Storing = {} /\ stored \cup Storing = {}
      BY <1>3 DEF Storing
    <2>2. IsFiniteSet({}) /\ Cardinality({}) = 0 /\ Slots \in Nat
      BY FS_EmptySet, OffloadingConnectorAssumption DEF OffloadingConnectorAssumption
    <2> QED
      BY <1>3, <2>1, <2>2 DEF TierFits
  <1>8. FinishedAccounted /\ NoHole
    BY <1>3 DEF FinishedAccounted, NoHole
  <1>9. MemoryFits /\ FlushFits
    BY DEF MemoryFits, FlushFits
  <1> QED
    BY <1>1, <1>2, <1>4, <1>5, <1>6, <1>7, <1>8, <1>9 DEF TableInv

LEMMA NextTables == TableInv /\ [Next]_vars => TableInv'
  <1> SUFFICES ASSUME TableInv, [Next]_vars PROVE TableInv'
    OBVIOUS
  <1>1. CASE UNCHANGED vars
    <2>1. FreesOnly /\ FlushFits' /\ ReqsFit' /\ BatchFits'
      BY <1>1, SameSteps DEF vars, TableInv, IdsFit, FlushFits, ReqsFit, BatchFits
    <2>2. \A q \in Request : req'[q].status = req[q].status
      BY <1>1 DEF vars
    <2> QED
      BY <1>1, <2>1, <2>2, ReqFrame DEF vars
  <1>2. ASSUME NEW r \in Request, Arrive(r) \/ Preempt(r) \/ AdmitLoad(r) \/ Promote(r) \/ Finish(r) \/ BuildStore(r)
        PROVE  TableInv'
    BY <1>2, ArriveKeeps, PreemptKeeps, AdmitLoadKeeps, PromoteKeeps, FinishKeeps, BuildStoreKeeps
  <1>3. ASSUME NEW r \in Request, NEW n \in 0..N(r), ScheduleRunning(r, n)
        PROVE  TableInv'
    <2>1. n \in Nat /\ req[r].status \in Live /\ batch.phase = "plan" /\ req[r].computed + n <= N(r)
      BY <1>3, LengthOfKeys DEF ScheduleRunning, Planning, Live
    <2>2. PICK new \in Allocations(Lacks(r, n)) : Scheduled(r, n, new)
      BY <1>3 DEF ScheduleRunning
    <2> QED
      BY <1>3, <2>1, <2>2, ScheduledKeeps DEF ScheduleRunning
  <1>4. ASSUME NEW r \in Request, NEW n \in 0..N(r), Admit(r, n)
        PROVE  TableInv'
    <2>1. n \in Nat /\ req[r].status \in Live /\ batch.phase = "plan" /\ req[r].computed + n <= N(r)
      BY <1>4, LengthOfKeys DEF Admit, Planning, Live
    <2>2. PICK new \in Allocations(Lacks(r, n)) : Scheduled(r, n, new)
      BY <1>4 DEF Admit
    <2> QED
      BY <1>4, <2>1, <2>2, ScheduledKeeps DEF Admit
  <1>5. CASE Engine
    BY <1>2, <1>3, <1>4, <1>5, BuildMetaKeeps, IssueStepKeeps, ProcessOutputKeeps, ResetKeeps DEF Engine
  <1>6. CASE WorkerLoop
    BY <1>6, LaunchKeeps, ForwardDoneKeeps DEF WorkerLoop
  <1>7. ASSUME NEW j \in Job, NEW k \in Rank, Transfers(j, k) PROVE TableInv'
    BY <1>7, TransferDoneKeeps DEF Transfers
  <1> QED
    BY <1>1, <1>5, <1>6, <1>7 DEF Next

\* The inductive invariant: the tables of the scheduler, the connector and the workers
\* agree after every step of schedule(), of the output handling and of the ranks; in
\* particular a job's pending count is the number of ranks that have yet to be heard.
THEOREM ConnectorInvariant == Spec => []TableInv
  BY InitTables, NextTables, PTL DEF Spec

\* For any requests, blocks, ranks, jobs, steps in flight, preemptions, failures and
\* resets: the connector drops a finished request with its last job, and it watches
\* exactly the blocks that pending stores of finished requests read.
THEOREM FinishedIsAccounted == Spec => []FinishedAccounted
  <1>1. TableInv => FinishedAccounted
    BY DEF TableInv
  <1> QED
    BY <1>1, ConnectorInvariant, PTL

\* Likewise: store progress never passes a block that was not offered to the tier
\* since the last reset.
THEOREM ProgressHasNoHole == Spec => []NoHole
  <1>1. TableInv => NoHole
    BY DEF TableInv
  <1> QED
    BY <1>1, ConnectorInvariant, PTL

LEMMA TablesTyped == TableInv => TypeOK
  <1> SUFFICES ASSUME TableInv PROVE TypeOK
    OBVIOUS
  <1>1. ASSUME NEW r \in Request
        PROVE  /\ req[r].status \in Status /\ req[r].computed \in 0..N(r) /\ ToSet(req[r].blocks) \subseteq Block
               /\ conn[r].next \in 0..N(r) /\ conn[r].jobs \subseteq Job
    BY LengthOfKeys DEF TableInv, ReqsFit, ReqRec, TablesFit, ConnRec, ToSet
  <1>2. ASSUME NEW j \in DOMAIN jobs PROVE jobs[j].pending \in 1..Cardinality(Rank)
    <2>1. Awaited(j) \subseteq Rank
      <3>1. Silent(j) \subseteq Rank
        BY DEF Silent, TableInv, IdsFit, XferRec
      <3>2. ASSUME NEW t \in DOMAIN steps PROVE Told(t, j) \subseteq Rank
        <4>1. steps[t] \in StepRec
          BY DEF TableInv, IdsFit
        <4>2. \A m \in steps[t].report : m.ranks \subseteq Rank
          BY <4>1 DEF StepRec, Report
        <4> QED
          BY <4>2 DEF Told
      <3> QED
        BY <3>1, <3>2 DEF Awaited
    <2>2. IsFiniteSet(Rank)
      BY OffloadingConnectorAssumption DEF OffloadingConnectorAssumption
    <2>3. IsFiniteSet(Awaited(j)) /\ Cardinality(Awaited(j)) <= Cardinality(Rank)
      BY <2>1, <2>2, FS_Subset
    <2>4. Cardinality(Awaited(j)) \in Nat /\ Cardinality(Rank) \in Nat /\ Cardinality(Awaited(j)) # 0
      BY <2>2, <2>3, FS_CardinalityType, FS_EmptySet DEF TableInv, Counted
    <2> QED
      BY <2>3, <2>4 DEF TableInv, Counted
  <1>3. pendingOf \subseteq Block \X Job
    BY WatchedType DEF TableInv
  <1> QED
    BY <1>1, <1>2, <1>3 DEF TableInv, IdsFit, MemoryFits, TierFits, TypeOK, Status

\* The fields stay in range, across preemptions, failures and resets: a job always waits
\* for a rank, and no request counts more blocks computed or stored than it has.
THEOREM ConnectorTyped == Spec => []TypeOK
  BY TablesTyped, ConnectorInvariant, PTL

LEMMA NextKept ==
    ASSUME \A kind \in ResetKinds : ~kind.connector, TableInv, JobsKept, [Next]_vars
    PROVE  JobsKept'
  <1>1. CASE UNCHANGED <<conn, jobs>>
    BY <1>1 DEF JobsKept
  <1>2. conn \in [Request -> ConnRec]
    BY DEF TableInv, TablesFit
  <1>3. ASSUME NEW r \in Request, Arrive(r) \/ Finish(r) PROVE JobsKept'
    BY <1>2, <1>3 DEF Arrive, Finish, JobsKept, ConnRec
  <1>4. ASSUME NEW r \in Request, AdmitLoad(r) PROVE JobsKept'
    <2>1. DOMAIN jobs' = DOMAIN jobs \cup {nextJob}
      BY <1>4 DEF AdmitLoad, With
    <2>2. \A q \in Request : conn'[q].jobs \subseteq conn[q].jobs \cup {nextJob}
      BY <1>2, <1>4 DEF AdmitLoad, ConnRec
    <2> QED
      BY <2>1, <2>2 DEF JobsKept
  <1>5. ASSUME NEW r \in Request, BuildStore(r) PROVE JobsKept'
    <2>1. \/ UNCHANGED <<conn, jobs>>
          \/ UNCHANGED jobs /\ conn' = [conn EXCEPT ![r].next = StoredTo(Offloadable(r))]
          \/ /\ \E entry : jobs' = With(jobs, nextJob, entry)
             /\ conn' = [conn EXCEPT ![r].next = StoredTo(Offloadable(r)), ![r].jobs = @ \cup {nextJob}]
      BY <1>5 DEF BuildStore
    <2>2. CASE UNCHANGED jobs /\ conn' = [conn EXCEPT ![r].next = StoredTo(Offloadable(r))]
      BY <1>2, <2>2 DEF ConnRec, JobsKept
    <2>3. CASE /\ \E entry : jobs' = With(jobs, nextJob, entry)
               /\ conn' = [conn EXCEPT ![r].next = StoredTo(Offloadable(r)), ![r].jobs = @ \cup {nextJob}]
      <3>1. DOMAIN jobs' = DOMAIN jobs \cup {nextJob}
        BY <2>3 DEF With
      <3>2. \A q \in Request : conn'[q].jobs \subseteq conn[q].jobs \cup {nextJob}
        BY <1>2, <2>3 DEF ConnRec
      <3> QED
        BY <3>1, <3>2 DEF JobsKept
    <2> QED
      BY <1>1, <2>1, <2>2, <2>3
  <1>6. CASE ProcessOutput
    <2>1. PICK D : /\ DOMAIN jobs' = DOMAIN jobs \ D
                   /\ conn' = [r \in Request |-> conn'[r]] /\ \A r \in Request : conn'[r].jobs = conn[r].jobs \ D
      BY <1>2, <1>6 DEF ProcessOutput, ConnRec
    <2> QED
      BY <2>1, SMTT(60) DEF JobsKept
  <1>7. ASSUME NEW kind \in ResetKinds, Reset(kind) PROVE JobsKept'
    BY <1>1, <1>7 DEF Reset
  <1>8. ASSUME NEW r \in Request, Preempt(r) \/ Promote(r) PROVE JobsKept'
    BY <1>1, <1>8 DEF Preempt, Promote
  <1>9. ASSUME NEW r \in Request, NEW n, ScheduleRunning(r, n) \/ Admit(r, n) PROVE JobsKept'
    BY <1>1, <1>9 DEF ScheduleRunning, Admit
  <1>10. CASE BuildMeta \/ IssueStep
    BY <1>1, <1>10 DEF BuildMeta, IssueStep
  <1>11. CASE Engine
    BY <1>3, <1>4, <1>5, <1>6, <1>7, <1>8, <1>9, <1>10, <1>11, SMTT(60) DEF Engine
  <1>12. CASE WorkerLoop
    BY <1>1, <1>12, ZenonT(60) DEF WorkerLoop, Launch, ForwardDone
  <1>13. ASSUME NEW j \in Job, NEW k \in Rank, Transfers(j, k) PROVE JobsKept'
    BY <1>1, <1>13 DEF Transfers, TransferDone
  <1>14. CASE UNCHANGED vars
    BY <1>1, <1>14 DEF vars
  <1> QED
    BY <1>11, <1>12, <1>13, <1>14 DEF Next

\* While the connector is not reset: the job table, the job sets of the requests and the
\* watch on blocks name each other's entries exactly, every job is kept until its last
\* rank is heard, and the tier holds no more keys than it has slots.
THEOREM TablesAgree ==
    ASSUME \A kind \in ResetKinds : ~kind.connector
    PROVE  Spec => []JobsOK
  <1>1. Init => JobsKept
    BY DEF Init, JobsKept
  <1>2. TableInv /\ JobsKept /\ [Next]_vars => JobsKept'
    BY NextKept
  <1>3. TableInv /\ JobsKept => JobsOK
    BY TablesTyped DEF TableInv, TablesFit, JobsKept, JobsOK, JobsKnown
  <1> QED
    BY <1>1, <1>2, <1>3, ConnectorInvariant, PTL DEF Spec

----------------------------------------------------------------------------
(* The blocks: who may still write each, and what they hold. *)

\* Steps are launched, and run, in order.
StepsOrdered ==
    \A s, t \in DOMAIN steps : s < t =>
        /\ steps[s].state = "queued" => steps[t].state = "queued"
        /\ steps[t].state = "ran" => steps[s].state = "ran"

\* A block has one owner, and none while it is fenced.
BlocksApart ==
    /\ \A r, q \in Request : \A i \in DOMAIN req[r].blocks, k \in DOMAIN req[q].blocks :
          req[r].blocks[i] = req[q].blocks[k] => r = q /\ i = k
    /\ \A r \in Request : \A i \in DOMAIN req[r].blocks : \A s \in DOMAIN steps :
          req[r].blocks[i] \notin steps[s].frees

\* The pair p, a block and what it should hold, is part of what r has computed.
Computes(r, p) ==
    req[r].status = "running" /\ \E i \in 1..req[r].computed : p = <<req[r].blocks[i], KeyAt(r, i)>>

\* What a step writes belongs to a request that runs in it, or is fenced until it is over.
WritesOwned ==
    /\ \A s \in DOMAIN steps : \A p \in steps[s].writes :
          \/ \E r \in steps[s].reqs : Computes(r, p)
          \/ \E t \in DOMAIN steps : s <= t /\ p[1] \in steps[t].frees
    /\ \A p \in batch.writes : \E r \in batch.sched : Computes(r, p)
    /\ \A s \in DOMAIN steps : \A p, q \in steps[s].writes : p[1] = q[1] => p = q

Filling == {"loading", "finished"}

\* A load fills blocks of a request that waits for it, and is its only load.
Loads == {j \in DOMAIN xfer : ~xfer[j].store}
BusySilent ==
    \A j \in DOMAIN xfer : \A k \in xfer[j].busy : k \in xfer[j].unreported /\ xfer[j].bad[k] = {}
LoadsFill ==
    \A j \in Loads :
        /\ req[xfer[j].req].status \in Filling
        /\ \A p \in xfer[j].pairs : \E i \in DOMAIN req[xfer[j].req].blocks :
              p = <<req[xfer[j].req].blocks[i], KeyAt(xfer[j].req, i)>>
LoadsAlone == \A i, j \in Loads : xfer[i].req = xfer[j].req => i = j

\* So do its reports, and nothing is left of it after its last one.
ReportsFill ==
    \A s \in DOMAIN steps : \A m \in steps[s].report : m.load =>
        /\ req[m.req].status \in Filling
        /\ \A j \in Loads : xfer[j].req = m.req => j = m.job
        /\ \A t \in DOMAIN steps : \A n \in steps[t].report : n.load /\ n.req = m.req => n.job = m.job
LastsEnd ==
    \A s \in DOMAIN steps : \A m \in steps[s].report : m.last =>
        /\ m.job \notin DOMAIN xfer
        /\ \A t \in DOMAIN steps : \A n \in steps[t].report : s < t => n.job # m.job
LoadsOwned == BusySilent /\ LoadsFill /\ LoadsAlone /\ ReportsFill /\ LastsEnd

\* What a load has yet to bring is being copied, or its failure has yet to be heard of.
Owed(r, i) ==
    \/ \E j \in Loads : xfer[j].req = r /\
          \/ Here \in xfer[j].busy /\ <<req[r].blocks[i], KeyAt(r, i)>> \in xfer[j].pairs
          \/ Here \in xfer[j].unreported /\ req[r].blocks[i] \in xfer[j].bad[Here]
    \/ \E s \in DOMAIN steps : \E m \in steps[s].report :
          m.load /\ m.req = r /\ req[r].blocks[i] \in m.bad
LoadData ==
    \A r \in Request : req[r].status = "loading" =>
        \A i \in 1..req[r].computed : gpu[req[r].blocks[i]] = KeyAt(r, i) \/ Owed(r, i)

UnbornEmpty == \A r \in Request : req[r].status = "unborn" => req[r].computed = 0

MemInv ==
    /\ StepsOrdered /\ BlocksApart /\ WritesOwned /\ LoadsOwned
    /\ LoadData /\ PrefixIntact /\ UnbornEmpty

----------------------------------------------------------------------------
(* What each action does to the memory invariant. A view lemma states an *)
(* action by the fields it leaves; its Mem lemma preserves the invariant. *)

LEMMA TableTypes ==
    ASSUME TableInv
    PROVE  /\ req \in [Request -> ReqRec] /\ conn \in [Request -> ConnRec] /\ batch \in BatchRec
           /\ steps \in Seq(StepRec) /\ DOMAIN steps = 1..Len(steps) /\ Len(steps) \in Nat
           /\ \A s \in DOMAIN steps : steps[s] \in StepRec
           /\ DOMAIN xfer \subseteq Job /\ xfer \in [DOMAIN xfer -> XferRec]
           /\ DOMAIN jobs \subseteq Job /\ jobs \in [DOMAIN jobs -> JobRec]
           /\ gpu \in [Block -> Key \cup {NoKey}]
  BY DEF TableInv, ReqsFit, TablesFit, BatchFits, IdsFit, MemoryFits

----------------------------------------------------------------------------
(* Steps that move blocks between requests, the pool and the fences *)

LEMMA OrderFrame ==
    ASSUME StepsOrdered, FreesOnly
    PROVE  StepsOrdered'
  BY DEF StepsOrdered, FreesOnly

LEMMA LoadsFrame ==
    ASSUME TableInv, LoadsOwned, FreesOnly, UNCHANGED xfer,
           \A r \in Request : req[r].status \in Filling => req'[r].status \in Filling /\ req'[r].blocks = req[r].blocks
    PROVE  LoadsOwned'
  <1>1. \A j \in DOMAIN xfer : xfer[j].req \in Request
    BY TableTypes DEF XferRec
  <1>2. \A s \in DOMAIN steps : \A m \in steps[s].report : m.req \in Request
    BY TableTypes DEF StepRec, Report
  <1>3. Loads' = Loads /\ Loads \subseteq DOMAIN xfer
    BY DEF Loads
  <1>4. LoadsFill'
    BY <1>1, <1>3 DEF LoadsOwned, LoadsFill
  <1>5. ReportsFill'
    BY <1>2, <1>3 DEF LoadsOwned, ReportsFill, FreesOnly
  <1>6. LastsEnd'
    BY DEF LoadsOwned, LastsEnd, FreesOnly
  <1> QED
    BY <1>3, <1>4, <1>5, <1>6 DEF LoadsOwned, BusySilent, LoadsAlone

LEMMA LoadDataFrame ==
    ASSUME LoadData, FreesOnly, UNCHANGED <<xfer, gpu>>,
           \A r \in Request : req'[r].status = "loading" =>
               req[r].status = "loading" /\ req'[r].blocks = req[r].blocks /\ req'[r].computed = req[r].computed
    PROVE  LoadData'
  <1> SUFFICES ASSUME NEW r \in Request, req'[r].status = "loading", NEW i \in 1..req'[r].computed
               PROVE  gpu'[req'[r].blocks[i]] = KeyAt(r, i) \/ Owed(r, i)'
    BY DEF LoadData
  <1>1. Owed(r, i) => Owed(r, i)'
    BY DEF Owed, FreesOnly, Loads
  <1> QED
    BY <1>1 DEF LoadData

\* What PrefixIntact says of one block.
Intact(r, i) ==
    \/ gpu[req[r].blocks[i]] = KeyAt(r, i)
    \/ \E s \in DOMAIN steps : steps[s].state # "ran" /\ <<req[r].blocks[i], KeyAt(r, i)>> \in steps[s].writes
    \/ <<req[r].blocks[i], KeyAt(r, i)>> \in batch.writes
Valid == {"running", "received", "waiting"}

LEMMA PrefixFrame ==
    ASSUME PrefixIntact, FreesOnly, UNCHANGED gpu, batch.writes \subseteq batch'.writes,
           \A r \in Request : req'[r].status \in Valid => \A i \in 1..req'[r].computed :
              \/ <<req'[r].blocks[i], KeyAt(r, i)>> \in batch'.writes
              \/ req[r].status \in Valid /\ i \in 1..req[r].computed /\ req'[r].blocks[i] = req[r].blocks[i]
    PROVE  PrefixIntact'
  <1>1. ASSUME NEW r \in Request, req[r].status \in Valid, NEW i \in 1..req[r].computed
        PROVE  Intact(r, i)
    BY <1>1 DEF PrefixIntact, Intact, Valid
  <1>2. ASSUME NEW r \in Request, req'[r].status \in Valid, NEW i \in 1..req'[r].computed
        PROVE  Intact(r, i)'
    <2>1. CASE <<req'[r].blocks[i], KeyAt(r, i)>> \in batch'.writes
      BY <2>1 DEF Intact
    <2>2. CASE req[r].status \in Valid /\ i \in 1..req[r].computed /\ req'[r].blocks[i] = req[r].blocks[i]
      BY <1>1, <2>2 DEF Intact, FreesOnly
    <2> QED
      BY <1>2, <2>1, <2>2
  <1> QED
    BY <1>2 DEF PrefixIntact, Intact, Valid

LEMMA WritesFrame ==
    ASSUME WritesOwned, FreesOnly,
           \A s \in DOMAIN steps : steps[s].frees \subseteq steps'[s].frees,
           \A s \in DOMAIN steps : \A r \in steps[s].reqs : \A p \in steps[s].writes : Computes(r, p) =>
              Computes(r, p)' \/ \E t \in DOMAIN steps : s <= t /\ p[1] \in steps'[t].frees,
           \A p \in batch'.writes : \E r \in batch'.sched : Computes(r, p)'
    PROVE  WritesOwned'
  <1>1. ASSUME NEW s \in DOMAIN steps, NEW p \in steps[s].writes
        PROVE  (\E r \in steps[s].reqs : Computes(r, p)') \/ \E t \in DOMAIN steps : s <= t /\ p[1] \in steps'[t].frees
    BY DEF WritesOwned
  <1> HIDE DEF Computes
  <1>2. DOMAIN steps' = DOMAIN steps /\ \A s \in DOMAIN steps : steps'[s].writes = steps[s].writes /\ steps'[s].reqs = steps[s].reqs
    BY DEF FreesOnly
  <1> QED
    BY <1>1, <1>2 DEF WritesOwned

\* Blocks are kept, or all given back.
LEMMA ApartShrinks ==
    ASSUME BlocksApart, \A r \in Request : req'[r].blocks = req[r].blocks \/ req'[r].blocks = <<>>,
           \A s \in DOMAIN steps' : \A b \in steps'[s].frees :
              \/ \E t \in DOMAIN steps : b \in steps[t].frees
              \/ \E r \in Request : req'[r].blocks = <<>> /\ \E i \in DOMAIN req[r].blocks : b = req[r].blocks[i]
    PROVE  BlocksApart'
  <1>1. \A r \in Request : \A i \in DOMAIN req'[r].blocks : i \in DOMAIN req[r].blocks /\ req'[r].blocks = req[r].blocks
    OBVIOUS
  <1>2. \A r, q \in Request : \A i \in DOMAIN req'[r].blocks, k \in DOMAIN req'[q].blocks :
          req'[r].blocks[i] = req'[q].blocks[k] => r = q /\ i = k
    BY <1>1 DEF BlocksApart
  <1>3. ASSUME NEW r \in Request, NEW i \in DOMAIN req'[r].blocks, NEW s \in DOMAIN steps', req'[r].blocks[i] \in steps'[s].frees
        PROVE  FALSE
    <2>1. i \in DOMAIN req[r].blocks /\ req'[r].blocks[i] = req[r].blocks[i] /\ req'[r].blocks = req[r].blocks
      BY <1>1
    <2>2. PICK q \in Request : req'[q].blocks = <<>> /\ \E k \in DOMAIN req[q].blocks : req[r].blocks[i] = req[q].blocks[k]
      BY <1>3, <2>1 DEF BlocksApart
    <2>3. q = r
      BY <2>1, <2>2 DEF BlocksApart
    <2> QED
      BY <2>1, <2>2, <2>3
  <1> QED
    BY <1>2, <1>3 DEF BlocksApart

\* One request gets blocks from the pool.
LEMMA ApartGrows ==
    ASSUME TableInv, BlocksApart, UNCHANGED steps, NEW r \in Request, NEW B \in Seq(Block),
           \A q \in Request : q # r => req'[q].blocks = req[q].blocks, req'[r].blocks = B,
           \A i \in DOMAIN B : B[i] \in Free \/ (i \in DOMAIN req[r].blocks /\ B[i] = req[r].blocks[i]),
           \A i, k \in DOMAIN B : B[i] \in Free /\ B[i] = B[k] => i = k
    PROVE  BlocksApart'
  <1>1. \A q \in Request : \A i \in DOMAIN req[q].blocks : req[q].blocks[i] \notin Free
    BY DEF Free, Held, ToSet
  <1>2. \A b \in Free : \A s \in DOMAIN steps : b \notin steps[s].frees
    BY DEF Free, Fenced
  <1> QED
    BY <1>1, <1>2 DEF BlocksApart

(* Blocks are freed behind a fence. *)

\* What a fence covers.
LEMMA FencedFreeFits ==
    ASSUME TableInv, NEW R \in SUBSET Request, steps' = FencedFree(R)
    PROVE  /\ FreesOnly
           /\ \A s \in DOMAIN steps : steps[s].frees \subseteq steps'[s].frees
           /\ \A s \in DOMAIN steps : \A b \in steps'[s].frees : b \in steps[s].frees \/
                 \E r \in R : \E i \in DOMAIN req[r].blocks : b = req[r].blocks[i]
           /\ \A s \in DOMAIN steps : \A r \in R : r \in steps[s].reqs => \A i \in DOMAIN req[r].blocks :
                 \E t \in DOMAIN steps : s <= t /\ req[r].blocks[i] \in steps'[t].frees
  <1> DEFINE late == {r \in R : \E s \in DOMAIN steps : r \in steps[s].reqs}
             last == Max({s \in DOMAIN steps : steps[s].reqs # {}})
             more == UNION {ToSet(req[r].blocks) : r \in late}
  <1>1. FreesOnly
    BY FencedKeeps, TableTypes DEF TableInv
  <1>2. CASE late = {}
    <2>1. steps' = steps
      BY <1>2 DEF FencedFree
    <2> QED
      BY <1>1, <1>2, <2>1
  <1>3. CASE late # {}
    <2>1. steps' = [steps EXCEPT ![last].frees = @ \cup more]
      BY <1>3 DEF FencedFree
    <2>2. /\ last \in DOMAIN steps /\ \A s \in DOMAIN steps : steps[s].reqs # {} => s <= last
      <3>1. {s \in DOMAIN steps : steps[s].reqs # {}} # {}
        BY <1>3
      <3>2. {s \in DOMAIN steps : steps[s].reqs # {}} \subseteq 0..Len(steps)
        BY TableTypes
      <3> QED
        BY <3>1, <3>2, MaxExists, TableTypes
    <2>3. /\ \A s \in DOMAIN steps : s # last => steps'[s] = steps[s]
          /\ steps'[last].frees = steps[last].frees \cup more
      <3>1. steps[last] \in StepRec
        BY <2>2, TableTypes
      <3> HIDE DEF late, last, more
      <3> QED
        BY <2>1, <2>2, <3>1, TableTypes DEF StepRec
    <2>4. \A b : b \in more <=> \E r \in late : \E i \in DOMAIN req[r].blocks : b = req[r].blocks[i]
      BY DEF ToSet
    <2> HIDE DEF last, more
    <2>5. \A s \in DOMAIN steps : steps[s].frees \subseteq steps'[s].frees
      BY <2>3
    <2>6. \A s \in DOMAIN steps : \A b \in steps'[s].frees : b \in steps[s].frees \/
                 \E r \in R : \E i \in DOMAIN req[r].blocks : b = req[r].blocks[i]
      BY <2>3, <2>4
    <2>7. ASSUME NEW s \in DOMAIN steps, NEW r \in R, r \in steps[s].reqs, NEW i \in DOMAIN req[r].blocks
          PROVE  s <= last /\ req[r].blocks[i] \in steps'[last].frees
      BY <2>2, <2>3, <2>4, <2>7
    <2> QED
      BY <1>1, <2>2, <2>5, <2>6, <2>7
  <1> QED
    BY <1>2, <1>3

\* Requests give their blocks back: _preempt_request, _free_request, a forced reset.
LEMMA ReleaseKeeps ==
    ASSUME TableInv, MemInv, NEW R \in SUBSET Request, steps' = FencedFree(R),
           UNCHANGED <<xfer, gpu>>, batch'.writes = batch.writes, batch'.sched = batch.sched,
           \A r \in R : /\ req[r].status \in {"waiting", "received", "running"} /\ r \notin batch.sched
                        /\ req'[r].status \in {"waiting", "gone"} /\ req'[r].computed = 0 /\ req'[r].blocks = <<>>,
           \A r \in Request \ R : req'[r] = req[r]
    PROVE  MemInv'
  <1>1. /\ FreesOnly
        /\ \A s \in DOMAIN steps : steps[s].frees \subseteq steps'[s].frees
        /\ \A s \in DOMAIN steps : \A b \in steps'[s].frees : b \in steps[s].frees \/
                 \E r \in R : \E i \in DOMAIN req[r].blocks : b = req[r].blocks[i]
        /\ \A s \in DOMAIN steps : \A r \in R : r \in steps[s].reqs => \A i \in DOMAIN req[r].blocks :
                 \E t \in DOMAIN steps : s <= t /\ req[r].blocks[i] \in steps'[t].frees
    BY FencedFreeFits
  <1>2. StepsOrdered'
    BY <1>1, OrderFrame DEF MemInv
  <1>3. BlocksApart'
    <2>1. \A r \in Request : req'[r].blocks = req[r].blocks \/ req'[r].blocks = <<>>
      OBVIOUS
    <2>2. \A s \in DOMAIN steps' : \A b \in steps'[s].frees :
              \/ \E t \in DOMAIN steps : b \in steps[t].frees
              \/ \E r \in Request : req'[r].blocks = <<>> /\ \E i \in DOMAIN req[r].blocks : b = req[r].blocks[i]
      BY <1>1 DEF FreesOnly
    <2> QED
      BY <2>1, <2>2, ApartShrinks DEF MemInv
  <1>4. WritesOwned'
    <2>1. ASSUME NEW r \in Request \ R, NEW p, Computes(r, p) PROVE Computes(r, p)'
      BY <2>1 DEF Computes
    <2>2. ASSUME NEW s \in DOMAIN steps, NEW r \in steps[s].reqs, NEW p \in steps[s].writes, Computes(r, p)
          PROVE  Computes(r, p)' \/ \E t \in DOMAIN steps : s <= t /\ p[1] \in steps'[t].frees
      <3>1. r \in Request
        BY TableTypes DEF StepRec
      <3>2. CASE r \in R
        <4>1. PICK i \in 1..req[r].computed : p = <<req[r].blocks[i], KeyAt(r, i)>>
          BY <2>2 DEF Computes
        <4>2. i \in DOMAIN req[r].blocks
          BY <3>1, <4>1, TableTypes DEF TableInv, ReqsFit, ReqRec
        <4> QED
          BY <1>1, <3>2, <4>1, <4>2
      <3>3. CASE r \notin R
        BY <2>1, <2>2, <3>1, <3>3
      <3> QED
        BY <3>2, <3>3
    <2>3. \A p \in batch'.writes : \E r \in batch'.sched : Computes(r, p)'
      <3>1. \A r \in batch.sched : r \in Request \ R
        BY TableTypes DEF BatchRec
      <3> QED
        BY <2>1, <3>1 DEF MemInv, WritesOwned
    <2> QED
      BY <1>1, <2>2, <2>3, WritesFrame DEF MemInv
  <1>5. LoadsOwned'
    BY <1>1, LoadsFrame DEF MemInv, Filling
  <1>6. LoadData'
    <2>1. \A r \in Request : req'[r].status = "loading" =>
               req[r].status = "loading" /\ req'[r].blocks = req[r].blocks /\ req'[r].computed = req[r].computed
      OBVIOUS
    <2> QED
      BY <1>1, <2>1, LoadDataFrame DEF MemInv
  <1>7. PrefixIntact'
    <2>1. \A r \in Request : req'[r].status \in Valid => \A i \in 1..req'[r].computed :
              req[r].status \in Valid /\ i \in 1..req[r].computed /\ req'[r].blocks[i] = req[r].blocks[i]
      OBVIOUS
    <2> QED
      BY <1>1, <2>1, PrefixFrame DEF MemInv
  <1>8. UnbornEmpty'
    BY DEF MemInv, UnbornEmpty
  <1> QED
    BY <1>2, <1>3, <1>4, <1>5, <1>6, <1>7, <1>8 DEF MemInv

\* Only the status of one request changes, or it gives back blocks that nothing writes.
LEMMA StatusKeeps ==
    ASSUME TableInv, MemInv, UNCHANGED <<steps, xfer, gpu>>, batch'.writes = batch.writes, batch'.sched = batch.sched,
           \A r \in Request :
              \/ req'[r] = req[r]
              \/ /\ req'[r].computed = req[r].computed
                 /\ req'[r].blocks = req[r].blocks \/ (req'[r].blocks = <<>> /\ req[r].computed = 0 /\ req[r].status = "received")
                 /\ \/ req[r].status = "unborn" /\ req'[r].status = "waiting"
                    \/ req[r].status = "received" /\ req'[r].status = "waiting"
                    \/ req[r].status = "loading" /\ req'[r].status = "finished"
    PROVE  MemInv'
  <1>1. FreesOnly
    BY SameSteps, TableTypes
  <1>2. StepsOrdered'
    BY <1>1, OrderFrame DEF MemInv
  <1>3. BlocksApart'
    BY ApartShrinks DEF MemInv
  <1>4. \A r \in Request : \A p : Computes(r, p) => Computes(r, p)'
    BY DEF Computes
  <1>5. WritesOwned'
    <2>1. \A s \in DOMAIN steps : steps[s].reqs \subseteq Request
      BY TableTypes DEF StepRec
    <2>2. batch.sched \subseteq Request
      BY TableTypes DEF BatchRec
    <2>3. \A p \in batch'.writes : \E r \in batch'.sched : Computes(r, p)'
      BY <1>4, <2>2 DEF MemInv, WritesOwned
    <2> HIDE DEF Computes
    <2> QED
      BY <1>1, <1>4, <2>1, <2>3, WritesFrame DEF MemInv
  <1>6. LoadsOwned'
    BY <1>1, LoadsFrame DEF MemInv, Filling
  <1>7. LoadData'
    <2>1. \A r \in Request : req'[r].status = "loading" =>
               req[r].status = "loading" /\ req'[r].blocks = req[r].blocks /\ req'[r].computed = req[r].computed
      OBVIOUS
    <2> QED
      BY <1>1, <2>1, LoadDataFrame DEF MemInv
  <1>8. PrefixIntact'
    <2>1. ASSUME NEW r \in Request, req'[r].status \in Valid, NEW i \in 1..req'[r].computed
          PROVE  req[r].status \in Valid /\ i \in 1..req[r].computed /\ req'[r].blocks[i] = req[r].blocks[i]
      <3>1. CASE req'[r] = req[r]
        BY <2>1, <3>1
      <3>2. CASE req[r].status = "unborn" /\ req'[r].computed = req[r].computed
        <4>1. req'[r].computed = 0
          BY <3>2 DEF MemInv, UnbornEmpty
        <4> QED
          BY <4>1
      <3>3. CASE req[r].status = "received" /\ req'[r].computed = req[r].computed /\ req'[r].blocks = req[r].blocks
        BY <2>1, <3>3 DEF Valid
      <3>4. CASE req'[r].computed = 0
        BY <2>1, <3>4
      <3> QED
        BY <2>1, <3>1, <3>2, <3>3, <3>4 DEF Valid
    <2> QED
      BY <1>1, <2>1, PrefixFrame DEF MemInv
  <1>9. UnbornEmpty'
    BY DEF MemInv, UnbornEmpty
  <1> QED
    BY <1>2, <1>3, <1>5, <1>6, <1>7, <1>8, <1>9 DEF MemInv

LEMMA PreemptMem ==
    ASSUME TableInv, MemInv, NEW r \in Request, Preempt(r)
    PROVE  MemInv'
  <1>1. /\ steps' = FencedFree({r}) /\ UNCHANGED <<xfer, gpu>> /\ req[r].status = "running" /\ r \notin batch.sched
        /\ req' = [req EXCEPT ![r] = [status |-> "waiting", computed |-> 0, blocks |-> <<>>]]
    BY DEF Preempt
  <1>2. batch'.writes = batch.writes /\ batch'.sched = batch.sched
    <2>1. PICK q \in Request : batch' = [batch EXCEPT !.preempted = @ \cup {r}, !.owed = @ \cup {q}]
      BY DEF Preempt
    <2> QED
      BY <2>1, TableTypes DEF BatchRec
  <1>3. /\ req'[r].status = "waiting" /\ req'[r].computed = 0 /\ req'[r].blocks = <<>>
        /\ \A q \in Request \ {r} : req'[q] = req[q]
    BY <1>1, TableTypes
  <1> QED
    BY <1>1, <1>2, <1>3, ReleaseKeeps

LEMMA FinishMem ==
    ASSUME TableInv, MemInv, NEW r \in Request, Finish(r)
    PROVE  MemInv'
  <1>1. /\ UNCHANGED <<batch, xfer, gpu>> /\ batch.sched = {}
        /\ req[r].status \in {"waiting", "loading", "received", "running"}
    BY DEF Finish, Idle, NoBatch
  <1>2. CASE req[r].status = "loading"
    <2>1. UNCHANGED steps /\ req' = [req EXCEPT ![r] = [@ EXCEPT !.status = "finished"]]
      BY <1>2 DEF Finish
    <2>2. /\ req'[r].status = "finished" /\ req'[r].computed = req[r].computed /\ req'[r].blocks = req[r].blocks
          /\ \A q \in Request \ {r} : req'[q] = req[q]
      BY <2>1, TableTypes DEF ReqRec
    <2> QED
      BY <1>1, <1>2, <2>1, <2>2, StatusKeeps
  <1>3. CASE req[r].status # "loading"
    <2>1. steps' = FencedFree({r}) /\ req' = [req EXCEPT ![r] = [status |-> "gone", computed |-> 0, blocks |-> <<>>]]
      BY <1>3 DEF Finish
    <2>2. /\ req'[r].status = "gone" /\ req'[r].computed = 0 /\ req'[r].blocks = <<>>
          /\ \A q \in Request \ {r} : req'[q] = req[q]
      BY <2>1, TableTypes
    <2> QED
      BY <1>1, <1>3, <2>1, <2>2, ReleaseKeeps
  <1> QED
    BY <1>2, <1>3

LEMMA ResetMem ==
    ASSUME TableInv, MemInv, NEW kind \in ResetKinds, Reset(kind)
    PROVE  MemInv'
  <1> DEFINE R == {r \in Request : kind.running /\ req[r].status = "running"}
  <1>1. /\ batch = NoBatch /\ steps' = FencedFree(R) /\ UNCHANGED <<batch, xfer, gpu>>
        /\ req' = [r \in Request |-> IF r \in R
                     THEN [status |-> "waiting", computed |-> 0, blocks |-> <<>>] ELSE req[r]]
    BY DEF Reset, Idle
  <1>2. batch.sched = {} /\ R \in SUBSET Request /\ \A r \in R : req[r].status = "running"
    BY <1>1 DEF NoBatch
  <1>3. \A r \in R : req'[r].status = "waiting" /\ req'[r].computed = 0 /\ req'[r].blocks = <<>>
    BY <1>1
  <1>4. \A r \in Request \ R : req'[r] = req[r]
    BY <1>1
  <1> HIDE DEF R
  <1> QED
    BY <1>1, <1>2, <1>3, <1>4, ReleaseKeeps

LEMMA ArriveMem ==
    ASSUME TableInv, MemInv, NEW r \in Request, Arrive(r)
    PROVE  MemInv'
  <1>1. /\ UNCHANGED <<batch, steps, xfer, gpu>> /\ req[r].status = "unborn"
        /\ req' = [req EXCEPT ![r].status = "waiting"]
    BY DEF Arrive
  <1>2. /\ req'[r].status = "waiting" /\ req'[r].computed = req[r].computed /\ req'[r].blocks = req[r].blocks
        /\ \A q \in Request \ {r} : req'[q] = req[q]
    BY <1>1, TableTypes DEF ReqRec
  <1> QED
    BY <1>1, <1>2, StatusKeeps

LEMMA PromoteMem ==
    ASSUME TableInv, MemInv, NEW r \in Request, Promote(r)
    PROVE  MemInv'
  <1>1. /\ UNCHANGED <<batch, steps, xfer, gpu>> /\ req[r].status = "received"
        /\ req' = [req EXCEPT ![r] = [status |-> "waiting", computed |-> @.computed,
                                      blocks |-> IF @.computed > 0 THEN @.blocks ELSE <<>>]]
    BY DEF Promote
  <1>2. /\ req'[r].status = "waiting" /\ req'[r].computed = req[r].computed
        /\ req'[r].blocks = IF req[r].computed > 0 THEN req[r].blocks ELSE <<>>
        /\ \A q \in Request \ {r} : req'[q] = req[q]
    BY <1>1, TableTypes DEF ReqRec
  <1>3. req[r].computed \in Nat
    BY TableTypes DEF ReqRec
  <1> QED
    BY <1>1, <1>2, <1>3, StatusKeeps

LEMMA BuildMetaMem ==
    ASSUME TableInv, MemInv, BuildMeta
    PROVE  MemInv'
  <1>1. UNCHANGED <<req, steps, xfer, gpu>> /\ batch' = [batch EXCEPT !.phase = "stores"]
    BY DEF BuildMeta
  <1>2. batch'.writes = batch.writes /\ batch'.sched = batch.sched
    BY <1>1, TableTypes DEF BatchRec
  <1> QED
    BY <1>1, <1>2, StatusKeeps

----------------------------------------------------------------------------
(* allocate_slots *)

LEMMA ConcatAt ==
    ASSUME NEW s \in Seq(Block), NEW t \in Seq(Block), NEW all, all = s \o t
    PROVE  /\ all \in Seq(Block) /\ Len(all) = Len(s) + Len(t) /\ DOMAIN all = 1..Len(all)
           /\ \A i \in DOMAIN s : i \in DOMAIN all /\ all[i] = s[i]
           /\ \A i \in DOMAIN all : i \notin DOMAIN s => i - Len(s) \in DOMAIN t /\ all[i] = t[i - Len(s)]
  <1>1. all \in Seq(Block) /\ Len(all) = Len(s) + Len(t) /\ DOMAIN all = 1..Len(all)
    OBVIOUS
  <1>2. DOMAIN s = 1..Len(s) /\ DOMAIN t = 1..Len(t) /\ Len(s) \in Nat /\ Len(t) \in Nat
    OBVIOUS
  <1>3. \A i \in 1..Len(s) + Len(t) : all[i] = IF i <= Len(s) THEN s[i] ELSE t[i - Len(s)]
    OBVIOUS
  <1> QED
    BY <1>1, <1>2, <1>3

LEMMA ScheduledView ==
    ASSUME TableInv, NEW r \in Request, NEW n \in Nat,
           NEW new \in Allocations(Lacks(r, n)), Scheduled(r, n, new)
    PROVE  /\ \A q \in Request : q # r => req'[q] = req[q]
           /\ req'[r].status = "running" /\ req'[r].computed = req[r].computed + n
           /\ req'[r].blocks \in Seq(Block) /\ req'[r].computed <= Len(req'[r].blocks)
           /\ \A i \in DOMAIN req[r].blocks : i \in DOMAIN req'[r].blocks /\ req'[r].blocks[i] = req[r].blocks[i]
           /\ \A i \in DOMAIN req'[r].blocks : i \notin DOMAIN req[r].blocks =>
                 req'[r].blocks[i] \in Free /\ req'[r].blocks[i] \in batch'.alloc
           /\ \A i, k \in DOMAIN req'[r].blocks :
                 req'[r].blocks[i] \in Free /\ req'[r].blocks[i] = req'[r].blocks[k] => i = k
           /\ batch'.sched = batch.sched \cup {r} /\ batch.alloc \subseteq batch'.alloc
           /\ batch'.writes = batch.writes \cup
                 {<<req'[r].blocks[i], KeyAt(r, i)>> : i \in req[r].computed + 1 .. req[r].computed + n}
           /\ batch'.loads = batch.loads /\ batch'.stores = batch.stores
           /\ batch'.preempted = batch.preempted /\ batch'.phase = batch.phase
  <1> DEFINE old == req[r].blocks
  <1>1. PICK all : all = req[r].blocks \o new
    OBVIOUS
  <1>2. /\ Lacks(r, n) \in Nat /\ req[r].computed + n <= Len(old) + Lacks(r, n)
        /\ new \in Seq(Block) /\ Len(new) = Lacks(r, n) /\ DOMAIN new = 1..Lacks(r, n)
        /\ \A i \in 1..Lacks(r, n) : new[i] \in Free
    BY LacksRange, AllocationsFit DEF TableInv
  <1>3. \A i, k \in DOMAIN new : new[i] = new[k] => i = k
    BY <1>2 DEF Allocations, IsInjective
  <1>4. old \in Seq(Block) /\ DOMAIN old = 1..Len(old) /\ Len(old) \in Nat
    BY TableTypes DEF ReqRec
  <1> HIDE DEF old
  <1>5. /\ all \in Seq(Block) /\ Len(all) = Len(old) + Lacks(r, n) /\ DOMAIN all = 1..Len(all)
        /\ \A i \in 1..Len(old) : all[i] = old[i]
        /\ \A i \in DOMAIN all : i \notin DOMAIN old => i - Len(old) \in 1..Lacks(r, n) /\ all[i] = new[i - Len(old)]
    <2>1. new \in Seq(Block) /\ all = old \o new
      BY <1>1, <1>2 DEF old
    <2>2. /\ all \in Seq(Block) /\ Len(all) = Len(old) + Len(new) /\ DOMAIN all = 1..Len(all)
          /\ \A i \in DOMAIN old : all[i] = old[i]
          /\ \A i \in DOMAIN all : i \notin DOMAIN old => i - Len(old) \in DOMAIN new /\ all[i] = new[i - Len(old)]
      BY <1>4, <2>1, ConcatAt
    <2>3. Len(all) = Len(old) + Lacks(r, n)
      BY <1>2, <2>2
    <2>4. \A i \in 1..Len(old) : all[i] = old[i]
      BY <1>4, <2>2
    <2>5. \A i \in DOMAIN all : i \notin DOMAIN old => i - Len(old) \in 1..Lacks(r, n) /\ all[i] = new[i - Len(old)]
      BY <1>2, <2>2
    <2> QED
      BY <2>2, <2>3, <2>4, <2>5
  <1>6. req' = [req EXCEPT ![r] = [status |-> "running", blocks |-> all, computed |-> req[r].computed + n]]
    BY <1>1, TableTypes DEF Scheduled
  <1>7. /\ req'[r].status = "running" /\ req'[r].computed = req[r].computed + n /\ req'[r].blocks = all
        /\ \A q \in Request : q # r => req'[q] = req[q]
    BY <1>6, TableTypes
  <1>8. \A q \in Request : \A i \in DOMAIN req[q].blocks : req[q].blocks[i] \notin Free
    BY DEF Free, Held, ToSet
  <1>9. \A i \in DOMAIN all : i \notin DOMAIN old => all[i] \in Free /\ all[i] \in ToSet(new)
    BY <1>2, <1>5 DEF ToSet
  <1>10. ASSUME NEW i \in DOMAIN all, NEW k \in DOMAIN all, all[i] \in Free, all[i] = all[k] PROVE i = k
    <2>1. i \notin DOMAIN old /\ k \notin DOMAIN old
      BY <1>4, <1>5, <1>8, <1>10 DEF old
    <2>2. /\ i - Len(old) \in DOMAIN new /\ k - Len(old) \in DOMAIN new
          /\ new[i - Len(old)] = new[k - Len(old)]
      BY <1>2, <1>5, <1>10, <2>1
    <2>3. i - Len(old) = k - Len(old)
      BY <1>3, <2>2
    <2> QED
      BY <1>4, <1>5, <2>3
  <1>11. /\ batch'.sched = batch.sched \cup {r} /\ batch'.alloc = batch.alloc \cup ToSet(new)
         /\ batch'.writes = batch.writes \cup
               {<<all[i], KeyAt(r, i)>> : i \in req[r].computed + 1 .. req[r].computed + n}
         /\ batch'.loads = batch.loads /\ batch'.stores = batch.stores
         /\ batch'.preempted = batch.preempted /\ batch'.phase = batch.phase
    <2>1. PICK W : W = {<<all[i], KeyAt(r, i)>> : i \in req[r].computed + 1 .. req[r].computed + n}
      OBVIOUS
    <2>2. PICK A : A = IF req[r].status = "running" THEN {} ELSE {r}
      OBVIOUS
    <2>3. PICK T : T = ToSet(new)
      OBVIOUS
    <2>4. batch' = [batch EXCEPT !.sched = @ \cup {r}, !.alloc = @ \cup T, !.admitted = @ \cup A, !.writes = @ \cup W]
      BY <1>1, <2>1, <2>2, <2>3 DEF Scheduled
    <2>5. batch \in BatchRec
      BY TableTypes
    <2> QED
      BY <2>1, <2>3, <2>4, <2>5 DEF BatchRec
  <1> QED
    BY <1>2, <1>4, <1>5, <1>7, <1>9, <1>10, <1>11 DEF old

LEMMA ScheduledMem ==
    ASSUME TableInv, MemInv, NEW r \in Request, NEW n \in Nat, req[r].status \in {"waiting", "running"},
           NEW new \in Allocations(Lacks(r, n)), Scheduled(r, n, new), UNCHANGED <<steps, xfer, gpu>>
    PROVE  MemInv'
  <1>1. /\ \A q \in Request : q # r => req'[q] = req[q]
        /\ req'[r].status = "running" /\ req'[r].computed = req[r].computed + n
        /\ req'[r].blocks \in Seq(Block) /\ req'[r].computed <= Len(req'[r].blocks)
        /\ \A i \in DOMAIN req[r].blocks : i \in DOMAIN req'[r].blocks /\ req'[r].blocks[i] = req[r].blocks[i]
        /\ \A i \in DOMAIN req'[r].blocks : i \notin DOMAIN req[r].blocks => req'[r].blocks[i] \in Free
        /\ \A i, k \in DOMAIN req'[r].blocks :
              req'[r].blocks[i] \in Free /\ req'[r].blocks[i] = req'[r].blocks[k] => i = k
        /\ batch'.sched = batch.sched \cup {r}
        /\ batch'.writes = batch.writes \cup
              {<<req'[r].blocks[i], KeyAt(r, i)>> : i \in req[r].computed + 1 .. req[r].computed + n}
    BY ScheduledView
  <1>2. FreesOnly
    BY SameSteps, TableTypes
  <1>3. /\ req[r].computed \in Nat /\ req[r].computed <= Len(req[r].blocks) /\ DOMAIN req[r].blocks = 1..Len(req[r].blocks)
        /\ Len(req[r].blocks) \in Nat
    BY TableTypes DEF TableInv, ReqsFit, ReqRec
  <1>4. StepsOrdered'
    BY <1>2, OrderFrame DEF MemInv
  <1>5. BlocksApart'
    <2>1. PICK B \in Seq(Block) : B = req'[r].blocks
      BY <1>1
    <2>2. \A i \in DOMAIN B : B[i] \in Free \/ (i \in DOMAIN req[r].blocks /\ B[i] = req[r].blocks[i])
      BY <1>1, <2>1
    <2>3. \A i, k \in DOMAIN B : B[i] \in Free /\ B[i] = B[k] => i = k
      BY <1>1, <2>1
    <2>4. \A q \in Request : q # r => req'[q].blocks = req[q].blocks
      BY <1>1
    <2> QED
      BY <2>1, <2>2, <2>3, <2>4, ApartGrows DEF MemInv
  <1>6. ASSUME NEW q \in Request, NEW p, Computes(q, p) PROVE Computes(q, p)'
    <2>1. PICK i \in 1..req[q].computed : p = <<req[q].blocks[i], KeyAt(q, i)>>
      BY <1>6 DEF Computes
    <2>2. req'[q].status = "running" /\ i \in 1..req'[q].computed /\ req'[q].blocks[i] = req[q].blocks[i]
      <3>1. CASE q = r
        <4>1. i \in DOMAIN req[r].blocks /\ i \in 1..req[r].computed
          BY <1>3, <2>1, <3>1
        <4>2. req'[r].computed \in Nat /\ i \in 1..req'[r].computed
          BY <1>1, <1>3, <4>1
        <4>3. req'[r].blocks[i] = req[r].blocks[i] /\ req'[r].status = "running"
          BY <1>1, <4>1
        <4> QED
          BY <3>1, <4>2, <4>3
      <3>2. CASE q # r
        BY <1>1, <1>6, <2>1, <3>2 DEF Computes
      <3> QED
        BY <3>1, <3>2
    <2> QED
      BY <2>1, <2>2 DEF Computes
  <1>7. WritesOwned'
    <2>1. \A s \in DOMAIN steps : steps[s].reqs \subseteq Request
      BY TableTypes DEF StepRec
    <2>2. batch.sched \subseteq Request
      BY TableTypes DEF BatchRec
    <2>3. \A i \in req[r].computed + 1 .. req[r].computed + n : i \in 1..req'[r].computed
      BY <1>1, <1>3
    <2>4. \A p \in batch'.writes : \E q \in batch'.sched : Computes(q, p)'
      <3> SUFFICES ASSUME NEW p \in batch'.writes PROVE \E q \in batch'.sched : Computes(q, p)'
        OBVIOUS
      <3>1. CASE p \in batch.writes
        <4>1. PICK q \in batch.sched : Computes(q, p)
          BY <3>1 DEF MemInv, WritesOwned
        <4> QED
          BY <1>1, <1>6, <2>2, <4>1
      <3>2. CASE p \notin batch.writes
        <4>1. PICK i \in req[r].computed + 1 .. req[r].computed + n : p = <<req'[r].blocks[i], KeyAt(r, i)>>
          BY <1>1, <3>2
        <4>2. Computes(r, p)'
          BY <1>1, <2>3, <4>1 DEF Computes
        <4> QED
          BY <1>1, <4>2
      <3> QED
        BY <3>1, <3>2
    <2> HIDE DEF Computes
    <2> QED
      BY <1>2, <1>6, <2>1, <2>4, WritesFrame DEF MemInv
  <1>8. LoadsOwned'
    <2>1. \A q \in Request : req[q].status \in Filling => req'[q].status \in Filling /\ req'[q].blocks = req[q].blocks
      BY <1>1 DEF Filling
    <2> QED
      BY <1>2, <2>1, LoadsFrame DEF MemInv
  <1>9. LoadData'
    <2>1. \A q \in Request : req'[q].status = "loading" =>
               req[q].status = "loading" /\ req'[q].blocks = req[q].blocks /\ req'[q].computed = req[q].computed
      BY <1>1
    <2> QED
      BY <1>2, <2>1, LoadDataFrame DEF MemInv
  <1>10. PrefixIntact'
    <2>1. ASSUME NEW q \in Request, req'[q].status \in Valid, NEW i \in 1..req'[q].computed
          PROVE  \/ <<req'[q].blocks[i], KeyAt(q, i)>> \in batch'.writes
                 \/ req[q].status \in Valid /\ i \in 1..req[q].computed /\ req'[q].blocks[i] = req[q].blocks[i]
      <3>1. CASE q # r
        BY <1>1, <2>1, <3>1
      <3>2. CASE q = r /\ i \in 1..req[r].computed
        BY <1>1, <1>3, <3>2 DEF Valid
      <3>3. CASE q = r /\ i \notin 1..req[r].computed
        <4>1. i \in req[r].computed + 1 .. req[r].computed + n
          BY <1>1, <1>3, <3>3
        <4> QED
          BY <1>1, <3>3, <4>1
      <3> QED
        BY <3>1, <3>2, <3>3
    <2>2. batch.writes \subseteq batch'.writes
      BY <1>1
    <2> QED
      BY <1>2, <2>1, <2>2, PrefixFrame DEF MemInv
  <1>11. UnbornEmpty'
    BY <1>1 DEF MemInv, UnbornEmpty
  <1> QED
    BY <1>4, <1>5, <1>7, <1>8, <1>9, <1>10, <1>11 DEF MemInv

----------------------------------------------------------------------------
(* New transfers *)

\* The new entry and its id.
LEMMA NewTransfer ==
    ASSUME TableInv, nextJob < MaxJobs, NEW entry, xfer' = With(xfer, nextJob, entry)
    PROVE  /\ DOMAIN xfer' = DOMAIN xfer \cup {nextJob} /\ nextJob \notin DOMAIN xfer /\ nextJob \notin DOMAIN jobs
           /\ \A j \in DOMAIN xfer : xfer'[j] = xfer[j]
           /\ xfer'[nextJob] = entry
           /\ nextJob \in Job
  <1>1. nextJob \in Job /\ nextJob \in Nat
    BY OffloadingConnectorAssumption DEF TableInv, IdsFit, Job, OffloadingConnectorAssumption
  <1>2. nextJob \notin DOMAIN xfer /\ nextJob \notin DOMAIN jobs
    BY <1>1 DEF TableInv, IdsFit
  <1> QED
    BY <1>1, <1>2 DEF With

LEMMA StoreTransferMem ==
    ASSUME TableInv, MemInv, nextJob < MaxJobs, UNCHANGED <<req, steps, gpu>>,
           batch'.writes = batch.writes, batch'.sched = batch.sched,
           NEW entry, entry.store = TRUE, \A k \in entry.busy : k \in entry.unreported /\ entry.bad[k] = {},
           xfer' = With(xfer, nextJob, entry)
    PROVE  MemInv'
  <1>1. /\ DOMAIN xfer' = DOMAIN xfer \cup {nextJob} /\ nextJob \notin DOMAIN xfer
        /\ \A j \in DOMAIN xfer : xfer'[j] = xfer[j]
        /\ xfer'[nextJob] = entry
    BY NewTransfer
  <1>2. PICK new : new = nextJob
    OBVIOUS
  <1>c. DOMAIN xfer' = DOMAIN xfer \cup {new} /\ new \notin DOMAIN xfer /\ xfer'[new] = entry
    BY <1>1, <1>2
  <1>3. LoadsOwned'
    <2>1. \A s \in DOMAIN steps : \A m \in steps[s].report : m.job < nextJob /\ m.job \in Nat
      BY TableTypes DEF TableInv, IdsFit, StepRec, Report, Job
    <2>2. \A s \in DOMAIN steps : \A m \in steps[s].report : m.job # nextJob
      BY <2>1
    <2>3. BusySilent'
      BY <1>1, <1>c DEF MemInv, LoadsOwned, BusySilent
    <2>4. Loads' = Loads /\ \A j \in Loads : xfer'[j] = xfer[j]
      BY <1>1, <1>c DEF Loads
    <2>5. LastsEnd'
      BY <1>1, <2>2 DEF MemInv, LoadsOwned, LastsEnd
    <2>6. ReportsFill'
      BY <2>4 DEF MemInv, LoadsOwned, ReportsFill
    <2>7. LoadsFill' /\ LoadsAlone'
      BY <2>4 DEF MemInv, LoadsOwned, LoadsFill, LoadsAlone
    <2> QED
      BY <2>3, <2>5, <2>6, <2>7 DEF LoadsOwned
  <1>4. LoadData'
    <2> SUFFICES ASSUME NEW q \in Request, req[q].status = "loading", NEW i \in 1..req[q].computed
                 PROVE  gpu[req[q].blocks[i]] = KeyAt(q, i) \/ Owed(q, i)'
      BY DEF LoadData
    <2>1. \A j \in Loads : j \in Loads' /\ xfer'[j] = xfer[j]
      BY <1>1 DEF Loads
    <2>2. Owed(q, i) => Owed(q, i)'
      BY <2>1 DEF Owed
    <2> QED
      BY <2>2 DEF MemInv, LoadData
  <1>5. StepsOrdered' /\ BlocksApart' /\ PrefixIntact' /\ UnbornEmpty'
    BY DEF MemInv, StepsOrdered, BlocksApart, PrefixIntact, UnbornEmpty
  <1>6. WritesOwned'
    BY DEF MemInv, WritesOwned, Computes
  <1> QED
    BY <1>3, <1>4, <1>5, <1>6 DEF MemInv

LEMMA BuildStoreMem ==
    ASSUME TableInv, MemInv, NEW r \in Request, BuildStore(r)
    PROVE  MemInv'
  <1>1. /\ UNCHANGED <<req, steps, gpu>>
        /\ \/ UNCHANGED xfer /\ batch' = [batch EXCEPT !.built = @ \cup {r}]
           \/ /\ nextJob < MaxJobs /\ \E entry : /\ xfer' = With(xfer, nextJob, entry) /\ entry.store = TRUE
                                                 /\ \A k \in entry.busy : k \in entry.unreported /\ entry.bad[k] = {}
              /\ batch' = [batch EXCEPT !.built = @ \cup {r}, !.stores = @ \cup {nextJob}]
    <2>1. \A P : /\ TransferOf(r, TRUE, P).store = TRUE
                 /\ \A k \in TransferOf(r, TRUE, P).busy :
                       k \in TransferOf(r, TRUE, P).unreported /\ TransferOf(r, TRUE, P).bad[k] = {}
      BY Zenon DEF TransferOf
    <2> QED
      BY <2>1, ZenonT(60) DEF BuildStore
  <1>2. batch'.writes = batch.writes /\ batch'.sched = batch.sched
    BY <1>1, TableTypes DEF BatchRec
  <1>3. CASE UNCHANGED xfer
    BY <1>1, <1>2, <1>3, StatusKeeps
  <1>4. CASE nextJob < MaxJobs /\ \E entry : /\ xfer' = With(xfer, nextJob, entry) /\ entry.store = TRUE
                                             /\ \A k \in entry.busy : k \in entry.unreported /\ entry.bad[k] = {}
    BY <1>1, <1>2, <1>4, StoreTransferMem
  <1> QED
    BY <1>1, <1>3, <1>4

\* What a load job adds.
LoadAdded(r, h, new, id) ==
    /\ h > 0 /\ DOMAIN new = 1..h /\ req[r].status = "waiting" /\ batch.preempted = {}
    /\ \A i \in 1..h : new[i] \in Free /\ new[i] \in batch'.alloc
    /\ \A i, k \in 1..h : new[i] = new[k] => i = k
    /\ \A q \in Request : q # r => req'[q] = req[q]
    /\ req'[r].status = "loading" /\ req'[r].computed = h /\ req'[r].blocks = new
    /\ id = nextJob /\ nextJob' = id + 1 /\ id \notin DOMAIN xfer /\ id \notin DOMAIN jobs
    /\ DOMAIN xfer' = DOMAIN xfer \cup {id} /\ \A j \in DOMAIN xfer : xfer'[j] = xfer[j]
    /\ xfer'[id].req = r /\ xfer'[id].store = FALSE /\ xfer'[id].at = "queued"
    /\ xfer'[id].pairs = {<<new[i], KeyAt(r, i)>> : i \in 1..h}
    /\ xfer'[id].busy = Rank /\ xfer'[id].unreported = Rank /\ \A k \in Rank : xfer'[id].bad[k] = {}
    /\ DOMAIN jobs' = DOMAIN jobs \cup {id} /\ \A j \in DOMAIN jobs : jobs'[j] = jobs[j]
    /\ jobs'[id].req = r /\ jobs'[id].store = FALSE /\ jobs'[id].blocks = {}
    /\ batch'.loads = batch.loads \cup {id} /\ batch.alloc \subseteq batch'.alloc
    /\ batch'.sched = batch.sched /\ batch'.writes = batch.writes /\ batch'.stores = batch.stores
    /\ batch'.preempted = batch.preempted /\ batch'.phase = batch.phase
    /\ \A q \in Request : conn[q].jobs \subseteq conn'[q].jobs
    /\ UNCHANGED <<pendingOf, toFlush, steps, gpu>>

LEMMA AdmitLoadView ==
    ASSUME TableInv, NEW r \in Request, AdmitLoad(r)
    PROVE  \E h \in Nat, new \in Seq(Block), id \in Job : LoadAdded(r, h, new, id)
  <1>1. PICK h : h = Lookup(r)
    OBVIOUS
  <1>2. h \in Nat /\ h > 0
    BY <1>1, LookupRange DEF AdmitLoad
  <1>3. PICK new \in Allocations(h) :
          LET pairs == {<<new[i], KeyAt(r, i)>> : i \in 1..h} IN
          /\ req' = [req EXCEPT ![r] = [status |-> "loading", computed |-> h, blocks |-> new]]
          /\ batch' = [batch EXCEPT !.loads = @ \cup {nextJob}, !.alloc = @ \cup ToSet(new)]
          /\ jobs' = With(jobs, nextJob, JobOf(r, FALSE, KeysTo(r, h), {}))
          /\ xfer' = With(xfer, nextJob, TransferOf(r, FALSE, pairs))
    BY <1>1 DEF AdmitLoad
  <1>4. PICK P : P = {<<new[i], KeyAt(r, i)>> : i \in 1..h}
    OBVIOUS
  <1>5. PICK x : x = TransferOf(r, FALSE, P)
    OBVIOUS
  <1>6. x.req = r /\ x.store = FALSE /\ x.pairs = P /\ x.at = "queued" /\ x.busy = Rank /\ x.unreported = Rank
        /\ x.bad = [k \in Rank |-> {}]
    BY <1>5, Zenon DEF TransferOf
  <1>7. PICK d : d = JobOf(r, FALSE, KeysTo(r, h), {})
    OBVIOUS
  <1>8. d.req = r /\ d.store = FALSE /\ d.blocks = {}
    BY <1>7, Zenon DEF JobOf
  <1>9. xfer' = With(xfer, nextJob, x) /\ jobs' = With(jobs, nextJob, d)
    BY <1>3, <1>4, <1>5, <1>7, Zenon
  <1>10. PICK T : T = ToSet(new)
    OBVIOUS
  <1>11. /\ req' = [req EXCEPT ![r] = [status |-> "loading", computed |-> h, blocks |-> new]]
         /\ batch' = [batch EXCEPT !.loads = @ \cup {nextJob}, !.alloc = @ \cup T]
    BY <1>3, <1>10, Zenon
  <1>12. /\ nextJob < MaxJobs /\ req[r].status = "waiting" /\ batch.preempted = {} /\ nextJob' = nextJob + 1
         /\ conn' = [conn EXCEPT ![r].jobs = @ \cup {nextJob}, ![r].next = h]
         /\ UNCHANGED <<pendingOf, toFlush, steps, gpu>>
    BY <1>1, Zenon DEF AdmitLoad
  <1>13. PICK id : id = nextJob
    OBVIOUS
  <1>14. /\ new \in Seq(Block) /\ DOMAIN new = 1..h /\ \A i \in 1..h : new[i] \in Free /\ new[i] \in T
    BY <1>2, <1>10, AllocationsFit DEF ToSet
  <1>15. \A i, k \in 1..h : new[i] = new[k] => i = k
    BY <1>14 DEF Allocations, IsInjective
  <1>16. /\ id \in Job /\ id \notin DOMAIN xfer /\ id \notin DOMAIN jobs
         /\ DOMAIN xfer' = DOMAIN xfer \cup {id} /\ xfer'[id] = x /\ \A j \in DOMAIN xfer : xfer'[j] = xfer[j]
    BY <1>9, <1>12, <1>13, NewTransfer
  <1>17. DOMAIN jobs' = DOMAIN jobs \cup {id} /\ jobs'[id] = d /\ \A j \in DOMAIN jobs : jobs'[j] = jobs[j]
    BY <1>9, <1>13, <1>16 DEF With
  <1>18. /\ batch'.loads = batch.loads \cup {id} /\ batch'.alloc = batch.alloc \cup T
         /\ batch'.sched = batch.sched /\ batch'.writes = batch.writes /\ batch'.stores = batch.stores
         /\ batch'.preempted = batch.preempted /\ batch'.phase = batch.phase
    BY <1>11, <1>13, TableTypes DEF BatchRec
  <1>19. /\ \A q \in Request : q # r => req'[q] = req[q]
         /\ req'[r].status = "loading" /\ req'[r].computed = h /\ req'[r].blocks = new
    BY <1>11, TableTypes
  <1>20. \A q \in Request : conn[q].jobs \subseteq conn'[q].jobs
    BY <1>12, TableTypes DEF ConnRec
  <1>21. \A i \in 1..h : new[i] \in batch'.alloc
    BY <1>14, <1>18
  <1>22. /\ xfer'[id].req = r /\ xfer'[id].store = FALSE /\ xfer'[id].at = "queued"
         /\ xfer'[id].pairs = {<<new[i], KeyAt(r, i)>> : i \in 1..h}
         /\ xfer'[id].busy = Rank /\ xfer'[id].unreported = Rank /\ \A k \in Rank : xfer'[id].bad[k] = {}
         /\ jobs'[id].req = r /\ jobs'[id].store = FALSE /\ jobs'[id].blocks = {}
    BY <1>4, <1>6, <1>8, <1>16, <1>17
  <1>23. nextJob' = id + 1
    BY <1>12, <1>13
  <1>24. LoadAdded(r, h, new, id)
    <2>1. UNCHANGED <<pendingOf, toFlush, steps, gpu>> /\ h > 0 /\ req[r].status = "waiting" /\ batch.preempted = {}
      BY <1>2, <1>12
    <2>2. batch.alloc \subseteq batch'.alloc
      BY <1>18
    <2> QED
      BY <1>13, <1>14, <1>15, <1>16, <1>17, <1>18, <1>19, <1>20, <1>21, <1>22, <1>23, <2>1, <2>2 DEF LoadAdded
  <1> QED
    BY <1>2, <1>14, <1>16, <1>24

LEMMA AdmitLoadMem ==
    ASSUME TableInv, MemInv, NEW r \in Request, AdmitLoad(r)
    PROVE  MemInv'
  <1>0. PICK h \in Nat, new \in Seq(Block), id \in Job : LoadAdded(r, h, new, id)
    BY AdmitLoadView
  <1>1. /\ h > 0 /\ DOMAIN new = 1..h /\ req[r].status = "waiting" /\ batch.preempted = {}
        /\ \A i \in 1..h : new[i] \in Free /\ new[i] \in batch'.alloc
        /\ \A i, k \in 1..h : new[i] = new[k] => i = k
        /\ \A q \in Request : q # r => req'[q] = req[q]
        /\ req'[r].status = "loading" /\ req'[r].computed = h /\ req'[r].blocks = new
        /\ id = nextJob /\ nextJob' = id + 1 /\ id \notin DOMAIN xfer /\ id \notin DOMAIN jobs
        /\ DOMAIN xfer' = DOMAIN xfer \cup {id} /\ \A j \in DOMAIN xfer : xfer'[j] = xfer[j]
        /\ xfer'[id].req = r /\ xfer'[id].store = FALSE /\ xfer'[id].at = "queued"
        /\ xfer'[id].pairs = {<<new[i], KeyAt(r, i)>> : i \in 1..h}
        /\ xfer'[id].busy = Rank /\ xfer'[id].unreported = Rank /\ \A k \in Rank : xfer'[id].bad[k] = {}
        /\ batch'.sched = batch.sched /\ batch'.writes = batch.writes
        /\ UNCHANGED <<pendingOf, toFlush, steps, gpu>>
    BY <1>0, Zenon DEF LoadAdded
  <1>2. FreesOnly
    BY <1>1, SameSteps, TableTypes
  <1>3. StepsOrdered'
    BY <1>2, OrderFrame DEF MemInv
  <1>4. BlocksApart'
    <2>1. \A q \in Request : q # r => req'[q].blocks = req[q].blocks
      BY <1>1
    <2> QED
      BY <1>1, <2>1, ApartGrows DEF MemInv
  <1>5. \A q \in Request : \A p : Computes(q, p) => Computes(q, p)'
    BY <1>1 DEF Computes
  <1>6. WritesOwned'
    <2>1. \A s \in DOMAIN steps : steps[s].reqs \subseteq Request
      BY TableTypes DEF StepRec
    <2>2. batch.sched \subseteq Request
      BY TableTypes DEF BatchRec
    <2>3. \A p \in batch'.writes : \E q \in batch'.sched : Computes(q, p)'
      BY <1>1, <1>5, <2>2 DEF MemInv, WritesOwned
    <2> HIDE DEF Computes
    <2> QED
      BY <1>1, <1>2, <1>5, <2>1, <2>3, WritesFrame DEF MemInv
  <1>7. Loads' = Loads \cup {id} /\ id \notin Loads /\ \A j \in Loads : xfer'[j] = xfer[j]
    BY <1>1 DEF Loads
  <1>8. \A j \in Loads : xfer[j].req \in Request /\ xfer[j].req # r
    <2>1. \A j \in DOMAIN xfer : xfer[j].req \in Request
      BY TableTypes DEF XferRec
    <2> QED
      BY <1>1, <2>1 DEF MemInv, LoadsOwned, LoadsFill, Loads, Filling
  <1>9. \A s \in DOMAIN steps : \A m \in steps[s].report : m.load => m.req \in Request /\ m.req # r
    <2>1. \A s \in DOMAIN steps : \A m \in steps[s].report : m.req \in Request
      BY TableTypes DEF StepRec, Report
    <2> QED
      BY <1>1, <2>1 DEF MemInv, LoadsOwned, ReportsFill, Filling
  <1>10. LoadsOwned'
    <2>1. BusySilent'
      BY <1>1 DEF MemInv, LoadsOwned, BusySilent
    <2>2. LoadsFill'
      <3>1. ASSUME NEW j \in Loads PROVE
              /\ req'[xfer'[j].req].status \in Filling
              /\ \A p \in xfer'[j].pairs : \E i \in DOMAIN req'[xfer'[j].req].blocks :
                    p = <<req'[xfer'[j].req].blocks[i], KeyAt(xfer'[j].req, i)>>
        BY <1>1, <1>7, <1>8 DEF MemInv, LoadsOwned, LoadsFill
      <3>2. /\ req'[xfer'[id].req].status \in Filling
            /\ \A p \in xfer'[id].pairs : \E i \in DOMAIN req'[xfer'[id].req].blocks :
                    p = <<req'[xfer'[id].req].blocks[i], KeyAt(xfer'[id].req, i)>>
        <4>1. xfer'[id].req = r /\ req'[r].status = "loading"
          BY <1>1
        <4>2. \A p \in xfer'[id].pairs : \E i \in 1..h : p = <<new[i], KeyAt(r, i)>>
          BY <1>1
        <4>3. DOMAIN req'[r].blocks = 1..h /\ req'[r].blocks = new
          BY <1>1
        <4>4. \A p \in xfer'[id].pairs : \E i \in DOMAIN req'[r].blocks : p = <<req'[r].blocks[i], KeyAt(r, i)>>
          BY <4>2, <4>3
        <4> QED
          BY <4>1, <4>4 DEF Filling
      <3> QED
        BY <1>7, <3>1, <3>2 DEF LoadsFill
    <2>3. LoadsAlone'
      BY <1>1, <1>7, <1>8 DEF MemInv, LoadsOwned, LoadsAlone
    <2>4. ReportsFill'
      <3>1. \A s \in DOMAIN steps : \A m \in steps[s].report : m.load =>
              /\ req'[m.req].status \in Filling
              /\ \A j \in Loads' : xfer'[j].req = m.req => j = m.job
        BY <1>1, <1>7, <1>8, <1>9 DEF MemInv, LoadsOwned, ReportsFill
      <3> QED
        BY <1>1, <3>1 DEF MemInv, LoadsOwned, ReportsFill
    <2>5. LastsEnd'
      <3>1. \A s \in DOMAIN steps : \A m \in steps[s].report : m.job < nextJob /\ m.job \in Nat
        BY TableTypes DEF TableInv, IdsFit, StepRec, Report, Job
      <3>2. \A s \in DOMAIN steps : \A m \in steps[s].report : m.job # id
        BY <1>1, <3>1
      <3> QED
        BY <1>1, <3>2 DEF MemInv, LoadsOwned, LastsEnd
    <2> QED
      BY <2>1, <2>2, <2>3, <2>4, <2>5 DEF LoadsOwned
  <1>11. LoadData'
    <2> SUFFICES ASSUME NEW q \in Request, req'[q].status = "loading", NEW i \in 1..req'[q].computed
                 PROVE  gpu[req'[q].blocks[i]] = KeyAt(q, i) \/ Owed(q, i)'
      BY <1>1 DEF LoadData
    <2>1. CASE q = r
      <3>1. <<req'[r].blocks[i], KeyAt(r, i)>> \in xfer'[id].pairs
        BY <1>1, <2>1
      <3>2. Here \in xfer'[id].busy
        BY <1>1, OffloadingConnectorAssumption DEF OffloadingConnectorAssumption
      <3>3. id \in Loads' /\ xfer'[id].req = r
        BY <1>1, <1>7
      <3> QED
        BY <2>1, <3>1, <3>2, <3>3 DEF Owed
    <2>2. CASE q # r
      <3>1. req'[q] = req[q]
        BY <1>1, <2>2
      <3>2. /\ \A j \in Loads : j \in Loads' /\ xfer'[j] = xfer[j]
            /\ UNCHANGED steps
        BY <1>1, <1>7
      <3>3. Owed(q, i) => Owed(q, i)'
        BY <3>1, <3>2 DEF Owed
      <3> QED
        BY <1>1, <3>1, <3>3 DEF MemInv, LoadData
    <2> QED
      BY <2>1, <2>2
  <1>12. PrefixIntact'
    <2>1. \A q \in Request : req'[q].status \in Valid => \A i \in 1..req'[q].computed :
             req[q].status \in Valid /\ i \in 1..req[q].computed /\ req'[q].blocks[i] = req[q].blocks[i]
      BY <1>1 DEF Valid
    <2> QED
      BY <1>1, <1>2, <2>1, PrefixFrame DEF MemInv
  <1>13. UnbornEmpty'
    BY <1>1 DEF MemInv, UnbornEmpty
  <1> QED
    BY <1>3, <1>4, <1>6, <1>10, <1>11, <1>12, <1>13 DEF MemInv

\* Issued: step n, the last, is the batch's.
StepAdded(n) ==
    /\ n = Len(steps) + 1 /\ n \notin DOMAIN steps /\ DOMAIN steps' = DOMAIN steps \cup {n}
    /\ \A s \in DOMAIN steps : s < n /\ steps'[s] = steps[s]
    /\ steps'[n].flush = toFlush /\ steps'[n].loads = batch.loads /\ steps'[n].stores = batch.stores
    /\ steps'[n].writes = batch.writes /\ steps'[n].reqs = batch.sched /\ steps'[n].frees = {}
    /\ steps'[n].state = "queued" /\ steps'[n].report = {}
    /\ batch'.writes = {} /\ batch'.sched = {} /\ batch'.loads = {} /\ batch'.stores = {}
    /\ batch'.preempted = {} /\ batch'.phase = "plan" /\ batch.phase = "stores"
    /\ toFlush' = {} /\ UNCHANGED <<req, conn, jobs, pendingOf, nextJob, xfer, gpu>>

LEMMA IssueStepView ==
    ASSUME TableInv, IssueStep
    PROVE  \E n \in Nat : StepAdded(n)
  <1>1. PICK new : new = [flush |-> toFlush, loads |-> batch.loads, stores |-> batch.stores,
                          writes |-> batch.writes, reqs |-> batch.sched, frees |-> {},
                          state |-> "queued", report |-> {}]
    OBVIOUS
  <1>2. /\ batch.phase = "stores" /\ steps' = Append(steps, new) /\ batch' = NoBatch /\ toFlush' = {}
        /\ UNCHANGED <<req, conn, jobs, pendingOf, nextJob, xfer, gpu>>
    BY <1>1 DEF IssueStep
  <1>3. steps \in Seq(StepRec) /\ Len(steps) \in Nat /\ DOMAIN steps = 1..Len(steps)
    BY TableTypes
  <1>4. PICK n : n = Len(steps) + 1
    OBVIOUS
  <1>5. DOMAIN steps' = 1..n /\ steps'[n] = new /\ \A s \in DOMAIN steps : steps'[s] = steps[s]
    BY <1>2, <1>3, <1>4
  <1>6. n \in Nat /\ n \notin DOMAIN steps /\ DOMAIN steps' = DOMAIN steps \cup {n} /\ \A s \in DOMAIN steps : s < n
    BY <1>3, <1>4, <1>5
  <1>7. /\ new.flush = toFlush /\ new.loads = batch.loads /\ new.stores = batch.stores
        /\ new.writes = batch.writes /\ new.reqs = batch.sched /\ new.frees = {}
        /\ new.state = "queued" /\ new.report = {}
    BY <1>1
  <1>8. /\ batch'.writes = {} /\ batch'.sched = {} /\ batch'.loads = {} /\ batch'.stores = {}
        /\ batch'.preempted = {} /\ batch'.phase = "plan"
    BY <1>2 DEF NoBatch
  <1>9. StepAdded(n)
    BY <1>2, <1>4, <1>5, <1>6, <1>7, <1>8 DEF StepAdded
  <1> QED
    BY <1>6, <1>9

LEMMA IssueStepMem ==
    ASSUME TableInv, MemInv, IssueStep
    PROVE  MemInv'
  <1>0. PICK n \in Nat : StepAdded(n)
    BY IssueStepView
  <1>1. /\ n \notin DOMAIN steps /\ DOMAIN steps' = DOMAIN steps \cup {n}
        /\ \A s \in DOMAIN steps : s < n /\ steps'[s] = steps[s]
        /\ steps'[n].writes = batch.writes /\ steps'[n].reqs = batch.sched /\ steps'[n].frees = {}
        /\ steps'[n].state = "queued" /\ steps'[n].report = {} /\ batch'.writes = {}
        /\ UNCHANGED <<req, xfer, gpu>>
    BY <1>0 DEF StepAdded
  <1>2. \A s \in DOMAIN steps : s \in Nat
    BY TableTypes
  <1>3. StepsOrdered'
    BY <1>1, <1>2 DEF MemInv, StepsOrdered
  <1>4. BlocksApart'
    BY <1>1 DEF MemInv, BlocksApart
  <1>5. \A r, p : Computes(r, p)' <=> Computes(r, p)
    BY <1>1 DEF Computes
  <1>6. WritesOwned'
    <2>1. ASSUME NEW s \in DOMAIN steps', NEW p \in steps'[s].writes
          PROVE  (\E r \in steps'[s].reqs : Computes(r, p)) \/ \E t \in DOMAIN steps' : s <= t /\ p[1] \in steps'[t].frees
      <3>1. CASE s = n
        BY <1>1, <2>1, <3>1 DEF MemInv, WritesOwned
      <3>2. CASE s \in DOMAIN steps
        BY <1>1, <2>1, <3>2 DEF MemInv, WritesOwned
      <3> QED
        BY <1>1, <3>1, <3>2
    <2>2. ASSUME NEW p \in batch.writes, NEW q \in batch.writes, p[1] = q[1] PROVE p = q
      <3>1. PICK r \in batch.sched : Computes(r, p)
        BY DEF MemInv, WritesOwned
      <3>2. PICK z \in batch.sched : Computes(z, q)
        BY DEF MemInv, WritesOwned
      <3>3. r \in Request /\ z \in Request
        BY TableTypes DEF BatchRec
      <3>4. PICK i \in 1..req[r].computed : p = <<req[r].blocks[i], KeyAt(r, i)>>
        BY <3>1 DEF Computes
      <3>5. PICK k \in 1..req[z].computed : q = <<req[z].blocks[k], KeyAt(z, k)>>
        BY <3>2 DEF Computes
      <3>6. i \in DOMAIN req[r].blocks /\ k \in DOMAIN req[z].blocks
        BY <3>3, <3>4, <3>5, TableTypes DEF TableInv, ReqsFit, ReqRec
      <3>7. r = z /\ i = k
        BY <2>2, <3>3, <3>4, <3>5, <3>6 DEF MemInv, BlocksApart
      <3> QED
        BY <3>4, <3>5, <3>7
    <2>3. \A s \in DOMAIN steps' : \A p, q \in steps'[s].writes : p[1] = q[1] => p = q
      BY <1>1, <2>2 DEF MemInv, WritesOwned
    <2> HIDE DEF Computes
    <2> QED
      BY <1>1, <1>5, <2>1, <2>3 DEF WritesOwned
  <1>7. Loads' = Loads
    BY <1>1 DEF Loads
  <1>8. LoadsOwned'
    <2>1. BusySilent' /\ LoadsFill' /\ LoadsAlone'
      BY <1>1, <1>7 DEF MemInv, LoadsOwned, BusySilent, LoadsFill, LoadsAlone
    <2>2. ReportsFill'
      BY <1>1, <1>7 DEF MemInv, LoadsOwned, ReportsFill
    <2>3. LastsEnd'
      BY <1>1 DEF MemInv, LoadsOwned, LastsEnd
    <2> QED
      BY <2>1, <2>2, <2>3 DEF LoadsOwned
  <1>9. LoadData'
    <2>1. \A r, i : Owed(r, i) => Owed(r, i)'
      BY <1>1, <1>7 DEF Owed
    <2> HIDE DEF Owed
    <2> QED
      BY <1>1, <2>1 DEF MemInv, LoadData
  <1>10. PrefixIntact'
    <2>1. ASSUME NEW r \in Request, NEW i, Intact(r, i) PROVE Intact(r, i)'
      <3>1. \A s \in DOMAIN steps : s \in DOMAIN steps' /\ steps'[s] = steps[s]
        BY <1>1
      <3>2. n \in DOMAIN steps' /\ steps'[n].state # "ran" /\ steps'[n].writes = batch.writes
        BY <1>1
      <3> QED
        BY <1>1, <2>1, <3>1, <3>2 DEF Intact
    <2>2. \A r \in Request : req[r].status \in Valid => \A i \in 1..req[r].computed : Intact(r, i)
      BY DEF MemInv, PrefixIntact, Intact, Valid
    <2>3. \A r \in Request : req'[r].status \in Valid => \A i \in 1..req'[r].computed : Intact(r, i)'
      BY <1>1, <2>1, <2>2
    <2> QED
      BY <2>3 DEF PrefixIntact, Intact, Valid
  <1>11. UnbornEmpty'
    BY <1>1 DEF MemInv, UnbornEmpty
  <1> QED
    BY <1>3, <1>4, <1>6, <1>8, <1>9, <1>10, <1>11 DEF MemInv

----------------------------------------------------------------------------
(* Writes to the blocks *)

LEMMA WrittenAt ==
    ASSUME NEW P \in SUBSET (Block \X Key), \A p, q \in P : p[1] = q[1] => p = q
    PROVE  /\ \A p \in P : Written(P)[p[1]] = p[2]
           /\ \A b \in Block : (\A p \in P : p[1] # b) => Written(P)[b] = gpu[b]
  <1>1. ASSUME NEW p \in P PROVE Written(P)[p[1]] = p[2]
    <2>1. p[1] \in Block /\ p[2] \in Key /\ p = <<p[1], p[2]>>
      OBVIOUS
    <2>2. \A k \in Key : <<p[1], k>> \in P <=> k = p[2]
      BY <2>1
    <2>3. (CHOOSE k \in Key : <<p[1], k>> \in P) = p[2]
      BY <2>1, <2>2
    <2> QED
      BY <2>1, <2>2, <2>3 DEF Written
  <1>2. ASSUME NEW b \in Block, \A p \in P : p[1] # b PROVE Written(P)[b] = gpu[b]
    <2>1. \A k \in Key : <<b, k>> \notin P
      BY <1>2
    <2> QED
      BY <2>1 DEF Written
  <1> QED
    BY <1>1, <1>2

\* What a step writes into a block that a request holds is that request's.
LEMMA WriteHome ==
    ASSUME TableInv, MemInv, NEW s \in DOMAIN steps, NEW p \in steps[s].writes,
           NEW r \in Request, NEW i \in DOMAIN req[r].blocks, p[1] = req[r].blocks[i]
    PROVE  p = <<req[r].blocks[i], KeyAt(r, i)>> /\ req[r].status = "running"
  <1>1. CASE \E q \in steps[s].reqs : Computes(q, p)
    <2>1. PICK q \in steps[s].reqs : Computes(q, p)
      BY <1>1
    <2>2. q \in Request
      BY TableTypes DEF StepRec
    <2>3. PICK k \in 1..req[q].computed : p = <<req[q].blocks[k], KeyAt(q, k)>>
      BY <2>1 DEF Computes
    <2>4. k \in DOMAIN req[q].blocks
      BY <2>2, <2>3, TableTypes DEF TableInv, ReqsFit, ReqRec
    <2>5. q = r /\ k = i
      BY <2>2, <2>3, <2>4 DEF MemInv, BlocksApart
    <2> QED
      BY <2>1, <2>3, <2>5 DEF Computes
  <1>2. CASE \E t \in DOMAIN steps : s <= t /\ p[1] \in steps[t].frees
    BY <1>2 DEF MemInv, BlocksApart
  <1> QED
    BY <1>1, <1>2 DEF MemInv, WritesOwned

\* So is what a load brings.
LEMMA LoadHome ==
    ASSUME TableInv, MemInv, NEW j \in Loads, NEW p \in xfer[j].pairs,
           NEW r \in Request, NEW i \in DOMAIN req[r].blocks, p[1] = req[r].blocks[i]
    PROVE  p = <<req[r].blocks[i], KeyAt(r, i)>> /\ req[r].status \in Filling /\ xfer[j].req = r
  <1>1. xfer[j].req \in Request
    BY TableTypes DEF XferRec, Loads
  <1>2. PICK q \in Request : q = xfer[j].req
    BY <1>1
  <1>3. req[q].status \in Filling /\ \E k \in DOMAIN req[q].blocks : p = <<req[q].blocks[k], KeyAt(q, k)>>
    BY <1>2 DEF MemInv, LoadsOwned, LoadsFill
  <1>4. PICK k \in DOMAIN req[q].blocks : p = <<req[q].blocks[k], KeyAt(q, k)>>
    BY <1>3
  <1>5. q = r /\ k = i
    BY <1>4 DEF MemInv, BlocksApart
  <1> QED
    BY <1>2, <1>3, <1>4, <1>5

LEMMA LoadsSingle ==
    ASSUME TableInv, MemInv, NEW i \in Loads, NEW j \in Loads,
           NEW p \in xfer[i].pairs, NEW q \in xfer[j].pairs, p[1] = q[1]
    PROVE  p = q
  <1>1. PICK r \in Request : r = xfer[j].req
    BY TableTypes DEF XferRec, Loads
  <1>2. PICK k \in DOMAIN req[r].blocks : q = <<req[r].blocks[k], KeyAt(r, k)>>
    BY <1>1 DEF MemInv, LoadsOwned, LoadsFill
  <1>3. p[1] = req[r].blocks[k]
    BY <1>2
  <1> QED
    BY <1>2, <1>3, LoadHome

\* The blocks requests hold after loads have written theirs.
LEMMA LoadWrites ==
    ASSUME TableInv, MemInv, NEW P, \A p \in P : \E j \in Loads : p \in xfer[j].pairs, gpu' = Written(P),
           NEW r \in Request, NEW i \in DOMAIN req[r].blocks
    PROVE  /\ req[r].status \notin Filling => gpu'[req[r].blocks[i]] = gpu[req[r].blocks[i]]
           /\ gpu[req[r].blocks[i]] = KeyAt(r, i) => gpu'[req[r].blocks[i]] = KeyAt(r, i)
           /\ <<req[r].blocks[i], KeyAt(r, i)>> \in P => gpu'[req[r].blocks[i]] = KeyAt(r, i)
  <1>1. P \in SUBSET (Block \X Key)
    BY TableTypes DEF Loads, XferRec
  <1>2. \A p, q \in P : p[1] = q[1] => p = q
    BY LoadsSingle
  <1>3. /\ \A p \in P : gpu'[p[1]] = p[2]
        /\ \A b \in Block : (\A p \in P : p[1] # b) => gpu'[b] = gpu[b]
    BY <1>1, <1>2, WrittenAt
  <1>4. PICK b \in Block : b = req[r].blocks[i]
    BY TableTypes DEF ReqRec
  <1>5. \A p \in P : p[1] = b => p = <<b, KeyAt(r, i)>> /\ req[r].status \in Filling
    BY <1>4, LoadHome
  <1> QED
    BY <1>3, <1>4, <1>5

LEMMA ForwardDoneView ==
    ASSUME TableInv, NEW s \in DOMAIN steps, ForwardDone(s)
    PROVE  /\ DOMAIN steps' = DOMAIN steps /\ steps[s].state = "launched" /\ steps'[s].state = "ran"
           /\ \A t \in DOMAIN steps : t < s => steps[t].state = "ran"
           /\ \A t \in DOMAIN steps : t # s => steps'[t].state = steps[t].state
           /\ \A t \in DOMAIN steps :
                 /\ steps'[t].flush = steps[t].flush /\ steps'[t].loads = steps[t].loads
                 /\ steps'[t].stores = steps[t].stores /\ steps'[t].writes = steps[t].writes
                 /\ steps'[t].reqs = steps[t].reqs /\ steps'[t].frees = steps[t].frees
                 /\ steps'[t].report = steps[t].report
           /\ gpu' = Written(steps[s].writes)
           /\ UNCHANGED <<req, conn, jobs, pendingOf, toFlush, nextJob, batch, xfer>>
  <1>1. /\ steps[s].state = "launched" /\ steps' = [steps EXCEPT ![s].state = "ran"] /\ gpu' = Written(steps[s].writes)
        /\ UNCHANGED <<req, conn, jobs, pendingOf, toFlush, nextJob, batch, xfer>>
    BY DEF ForwardDone
  <1>2. \A t \in 1..s - 1 : steps[t].state = "ran"
    BY DEF ForwardDone
  <1>3. \A t \in DOMAIN steps : t < s => steps[t].state = "ran"
    <2>1. \A t \in DOMAIN steps : t < s => t \in 1..s - 1
      BY TableTypes
    <2> QED
      BY <1>2, <2>1
  <1>4. DOMAIN steps' = DOMAIN steps /\ \A t \in DOMAIN steps : t # s => steps'[t] = steps[t]
    BY <1>1
  <1>5. steps'[s] = [steps[s] EXCEPT !.state = "ran"] /\ steps[s] \in StepRec
    BY <1>1, TableTypes
  <1>6. /\ steps'[s].state = "ran" /\ steps'[s].flush = steps[s].flush /\ steps'[s].loads = steps[s].loads
        /\ steps'[s].stores = steps[s].stores /\ steps'[s].writes = steps[s].writes
        /\ steps'[s].reqs = steps[s].reqs /\ steps'[s].frees = steps[s].frees
        /\ steps'[s].report = steps[s].report
    BY <1>5 DEF StepRec
  <1> QED
    BY <1>1, <1>3, <1>4, <1>6

LEMMA ForwardDoneMem ==
    ASSUME TableInv, MemInv, NEW s \in DOMAIN steps, ForwardDone(s)
    PROVE  MemInv'
  <1>1. /\ DOMAIN steps' = DOMAIN steps /\ steps[s].state = "launched" /\ steps'[s].state = "ran"
        /\ \A t \in DOMAIN steps : t < s => steps[t].state = "ran"
        /\ \A t \in DOMAIN steps : t # s => steps'[t].state = steps[t].state
        /\ \A t \in DOMAIN steps :
              /\ steps'[t].writes = steps[t].writes /\ steps'[t].reqs = steps[t].reqs
              /\ steps'[t].frees = steps[t].frees /\ steps'[t].report = steps[t].report
        /\ gpu' = Written(steps[s].writes) /\ UNCHANGED <<req, batch, xfer>>
    BY ForwardDoneView
  <1>2. \A t \in DOMAIN steps : t \in Nat
    BY TableTypes
  <1>3. StepsOrdered'
    <2>1. ASSUME NEW t \in DOMAIN steps, NEW u \in DOMAIN steps, t < u
          PROVE  /\ steps'[t].state = "queued" => steps'[u].state = "queued"
                 /\ steps'[u].state = "ran" => steps'[t].state = "ran"
      <3>1. /\ steps[t].state = "queued" => steps[u].state = "queued"
            /\ steps[u].state = "ran" => steps[t].state = "ran"
        BY <2>1 DEF MemInv, StepsOrdered
      <3> QED
        BY <1>1, <1>2, <2>1, <3>1
    <2> QED
      BY <1>1, <2>1 DEF StepsOrdered
  <1>4. BlocksApart'
    BY <1>1 DEF MemInv, BlocksApart
  <1>5. WritesOwned'
    <2>1. \A r, p : Computes(r, p)' <=> Computes(r, p)
      BY <1>1 DEF Computes
    <2> HIDE DEF Computes
    <2> QED
      BY <1>1, <2>1 DEF MemInv, WritesOwned
  <1>6. Loads' = Loads
    BY <1>1 DEF Loads
  <1>7. LoadsOwned'
    <2>1. BusySilent' /\ LoadsFill' /\ LoadsAlone'
      BY <1>1, <1>6 DEF MemInv, LoadsOwned, BusySilent, LoadsFill, LoadsAlone
    <2>2. ReportsFill'
      BY <1>1, <1>6 DEF MemInv, LoadsOwned, ReportsFill
    <2>3. LastsEnd'
      BY <1>1 DEF MemInv, LoadsOwned, LastsEnd
    <2> QED
      BY <2>1, <2>2, <2>3 DEF LoadsOwned
  <1>8. ASSUME NEW r \in Request, NEW i \in DOMAIN req[r].blocks
        PROVE  /\ gpu[req[r].blocks[i]] = KeyAt(r, i) => gpu'[req[r].blocks[i]] = KeyAt(r, i)
               /\ <<req[r].blocks[i], KeyAt(r, i)>> \in steps[s].writes => gpu'[req[r].blocks[i]] = KeyAt(r, i)
    <2>1. steps[s].writes \in SUBSET (Block \X Key)
      BY TableTypes DEF StepRec
    <2>2. \A p, q \in steps[s].writes : p[1] = q[1] => p = q
      BY DEF MemInv, WritesOwned
    <2>3. /\ \A p \in steps[s].writes : gpu'[p[1]] = p[2]
          /\ \A b \in Block : (\A p \in steps[s].writes : p[1] # b) => gpu'[b] = gpu[b]
      BY <1>1, <2>1, <2>2, WrittenAt
    <2>4. PICK b \in Block : b = req[r].blocks[i]
      BY TableTypes DEF ReqRec
    <2>5. \A p \in steps[s].writes : p[1] = b => p = <<b, KeyAt(r, i)>>
      BY <2>4, WriteHome
    <2> QED
      BY <2>3, <2>4, <2>5
  <1>9. \A r \in Request : 1..req[r].computed \subseteq DOMAIN req[r].blocks
    BY TableTypes DEF TableInv, ReqsFit, ReqRec
  <1>10. LoadData'
    <2>1. \A r, i : Owed(r, i)' <=> Owed(r, i)
      BY <1>1, <1>6 DEF Owed
    <2> HIDE DEF Owed
    <2>2. ASSUME NEW r \in Request, req[r].status = "loading", NEW i \in 1..req[r].computed
          PROVE  gpu'[req[r].blocks[i]] = KeyAt(r, i) \/ Owed(r, i)
      <3>1. gpu[req[r].blocks[i]] = KeyAt(r, i) \/ Owed(r, i)
        BY <2>2 DEF MemInv, LoadData
      <3> QED
        BY <1>8, <1>9, <3>1
    <2> QED
      BY <1>1, <2>1, <2>2 DEF LoadData
  <1>11. PrefixIntact'
    <2>1. ASSUME NEW r \in Request, req[r].status \in Valid, NEW i \in 1..req[r].computed
          PROVE  Intact(r, i)'
      <3>1. i \in DOMAIN req[r].blocks
        BY <1>9
      <3>2. Intact(r, i)
        BY <2>1 DEF MemInv, PrefixIntact, Intact, Valid
      <3>3. PICK p : p = <<req[r].blocks[i], KeyAt(r, i)>>
        OBVIOUS
      <3>4. CASE gpu'[req[r].blocks[i]] = KeyAt(r, i)
        BY <1>1, <3>4 DEF Intact
      <3>5. CASE \E t \in DOMAIN steps : t # s /\ steps[t].state # "ran" /\ p \in steps[t].writes
        BY <1>1, <3>3, <3>5 DEF Intact
      <3>6. CASE p \in batch.writes
        BY <1>1, <3>3, <3>6 DEF Intact
      <3> QED
        BY <1>8, <3>1, <3>2, <3>3, <3>4, <3>5, <3>6 DEF Intact
    <2> QED
      BY <1>1, <2>1 DEF PrefixIntact, Intact, Valid
  <1>12. UnbornEmpty'
    BY <1>1 DEF MemInv, UnbornEmpty
  <1> QED
    BY <1>3, <1>4, <1>5, <1>7, <1>10, <1>11, <1>12 DEF MemInv

----------------------------------------------------------------------------
(* The end of a transfer on one rank *)

LEMMA TransferDoneView ==
    ASSUME TableInv, NEW j \in DOMAIN xfer, NEW k \in Rank, NEW bad \in Outcomes(j), TransferDone(j, k, bad)
    PROVE  /\ DOMAIN xfer' = DOMAIN xfer /\ k \in xfer[j].busy /\ (j \in Loads => xfer[j].at = "started")
           /\ \A i \in DOMAIN xfer : i # j => xfer'[i] = xfer[i]
           /\ \A i \in DOMAIN xfer :
                 /\ xfer'[i].req = xfer[i].req /\ xfer'[i].store = xfer[i].store /\ xfer'[i].pairs = xfer[i].pairs
                 /\ xfer'[i].at = xfer[i].at /\ xfer'[i].unreported = xfer[i].unreported
           /\ xfer'[j].busy = xfer[j].busy \ {k}
           /\ xfer'[j].bad[k] = bad /\ \A l \in Rank : l # k => xfer'[j].bad[l] = xfer[j].bad[l]
           /\ \/ UNCHANGED gpu /\ (j \in Loads => k # Here)
              \/ j \in Loads /\ k = Here /\ gpu' = Written({p \in xfer[j].pairs : p[1] \notin bad})
           /\ UNCHANGED <<req, conn, jobs, pendingOf, toFlush, nextJob, batch, steps>>
  <1>1. /\ k \in xfer[j].busy /\ (j \in Loads => xfer[j].at = "started")
        /\ xfer' = [xfer EXCEPT ![j].busy = @ \ {k}, ![j].bad[k] = bad]
        /\ UNCHANGED <<req, conn, jobs, pendingOf, toFlush, nextJob, batch, steps>>
    BY DEF TransferDone, Flushing, Loads
  <1>2. xfer[j] \in XferRec /\ xfer \in [DOMAIN xfer -> XferRec]
    BY TableTypes
  <1>3. /\ DOMAIN xfer' = DOMAIN xfer /\ \A i \in DOMAIN xfer : i # j => xfer'[i] = xfer[i]
        /\ xfer'[j] = [xfer[j] EXCEPT !.busy = @ \ {k}, !.bad[k] = bad]
    BY <1>1, <1>2, Zenon
  <1>4. /\ xfer'[j].req = xfer[j].req /\ xfer'[j].store = xfer[j].store /\ xfer'[j].pairs = xfer[j].pairs
        /\ xfer'[j].at = xfer[j].at /\ xfer'[j].unreported = xfer[j].unreported
        /\ xfer'[j].busy = xfer[j].busy \ {k} /\ xfer'[j].bad = [xfer[j].bad EXCEPT ![k] = bad]
    BY <1>2, <1>3, ZenonT(60) DEF XferRec
  <1>5. xfer[j].bad \in [Rank -> SUBSET Block]
    BY <1>2 DEF XferRec
  <1>6. xfer'[j].bad[k] = bad /\ \A l \in Rank : l # k => xfer'[j].bad[l] = xfer[j].bad[l]
    BY <1>4, <1>5
  <1>7. \/ UNCHANGED gpu /\ (j \in Loads => k # Here)
        \/ j \in Loads /\ k = Here /\ gpu' = Written({p \in xfer[j].pairs : p[1] \notin bad})
    BY Zenon DEF TransferDone, Loads
  <1> QED
    BY <1>1, <1>3, <1>4, <1>6, <1>7

LEMMA TransferDoneMem ==
    ASSUME TableInv, MemInv, NEW j \in DOMAIN xfer, NEW k \in Rank, NEW bad \in Outcomes(j), TransferDone(j, k, bad)
    PROVE  MemInv'
  <1>1. /\ DOMAIN xfer' = DOMAIN xfer /\ k \in xfer[j].busy
        /\ \A i \in DOMAIN xfer : i # j => xfer'[i] = xfer[i]
        /\ \A i \in DOMAIN xfer :
              /\ xfer'[i].req = xfer[i].req /\ xfer'[i].store = xfer[i].store /\ xfer'[i].pairs = xfer[i].pairs
              /\ xfer'[i].unreported = xfer[i].unreported
        /\ xfer'[j].busy = xfer[j].busy \ {k}
        /\ xfer'[j].bad[k] = bad /\ \A l \in Rank : l # k => xfer'[j].bad[l] = xfer[j].bad[l]
        /\ UNCHANGED <<req, batch, steps>>
    BY TransferDoneView
  <1>2. \/ UNCHANGED gpu /\ (j \in Loads => k # Here)
        \/ j \in Loads /\ k = Here /\ gpu' = Written({p \in xfer[j].pairs : p[1] \notin bad})
    BY TransferDoneView
  <1>3. StepsOrdered' /\ BlocksApart' /\ UnbornEmpty'
    BY <1>1 DEF MemInv, StepsOrdered, BlocksApart, UnbornEmpty
  <1>4. WritesOwned'
    <2>1. \A r, p : Computes(r, p)' <=> Computes(r, p)
      BY <1>1 DEF Computes
    <2> HIDE DEF Computes
    <2> QED
      BY <1>1, <2>1 DEF MemInv, WritesOwned
  <1>5. Loads' = Loads /\ Loads \subseteq DOMAIN xfer
    BY <1>1 DEF Loads
  <1>6. LoadsOwned'
    <2>1. BusySilent'
      <3>1. ASSUME NEW i \in DOMAIN xfer, NEW l \in xfer'[i].busy PROVE l \in xfer'[i].unreported /\ xfer'[i].bad[l] = {}
        <4>1. l \in xfer[i].busy /\ (i = j => l # k)
          BY <1>1
        <4>2. l \in xfer[i].unreported /\ xfer[i].bad[l] = {} /\ l \in Rank
          BY <4>1, TableTypes DEF MemInv, LoadsOwned, BusySilent, XferRec
        <4> QED
          BY <1>1, <4>1, <4>2
      <3> QED
        BY <1>1, <3>1 DEF BusySilent
    <2>2. LoadsFill' /\ LoadsAlone'
      BY <1>1, <1>5 DEF MemInv, LoadsOwned, LoadsFill, LoadsAlone
    <2>3. ReportsFill'
      BY <1>1, <1>5 DEF MemInv, LoadsOwned, ReportsFill
    <2>4. LastsEnd'
      BY <1>1 DEF MemInv, LoadsOwned, LastsEnd
    <2> QED
      BY <2>1, <2>2, <2>3, <2>4 DEF LoadsOwned
  <1>7. PICK P : P = {p \in xfer[j].pairs : p[1] \notin bad}
    OBVIOUS
  <1>8. ASSUME NEW r \in Request, NEW i \in DOMAIN req[r].blocks
        PROVE  /\ req[r].status \notin Filling => gpu'[req[r].blocks[i]] = gpu[req[r].blocks[i]]
               /\ gpu[req[r].blocks[i]] = KeyAt(r, i) => gpu'[req[r].blocks[i]] = KeyAt(r, i)
               /\ j \in Loads /\ k = Here /\ <<req[r].blocks[i], KeyAt(r, i)>> \in P
                     => gpu'[req[r].blocks[i]] = KeyAt(r, i)
    <2>1. CASE UNCHANGED gpu /\ (j \in Loads => k # Here)
      BY <2>1
    <2>2. CASE j \in Loads /\ gpu' = Written(P)
      <3>1. \A p \in P : \E l \in Loads : p \in xfer[l].pairs
        BY <1>7, <2>2
      <3> QED
        BY <2>2, <3>1, LoadWrites
    <2> QED
      BY <1>2, <1>7, <2>1, <2>2
  <1>9. \A r \in Request : 1..req[r].computed \subseteq DOMAIN req[r].blocks
    BY TableTypes DEF TableInv, ReqsFit, ReqRec
  <1>10. LoadData'
    <2> SUFFICES ASSUME NEW r \in Request, req[r].status = "loading", NEW i \in 1..req[r].computed
                 PROVE  gpu'[req[r].blocks[i]] = KeyAt(r, i) \/ Owed(r, i)'
      BY <1>1 DEF LoadData
    <2>1. i \in DOMAIN req[r].blocks
      BY <1>9
    <2>2. gpu[req[r].blocks[i]] = KeyAt(r, i) \/ Owed(r, i)
      BY DEF MemInv, LoadData
    <2>3. CASE gpu[req[r].blocks[i]] = KeyAt(r, i)
      BY <1>8, <2>1, <2>3
    <2>4. CASE \E s \in DOMAIN steps : \E m \in steps[s].report : m.load /\ m.req = r /\ req[r].blocks[i] \in m.bad
      BY <1>1, <2>4 DEF Owed
    <2>5. ASSUME NEW l \in Loads, xfer[l].req = r, Here \in xfer[l].busy,
                 <<req[r].blocks[i], KeyAt(r, i)>> \in xfer[l].pairs
          PROVE  gpu'[req[r].blocks[i]] = KeyAt(r, i) \/ Owed(r, i)'
      <3>1. l \in DOMAIN xfer /\ l \in Loads' /\ xfer'[l].req = r /\ xfer'[l].pairs = xfer[l].pairs
        BY <1>1, <1>5, <2>5
      <3>2. CASE Here \in xfer'[l].busy
        BY <1>1, <2>5, <3>1, <3>2 DEF Owed
      <3>3. CASE Here \notin xfer'[l].busy
        <4>1. l = j /\ k = Here
          BY <1>1, <2>5, <3>1, <3>3
        <4>2. CASE req[r].blocks[i] \in bad
          <5>1. Here \in xfer'[l].unreported /\ req[r].blocks[i] \in xfer'[l].bad[Here]
            BY <1>1, <2>5, <3>1, <4>1, <4>2 DEF MemInv, LoadsOwned, BusySilent
          <5> QED
            BY <1>1, <3>1, <5>1 DEF Owed
        <4>3. CASE req[r].blocks[i] \notin bad
          <5>1. <<req[r].blocks[i], KeyAt(r, i)>> \in P
            BY <1>7, <2>5, <4>1, <4>3
          <5> QED
            BY <1>8, <2>1, <2>5, <4>1, <5>1
        <4> QED
          BY <4>2, <4>3
      <3> QED
        BY <3>2, <3>3
    <2>6. ASSUME NEW l \in Loads, xfer[l].req = r, Here \in xfer[l].unreported, req[r].blocks[i] \in xfer[l].bad[Here]
          PROVE  Owed(r, i)'
      <3>1. l \in DOMAIN xfer /\ l \in Loads' /\ xfer'[l].req = r /\ Here \in xfer'[l].unreported
        BY <1>1, <1>5, <2>6
      <3>2. ~(l = j /\ k = Here)
        BY <1>1, <2>6, <3>1 DEF MemInv, LoadsOwned, BusySilent
      <3>3. xfer'[l].bad[Here] = xfer[l].bad[Here]
        BY <1>1, <3>1, <3>2, OffloadingConnectorAssumption DEF OffloadingConnectorAssumption
      <3> QED
        BY <1>1, <2>6, <3>1, <3>3 DEF Owed
    <2> QED
      BY <2>2, <2>3, <2>4, <2>5, <2>6 DEF Owed
  <1>11. PrefixIntact'
    <2>1. ASSUME NEW r \in Request, req[r].status \in Valid, NEW i \in 1..req[r].computed
          PROVE  Intact(r, i)'
      <3>1. i \in DOMAIN req[r].blocks /\ req[r].status \notin Filling
        BY <1>9, <2>1 DEF Filling, Valid
      <3>2. Intact(r, i)
        BY <2>1 DEF MemInv, PrefixIntact, Intact, Valid
      <3>3. gpu'[req[r].blocks[i]] = gpu[req[r].blocks[i]]
        BY <1>8, <3>1
      <3> QED
        BY <1>1, <3>2, <3>3 DEF Intact
    <2> QED
      BY <1>1, <2>1 DEF PrefixIntact, Intact, Valid
  <1> QED
    BY <1>3, <1>4, <1>6, <1>10, <1>11 DEF MemInv

\* The launch of step s: tell are the ranks that report each transfer, rep the reports.
StepLaunched(s, tell, rep) ==
    /\ DOMAIN steps' = DOMAIN steps /\ steps[s].state = "queued" /\ steps'[s].state = "launched"
    /\ \A t \in DOMAIN steps : t < s => steps[t].state # "queued"
    /\ \A t \in DOMAIN steps : t # s => steps'[t] = steps[t]
    /\ steps'[s].flush = steps[s].flush /\ steps'[s].loads = steps[s].loads /\ steps'[s].stores = steps[s].stores
    /\ steps'[s].writes = steps[s].writes /\ steps'[s].reqs = steps[s].reqs /\ steps'[s].frees = steps[s].frees
    /\ steps[s].report = {} /\ steps'[s].report = rep
    /\ \A j \in steps[s].flush : j \in DOMAIN xfer => Ran(j)
    /\ UNCHANGED <<req, conn, jobs, pendingOf, toFlush, nextJob, batch>>

ReportsTold(tell, rep) ==
    /\ \A j \in DOMAIN xfer : tell[j] # {} => \E m \in rep : m.job = j
    /\ \A m \in rep :
          /\ m.job \in DOMAIN xfer /\ m.req = xfer[m.job].req /\ (m.load <=> m.job \in Loads)
          /\ tell[m.job] # {} /\ (m.last <=> xfer[m.job].unreported \ tell[m.job] = {})
          /\ \A k \in tell[m.job] : xfer[m.job].bad[k] \subseteq m.bad

TransfersTold(s, tell) ==
    /\ \A j \in DOMAIN xfer : tell[j] \subseteq xfer[j].unreported
    /\ \A j \in DOMAIN xfer : j \in steps[s].flush \/ tell[j] \cap xfer[j].busy = {}
    /\ DOMAIN xfer' = {j \in DOMAIN xfer : ~(tell[j] # {} /\ xfer[j].unreported \ tell[j] = {})}
    /\ \A j \in DOMAIN xfer' :
          /\ xfer'[j].req = xfer[j].req /\ xfer'[j].store = xfer[j].store /\ xfer'[j].pairs = xfer[j].pairs
          /\ xfer'[j].bad = xfer[j].bad /\ xfer'[j].unreported = xfer[j].unreported \ tell[j]
          /\ xfer'[j].busy = (IF j \in steps[s].flush THEN {} ELSE xfer[j].busy)
          /\ xfer'[j].at = (IF j \in steps[s].stores THEN "deferred"
                            ELSE IF j \in steps[s].loads \/ xfer[j].at = "deferred" THEN "started"
                            ELSE xfer[j].at)

FlushedPairs(s) ==
    UNION {xfer[j].pairs : j \in {i \in steps[s].flush \cap DOMAIN xfer : ~xfer[i].store /\ Here \in xfer[i].busy}}

LEMMA LaunchView ==
    ASSUME TableInv, NEW s \in DOMAIN steps, Launch(s)
    PROVE  \E tell, rep : /\ StepLaunched(s, tell, rep) /\ ReportsTold(tell, rep) /\ TransfersTold(s, tell)
                          /\ gpu' = Written(FlushedPairs(s))
  <1> DEFINE step == steps[s]
             flushed == step.flush \cap DOMAIN xfer
             Now(j) == [xfer[j] EXCEPT
                 !.at = IF j \in step.stores THEN "deferred"
                        ELSE IF j \in step.loads \/ @ = "deferred" THEN "started" ELSE @,
                 !.busy = IF j \in flushed THEN {} ELSE @]
             Tell(j) == IF Now(j).at = "started" THEN Now(j).unreported \ Now(j).busy ELSE {}
             told == {j \in DOMAIN xfer : Tell(j) # {}}
             All(j) == Now(j).unreported \ Tell(j) = {}
             Msg(j) == [job |-> j, req |-> xfer[j].req, load |-> ~xfer[j].store,
                        ranks |-> Tell(j), last |-> All(j),
                        bad |-> UNION {xfer[j].bad[k] : k \in Tell(j)}]
             report == {Msg(j) : j \in told}
             busy(j) == IF j \in steps[s].flush THEN {} ELSE xfer[j].busy
             at(j) == IF j \in steps[s].stores THEN "deferred"
                      ELSE IF j \in steps[s].loads \/ xfer[j].at = "deferred" THEN "started"
                      ELSE xfer[j].at
  <1>1. steps[s].state = "queued" /\ (\A t \in 1..s - 1 : steps[t].state # "queued") /\ (\A j \in flushed : Ran(j))
    BY ZenonT(60) DEF Launch
  <1>2. UNCHANGED <<req, conn, jobs, pendingOf, toFlush, nextJob, batch>>
    BY ZenonT(60) DEF Launch
  <1>3. steps' = [steps EXCEPT ![s].state = "launched", ![s].report = report]
    BY ZenonT(60) DEF Launch
  <1>4. xfer' = [j \in {i \in DOMAIN xfer : ~(i \in told /\ All(i))} |->
                   [Now(j) EXCEPT !.unreported = @ \ Tell(j)]]
    BY ZenonT(60) DEF Launch
  <1>5. gpu' = Written(FlushedPairs(s))
    BY ZenonT(60) DEF Launch, FlushedPairs
  <1>6. ASSUME NEW j \in DOMAIN xfer
        PROVE  /\ Now(j) \in XferRec /\ Now(j).unreported = xfer[j].unreported /\ Now(j).req = xfer[j].req
               /\ Now(j).store = xfer[j].store /\ Now(j).pairs = xfer[j].pairs /\ Now(j).bad = xfer[j].bad
               /\ Now(j).busy = busy(j) /\ Now(j).at = at(j)
    <2>1. xfer[j] \in XferRec
      BY TableTypes
    <2>2. j \in flushed <=> j \in steps[s].flush
      OBVIOUS
    <2>3. PICK v : v = at(j)
      OBVIOUS
    <2>4. PICK w : w = busy(j)
      OBVIOUS
    <2>5. Now(j) = [xfer[j] EXCEPT !.at = v, !.busy = w]
      BY <2>2, <2>3, <2>4, ZenonT(60)
    <2>6. v \in {"queued", "deferred", "started"} /\ w \in SUBSET Rank
      BY <2>1, <2>3, <2>4 DEF XferRec
    <2> HIDE DEF Now, at, busy
    <2>7. /\ [xfer[j] EXCEPT !.at = v, !.busy = w] \in XferRec
          /\ [xfer[j] EXCEPT !.at = v, !.busy = w].unreported = xfer[j].unreported
          /\ [xfer[j] EXCEPT !.at = v, !.busy = w].req = xfer[j].req
          /\ [xfer[j] EXCEPT !.at = v, !.busy = w].store = xfer[j].store
          /\ [xfer[j] EXCEPT !.at = v, !.busy = w].pairs = xfer[j].pairs
          /\ [xfer[j] EXCEPT !.at = v, !.busy = w].bad = xfer[j].bad
          /\ [xfer[j] EXCEPT !.at = v, !.busy = w].busy = w
          /\ [xfer[j] EXCEPT !.at = v, !.busy = w].at = v
      BY <2>1, <2>6, ZenonT(60) DEF XferRec
    <2> QED
      BY <2>3, <2>4, <2>5, <2>7, ZenonT(60)
  <1>7. PICK tell : tell = [j \in DOMAIN xfer |-> Tell(j)]
    OBVIOUS
  <1>8. PICK now : now = [j \in DOMAIN xfer |-> Now(j)]
    OBVIOUS
  <1>9. PICK rep : rep = report
    OBVIOUS
  <1>10. ASSUME NEW j \in DOMAIN xfer
         PROVE  /\ now[j] = Now(j) /\ tell[j] = Tell(j) /\ tell[j] \subseteq xfer[j].unreported
                /\ j \in steps[s].flush \/ tell[j] \cap xfer[j].busy = {}
                /\ All(j) <=> xfer[j].unreported \ tell[j] = {}
    <2>1. now[j] = Now(j) /\ tell[j] = Tell(j)
      BY <1>7, <1>8
    <2>2. Now(j).unreported = xfer[j].unreported /\ (j \in steps[s].flush \/ Now(j).busy = xfer[j].busy)
      BY <1>6
    <2>3. All(j) <=> xfer[j].unreported \ tell[j] = {}
      BY <2>1, <2>2
    <2> HIDE DEF Now, All
    <2>4. tell[j] \subseteq xfer[j].unreported /\ (j \in steps[s].flush \/ tell[j] \cap xfer[j].busy = {})
      BY <2>1, <2>2
    <2> QED
      BY <2>1, <2>3, <2>4
  <1>11. xfer' = [j \in {i \in DOMAIN xfer : ~(tell[i] # {} /\ xfer[i].unreported \ tell[i] = {})} |->
                   [now[j] EXCEPT !.unreported = @ \ tell[j]]]
    <2>1. {i \in DOMAIN xfer : ~(i \in told /\ All(i))}
             = {i \in DOMAIN xfer : ~(tell[i] # {} /\ xfer[i].unreported \ tell[i] = {})}
      <3> HIDE DEF Now, Tell, All
      <3> QED
        BY <1>10
    <2> HIDE DEF Now, Tell, told, All
    <2>2. \A j \in DOMAIN xfer : [Now(j) EXCEPT !.unreported = @ \ Tell(j)] = [now[j] EXCEPT !.unreported = @ \ tell[j]]
      BY <1>10, ZenonT(60)
    <2> QED
      BY <1>4, <2>1, <2>2
  <1>12. TransfersTold(s, tell)
    <2>1. ASSUME NEW j \in DOMAIN xfer
          PROVE  LET new == [now[j] EXCEPT !.unreported = @ \ tell[j]] IN
                 /\ new.req = xfer[j].req /\ new.store = xfer[j].store /\ new.pairs = xfer[j].pairs
                 /\ new.bad = xfer[j].bad /\ new.unreported = xfer[j].unreported \ tell[j]
                 /\ new.busy = busy(j) /\ new.at = at(j)
      <3>1. /\ now[j] \in XferRec /\ now[j].unreported = xfer[j].unreported /\ now[j].req = xfer[j].req
            /\ now[j].store = xfer[j].store /\ now[j].pairs = xfer[j].pairs /\ now[j].bad = xfer[j].bad
            /\ now[j].busy = busy(j) /\ now[j].at = at(j)
        <4> HIDE DEF Now, Tell, busy, at
        <4> QED
          BY <1>6, <1>10
      <3> HIDE DEF Now, Tell, busy, at
      <3>2. LET new == [now[j] EXCEPT !.unreported = @ \ tell[j]] IN
            /\ new.req = now[j].req /\ new.store = now[j].store /\ new.pairs = now[j].pairs
            /\ new.bad = now[j].bad /\ new.unreported = now[j].unreported \ tell[j]
            /\ new.busy = now[j].busy /\ new.at = now[j].at
        BY <3>1, ZenonT(60) DEF XferRec
      <3> QED
        BY <3>1, <3>2, ZenonT(60)
    <2>2. DOMAIN xfer' = {j \in DOMAIN xfer : ~(tell[j] # {} /\ xfer[j].unreported \ tell[j] = {})}
      BY <1>11
    <2>3. \A j \in DOMAIN xfer' : j \in DOMAIN xfer /\ xfer'[j] = [now[j] EXCEPT !.unreported = @ \ tell[j]]
      BY <1>11, <2>2
    <2> HIDE DEF Now, Tell, told, All
    <2>4. \A j \in DOMAIN xfer' :
             /\ xfer'[j].req = xfer[j].req /\ xfer'[j].store = xfer[j].store /\ xfer'[j].pairs = xfer[j].pairs
             /\ xfer'[j].bad = xfer[j].bad /\ xfer'[j].unreported = xfer[j].unreported \ tell[j]
             /\ xfer'[j].busy = busy(j) /\ xfer'[j].at = at(j)
      <3> HIDE DEF busy, at
      <3> QED
        BY <2>1, <2>3, ZenonT(60)
    <2> QED
      BY <1>10, <2>2, <2>4 DEF TransfersTold
  <1>13. ReportsTold(tell, rep)
    <2> HIDE DEF Now, Tell, All
    <2>1. ASSUME NEW j \in DOMAIN xfer
          PROVE  /\ Msg(j).job = j /\ Msg(j).req = xfer[j].req /\ (Msg(j).load <=> j \in Loads)
                 /\ (Msg(j).last <=> xfer[j].unreported \ tell[j] = {})
                 /\ \A k \in tell[j] : xfer[j].bad[k] \subseteq Msg(j).bad
      <3>1. Msg(j).job = j /\ Msg(j).req = xfer[j].req /\ Msg(j).bad = UNION {xfer[j].bad[k] : k \in Tell(j)}
        BY ZenonT(60)
      <3>2. Msg(j).load <=> j \in Loads
        BY ZenonT(60) DEF Loads
      <3>3. Msg(j).last <=> All(j)
        BY ZenonT(60)
      <3> HIDE DEF Msg
      <3> QED
        BY <1>10, <3>1, <3>2, <3>3
    <2> HIDE DEF Msg
    <2>2. \A m \in rep : \E j \in DOMAIN xfer : m = Msg(j) /\ tell[j] # {}
      BY <1>9, <1>10
    <2>3. \A j \in DOMAIN xfer : tell[j] # {} => \E m \in rep : m.job = j
      <3>1. \A j \in DOMAIN xfer : tell[j] # {} => Msg(j) \in rep
        BY <1>9, <1>10
      <3> QED
        BY <2>1, <3>1
    <2>4. ASSUME NEW m \in rep
          PROVE  /\ m.job \in DOMAIN xfer /\ m.req = xfer[m.job].req /\ (m.load <=> m.job \in Loads)
                 /\ tell[m.job] # {} /\ (m.last <=> xfer[m.job].unreported \ tell[m.job] = {})
                 /\ \A k \in tell[m.job] : xfer[m.job].bad[k] \subseteq m.bad
      <3>1. PICK j \in DOMAIN xfer : m = Msg(j) /\ tell[j] # {}
        BY <2>2
      <3> QED
        BY <2>1, <3>1, ZenonT(60)
    <2> QED
      BY <2>3, <2>4 DEF ReportsTold
  <1> HIDE DEF Now, Tell, told, All, Msg, report
  <1>14. StepLaunched(s, tell, rep)
    <2>1. steps' = [steps EXCEPT ![s].state = "launched", ![s].report = rep]
      BY <1>3, <1>9
    <2>2. /\ DOMAIN steps' = DOMAIN steps /\ \A t \in DOMAIN steps : t # s => steps'[t] = steps[t]
          /\ steps'[s] = [steps[s] EXCEPT !.state = "launched", !.report = rep]
      BY <2>1
    <2>3. steps[s] \in StepRec
      BY TableTypes
    <2>4. /\ steps'[s].flush = steps[s].flush /\ steps'[s].loads = steps[s].loads /\ steps'[s].stores = steps[s].stores
          /\ steps'[s].writes = steps[s].writes /\ steps'[s].reqs = steps[s].reqs /\ steps'[s].frees = steps[s].frees
          /\ steps'[s].state = "launched" /\ steps'[s].report = rep
      BY <2>2, <2>3, ZenonT(60) DEF StepRec
    <2>5. steps[s].report = {}
      BY <1>1 DEF TableInv, ReportsFit
    <2>6. \A t \in DOMAIN steps : t < s => t \in 1..s - 1
      BY TableTypes
    <2>7. \A t \in DOMAIN steps : t < s => steps[t].state # "queued"
      BY <1>1, <2>6
    <2> QED
      BY <1>1, <1>2, <2>2, <2>4, <2>5, <2>7 DEF StepLaunched
  <1> QED
    BY <1>5, <1>12, <1>13, <1>14

LEMMA LaunchMem ==
    ASSUME TableInv, MemInv, NEW s \in DOMAIN steps, Launch(s)
    PROVE  MemInv'
  <1>0. PICK tell, rep : /\ StepLaunched(s, tell, rep) /\ ReportsTold(tell, rep) /\ TransfersTold(s, tell)
                         /\ gpu' = Written(FlushedPairs(s))
    BY LaunchView
  <1>1. /\ DOMAIN steps' = DOMAIN steps /\ steps[s].state = "queued" /\ steps'[s].state = "launched"
        /\ \A t \in DOMAIN steps : t < s => steps[t].state # "queued"
        /\ \A t \in DOMAIN steps : t # s => steps'[t] = steps[t]
        /\ \A t \in DOMAIN steps : /\ steps'[t].writes = steps[t].writes /\ steps'[t].reqs = steps[t].reqs
                                   /\ steps'[t].frees = steps[t].frees
        /\ steps[s].report = {} /\ steps'[s].report = rep /\ UNCHANGED <<req, batch>>
    BY <1>0 DEF StepLaunched
  <1>2. /\ \A j \in DOMAIN xfer : tell[j] # {} => \E m \in rep : m.job = j
        /\ \A m \in rep :
              /\ m.job \in DOMAIN xfer /\ m.req = xfer[m.job].req /\ (m.load <=> m.job \in Loads)
              /\ tell[m.job] # {} /\ (m.last <=> xfer[m.job].unreported \ tell[m.job] = {})
              /\ \A k \in tell[m.job] : xfer[m.job].bad[k] \subseteq m.bad
    BY <1>0 DEF ReportsTold
  <1>3. /\ \A j \in DOMAIN xfer : j \in steps[s].flush \/ tell[j] \cap xfer[j].busy = {}
        /\ DOMAIN xfer' = {j \in DOMAIN xfer : ~(tell[j] # {} /\ xfer[j].unreported \ tell[j] = {})}
        /\ \A j \in DOMAIN xfer' :
              /\ xfer'[j].req = xfer[j].req /\ xfer'[j].store = xfer[j].store /\ xfer'[j].pairs = xfer[j].pairs
              /\ xfer'[j].bad = xfer[j].bad /\ xfer'[j].unreported = xfer[j].unreported \ tell[j]
              /\ xfer'[j].busy = (IF j \in steps[s].flush THEN {} ELSE xfer[j].busy)
    BY <1>0 DEF TransfersTold
  <1>4. Loads' = Loads \cap DOMAIN xfer' /\ Loads \subseteq DOMAIN xfer
    BY <1>3 DEF Loads
  <1>5. \A t \in DOMAIN steps : t \in Nat
    BY TableTypes
  <1>6. \A t \in DOMAIN steps : s < t => steps[t].state = "queued" /\ steps[t].report = {}
    BY <1>1 DEF MemInv, StepsOrdered, TableInv, ReportsFit
  <1>7. StepsOrdered'
    <2>1. ASSUME NEW t \in DOMAIN steps, NEW u \in DOMAIN steps, t < u
          PROVE  /\ steps'[t].state = "queued" => steps'[u].state = "queued"
                 /\ steps'[u].state = "ran" => steps'[t].state = "ran"
      <3>1. /\ steps[t].state = "queued" => steps[u].state = "queued"
            /\ steps[u].state = "ran" => steps[t].state = "ran"
        BY <2>1 DEF MemInv, StepsOrdered
      <3> QED
        BY <1>1, <1>5, <1>6, <2>1, <3>1
    <2> QED
      BY <1>1, <2>1 DEF StepsOrdered
  <1>8. BlocksApart' /\ UnbornEmpty'
    BY <1>1 DEF MemInv, BlocksApart, UnbornEmpty
  <1>9. WritesOwned'
    <2>1. \A r, p : Computes(r, p)' <=> Computes(r, p)
      BY <1>1 DEF Computes
    <2> HIDE DEF Computes
    <2> QED
      BY <1>1, <2>1 DEF MemInv, WritesOwned
  <1>10. \A m \in rep : m.load => \A j \in Loads : xfer[j].req = m.req => j = m.job
    BY <1>2 DEF MemInv, LoadsOwned, LoadsAlone
  <1>11. BusySilent'
    BY <1>3 DEF MemInv, LoadsOwned, BusySilent
  <1>12. LoadsFill' /\ LoadsAlone'
    BY <1>1, <1>3, <1>4 DEF MemInv, LoadsOwned, LoadsFill, LoadsAlone
  <1>13. ReportsFill'
    <2>1. ASSUME NEW t \in DOMAIN steps, NEW m \in steps'[t].report, m.load
          PROVE  /\ req[m.req].status \in Filling
                 /\ \A j \in Loads : xfer[j].req = m.req => j = m.job
      <3>1. CASE t = s
        BY <1>1, <1>2, <1>10, <2>1, <3>1 DEF MemInv, LoadsOwned, LoadsFill
      <3>2. CASE t # s
        BY <1>1, <2>1, <3>2 DEF MemInv, LoadsOwned, ReportsFill
      <3> QED
        BY <3>1, <3>2
    <2>2. ASSUME NEW t \in DOMAIN steps, NEW m \in steps'[t].report, m.load,
                 NEW u \in DOMAIN steps, NEW n \in steps'[u].report, n.load, n.req = m.req
          PROVE  n.job = m.job
      <3>1. CASE t = s
        <4>1. m.job \in Loads /\ xfer[m.job].req = m.req
          BY <1>1, <1>2, <2>2, <3>1
        <4> QED
          BY <2>1, <2>2, <4>1
      <3>2. CASE u = s
        <4>1. n.job \in Loads /\ xfer[n.job].req = n.req
          BY <1>1, <1>2, <2>2, <3>2
        <4> QED
          BY <2>1, <2>2, <4>1
      <3>3. CASE t # s /\ u # s
        BY <1>1, <2>2, <3>3 DEF MemInv, LoadsOwned, ReportsFill
      <3> QED
        BY <3>1, <3>2, <3>3
    <2> QED
      BY <1>1, <1>3, <1>4, <2>1, <2>2 DEF ReportsFill
  <1>14. LastsEnd'
    <2>1. ASSUME NEW t \in DOMAIN steps, NEW m \in steps'[t].report, m.last
          PROVE  /\ m.job \notin DOMAIN xfer'
                 /\ \A u \in DOMAIN steps : \A n \in steps'[u].report : t < u => n.job # m.job
      <3>1. CASE t = s
        <4>1. \A u \in DOMAIN steps : t < u => steps'[u].report = {}
          BY <1>1, <1>5, <1>6, <3>1
        <4> QED
          BY <1>1, <1>2, <1>3, <2>1, <3>1, <4>1
      <3>2. CASE t # s
        <4>1. /\ m.job \notin DOMAIN xfer
              /\ \A u \in DOMAIN steps : \A n \in steps[u].report : t < u => n.job # m.job
          BY <1>1, <2>1, <3>2 DEF MemInv, LoadsOwned, LastsEnd
        <4> QED
          BY <1>1, <1>2, <1>3, <4>1
      <3> QED
        BY <3>1, <3>2
    <2> QED
      BY <1>1, <2>1 DEF LastsEnd
  <1>15. LoadsOwned'
    BY <1>11, <1>12, <1>13, <1>14 DEF LoadsOwned
  <1>16. \A r \in Request : 1..req[r].computed \subseteq DOMAIN req[r].blocks
    BY TableTypes DEF TableInv, ReqsFit, ReqRec
  <1>17. PICK P : P = FlushedPairs(s)
    OBVIOUS
  <1>18. /\ \A p \in P : \E j \in Loads : p \in xfer[j].pairs
         /\ \A j \in Loads : j \in steps[s].flush /\ Here \in xfer[j].busy => xfer[j].pairs \subseteq P
    BY <1>4, <1>17, Zenon DEF FlushedPairs, Loads
  <1>19. ASSUME NEW r \in Request, NEW i \in DOMAIN req[r].blocks
         PROVE  /\ req[r].status \notin Filling => gpu'[req[r].blocks[i]] = gpu[req[r].blocks[i]]
                /\ gpu[req[r].blocks[i]] = KeyAt(r, i) => gpu'[req[r].blocks[i]] = KeyAt(r, i)
                /\ <<req[r].blocks[i], KeyAt(r, i)>> \in P => gpu'[req[r].blocks[i]] = KeyAt(r, i)
    <2>1. gpu' = Written(P)
      BY <1>0, <1>17
    <2> QED
      BY <1>18, <2>1, LoadWrites
  <1>20. LoadData'
    <2> SUFFICES ASSUME NEW r \in Request, req[r].status = "loading", NEW i \in 1..req[r].computed
                 PROVE  gpu'[req[r].blocks[i]] = KeyAt(r, i) \/ Owed(r, i)'
      BY <1>1 DEF LoadData
    <2>1. i \in DOMAIN req[r].blocks
      BY <1>16
    <2>2. gpu[req[r].blocks[i]] = KeyAt(r, i) \/ Owed(r, i)
      BY DEF MemInv, LoadData
    <2>3. CASE gpu[req[r].blocks[i]] = KeyAt(r, i)
      BY <1>19, <2>1, <2>3
    <2>4. CASE \E t \in DOMAIN steps : \E m \in steps[t].report : m.load /\ m.req = r /\ req[r].blocks[i] \in m.bad
      <3>1. PICK t \in DOMAIN steps : \E m \in steps[t].report : m.load /\ m.req = r /\ req[r].blocks[i] \in m.bad
        BY <2>4
      <3>2. t # s /\ steps'[t] = steps[t]
        BY <1>1, <3>1
      <3> QED
        BY <1>1, <3>1, <3>2 DEF Owed
    <2>5. ASSUME NEW l \in Loads, xfer[l].req = r, Here \in xfer[l].busy,
                 <<req[r].blocks[i], KeyAt(r, i)>> \in xfer[l].pairs
          PROVE  gpu'[req[r].blocks[i]] = KeyAt(r, i) \/ Owed(r, i)'
      <3>1. CASE l \in steps[s].flush
        BY <1>18, <1>19, <2>1, <2>5, <3>1
      <3>2. CASE l \notin steps[s].flush
        <4>1. Here \in xfer[l].unreported
          BY <1>4, <2>5 DEF MemInv, LoadsOwned, BusySilent
        <4>2. l \in DOMAIN xfer' /\ Here \in xfer'[l].busy
          BY <1>3, <1>4, <2>5, <3>2, <4>1
        <4>3. l \in Loads' /\ xfer'[l].req = r /\ xfer'[l].pairs = xfer[l].pairs
          BY <1>3, <1>4, <2>5, <4>2
        <4> QED
          BY <1>1, <2>5, <4>2, <4>3 DEF Owed
      <3> QED
        BY <3>1, <3>2
    <2>6. ASSUME NEW l \in Loads, xfer[l].req = r, Here \in xfer[l].unreported, req[r].blocks[i] \in xfer[l].bad[Here]
          PROVE  Owed(r, i)'
      <3>1. CASE Here \in tell[l]
        <4>1. PICK m \in rep : m.job = l
          BY <1>2, <1>4, <3>1
        <4>2. m.load /\ m.req = r /\ req[r].blocks[i] \in m.bad
          BY <1>2, <2>6, <3>1, <4>1
        <4> QED
          BY <1>1, <4>1, <4>2 DEF Owed
      <3>2. CASE Here \notin tell[l]
        <4>1. l \in DOMAIN xfer' /\ Here \in xfer'[l].unreported
          BY <1>3, <1>4, <2>6, <3>2
        <4>2. l \in Loads' /\ xfer'[l].req = r /\ req[r].blocks[i] \in xfer'[l].bad[Here]
          BY <1>3, <1>4, <2>6, <4>1
        <4> QED
          BY <1>1, <4>1, <4>2 DEF Owed
      <3> QED
        BY <3>1, <3>2
    <2> QED
      BY <2>2, <2>3, <2>4, <2>5, <2>6 DEF Owed
  <1>21. PrefixIntact'
    <2>1. ASSUME NEW r \in Request, req[r].status \in Valid, NEW i \in 1..req[r].computed
          PROVE  Intact(r, i)'
      <3>1. i \in DOMAIN req[r].blocks /\ req[r].status \notin Filling
        BY <1>16, <2>1 DEF Filling, Valid
      <3>2. Intact(r, i)
        BY <2>1 DEF MemInv, PrefixIntact, Intact, Valid
      <3>3. gpu'[req[r].blocks[i]] = gpu[req[r].blocks[i]]
        BY <1>19, <3>1
      <3>4. \A t \in DOMAIN steps : steps[t].state # "ran" => steps'[t].state # "ran"
        BY <1>1
      <3> QED
        BY <1>1, <3>2, <3>3, <3>4 DEF Intact
    <2> QED
      BY <1>1, <2>1 DEF PrefixIntact, Intact, Valid
  <1> QED
    BY <1>7, <1>8, <1>9, <1>15, <1>20, <1>21 DEF MemInv

\* The output of the oldest step, with the jobs done, the blocks invalid and the requests received.
OutputSteps ==
    /\ 1 \in DOMAIN steps /\ steps[1].state = "ran" /\ \A t \in DOMAIN steps : t \in Nat /\ t >= 1
    /\ \A t \in DOMAIN steps' : t \in Nat /\ t >= 1 /\ t + 1 \in DOMAIN steps /\ steps'[t] = steps[t + 1]
    /\ \A t \in DOMAIN steps : t # 1 => t - 1 \in DOMAIN steps' /\ steps'[t - 1] = steps[t]
OutputReqs(inv, recv) ==
    /\ \A b : b \in inv <=> \E m \in steps[1].report : m.load /\ b \in m.bad
    /\ \A r : r \in recv <=> \E m \in steps[1].report : m.load /\ m.last /\ m.req = r
    /\ \A r \in Request :
          \/ /\ r \in recv /\ req[r].status = "finished"
             /\ req'[r].status = "gone" /\ req'[r].computed = 0 /\ req'[r].blocks = <<>>
          \/ /\ req[r].status = "loading" /\ req'[r].status = (IF r \in recv THEN "received" ELSE "loading")
             /\ req'[r].blocks = req[r].blocks /\ req'[r].computed \in Nat /\ req'[r].computed <= req[r].computed
             /\ \A i \in 1..req'[r].computed : req[r].blocks[i] \notin inv
          \/ req[r].status # "loading" /\ ~(r \in recv /\ req[r].status = "finished") /\ req'[r] = req[r]

LEMMA ValidToCuts ==
    ASSUME ReqsFit, NEW r \in Request, NEW inv
    PROVE  \A i \in 1..ValidTo(r, inv) : req[r].blocks[i] \notin inv
  <1> DEFINE bad == {i \in 1..req[r].computed : req[r].blocks[i] \in inv}
  <1>1. req[r].computed \in Nat
    BY DEF ReqsFit, ReqRec
  <1>2. CASE bad = {}
    BY <1>2 DEF ValidTo
  <1>3. CASE bad # {}
    <2>1. bad \subseteq Nat
      BY <1>1
    <2>2. Min(bad) \in bad /\ \A y \in bad : Min(bad) <= y
      BY <1>3, <2>1, MinExists
    <2>3. PICK m \in bad : m = Min(bad) /\ \A y \in bad : m <= y
      BY <2>2
    <2>4. ValidTo(r, inv) = m - 1
      BY <1>3, <2>3 DEF ValidTo
    <2>5. ASSUME NEW i \in 1..m - 1 PROVE i \notin bad /\ i \in 1..req[r].computed
      BY <1>1, <2>3
    <2> QED
      BY <2>4, <2>5
  <1> QED
    BY <1>2, <1>3

LEMMA OutputView ==
    ASSUME TableInv, ProcessOutput
    PROVE  /\ OutputSteps /\ batch = NoBatch /\ UNCHANGED <<toFlush, nextJob, batch, xfer, gpu>>
           /\ \E inv, recv : OutputReqs(inv, recv)
  <1> DEFINE step == Head(steps)
             invalid == UNION {m.bad : m \in {n \in step.report : n.load}}
             received == {m.req : m \in {n \in step.report : n.load /\ n.last}}
  <1>1. /\ steps # <<>> /\ step.state = "ran" /\ batch = NoBatch /\ steps' = Tail(steps)
        /\ UNCHANGED <<toFlush, nextJob, batch, xfer, gpu>>
    BY ZenonT(60) DEF ProcessOutput
  <1>2. req' = [r \in Request |->
             IF r \in received /\ req[r].status = "finished"
             THEN [status |-> "gone", computed |-> 0, blocks |-> <<>>]
             ELSE IF req[r].status = "loading"
             THEN [req[r] EXCEPT !.computed = ValidTo(r, invalid),
                                 !.status = IF r \in received THEN "received" ELSE @]
             ELSE req[r]]
    BY ZenonT(60) DEF ProcessOutput
  <1>3. /\ Len(steps) \in Nat /\ Len(steps) >= 1 /\ 1 \in DOMAIN steps /\ step = steps[1]
        /\ DOMAIN steps = 1..Len(steps) /\ DOMAIN steps' = 1..Len(steps) - 1
        /\ \A t \in 1..Len(steps) - 1 : steps'[t] = steps[t + 1]
    <2>1. steps \in Seq(StepRec)
      BY TableTypes
    <2> QED
      BY <1>1, <2>1
  <1>4. OutputSteps
    BY <1>1, <1>3 DEF OutputSteps
  <1>5. PICK inv : inv = invalid
    OBVIOUS
  <1>6. PICK recv : recv = received
    OBVIOUS
  <1>7. /\ \A b : b \in inv <=> \E m \in steps[1].report : m.load /\ b \in m.bad
        /\ \A r : r \in recv <=> \E m \in steps[1].report : m.load /\ m.last /\ m.req = r
    BY <1>3, <1>5, <1>6
  <1> HIDE DEF invalid, received
  <1>8. ASSUME NEW r \in Request
        PROVE  \/ /\ r \in recv /\ req[r].status = "finished"
                  /\ req'[r].status = "gone" /\ req'[r].computed = 0 /\ req'[r].blocks = <<>>
               \/ /\ req[r].status = "loading" /\ req'[r].status = (IF r \in recv THEN "received" ELSE "loading")
                  /\ req'[r].blocks = req[r].blocks /\ req'[r].computed \in Nat /\ req'[r].computed <= req[r].computed
                  /\ \A i \in 1..req'[r].computed : req[r].blocks[i] \notin inv
               \/ req[r].status # "loading" /\ ~(r \in recv /\ req[r].status = "finished") /\ req'[r] = req[r]
    <2>1. PICK v : v = ValidTo(r, inv)
      OBVIOUS
    <2>2. v \in Nat /\ v <= req[r].computed /\ \A i \in 1..v : req[r].blocks[i] \notin inv
      BY <2>1, ValidToRange, ValidToCuts DEF TableInv
    <2>3. req[r] \in ReqRec
      BY TableTypes
    <2>4. req'[r] = IF r \in recv /\ req[r].status = "finished"
                    THEN [status |-> "gone", computed |-> 0, blocks |-> <<>>]
                    ELSE IF req[r].status = "loading"
                    THEN [req[r] EXCEPT !.computed = v, !.status = IF r \in recv THEN "received" ELSE @]
                    ELSE req[r]
      BY <1>2, <1>5, <1>6, <2>1
    <2>5. CASE r \in recv /\ req[r].status = "finished"
      <3>1. req'[r] = [status |-> "gone", computed |-> 0, blocks |-> <<>>]
        BY <2>4, <2>5
      <3>2. req'[r].status = "gone" /\ req'[r].computed = 0 /\ req'[r].blocks = <<>>
        BY <3>1
      <3> QED
        BY <2>5, <3>2
    <2>6. CASE req[r].status = "loading"
      <3>1. PICK x : x = (IF r \in recv THEN "received" ELSE "loading")
        OBVIOUS
      <3>2. req'[r] = [req[r] EXCEPT !.computed = v, !.status = x]
        BY <2>4, <2>6, <3>1
      <3>3. req'[r].status = x /\ req'[r].computed = v /\ req'[r].blocks = req[r].blocks
        BY <2>3, <3>2 DEF ReqRec
      <3> QED
        BY <2>2, <2>6, <3>1, <3>3
    <2>7. CASE ~(r \in recv /\ req[r].status = "finished") /\ req[r].status # "loading"
      BY <2>4, <2>7
    <2> QED
      BY <2>5, <2>6, <2>7
  <1>9. OutputReqs(inv, recv)
    BY <1>7, <1>8 DEF OutputReqs
  <1> QED
    BY <1>1, <1>4, <1>9

LEMMA ProcessOutputMem ==
    ASSUME TableInv, MemInv, ProcessOutput
    PROVE  MemInv'
  <1>0. OutputSteps /\ batch = NoBatch /\ UNCHANGED <<batch, xfer, gpu>>
    BY OutputView
  <1>1. PICK inv, recv : OutputReqs(inv, recv)
    BY OutputView
  <1>2. /\ 1 \in DOMAIN steps /\ steps[1].state = "ran" /\ \A t \in DOMAIN steps : t \in Nat /\ t >= 1
        /\ \A t \in DOMAIN steps' : t \in Nat /\ t >= 1 /\ t + 1 \in DOMAIN steps /\ steps'[t] = steps[t + 1]
        /\ \A t \in DOMAIN steps : t # 1 => t - 1 \in DOMAIN steps' /\ steps'[t - 1] = steps[t]
        /\ batch'.writes = {} /\ UNCHANGED <<batch, xfer, gpu>>
    BY <1>0 DEF OutputSteps, NoBatch
  <1>3. /\ \A b : b \in inv <=> \E m \in steps[1].report : m.load /\ b \in m.bad
        /\ \A r : r \in recv <=> \E m \in steps[1].report : m.load /\ m.last /\ m.req = r
        /\ \A r \in Request :
              \/ /\ r \in recv /\ req[r].status = "finished"
                 /\ req'[r].status = "gone" /\ req'[r].computed = 0 /\ req'[r].blocks = <<>>
              \/ /\ req[r].status = "loading" /\ req'[r].status = (IF r \in recv THEN "received" ELSE "loading")
                 /\ req'[r].blocks = req[r].blocks /\ req'[r].computed \in Nat /\ req'[r].computed <= req[r].computed
                 /\ \A i \in 1..req'[r].computed : req[r].blocks[i] \notin inv
              \/ req[r].status # "loading" /\ ~(r \in recv /\ req[r].status = "finished") /\ req'[r] = req[r]
    BY <1>1 DEF OutputReqs
  <1>4. StepsOrdered'
    BY <1>2 DEF MemInv, StepsOrdered
  <1>5. BlocksApart'
    <2>1. \A r \in Request : req'[r].blocks = req[r].blocks \/ req'[r].blocks = <<>>
      BY <1>3
    <2>2. \A s \in DOMAIN steps' : \A b \in steps'[s].frees : \E t \in DOMAIN steps : b \in steps[t].frees
      BY <1>2
    <2> QED
      BY <2>1, <2>2, ApartShrinks DEF MemInv
  <1>6. WritesOwned'
    <2>1. ASSUME NEW r \in Request, NEW p, Computes(r, p) PROVE Computes(r, p)'
      <3>1. req'[r] = req[r]
        BY <1>3, <2>1 DEF Computes
      <3> QED
        BY <2>1, <3>1 DEF Computes
    <2>2. \A s \in DOMAIN steps : steps[s].reqs \subseteq Request
      BY TableTypes DEF StepRec
    <2> HIDE DEF Computes
    <2>3. ASSUME NEW s \in DOMAIN steps', NEW p \in steps'[s].writes
          PROVE  (\E r \in steps'[s].reqs : Computes(r, p)') \/ \E t \in DOMAIN steps' : s <= t /\ p[1] \in steps'[t].frees
      <3>1. s + 1 \in DOMAIN steps /\ steps'[s] = steps[s + 1] /\ p \in steps[s + 1].writes /\ s \in Nat /\ s >= 1
        BY <1>2, <2>3
      <3>2. CASE \E r \in steps[s + 1].reqs : Computes(r, p)
        BY <2>1, <2>2, <3>1, <3>2
      <3>3. CASE \E t \in DOMAIN steps : s + 1 <= t /\ p[1] \in steps[t].frees
        <4>1. PICK t \in DOMAIN steps : s + 1 <= t /\ p[1] \in steps[t].frees
          BY <3>3
        <4>2. t \in Nat /\ t # 1 /\ s <= t - 1
          BY <1>2, <3>1, <4>1
        <4>3. t - 1 \in DOMAIN steps' /\ steps'[t - 1] = steps[t]
          BY <1>2, <4>2
        <4> QED
          BY <4>1, <4>2, <4>3
      <3> QED
        BY <3>1, <3>2, <3>3 DEF MemInv, WritesOwned
    <2>4. \A s \in DOMAIN steps' : \A p, q \in steps'[s].writes : p[1] = q[1] => p = q
      BY <1>2 DEF MemInv, WritesOwned
    <2> QED
      BY <1>2, <2>3, <2>4 DEF WritesOwned
  <1>7. Loads' = Loads /\ Loads \subseteq DOMAIN xfer
    BY <1>2 DEF Loads
  \* the last report of a load leaves nothing of it
  <1>8. ASSUME NEW r \in recv
        PROVE  /\ \A j \in Loads : xfer[j].req # r
               /\ \A s \in DOMAIN steps : \A n \in steps[s].report : n.load /\ n.req = r => s = 1
    <2>1. PICK m \in steps[1].report : m.load /\ m.last /\ m.req = r
      BY <1>3
    <2>2. /\ m.job \notin DOMAIN xfer
          /\ \A t \in DOMAIN steps : \A n \in steps[t].report : 1 < t => n.job # m.job
      BY <1>2, <2>1 DEF MemInv, LoadsOwned, LastsEnd
    <2>3. /\ \A j \in Loads : xfer[j].req = r => j = m.job
          /\ \A t \in DOMAIN steps : \A n \in steps[t].report : n.load /\ n.req = r => n.job = m.job
      BY <1>2, <2>1 DEF MemInv, LoadsOwned, ReportsFill
    <2>4. \A t \in DOMAIN steps : 1 < t \/ t = 1
      BY <1>2
    <2> QED
      BY <1>7, <2>2, <2>3, <2>4
  <1>9. \A r \in Request : req[r].status \in Filling /\ r \notin recv => req'[r].status \in Filling /\ req'[r].blocks = req[r].blocks
    BY <1>3 DEF Filling
  <1>10. LoadsOwned'
    <2>1. BusySilent' /\ LoadsAlone'
      BY <1>2, <1>7 DEF MemInv, LoadsOwned, BusySilent, LoadsAlone
    <2>2. LoadsFill'
      <3>1. \A j \in Loads : xfer[j].req \in Request /\ xfer[j].req \notin recv
        BY <1>7, <1>8, TableTypes DEF XferRec
      <3> QED
        BY <1>2, <1>7, <1>9, <3>1 DEF MemInv, LoadsOwned, LoadsFill
    <2>3. ReportsFill'
      <3>1. ASSUME NEW s \in DOMAIN steps', NEW m \in steps'[s].report, m.load
            PROVE  /\ req'[m.req].status \in Filling
                   /\ \A j \in Loads : xfer[j].req = m.req => j = m.job
                   /\ \A t \in DOMAIN steps' : \A n \in steps'[t].report : n.load /\ n.req = m.req => n.job = m.job
        <4>1. s + 1 \in DOMAIN steps /\ m \in steps[s + 1].report /\ s + 1 # 1
          BY <1>2, <3>1
        <4>2. m.req \in Request /\ m.req \notin recv
          BY <1>8, <3>1, <4>1, TableTypes DEF StepRec, Report
        <4>3. /\ req[m.req].status \in Filling
              /\ \A j \in Loads : xfer[j].req = m.req => j = m.job
              /\ \A t \in DOMAIN steps : \A n \in steps[t].report : n.load /\ n.req = m.req => n.job = m.job
          BY <3>1, <4>1 DEF MemInv, LoadsOwned, ReportsFill
        <4> QED
          BY <1>2, <1>9, <4>2, <4>3
      <3> QED
        BY <1>2, <1>7, <3>1 DEF ReportsFill
    <2>4. LastsEnd'
      <3>1. ASSUME NEW s \in DOMAIN steps', NEW m \in steps'[s].report, m.last
            PROVE  /\ m.job \notin DOMAIN xfer
                   /\ \A t \in DOMAIN steps' : \A n \in steps'[t].report : s < t => n.job # m.job
        <4>1. s + 1 \in DOMAIN steps /\ m \in steps[s + 1].report
          BY <1>2, <3>1
        <4>2. /\ m.job \notin DOMAIN xfer
              /\ \A t \in DOMAIN steps : \A n \in steps[t].report : s + 1 < t => n.job # m.job
          BY <3>1, <4>1 DEF MemInv, LoadsOwned, LastsEnd
        <4>3. \A t \in DOMAIN steps' : s < t => s + 1 < t + 1
          BY <1>2
        <4> QED
          BY <1>2, <4>2, <4>3
      <3> QED
        BY <1>2, <3>1 DEF LastsEnd
    <2> QED
      BY <2>1, <2>2, <2>3, <2>4 DEF LoadsOwned
  <1>11. LoadData'
    <2> SUFFICES ASSUME NEW r \in Request, req'[r].status = "loading", NEW i \in 1..req'[r].computed
                 PROVE  gpu[req'[r].blocks[i]] = KeyAt(r, i) \/ Owed(r, i)'
      BY <1>2 DEF LoadData
    <2>1. /\ req[r].status = "loading" /\ req'[r].blocks = req[r].blocks /\ req[r].blocks[i] \notin inv
          /\ req'[r].computed \in Nat /\ req'[r].computed <= req[r].computed
      BY <1>3
    <2>2. i \in 1..req[r].computed
      BY <2>1, TableTypes DEF ReqRec
    <2>3. gpu[req[r].blocks[i]] = KeyAt(r, i) \/ Owed(r, i)
      BY <2>1, <2>2 DEF MemInv, LoadData
    <2>4. ASSUME NEW s \in DOMAIN steps, NEW m \in steps[s].report, m.load, m.req = r, req[r].blocks[i] \in m.bad
          PROVE  Owed(r, i)'
      <3>1. s # 1
        BY <1>3, <2>1, <2>4
      <3>2. s - 1 \in DOMAIN steps' /\ m \in steps'[s - 1].report
        BY <1>2, <2>4, <3>1
      <3>3. PICK t \in DOMAIN steps' : m \in steps'[t].report
        BY <3>2
      <3> QED
        BY <2>1, <2>4, <3>3 DEF Owed
    <2>5. ASSUME NEW j \in Loads, xfer[j].req = r,
                 \/ Here \in xfer[j].busy /\ <<req[r].blocks[i], KeyAt(r, i)>> \in xfer[j].pairs
                 \/ Here \in xfer[j].unreported /\ req[r].blocks[i] \in xfer[j].bad[Here]
          PROVE  Owed(r, i)'
      BY <1>2, <1>7, <2>1, <2>5 DEF Owed
    <2>6. Owed(r, i) => Owed(r, i)'
      BY <2>4, <2>5 DEF Owed
    <2> QED
      BY <2>1, <2>3, <2>6
  <1>12. PrefixIntact'
    <2>1. ASSUME NEW r \in Request, req'[r].status \in Valid, NEW i \in 1..req'[r].computed
          PROVE  Intact(r, i)'
      <3>1. CASE req[r].status = "loading"
        <4>1. /\ r \in recv /\ req'[r].blocks = req[r].blocks /\ req[r].blocks[i] \notin inv
              /\ req'[r].computed \in Nat /\ req'[r].computed <= req[r].computed
          BY <1>3, <2>1, <3>1 DEF Valid
        <4>2. i \in 1..req[r].computed
          BY <2>1, <4>1, TableTypes DEF ReqRec
        <4>3. ~Owed(r, i)
          <5>1. \A j \in Loads : xfer[j].req # r
            BY <1>8, <4>1
          <5>2. \A s \in DOMAIN steps : \A n \in steps[s].report : n.load /\ n.req = r => req[r].blocks[i] \notin n.bad
            BY <1>3, <1>8, <4>1
          <5> QED
            BY <5>1, <5>2 DEF Owed
        <4>4. gpu[req[r].blocks[i]] = KeyAt(r, i)
          BY <3>1, <4>2, <4>3 DEF MemInv, LoadData
        <4> QED
          BY <1>2, <4>1, <4>4 DEF Intact
      <3>2. CASE req[r].status # "loading"
        <4>1. req'[r] = req[r]
          BY <1>3, <2>1, <3>2 DEF Valid
        <4>2. Intact(r, i)
          BY <2>1, <4>1 DEF MemInv, PrefixIntact, Intact, Valid
        <4>3. PICK p : p = <<req[r].blocks[i], KeyAt(r, i)>>
          OBVIOUS
        <4>4. CASE \E s \in DOMAIN steps : steps[s].state # "ran" /\ p \in steps[s].writes
          <5>1. PICK s \in DOMAIN steps : steps[s].state # "ran" /\ p \in steps[s].writes
            BY <4>4
          <5>2. s # 1
            BY <1>2, <5>1
          <5>3. s - 1 \in DOMAIN steps' /\ steps'[s - 1] = steps[s]
            BY <1>2, <5>2
          <5>4. PICK t \in DOMAIN steps' : steps'[t].state # "ran" /\ p \in steps'[t].writes
            BY <5>1, <5>3
          <5> QED
            BY <4>1, <4>3, <5>4 DEF Intact
        <4> QED
          BY <1>2, <4>1, <4>2, <4>3, <4>4 DEF Intact
      <3> QED
        BY <3>1, <3>2
    <2> QED
      BY <2>1 DEF PrefixIntact, Intact, Valid
  <1>13. UnbornEmpty'
    BY <1>3 DEF MemInv, UnbornEmpty
  <1> QED
    BY <1>4, <1>5, <1>6, <1>10, <1>11, <1>12, <1>13 DEF MemInv

(* The memory invariant holds. *)

LEMMA InitMem == Init => MemInv
  <1> SUFFICES ASSUME Init PROVE MemInv
    OBVIOUS
  <1>1. DOMAIN xfer = {} /\ DOMAIN steps = {} /\ batch.writes = {} /\ batch.sched = {}
    BY DEF Init, NoBatch
  <1>2. \A r \in Request : req[r].status = "unborn" /\ req[r].computed = 0 /\ DOMAIN req[r].blocks = {}
    BY DEF Init
  <1>3. StepsOrdered /\ BlocksApart /\ WritesOwned
    BY <1>1, <1>2 DEF StepsOrdered, BlocksApart, WritesOwned
  <1>4. LoadsOwned
    BY <1>1 DEF LoadsOwned, BusySilent, LoadsFill, LoadsAlone, ReportsFill, LastsEnd, Loads
  <1>5. LoadData /\ PrefixIntact /\ UnbornEmpty
    BY <1>2 DEF LoadData, PrefixIntact, UnbornEmpty
  <1> QED
    BY <1>3, <1>4, <1>5 DEF MemInv

LEMMA NextMem == TableInv /\ MemInv /\ [Next]_vars => MemInv'
  <1> SUFFICES ASSUME TableInv, MemInv, [Next]_vars PROVE MemInv'
    OBVIOUS
  <1>1. CASE UNCHANGED vars
    BY <1>1, StatusKeeps DEF vars
  <1>2. ASSUME NEW r \in Request, Arrive(r) \/ Preempt(r) \/ AdmitLoad(r) \/ Promote(r) \/ Finish(r) \/ BuildStore(r)
        PROVE  MemInv'
    BY <1>2, ArriveMem, PreemptMem, AdmitLoadMem, PromoteMem, FinishMem, BuildStoreMem
  <1>3. ASSUME NEW r \in Request, NEW n \in 0..N(r), ScheduleRunning(r, n)
        PROVE  MemInv'
    <2>1. n \in Nat /\ req[r].status \in {"waiting", "running"} /\ UNCHANGED <<steps, xfer, gpu>>
      BY <1>3, LengthOfKeys DEF ScheduleRunning
    <2>2. PICK new \in Allocations(Lacks(r, n)) : Scheduled(r, n, new)
      BY <1>3 DEF ScheduleRunning
    <2> QED
      BY <2>1, <2>2, ScheduledMem
  <1>4. ASSUME NEW r \in Request, NEW n \in 0..N(r), Admit(r, n)
        PROVE  MemInv'
    <2>1. n \in Nat /\ req[r].status \in {"waiting", "running"} /\ UNCHANGED <<steps, xfer, gpu>>
      BY <1>4, LengthOfKeys DEF Admit
    <2>2. PICK new \in Allocations(Lacks(r, n)) : Scheduled(r, n, new)
      BY <1>4 DEF Admit
    <2> QED
      BY <2>1, <2>2, ScheduledMem
  <1>5. CASE Engine
    BY <1>2, <1>3, <1>4, <1>5, BuildMetaMem, IssueStepMem, ProcessOutputMem, ResetMem DEF Engine
  <1>6. CASE WorkerLoop
    BY <1>6, LaunchMem, ForwardDoneMem DEF WorkerLoop
  <1>7. ASSUME NEW j \in Job, NEW k \in Rank, Transfers(j, k) PROVE MemInv'
    BY <1>7, TransferDoneMem DEF Transfers
  <1> QED
    BY <1>1, <1>5, <1>6, <1>7 DEF Next

\* For any requests, blocks, ranks, jobs, steps in flight, preemptions, failures and
\* resets, forced ones too: what the scheduler counts as computed (num_computed_tokens)
\* is in the request's blocks once the steps in flight have written theirs, except
\* while the request waits for a load. Fenced blocks are not given out before the steps that may write
\* them end, and a failed load cuts the prefix where its first bad block is.
THEOREM PrefixIsIntact == Spec => []PrefixIntact
  <1>1. MemInv => PrefixIntact
    BY DEF MemInv
  <1> QED
    BY <1>1, ConnectorInvariant, InitMem, NextMem, PTL DEF Spec

----------------------------------------------------------------------------
(* What stores have yet to read, and what each action does to it. *)

\* Ids in the batch and in steps are old ones, and name jobs of their kind.
KindsFit ==
    /\ \A j \in toFlush \cup batch.loads \cup batch.stores : j < nextJob
    /\ \A s \in DOMAIN steps : \A j \in steps[s].flush \cup steps[s].loads \cup steps[s].stores : j < nextJob
    /\ \A j \in DOMAIN xfer : j \in batch.loads => j \in Loads
    /\ \A j \in DOMAIN xfer : \A s \in DOMAIN steps : j \in steps[s].loads => j \in Loads
    /\ \A j \in DOMAIN xfer : \A s \in DOMAIN steps : j \in steps[s].stores => j \notin Loads
    /\ \A j \in DOMAIN xfer : j \in batch.stores => j \notin Loads
    /\ \A j \in Loads : xfer[j].at # "deferred"
    /\ \A j \in DOMAIN jobs : ~jobs[j].store => jobs[j].blocks = {}
    /\ \A j \in DOMAIN jobs \cap DOMAIN xfer :
          /\ jobs[j].req = xfer[j].req /\ (jobs[j].store <=> j \notin Loads)
          /\ j \notin Loads => \A p \in xfer[j].pairs : p[1] \in jobs[j].blocks
    /\ batch.preempted # {} => batch.loads = {}
    /\ batch.phase = "plan" => batch.stores = {}

InQueue(j, s) == steps[s].state = "queued" /\ j \in steps[s].loads

\* A load that is flushed has been started before.
LoadsStart ==
    \A j \in Loads : xfer[j].at # "started" =>
        /\ j \in batch.loads \/ \E s \in DOMAIN steps : InQueue(j, s)
        /\ j \in toFlush => \E s \in DOMAIN steps : InQueue(j, s)
        /\ \A s \in DOMAIN steps : steps[s].state = "queued" /\ j \in steps[s].flush =>
              \E t \in DOMAIN steps : t < s /\ InQueue(j, t)

\* The job is going to be flushed before what this schedule() plans.
Guarded(j, s) == \E t \in DOMAIN steps : t <= s /\ steps[t].state = "queued" /\ j \in steps[t].flush
Due(j, b) ==
    \/ j \in toFlush
    \/ \E t \in DOMAIN steps : steps[t].state = "queued" /\ j \in steps[t].flush
    \/ batch.phase = "plan" /\ \E r \in batch.preempted : j \in conn[r].jobs
    \/ batch.phase = "plan" /\ b \in batch.alloc /\ <<b, j>> \in pendingOf

Reads(j) == j \notin Loads /\ Here \in xfer[j].busy

\* A block that a store has yet to read is its request's, watched, or flushed before reuse.
Home(j, p) ==
    \/ Due(j, p[1])
    \/ j \in DOMAIN jobs /\ Computes(xfer[j].req, p)
    \/ <<p[1], j>> \in pendingOf /\ p[1] \notin Held

\* Whoever may overwrite it has to wait for a flush.
StepGuard(j, p) ==
    \A s \in DOMAIN steps : \A q \in steps[s].writes :
        steps[s].state # "ran" /\ q[1] = p[1] => q = p \/ Guarded(j, s)
BatchGuard(j, p) == \A q \in batch.writes : q[1] = p[1] => q = p \/ Due(j, p[1])
LoadGuard(j, p) ==
    \A i \in Loads : Here \in xfer[i].busy => \A q \in xfer[i].pairs : q[1] = p[1] =>
        /\ xfer[i].at # "started"
        /\ \A s \in DOMAIN steps : i \in steps[s].loads => Guarded(j, s)
        /\ i \in batch.loads => Due(j, p[1])

\* It holds what is to be stored, or a step up to the store's own has yet to write it.
Unwritten(p) == \E t \in DOMAIN steps : steps[t].state # "ran" /\ p \in steps[t].writes
Data(j, p) ==
    \/ gpu[p[1]] = p[2]
    \/ \E t, u \in DOMAIN steps : t <= u /\ steps[t].state # "ran" /\ p \in steps[t].writes /\ j \in steps[u].stores
    \/ j \in batch.stores /\ (p \in batch.writes \/ Unwritten(p))

SourceFits ==
    \A j \in DOMAIN xfer : Reads(j) => \A p \in xfer[j].pairs :
        Home(j, p) /\ StepGuard(j, p) /\ BatchGuard(j, p) /\ LoadGuard(j, p) /\ Data(j, p)

FlushInv == KindsFit /\ LoadsStart /\ SourceFits

\* What one store must keep through a step that neither starts, ends nor adds a transfer.
LEMMA KindsFrame ==
    ASSUME KindsFit, FreesOnly, UNCHANGED <<xfer, nextJob>>,
           batch'.loads = batch.loads, batch'.stores = batch.stores,
           \A j \in toFlush' : j < nextJob,
           DOMAIN jobs' \subseteq DOMAIN jobs, \A j \in DOMAIN jobs' : jobs'[j] = jobs[j],
           batch'.preempted # {} => batch.loads = {},
           batch'.phase = "plan" => batch.stores = {}
    PROVE  KindsFit'
  <1>1. Loads' = Loads
    BY DEF Loads
  <1>2. \A s \in DOMAIN steps' : s \in DOMAIN steps /\ steps'[s].flush = steps[s].flush /\ steps'[s].loads = steps[s].loads
                                 /\ steps'[s].stores = steps[s].stores
    BY DEF FreesOnly
  <1>3. /\ \A j \in (toFlush \cup batch.loads \cup batch.stores)' : j < nextJob'
        /\ \A s \in DOMAIN steps' : \A j \in (steps[s].flush \cup steps[s].loads \cup steps[s].stores)' : j < nextJob'
    BY <1>2 DEF KindsFit
  <1>4. /\ \A j \in DOMAIN xfer' : j \in batch'.loads => j \in Loads'
        /\ \A j \in DOMAIN xfer' : \A s \in DOMAIN steps' : j \in steps'[s].loads => j \in Loads'
        /\ \A j \in DOMAIN xfer' : \A s \in DOMAIN steps' : j \in steps'[s].stores => j \notin Loads'
        /\ \A j \in DOMAIN xfer' : j \in batch'.stores => j \notin Loads'
        /\ \A j \in Loads' : xfer'[j].at # "deferred"
    BY <1>1, <1>2 DEF KindsFit
  <1>5. \A j \in DOMAIN jobs' : ~jobs'[j].store => jobs'[j].blocks = {}
    BY DEF KindsFit
  <1>6. \A j \in DOMAIN jobs' \cap DOMAIN xfer' :
          /\ jobs'[j].req = xfer'[j].req /\ (jobs'[j].store <=> j \notin Loads')
          /\ j \notin Loads' => \A p \in xfer'[j].pairs : p[1] \in jobs'[j].blocks
    BY <1>1 DEF KindsFit
  <1> QED
    BY <1>3, <1>4, <1>5, <1>6 DEF KindsFit

LEMMA StartFrame ==
    ASSUME LoadsStart, FreesOnly, UNCHANGED xfer, batch'.loads = batch.loads,
           \A j \in Loads : j \in toFlush' => j \in toFlush \/ batch.loads = {}
    PROVE  LoadsStart'
  <1>1. Loads' = Loads
    BY DEF Loads
  <1>2. /\ \A j : \A s \in DOMAIN steps : InQueue(j, s)' <=> InQueue(j, s)
        /\ DOMAIN steps' = DOMAIN steps
        /\ \A s \in DOMAIN steps : steps'[s].flush = steps[s].flush /\ steps'[s].state = steps[s].state
    BY DEF InQueue, FreesOnly
  <1>3. \A j : (\E s \in DOMAIN steps' : InQueue(j, s)') <=> \E s \in DOMAIN steps : InQueue(j, s)
    BY <1>2
  <1>4. \A j : \A s \in DOMAIN steps : (\E t \in DOMAIN steps' : t < s /\ InQueue(j, t)') <=> \E t \in DOMAIN steps : t < s /\ InQueue(j, t)
    BY <1>2
  <1> HIDE DEF InQueue
  <1>5. ASSUME NEW j \in Loads, xfer[j].at # "started"
        PROVE  /\ j \in batch'.loads \/ \E s \in DOMAIN steps' : InQueue(j, s)'
               /\ j \in toFlush' => \E s \in DOMAIN steps' : InQueue(j, s)'
               /\ \A s \in DOMAIN steps' : steps'[s].state = "queued" /\ j \in steps'[s].flush =>
                     \E t \in DOMAIN steps' : t < s /\ InQueue(j, t)'
    <2>1. /\ j \in batch.loads \/ \E s \in DOMAIN steps : InQueue(j, s)
          /\ j \in toFlush => \E s \in DOMAIN steps : InQueue(j, s)
          /\ \A s \in DOMAIN steps : steps[s].state = "queued" /\ j \in steps[s].flush =>
                \E t \in DOMAIN steps : t < s /\ InQueue(j, t)
      BY <1>5 DEF LoadsStart
    <2>2. j \in batch'.loads \/ \E s \in DOMAIN steps' : InQueue(j, s)'
      BY <1>3, <2>1
    <2>3. j \in toFlush' => \E s \in DOMAIN steps' : InQueue(j, s)'
      BY <1>3, <2>1
    <2>4. \A s \in DOMAIN steps' : steps'[s].state = "queued" /\ j \in steps'[s].flush =>
              \E t \in DOMAIN steps' : t < s /\ InQueue(j, t)'
      BY <1>2, <1>4, <2>1
    <2> QED
      BY <2>2, <2>3, <2>4
  <1> QED
    BY <1>1, <1>5 DEF LoadsStart

LEMMA SourceFrame ==
    ASSUME SourceFits, FreesOnly, UNCHANGED <<xfer, gpu>>, batch'.writes = batch.writes,
           batch'.loads = batch.loads, batch'.stores = batch.stores,
           \A j \in DOMAIN xfer : Reads(j) => \A p \in xfer[j].pairs : Due(j, p[1]) => Due(j, p[1])',
           \A j \in DOMAIN xfer : Reads(j) => \A p \in xfer[j].pairs : Home(j, p) => Home(j, p)'
    PROVE  SourceFits'
  <1>1. Loads' = Loads /\ \A j : Reads(j)' <=> Reads(j)
    BY DEF Loads, Reads
  <1>2. DOMAIN steps' = DOMAIN steps /\ \A s \in DOMAIN steps :
          /\ steps'[s].flush = steps[s].flush /\ steps'[s].loads = steps[s].loads /\ steps'[s].stores = steps[s].stores
          /\ steps'[s].writes = steps[s].writes /\ steps'[s].state = steps[s].state
    BY DEF FreesOnly
  <1>3. \A j : \A s \in DOMAIN steps : Guarded(j, s) => Guarded(j, s)'
    BY <1>2 DEF Guarded
  <1>4. ASSUME NEW j \in DOMAIN xfer, Reads(j), NEW p \in xfer[j].pairs
        PROVE  (Home(j, p) /\ StepGuard(j, p) /\ BatchGuard(j, p) /\ LoadGuard(j, p) /\ Data(j, p))'
    <2>1. Home(j, p) /\ StepGuard(j, p) /\ BatchGuard(j, p) /\ LoadGuard(j, p) /\ Data(j, p)
      BY <1>4 DEF SourceFits
    <2>2. Due(j, p[1]) => Due(j, p[1])'
      BY <1>4
    <2>3. Home(j, p)'
      BY <1>4, <2>1
    <2> HIDE DEF Guarded, Due, Home
    <2>4. StepGuard(j, p)'
      BY <1>2, <1>3, <2>1 DEF StepGuard
    <2>5. BatchGuard(j, p)'
      BY <2>1, <2>2 DEF BatchGuard
    <2>6. LoadGuard(j, p)'
      BY <1>1, <1>2, <1>3, <2>1, <2>2 DEF LoadGuard
    <2>7. Data(j, p)'
      BY <1>2, <2>1 DEF Data, Unwritten
    <2> QED
      BY <2>3, <2>4, <2>5, <2>6, <2>7
  <1> HIDE DEF Home, StepGuard, BatchGuard, LoadGuard, Data, Reads
  <1> QED
    BY <1>1, <1>4 DEF SourceFits

LEMMA DueFrame ==
    ASSUME FreesOnly, toFlush \subseteq toFlush', batch'.phase = batch.phase,
           batch.preempted \subseteq batch'.preempted, batch.preempted \subseteq Request,
           batch.alloc \subseteq batch'.alloc, pendingOf \subseteq pendingOf',
           \A r \in Request : conn[r].jobs \subseteq conn'[r].jobs
    PROVE  \A j, b : Due(j, b) => Due(j, b)'
  BY DEF Due, FreesOnly

\* Requests end, pause or change their status.
LEMMA CalmFrame ==
    ASSUME TableInv, FlushInv, FreesOnly, UNCHANGED <<xfer, gpu, nextJob, toFlush, jobs>>,
           batch'.writes = batch.writes, batch'.loads = batch.loads, batch'.stores = batch.stores,
           batch'.phase = batch.phase, batch'.alloc = batch.alloc, batch.preempted \subseteq batch'.preempted,
           batch'.preempted # {} => batch.loads = {}, pendingOf \subseteq pendingOf',
           \A r \in Request : conn[r].jobs \subseteq conn'[r].jobs,
           \A r \in Request : req'[r].blocks = req[r].blocks \/ req'[r].blocks = <<>>,
           \A j \in DOMAIN xfer : Reads(j) => \A p \in xfer[j].pairs :
              j \in DOMAIN jobs /\ Computes(xfer[j].req, p) => Home(j, p)'
    PROVE  FlushInv'
  <1>1. \A j, b : Due(j, b) => Due(j, b)'
    BY DueFrame, TableTypes DEF BatchRec
  <1>2. Held' \subseteq Held
    BY DEF Held, ToSet
  <1>3. ASSUME NEW j \in DOMAIN xfer, Reads(j), NEW p \in xfer[j].pairs, Home(j, p) PROVE Home(j, p)'
    <2>1. CASE Due(j, p[1])
      BY <1>1, <2>1 DEF Home
    <2>2. CASE j \in DOMAIN jobs /\ Computes(xfer[j].req, p)
      BY <1>3, <2>2
    <2>3. CASE <<p[1], j>> \in pendingOf /\ p[1] \notin Held
      BY <1>2, <2>3 DEF Home
    <2> QED
      BY <1>3, <2>1, <2>2, <2>3 DEF Home
  <1> HIDE DEF Due, Home, Reads
  <1>4. SourceFits'
    BY <1>1, <1>3, SourceFrame DEF FlushInv
  <1>5. KindsFit'
    <2>1. \A j \in toFlush' : j < nextJob
      BY DEF FlushInv, KindsFit
    <2>2. batch'.phase = "plan" => batch.stores = {}
      BY DEF FlushInv, KindsFit
    <2> QED
      BY <2>1, <2>2, KindsFrame DEF FlushInv
  <1>6. LoadsStart'
    BY StartFrame DEF FlushInv
  <1> QED
    BY <1>4, <1>5, <1>6 DEF FlushInv

LEMMA ArriveFlush ==
    ASSUME TableInv, FlushInv, NEW r \in Request, Arrive(r)
    PROVE  FlushInv'
  <1>1. /\ UNCHANGED <<jobs, pendingOf, toFlush, nextJob, batch, steps, xfer, gpu>> /\ req[r].status = "unborn"
        /\ req' = [req EXCEPT ![r].status = "waiting"] /\ conn' = [conn EXCEPT ![r].tracked = TRUE]
        /\ batch.preempted = {}
    BY DEF Arrive, Idle, NoBatch
  <1>2. FreesOnly
    BY <1>1, SameSteps, TableTypes
  <1>3. /\ \A q \in Request : req'[q].blocks = req[q].blocks /\ (q # r => req'[q] = req[q])
        /\ \A q \in Request : conn'[q].jobs = conn[q].jobs
    BY <1>1, TableTypes DEF ReqRec, ConnRec
  <1>4. \A q \in Request : \A p : Computes(q, p) => Computes(q, p)'
    BY <1>1, <1>3 DEF Computes
  <1>5. \A j \in DOMAIN xfer : Reads(j) => \A p \in xfer[j].pairs :
              j \in DOMAIN jobs /\ Computes(xfer[j].req, p) => Home(j, p)'
    <2>1. \A j \in DOMAIN xfer : xfer[j].req \in Request /\ xfer'[j].req = xfer[j].req
      BY <1>1, TableTypes DEF XferRec
    <2>2. ASSUME NEW j \in DOMAIN xfer, NEW p, j \in DOMAIN jobs, Computes(xfer[j].req, p) PROVE Home(j, p)'
      <3>1. PICK q \in Request : q = xfer[j].req /\ q = xfer'[j].req
        BY <2>1, <2>2
      <3>2. Computes(q, p)'
        BY <1>4, <2>2, <3>1
      <3> QED
        BY <1>1, <2>2, <3>1, <3>2 DEF Home
    <2> QED
      BY <2>2
  <1> QED
    BY <1>1, <1>2, <1>3, <1>5, CalmFrame

LEMMA PromoteFlush ==
    ASSUME TableInv, FlushInv, NEW r \in Request, Promote(r)
    PROVE  FlushInv'
  <1>1. /\ UNCHANGED <<conn, jobs, pendingOf, toFlush, nextJob, batch, steps, xfer, gpu>> /\ req[r].status = "received"
        /\ req' = [req EXCEPT ![r] = [status |-> "waiting", computed |-> @.computed,
                                      blocks |-> IF @.computed > 0 THEN @.blocks ELSE <<>>]]
        /\ batch.preempted = {}
    BY DEF Promote
  <1>2. FreesOnly
    BY <1>1, SameSteps, TableTypes
  <1>3. \A q \in Request : (req'[q].blocks = req[q].blocks \/ req'[q].blocks = <<>>) /\ (q # r => req'[q] = req[q])
    BY <1>1, TableTypes DEF ReqRec
  <1>4. \A q \in Request : \A p : Computes(q, p) => Computes(q, p)'
    BY <1>1, <1>3 DEF Computes
  <1>5. \A j \in DOMAIN xfer : Reads(j) => \A p \in xfer[j].pairs :
              j \in DOMAIN jobs /\ Computes(xfer[j].req, p) => Home(j, p)'
    <2>1. \A j \in DOMAIN xfer : xfer[j].req \in Request /\ xfer'[j].req = xfer[j].req
      BY <1>1, TableTypes DEF XferRec
    <2>2. ASSUME NEW j \in DOMAIN xfer, NEW p, j \in DOMAIN jobs, Computes(xfer[j].req, p) PROVE Home(j, p)'
      <3>1. PICK q \in Request : q = xfer[j].req /\ q = xfer'[j].req
        BY <2>1, <2>2
      <3>2. Computes(q, p)'
        BY <1>4, <2>2, <3>1
      <3> QED
        BY <1>1, <2>2, <3>1, <3>2 DEF Home
    <2> QED
      BY <2>2
  <1> QED
    BY <1>1, <1>2, <1>3, <1>5, CalmFrame

LEMMA PreemptFlush ==
    ASSUME TableInv, FlushInv, NEW r \in Request, Preempt(r)
    PROVE  FlushInv'
  <1>1. /\ steps' = FencedFree({r}) /\ batch.loads = {} /\ batch.phase = "plan"
        /\ req' = [req EXCEPT ![r] = [status |-> "waiting", computed |-> 0, blocks |-> <<>>]]
        /\ UNCHANGED <<conn, jobs, pendingOf, toFlush, nextJob, xfer, gpu>>
    BY DEF Preempt, Planning
  <1>2. PICK q \in Request : batch' = [batch EXCEPT !.preempted = @ \cup {r}, !.owed = @ \cup {q}]
    BY DEF Preempt
  <1>3. /\ batch'.writes = batch.writes /\ batch'.loads = batch.loads /\ batch'.stores = batch.stores
        /\ batch'.phase = batch.phase /\ batch'.alloc = batch.alloc /\ batch'.preempted = batch.preempted \cup {r}
    BY <1>2, TableTypes DEF BatchRec
  <1>4. FreesOnly
    BY <1>1, FencedFreeFits
  <1>5. \A z \in Request : (req'[z].blocks = req[z].blocks \/ req'[z].blocks = <<>>) /\ (z # r => req'[z] = req[z])
    BY <1>1, TableTypes
  <1>6. ASSUME NEW j \in DOMAIN xfer, NEW p, j \in DOMAIN jobs, Computes(xfer[j].req, p) PROVE Home(j, p)'
    <2>1. PICK z \in Request : z = xfer[j].req /\ z = xfer'[j].req
      BY <1>1, TableTypes DEF XferRec
    <2>2. CASE z # r
      <3>1. Computes(z, p)'
        BY <1>5, <1>6, <2>1, <2>2 DEF Computes
      <3> QED
        BY <1>1, <1>6, <2>1, <3>1 DEF Home
    <2>3. CASE z = r
      <3>1. jobs[j].req = r
        BY <1>6, <2>1, <2>3 DEF FlushInv, KindsFit
      <3>2. j \in conn[r].jobs
        BY <1>6, <3>1 DEF TableInv, TablesFit
      <3>3. j \in conn'[r].jobs /\ r \in batch'.preempted /\ batch'.phase = "plan"
        BY <1>1, <1>3, <3>2
      <3> QED
        BY <3>3 DEF Home, Due
    <2> QED
      BY <2>2, <2>3
  <1> QED
    BY <1>1, <1>3, <1>4, <1>5, <1>6, CalmFrame

LEMMA FinishFlush ==
    ASSUME TableInv, MemInv, FlushInv, NEW r \in Request, Finish(r)
    PROVE  FlushInv'
  <1>1. /\ UNCHANGED <<jobs, toFlush, nextJob, batch, xfer, gpu>> /\ batch.preempted = {}
        /\ conn' = [conn EXCEPT ![r].tracked = Kept(r)] /\ pendingOf' = pendingOf \cup Watched(r)
    BY DEF Finish, Idle, NoBatch
  <1>2. \A q \in Request : conn'[q].jobs = conn[q].jobs
    <2>1. PICK k : k = Kept(r)
      OBVIOUS
    <2>2. conn' = [conn EXCEPT ![r].tracked = k]
      BY <1>1, <2>1
    <2> QED
      BY <2>2, TableTypes DEF ConnRec
  <1>3. FreesOnly
    <2>1. steps' = steps \/ steps' = FencedFree({r})
      BY DEF Finish
    <2> QED
      BY <2>1, FencedFreeFits, SameSteps, TableTypes
  <1>4. /\ \A q \in Request : q # r => req'[q] = req[q]
        /\ req'[r].blocks = req[r].blocks \/ req'[r].blocks = <<>>
        /\ req[r].status = "running" => req'[r].blocks = <<>>
    <2>1. CASE req[r].status = "loading"
      <3>1. req' = [req EXCEPT ![r] = [@ EXCEPT !.status = "finished"]]
        BY <2>1 DEF Finish
      <3> QED
        BY <2>1, <3>1, TableTypes DEF ReqRec
    <2>2. CASE req[r].status # "loading"
      <3>1. req' = [req EXCEPT ![r] = [status |-> "gone", computed |-> 0, blocks |-> <<>>]]
        BY <2>2 DEF Finish
      <3> QED
        BY <3>1, TableTypes
    <2> QED
      BY <2>1, <2>2
  <1>5. ASSUME NEW j \in DOMAIN xfer, Reads(j), NEW p \in xfer[j].pairs, j \in DOMAIN jobs, Computes(xfer[j].req, p)
        PROVE  Home(j, p)'
    <2>1. PICK z \in Request : z = xfer[j].req /\ z = xfer'[j].req
      BY <1>1, TableTypes DEF XferRec
    <2>2. CASE z # r
      <3>1. Computes(z, p)'
        BY <1>4, <1>5, <2>1, <2>2 DEF Computes
      <3> QED
        BY <1>1, <1>5, <2>1, <3>1 DEF Home
    <2>3. CASE z = r
      <3>1. jobs[j].req = r /\ p[1] \in jobs[j].blocks
        BY <1>5, <2>1, <2>3 DEF FlushInv, KindsFit, Reads
      <3>2. j \in conn[r].jobs
        BY <1>5, <3>1 DEF TableInv, TablesFit
      <3>3. <<p[1], j>> \in pendingOf'
        BY <1>1, <3>1, <3>2 DEF Watched
      <3>4. PICK i \in 1..req[r].computed : p = <<req[r].blocks[i], KeyAt(r, i)>>
        BY <1>5, <2>1, <2>3 DEF Computes
      <3>5. i \in DOMAIN req[r].blocks /\ p[1] = req[r].blocks[i] /\ req[r].status = "running"
        BY <1>5, <2>1, <2>3, <3>4, TableTypes DEF TableInv, ReqsFit, ReqRec, Computes
      <3>6. \A q \in Request : \A k \in DOMAIN req'[q].blocks : req'[q].blocks[k] # p[1]
        BY <1>4, <3>5 DEF MemInv, BlocksApart
      <3>7. p[1] \notin Held'
        BY <3>6 DEF Held, ToSet
      <3> QED
        BY <3>3, <3>7 DEF Home
    <2> QED
      BY <2>2, <2>3
  <1> QED
    BY <1>1, <1>2, <1>3, <1>4, <1>5, CalmFrame

\* The watch names store jobs that the connector knows.
LEMMA WatchedStores ==
    ASSUME TableInv, FlushInv, NEW b, NEW j, <<b, j>> \in pendingOf
    PROVE  j \in DOMAIN jobs /\ j \notin Loads
  <1>1. j \in DOMAIN jobs /\ b \in jobs[j].blocks
    BY DEF TableInv, FinishedAccounted
  <1>2. jobs[j].store
    BY <1>1 DEF FlushInv, KindsFit
  <1>3. j \in Loads => j \in DOMAIN xfer
    BY DEF Loads
  <1> QED
    BY <1>1, <1>2, <1>3 DEF FlushInv, KindsFit

LEMMA BuildMetaFlush ==
    ASSUME TableInv, FlushInv, BuildMeta
    PROVE  FlushInv'
  <1>1. /\ UNCHANGED <<req, conn, jobs, pendingOf, nextJob, steps, xfer, gpu>> /\ batch.phase = "plan"
        /\ batch' = [batch EXCEPT !.phase = "stores"] /\ toFlush' = toFlush \cup FlushPreempted \cup FlushReused
    BY DEF BuildMeta, Planning
  <1>2. /\ batch'.writes = batch.writes /\ batch'.loads = batch.loads /\ batch'.stores = batch.stores
        /\ batch'.phase = "stores" /\ batch'.preempted = batch.preempted
    BY <1>1, TableTypes DEF BatchRec
  <1>3. FreesOnly
    BY <1>1, SameSteps, TableTypes
  <1>4. batch.preempted \subseteq Request /\ pendingOf \subseteq Block \X Job
    <2>1. \A j \in DOMAIN jobs : j \in Job /\ jobs[j].blocks \subseteq Block
      BY TableTypes DEF JobRec
    <2> QED
      BY <2>1, TableTypes DEF BatchRec, TableInv, FinishedAccounted
  <1>5. ASSUME NEW j, NEW b, Due(j, b) PROVE Due(j, b)'
    <2>1. CASE j \in toFlush
      BY <1>1, <2>1 DEF Due
    <2>2. CASE \E t \in DOMAIN steps : steps[t].state = "queued" /\ j \in steps[t].flush
      BY <1>1, <2>2 DEF Due
    <2>3. CASE \E r \in batch.preempted : j \in conn[r].jobs
      BY <1>1, <2>3 DEF Due, FlushPreempted
    <2>4. CASE b \in batch.alloc /\ <<b, j>> \in pendingOf
      <3>1. PICK q \in pendingOf : q = <<b, j>>
        BY <2>4
      <3>2. q[1] \in batch.alloc /\ q[2] = j
        BY <2>4, <3>1
      <3>3. j \in FlushReused
        BY <3>1, <3>2 DEF FlushReused
      <3> QED
        BY <1>1, <3>3 DEF Due
    <2> QED
      BY <1>5, <2>1, <2>2, <2>3, <2>4 DEF Due
  <1>6. \A j, p : Home(j, p) => Home(j, p)'
    <2>1. Held' = Held /\ \A r, p : Computes(r, p)' <=> Computes(r, p)
      BY <1>1 DEF Held, Computes
    <2> HIDE DEF Due, Held
    <2> SUFFICES ASSUME NEW j, NEW p, Home(j, p) PROVE Home(j, p)'
      OBVIOUS
    <2>2. CASE Due(j, p[1])
      BY <1>5, <2>2 DEF Home
    <2>3. CASE j \in DOMAIN jobs /\ Computes(xfer[j].req, p)
      <3>1. PICK r : r = xfer[j].req
        OBVIOUS
      <3>2. Computes(r, p)' /\ r = xfer'[j].req
        BY <1>1, <2>1, <2>3, <3>1
      <3> QED
        BY <1>1, <2>3, <3>2 DEF Home
    <2>4. CASE <<p[1], j>> \in pendingOf /\ p[1] \notin Held
      BY <1>1, <2>1, <2>4 DEF Home
    <2> QED
      BY <2>2, <2>3, <2>4 DEF Home
  <1>7. ASSUME NEW j \in toFlush', j \notin toFlush
        PROVE  j < nextJob /\ (j \in Loads => batch.loads = {})
    <2>1. CASE j \in FlushPreempted
      <3>1. PICK r \in batch.preempted : j \in conn[r].jobs
        BY <2>1 DEF FlushPreempted
      <3>2. j < nextJob
        BY <1>4, <3>1 DEF TableInv, TablesFit
      <3> QED
        BY <3>1, <3>2 DEF FlushInv, KindsFit
    <2>2. CASE j \in FlushReused
      <3>1. PICK q \in pendingOf : j = q[2]
        BY <2>2 DEF FlushReused
      <3>2. PICK b : q = <<b, j>>
        BY <1>4, <3>1
      <3>3. j \in DOMAIN jobs /\ j \notin Loads
        BY <3>1, <3>2, WatchedStores
      <3> QED
        BY <3>3 DEF TableInv, IdsFit
    <2> QED
      BY <1>1, <1>7, <2>1, <2>2
  <1> HIDE DEF Due, Home
  <1>8. SourceFits'
    BY <1>1, <1>2, <1>3, <1>5, <1>6, SourceFrame DEF FlushInv
  <1>9. KindsFit'
    <2>1. \A j \in toFlush' : j < nextJob
      BY <1>7 DEF FlushInv, KindsFit
    <2>2. batch'.preempted # {} => batch.loads = {}
      BY <1>2 DEF FlushInv, KindsFit
    <2> QED
      BY <1>1, <1>2, <1>3, <2>1, <2>2, KindsFrame DEF FlushInv
  <1>10. LoadsStart'
    BY <1>1, <1>2, <1>3, <1>7, StartFrame DEF FlushInv
  <1> QED
    BY <1>8, <1>9, <1>10 DEF FlushInv

LEMMA ResetFlush ==
    ASSUME TableInv, FlushInv, NEW kind \in ResetKinds, ~kind.running, Reset(kind)
    PROVE  FlushInv'
  <1> DEFINE R == {r \in Request : kind.running /\ req[r].status = "running"}
  <1>1. /\ batch = NoBatch /\ steps' = FencedFree(R) /\ UNCHANGED <<nextJob, batch, xfer, gpu>>
        /\ req' = [r \in Request |-> IF r \in R
                     THEN [status |-> "waiting", computed |-> 0, blocks |-> <<>>] ELSE req[r]]
    BY DEF Reset, Idle
  <1>2. R = {}
    OBVIOUS
  <1>3. req' = req
    BY <1>1, <1>2, TableTypes
  <1>4. FreesOnly
    BY <1>1, <1>2, FencedFreeFits
  <1>5. /\ batch.preempted = {} /\ batch.alloc = {} /\ batch.loads = {} /\ batch.stores = {}
    BY <1>1 DEF NoBatch
  <1>6. Held' = Held /\ \A r, p : Computes(r, p)' <=> Computes(r, p)
    BY <1>3 DEF Held, Computes
  <1> HIDE DEF R
  <1>7. CASE UNCHANGED <<toFlush, conn, jobs, pendingOf>>
    <2>1. ASSUME NEW j \in DOMAIN xfer, NEW p, j \in DOMAIN jobs, Computes(xfer[j].req, p) PROVE Home(j, p)'
      <3>1. PICK r : r = xfer[j].req
        OBVIOUS
      <3>2. Computes(r, p)' /\ r = xfer'[j].req
        BY <1>1, <1>6, <2>1, <3>1
      <3> QED
        BY <1>7, <2>1, <3>2 DEF Home
    <2> QED
      BY <1>1, <1>3, <1>4, <1>5, <1>7, <2>1, CalmFrame
  <1>8. CASE ResetConnector
    <2>1. toFlush = {} /\ toFlush' = DOMAIN jobs /\ jobs' = <<>> /\ pendingOf' = {}
      BY <1>8 DEF ResetConnector, FlushAll
    <2>2. \A j, b : Due(j, b) => Due(j, b)'
      BY <1>4, <1>5, <2>1 DEF Due, FreesOnly
    <2>3. \A j \in DOMAIN jobs : \A b : Due(j, b)'
      BY <2>1 DEF Due
    <2>4. ASSUME NEW j, NEW p, Home(j, p) PROVE Home(j, p)'
      <3>1. CASE Due(j, p[1])
        BY <2>2, <3>1 DEF Home
      <3>2. CASE j \in DOMAIN jobs
        BY <2>3, <3>2 DEF Home
      <3>3. CASE <<p[1], j>> \in pendingOf
        BY <2>3, <3>3, WatchedStores DEF Home
      <3> QED
        BY <2>4, <3>1, <3>2, <3>3 DEF Home
    <2> HIDE DEF Due, Home
    <2>5. SourceFits'
      BY <1>1, <1>4, <2>2, <2>4, SourceFrame DEF FlushInv
    <2>6. KindsFit'
      <3>1. \A j \in toFlush' : j < nextJob
        BY <2>1 DEF TableInv, IdsFit
      <3>2. DOMAIN jobs' \subseteq DOMAIN jobs /\ \A j \in DOMAIN jobs' : jobs'[j] = jobs[j]
        BY <2>1
      <3> QED
        BY <1>1, <1>4, <1>5, <3>1, <3>2, KindsFrame DEF FlushInv
    <2>7. LoadsStart'
      BY <1>1, <1>4, <1>5, StartFrame DEF FlushInv
    <2> QED
      BY <2>5, <2>6, <2>7 DEF FlushInv
  <1> QED
    BY <1>7, <1>8 DEF Reset

LEMMA ScheduledFlush ==
    ASSUME TableInv, MemInv, FlushInv, NEW r \in Request, NEW n \in Nat, req[r].status \in {"waiting", "running"},
           NEW new \in Allocations(Lacks(r, n)), Scheduled(r, n, new), batch.phase = "plan",
           UNCHANGED <<conn, jobs, pendingOf, toFlush, nextJob, steps, xfer, gpu>>
    PROVE  FlushInv'
  <1>1. /\ \A q \in Request : q # r => req'[q] = req[q]
        /\ req'[r].status = "running" /\ req'[r].computed = req[r].computed + n /\ req'[r].computed <= Len(req'[r].blocks)
        /\ req'[r].blocks \in Seq(Block)
        /\ \A i \in DOMAIN req[r].blocks : i \in DOMAIN req'[r].blocks /\ req'[r].blocks[i] = req[r].blocks[i]
        /\ \A i \in DOMAIN req'[r].blocks : i \notin DOMAIN req[r].blocks =>
              req'[r].blocks[i] \in Free /\ req'[r].blocks[i] \in batch'.alloc
        /\ batch.alloc \subseteq batch'.alloc
        /\ batch'.writes = batch.writes \cup
              {<<req'[r].blocks[i], KeyAt(r, i)>> : i \in req[r].computed + 1 .. req[r].computed + n}
        /\ batch'.loads = batch.loads /\ batch'.stores = batch.stores
        /\ batch'.preempted = batch.preempted /\ batch'.phase = batch.phase
    BY ScheduledView
  <1>2. FreesOnly
    BY SameSteps, TableTypes
  <1>3. \A j, b : Due(j, b) => Due(j, b)'
    BY <1>1, <1>2, DueFrame, TableTypes DEF BatchRec
  <1>4. /\ req[r].computed \in Nat /\ req[r].computed <= Len(req[r].blocks) /\ DOMAIN req[r].blocks = 1..Len(req[r].blocks)
        /\ Len(req[r].blocks) \in Nat
    BY TableTypes DEF TableInv, ReqsFit, ReqRec
  <1>5. ASSUME NEW q \in Request, NEW p, Computes(q, p) PROVE Computes(q, p)'
    <2>1. PICK i \in 1..req[q].computed : p = <<req[q].blocks[i], KeyAt(q, i)>>
      BY <1>5 DEF Computes
    <2>2. CASE q = r
      <3>1. i \in DOMAIN req[r].blocks /\ i \in 1..req[r].computed
        BY <1>4, <2>1, <2>2
      <3>2. req'[r].computed \in Nat /\ i \in 1..req'[r].computed
        BY <1>1, <1>4, <3>1
      <3>3. req'[r].blocks[i] = req[r].blocks[i] /\ req'[r].status = "running"
        BY <1>1, <3>1
      <3> QED
        BY <2>1, <2>2, <3>2, <3>3 DEF Computes
    <2>3. CASE q # r
      BY <1>1, <1>5, <2>3 DEF Computes
    <2> QED
      BY <2>2, <2>3
  <1>6. \A b \in Held' : b \in Held \/ b \in batch'.alloc
    BY <1>1 DEF Held, ToSet
  <1>7. ASSUME NEW j \in DOMAIN xfer, NEW p, Home(j, p) PROVE Home(j, p)'
    <2>1. CASE Due(j, p[1])
      BY <1>3, <2>1 DEF Home
    <2>2. CASE j \in DOMAIN jobs /\ Computes(xfer[j].req, p)
      <3>1. PICK q \in Request : q = xfer[j].req /\ q = xfer'[j].req
        BY TableTypes DEF XferRec
      <3>2. Computes(q, p)'
        BY <1>5, <2>2, <3>1
      <3> QED
        BY <2>2, <3>1, <3>2 DEF Home
    <2>3. CASE <<p[1], j>> \in pendingOf /\ p[1] \notin Held
      <3>1. CASE p[1] \in Held'
        <4>1. p[1] \in batch'.alloc /\ <<p[1], j>> \in pendingOf' /\ batch'.phase = "plan"
          BY <1>1, <1>6, <2>3, <3>1
        <4> QED
          BY <4>1 DEF Home, Due
      <3>2. CASE p[1] \notin Held'
        BY <2>3, <3>2 DEF Home
      <3> QED
        BY <3>1, <3>2
    <2> QED
      BY <1>7, <2>1, <2>2, <2>3 DEF Home
  \* what the step is to write is not read by a store without a flush between
  <1>8. ASSUME NEW j \in DOMAIN xfer, NEW p, Home(j, p), NEW i \in req[r].computed + 1 .. req[r].computed + n,
               req'[r].blocks[i] = p[1]
        PROVE  Due(j, p[1])'
    <2>1. i \in DOMAIN req'[r].blocks
      BY <1>1, <1>4
    <2>2. CASE Due(j, p[1])
      BY <1>3, <2>2
    <2>3. CASE j \in DOMAIN jobs /\ Computes(xfer[j].req, p)
      <3>1. PICK q \in Request : q = xfer[j].req
        BY TableTypes DEF XferRec
      <3>2. PICK k \in 1..req[q].computed : p = <<req[q].blocks[k], KeyAt(q, k)>>
        BY <2>3, <3>1 DEF Computes
      <3>3. k \in DOMAIN req[q].blocks /\ p[1] = req[q].blocks[k]
        BY <3>2, TableTypes DEF TableInv, ReqsFit, ReqRec
      <3>4. p[1] \notin Free
        BY <3>3 DEF Free, Held, ToSet
      <3>5. i \in DOMAIN req[r].blocks /\ req[r].blocks[i] = p[1]
        BY <1>1, <1>8, <2>1, <3>4
      <3>6. q = r /\ k = i
        BY <3>3, <3>5 DEF MemInv, BlocksApart
      <3> QED
        BY <1>4, <1>8, <3>2, <3>6
    <2>4. CASE <<p[1], j>> \in pendingOf /\ p[1] \notin Held
      <3>1. i \notin DOMAIN req[r].blocks
        BY <1>1, <1>8, <2>4 DEF Held, ToSet
      <3>2. p[1] \in batch'.alloc /\ <<p[1], j>> \in pendingOf' /\ batch'.phase = "plan"
        BY <1>1, <1>8, <2>1, <2>4, <3>1
      <3> QED
        BY <3>2 DEF Due
    <2> QED
      BY <1>8, <2>2, <2>3, <2>4 DEF Home
  <1>9. Loads' = Loads /\ \A j : Reads(j)' <=> Reads(j)
    BY DEF Loads, Reads
  <1>10. \A j, s : Guarded(j, s)' <=> Guarded(j, s)
    BY DEF Guarded
  <1>11. ASSUME NEW j \in DOMAIN xfer, Reads(j), NEW p \in xfer[j].pairs
         PROVE  (Home(j, p) /\ StepGuard(j, p) /\ BatchGuard(j, p) /\ LoadGuard(j, p) /\ Data(j, p))'
    <2>1. Home(j, p) /\ StepGuard(j, p) /\ BatchGuard(j, p) /\ LoadGuard(j, p) /\ Data(j, p)
      BY <1>11 DEF FlushInv, SourceFits
    <2>2. Home(j, p)'
      BY <1>7, <2>1
    <2> HIDE DEF Due, Home, Guarded
    <2>3. StepGuard(j, p)'
      BY <1>10, <2>1 DEF StepGuard
    <2>4. BatchGuard(j, p)'
      <3> SUFFICES ASSUME NEW q \in batch'.writes, q[1] = p[1], q # p PROVE Due(j, p[1])'
        BY DEF BatchGuard
      <3>1. CASE q \in batch.writes
        BY <1>3, <2>1, <3>1 DEF BatchGuard
      <3>2. CASE q \notin batch.writes
        <4>1. PICK i \in req[r].computed + 1 .. req[r].computed + n : q = <<req'[r].blocks[i], KeyAt(r, i)>>
          BY <1>1, <3>2
        <4>2. req'[r].blocks[i] = p[1]
          BY <4>1
        <4> QED
          BY <1>8, <2>1, <4>1, <4>2
      <3> QED
        BY <3>1, <3>2
    <2>5. LoadGuard(j, p)'
      BY <1>1, <1>3, <1>9, <1>10, <2>1 DEF LoadGuard
    <2>6. Data(j, p)'
      BY <1>1, <2>1 DEF Data, Unwritten
    <2> QED
      BY <2>2, <2>3, <2>4, <2>5, <2>6
  <1>12. SourceFits'
    <2> HIDE DEF Home, StepGuard, BatchGuard, LoadGuard, Data, Reads
    <2> QED
      BY <1>9, <1>11 DEF SourceFits
  <1>13. KindsFit'
    <2>1. /\ \A j \in toFlush' : j < nextJob
          /\ batch'.preempted # {} => batch.loads = {}
          /\ batch'.phase = "plan" => batch.stores = {}
      BY <1>1 DEF FlushInv, KindsFit
    <2> QED
      BY <1>1, <1>2, <2>1, KindsFrame DEF FlushInv
  <1>14. LoadsStart'
    BY <1>1, <1>2, StartFrame DEF FlushInv
  <1> QED
    BY <1>12, <1>13, <1>14 DEF FlushInv

\* The transfer id joins: what it must bring for each part of the invariant.
Grows(id) ==
    /\ id \notin DOMAIN xfer /\ DOMAIN xfer' = DOMAIN xfer \cup {id} /\ \A j \in DOMAIN xfer : xfer'[j] = xfer[j]
    /\ xfer'[id].at = "queued" /\ batch'.writes = batch.writes /\ UNCHANGED <<pendingOf, toFlush, steps, gpu>>
    /\ batch.loads \subseteq batch'.loads /\ batch'.loads \subseteq batch.loads \cup {id}
    /\ batch.stores \subseteq batch'.stores /\ batch'.stores \subseteq batch.stores \cup {id}
    /\ batch'.phase = batch.phase

LEMMA GrowSource ==
    ASSUME SourceFits, NEW id, Grows(id),
           \A j \in DOMAIN xfer : Reads(j) => \A p \in xfer[j].pairs : Due(j, p[1]) => Due(j, p[1])',
           \A j \in DOMAIN xfer : Reads(j) => \A p \in xfer[j].pairs : Home(j, p) => Home(j, p)',
           id \in Loads' => \A j \in DOMAIN xfer : Reads(j) => \A p \in xfer[j].pairs : \A q \in xfer'[id].pairs :
              q[1] = p[1] => (\A s \in DOMAIN steps : id \notin steps[s].loads) /\ Due(j, p[1])',
           id \notin Loads' => \A p \in xfer'[id].pairs :
              (Home(id, p) /\ StepGuard(id, p) /\ BatchGuard(id, p) /\ LoadGuard(id, p) /\ Data(id, p))'
    PROVE  SourceFits'
  <1>1. /\ id \notin DOMAIN xfer /\ DOMAIN xfer' = DOMAIN xfer \cup {id} /\ \A j \in DOMAIN xfer : xfer'[j] = xfer[j]
        /\ xfer'[id].at = "queued" /\ batch'.writes = batch.writes /\ UNCHANGED <<steps, gpu>>
        /\ batch'.loads \subseteq batch.loads \cup {id} /\ batch.stores \subseteq batch'.stores
    BY DEF Grows
  <1>2. /\ \A j \in DOMAIN xfer : (j \in Loads' <=> j \in Loads) /\ (Reads(j)' => Reads(j))
        /\ \A i \in Loads' : i = id \/ (i \in Loads /\ i \in DOMAIN xfer)
    BY <1>1 DEF Loads, Reads
  <1>3. \A j, s : Guarded(j, s)' <=> Guarded(j, s)
    BY <1>1 DEF Guarded
  <1>4. ASSUME NEW j \in DOMAIN xfer, Reads(j), NEW p \in xfer[j].pairs
        PROVE  (Home(j, p) /\ StepGuard(j, p) /\ BatchGuard(j, p) /\ LoadGuard(j, p) /\ Data(j, p))'
    <2>1. Home(j, p) /\ StepGuard(j, p) /\ BatchGuard(j, p) /\ LoadGuard(j, p) /\ Data(j, p)
      BY <1>4 DEF SourceFits
    <2>2. Due(j, p[1]) => Due(j, p[1])'
      BY <1>4
    <2>3. Home(j, p)'
      BY <1>4, <2>1
    <2>n. id \in Loads' => \A q \in xfer'[id].pairs :
              q[1] = p[1] => (\A s \in DOMAIN steps : id \notin steps[s].loads) /\ Due(j, p[1])'
      BY <1>4
    <2> HIDE DEF Guarded, Due, Home
    <2>4. StepGuard(j, p)'
      BY <1>1, <1>3, <2>1 DEF StepGuard
    <2>5. BatchGuard(j, p)'
      BY <1>1, <2>1, <2>2 DEF BatchGuard
    <2>6. LoadGuard(j, p)'
      <3> SUFFICES ASSUME NEW i \in Loads', Here \in xfer'[i].busy, NEW q \in xfer'[i].pairs, q[1] = p[1]
                   PROVE  /\ xfer'[i].at # "started"
                          /\ \A s \in DOMAIN steps : i \in steps[s].loads => Guarded(j, s)'
                          /\ i \in batch'.loads => Due(j, p[1])'
        BY <1>1 DEF LoadGuard
      <3>1. CASE i = id
        BY <1>1, <2>n, <3>1
      <3>2. CASE i \in Loads /\ i \in DOMAIN xfer
        BY <1>1, <1>3, <2>1, <2>2, <3>2 DEF LoadGuard
      <3> QED
        BY <1>2, <3>1, <3>2
    <2>7. Data(j, p)'
      BY <1>1, <2>1 DEF Data, Unwritten
    <2> QED
      BY <2>3, <2>4, <2>5, <2>6, <2>7
  <1>5. Reads(id)' => id \notin Loads'
    BY DEF Reads
  <1> HIDE DEF Home, StepGuard, BatchGuard, LoadGuard, Data, Reads
  <1>6. \A j \in DOMAIN xfer' : Reads(j)' => \A p \in xfer'[j].pairs :
          (Home(j, p) /\ StepGuard(j, p) /\ BatchGuard(j, p) /\ LoadGuard(j, p) /\ Data(j, p))'
    BY <1>1, <1>2, <1>4, <1>5
  <1> QED
    BY <1>6 DEF SourceFits

LEMMA GrowKinds ==
    ASSUME TableInv, KindsFit, LoadsStart, NEW id, Grows(id), id = nextJob, nextJob' = id + 1,
           id \in batch'.loads <=> id \in Loads', id \in batch'.stores => id \notin Loads',
           batch'.preempted = {} \/ (batch'.loads = batch.loads /\ batch'.preempted = batch.preempted),
           batch.phase = "plan" => batch'.stores = batch.stores,
           DOMAIN jobs' = DOMAIN jobs \cup {id}, \A j \in DOMAIN jobs : jobs'[j] = jobs[j],
           jobs'[id].req = xfer'[id].req, jobs'[id].store <=> id \notin Loads',
           id \in Loads' => jobs'[id].blocks = {},
           id \notin Loads' => \A p \in xfer'[id].pairs : p[1] \in jobs'[id].blocks
    PROVE  KindsFit' /\ LoadsStart'
  <1>1. /\ id \notin DOMAIN xfer /\ DOMAIN xfer' = DOMAIN xfer \cup {id} /\ \A j \in DOMAIN xfer : xfer'[j] = xfer[j]
        /\ xfer'[id].at = "queued" /\ UNCHANGED <<toFlush, steps>>
        /\ batch.loads \subseteq batch'.loads /\ batch'.loads \subseteq batch.loads \cup {id}
        /\ batch.stores \subseteq batch'.stores /\ batch'.stores \subseteq batch.stores \cup {id}
        /\ batch'.phase = batch.phase
    BY DEF Grows
  <1>2. /\ id \in Nat
        /\ toFlush \cup batch.loads \cup batch.stores \subseteq Nat
        /\ \A s \in DOMAIN steps : steps[s].flush \cup steps[s].loads \cup steps[s].stores \subseteq Nat
        /\ \A j \in DOMAIN jobs \cup DOMAIN xfer : j < id /\ j \in Nat
    <2>1. Job \subseteq Nat
      BY DEF Job
    <2>2. /\ id \in Nat /\ \A j \in DOMAIN jobs \cup DOMAIN xfer : j < id /\ j \in Nat
      BY <2>1, TableTypes DEF TableInv, IdsFit
    <2>3. toFlush \cup batch.loads \cup batch.stores \subseteq Nat
      BY <2>1, TableTypes DEF BatchRec, TableInv, FlushFits
    <2>4. \A s \in DOMAIN steps : steps[s].flush \cup steps[s].loads \cup steps[s].stores \subseteq Nat
      BY <2>1, TableTypes DEF StepRec
    <2> QED
      BY <2>2, <2>3, <2>4
  <1>3. /\ \A j \in (toFlush \cup batch.loads \cup batch.stores)' : j < nextJob'
        /\ \A s \in DOMAIN steps' : \A j \in (steps[s].flush \cup steps[s].loads \cup steps[s].stores)' : j < nextJob'
    BY <1>1, <1>2 DEF KindsFit
  <1>4. /\ id \notin toFlush \cup batch.loads \cup batch.stores
        /\ \A s \in DOMAIN steps : id \notin steps[s].flush \cup steps[s].loads \cup steps[s].stores
    BY <1>2 DEF KindsFit
  <1>5. /\ \A j \in DOMAIN xfer : j # id /\ (j \in Loads' <=> j \in Loads)
        /\ \A j \in Loads' : j = id \/ (j \in Loads /\ j \in DOMAIN xfer)
    BY <1>1 DEF Loads
  <1>6. /\ \A j \in DOMAIN xfer' : j \in batch'.loads => j \in Loads'
        /\ \A j \in DOMAIN xfer' : \A s \in DOMAIN steps' : j \in steps'[s].loads => j \in Loads'
        /\ \A j \in DOMAIN xfer' : \A s \in DOMAIN steps' : j \in steps'[s].stores => j \notin Loads'
        /\ \A j \in DOMAIN xfer' : j \in batch'.stores => j \notin Loads'
        /\ \A j \in Loads' : xfer'[j].at # "deferred"
    BY <1>1, <1>4, <1>5 DEF KindsFit
  <1>7. \A j \in DOMAIN jobs' : ~jobs'[j].store => jobs'[j].blocks = {}
    BY DEF KindsFit
  <1>8. \A j \in DOMAIN jobs' \cap DOMAIN xfer' :
          /\ jobs'[j].req = xfer'[j].req /\ (jobs'[j].store <=> j \notin Loads')
          /\ j \notin Loads' => \A p \in xfer'[j].pairs : p[1] \in jobs'[j].blocks
    <2> SUFFICES ASSUME NEW j \in DOMAIN jobs' \cap DOMAIN xfer', j # id
                 PROVE  /\ jobs'[j].req = xfer'[j].req /\ (jobs'[j].store <=> j \notin Loads')
                        /\ j \notin Loads' => \A p \in xfer'[j].pairs : p[1] \in jobs'[j].blocks
      OBVIOUS
    <2>1. j \in DOMAIN jobs \cap DOMAIN xfer /\ jobs'[j] = jobs[j] /\ xfer'[j] = xfer[j] /\ (j \in Loads' <=> j \in Loads)
      BY <1>1, <1>5
    <2> QED
      BY <2>1 DEF KindsFit
  <1>9. /\ batch'.preempted # {} => batch'.loads = {}
        /\ batch'.phase = "plan" => batch'.stores = {}
    BY <1>1 DEF KindsFit
  <1>10. KindsFit'
    BY <1>3, <1>6, <1>7, <1>8, <1>9 DEF KindsFit
  <1>11. \A j, s : InQueue(j, s)' <=> InQueue(j, s)
    BY <1>1 DEF InQueue
  <1>12. LoadsStart'
    <2> HIDE DEF InQueue
    <2> SUFFICES ASSUME NEW j \in Loads', xfer'[j].at # "started"
                 PROVE  /\ j \in batch'.loads \/ \E s \in DOMAIN steps : InQueue(j, s)
                        /\ j \in toFlush => \E s \in DOMAIN steps : InQueue(j, s)
                        /\ \A s \in DOMAIN steps : steps[s].state = "queued" /\ j \in steps[s].flush =>
                              \E t \in DOMAIN steps : t < s /\ InQueue(j, t)
      BY <1>1, <1>11 DEF LoadsStart
    <2>1. CASE j = id
      BY <1>4, <2>1
    <2>2. CASE j \in Loads /\ j \in DOMAIN xfer
      BY <1>1, <2>2 DEF LoadsStart
    <2> QED
      BY <1>5, <2>1, <2>2
  <1> QED
    BY <1>10, <1>12

LEMMA AdmitLoadFlush ==
    ASSUME TableInv, MemInv, FlushInv, NEW r \in Request, AdmitLoad(r)
    PROVE  FlushInv'
  <1>0. PICK h \in Nat, new \in Seq(Block), id \in Job : LoadAdded(r, h, new, id)
    BY AdmitLoadView
  <1>1. /\ h > 0 /\ DOMAIN new = 1..h /\ req[r].status = "waiting" /\ batch.preempted = {}
        /\ \A i \in 1..h : new[i] \in Free /\ new[i] \in batch'.alloc
        /\ \A q \in Request : q # r => req'[q] = req[q]
        /\ req'[r].status = "loading" /\ req'[r].computed = h /\ req'[r].blocks = new
        /\ id = nextJob /\ nextJob' = id + 1 /\ id \notin DOMAIN xfer /\ id \notin DOMAIN jobs
        /\ DOMAIN xfer' = DOMAIN xfer \cup {id} /\ \A j \in DOMAIN xfer : xfer'[j] = xfer[j]
        /\ xfer'[id].req = r /\ xfer'[id].store = FALSE /\ xfer'[id].at = "queued"
        /\ xfer'[id].pairs = {<<new[i], KeyAt(r, i)>> : i \in 1..h}
        /\ DOMAIN jobs' = DOMAIN jobs \cup {id} /\ \A j \in DOMAIN jobs : jobs'[j] = jobs[j]
        /\ jobs'[id].req = r /\ jobs'[id].store = FALSE /\ jobs'[id].blocks = {}
        /\ batch'.loads = batch.loads \cup {id} /\ batch.alloc \subseteq batch'.alloc
        /\ batch'.writes = batch.writes /\ batch'.stores = batch.stores
        /\ batch'.preempted = batch.preempted /\ batch'.phase = batch.phase
        /\ \A q \in Request : conn[q].jobs \subseteq conn'[q].jobs
        /\ UNCHANGED <<pendingOf, toFlush, steps, gpu>>
    BY <1>0, Zenon DEF LoadAdded
  <1>2. batch.phase = "plan"
    BY Zenon DEF AdmitLoad, Planning
  <1>3. Grows(id)
    BY <1>1 DEF Grows
  <1>4. id \in Loads'
    BY <1>1 DEF Loads
  <1>5. FreesOnly
    BY <1>1, SameSteps, TableTypes
  <1>6. \A j, b : Due(j, b) => Due(j, b)'
    BY <1>1, <1>5, DueFrame
  <1>7. \A q \in Request : \A p : Computes(q, p) => Computes(q, p)'
    BY <1>1 DEF Computes
  <1>8. \A b \in Held' : b \in Held \/ b \in batch'.alloc
    BY <1>1 DEF Held, ToSet
  <1>9. ASSUME NEW j \in DOMAIN xfer, NEW p, Home(j, p) PROVE Home(j, p)'
    <2>1. CASE Due(j, p[1])
      BY <1>6, <2>1 DEF Home
    <2>2. CASE j \in DOMAIN jobs /\ Computes(xfer[j].req, p)
      <3>1. PICK q \in Request : q = xfer[j].req /\ q = xfer'[j].req
        BY <1>1, TableTypes DEF XferRec
      <3>2. Computes(q, p)'
        BY <1>7, <2>2, <3>1
      <3> QED
        BY <1>1, <2>2, <3>1, <3>2 DEF Home
    <2>3. CASE <<p[1], j>> \in pendingOf /\ p[1] \notin Held
      <3>1. CASE p[1] \in Held'
        <4>1. p[1] \in batch'.alloc /\ <<p[1], j>> \in pendingOf' /\ batch'.phase = "plan"
          BY <1>1, <1>2, <1>8, <2>3, <3>1
        <4> QED
          BY <4>1 DEF Home, Due
      <3>2. CASE p[1] \notin Held'
        BY <1>1, <2>3, <3>2 DEF Home
      <3> QED
        BY <3>1, <3>2
    <2> QED
      BY <1>9, <2>1, <2>2, <2>3 DEF Home
  \* the load's blocks were free: a store that has yet to read one is to be flushed
  <1>10. ASSUME NEW j \in DOMAIN xfer, Reads(j), NEW p \in xfer[j].pairs, NEW q \in xfer'[id].pairs, q[1] = p[1]
         PROVE  (\A s \in DOMAIN steps : id \notin steps[s].loads) /\ Due(j, p[1])'
    <2>1. \A s \in DOMAIN steps : id \notin steps[s].loads
      <3>1. \A s \in DOMAIN steps : \A i \in steps[s].loads : i < id /\ i \in Nat
        BY <1>1, TableTypes DEF FlushInv, KindsFit, StepRec, Job
      <3> QED
        BY <3>1
    <2>2. PICK i \in 1..h : q = <<new[i], KeyAt(r, i)>>
      BY <1>1
    <2>3. p[1] \in Free /\ p[1] \in batch'.alloc
      BY <1>1, <1>10, <2>2
    <2>4. Home(j, p)
      BY <1>10 DEF FlushInv, SourceFits
    <2>5. CASE Due(j, p[1])
      BY <1>6, <2>1, <2>5
    <2>6. CASE Computes(xfer[j].req, p)
      <3>1. PICK z \in Request : z = xfer[j].req
        BY TableTypes DEF XferRec
      <3>2. PICK k \in 1..req[z].computed : p = <<req[z].blocks[k], KeyAt(z, k)>>
        BY <2>6, <3>1 DEF Computes
      <3>3. k \in DOMAIN req[z].blocks /\ p[1] = req[z].blocks[k]
        BY <3>2, TableTypes DEF TableInv, ReqsFit, ReqRec
      <3>4. p[1] \notin Free
        BY <3>3 DEF Free, Held, ToSet
      <3> QED
        BY <2>3, <3>4
    <2>7. CASE <<p[1], j>> \in pendingOf
      <3>1. <<p[1], j>> \in pendingOf' /\ batch'.phase = "plan"
        BY <1>1, <1>2, <2>7
      <3> QED
        BY <2>1, <2>3, <3>1 DEF Due
    <2> QED
      BY <2>4, <2>5, <2>6, <2>7 DEF Home
  <1> HIDE DEF Due, Home, Reads
  <1>11. SourceFits'
    BY <1>3, <1>4, <1>6, <1>9, <1>10, GrowSource DEF FlushInv
  <1>12. KindsFit' /\ LoadsStart'
    <2>1. /\ id \in batch'.loads <=> id \in Loads'
          /\ id \in batch'.stores => id \notin Loads'
      <3>1. \A i \in batch.stores : i < id /\ i \in Nat
        BY <1>1, TableTypes DEF FlushInv, KindsFit, BatchRec, Job
      <3> QED
        BY <1>1, <1>4, <3>1
    <2>2. jobs'[id].req = xfer'[id].req /\ (jobs'[id].store <=> id \notin Loads')
      BY <1>1, <1>4
    <2> QED
      BY <1>1, <1>3, <1>4, <2>1, <2>2, GrowKinds DEF FlushInv
  <1> QED
    BY <1>11, <1>12 DEF FlushInv

\* What a store job adds.
StoreAdded(r, id) ==
    /\ id = nextJob /\ nextJob' = id + 1 /\ id \notin DOMAIN xfer /\ id \notin DOMAIN jobs
    /\ DOMAIN xfer' = DOMAIN xfer \cup {id} /\ \A j \in DOMAIN xfer : xfer'[j] = xfer[j]
    /\ xfer'[id].req = r /\ id \notin Loads' /\ xfer'[id].at = "queued"
    /\ \A p \in xfer'[id].pairs : \E i \in 1..req[r].computed : p = <<req[r].blocks[i], KeyAt(r, i)>>
    /\ DOMAIN jobs' = DOMAIN jobs \cup {id} /\ \A j \in DOMAIN jobs : jobs'[j] = jobs[j]
    /\ jobs'[id].req = r /\ jobs'[id].store /\ \A p \in xfer'[id].pairs : p[1] \in jobs'[id].blocks
    /\ batch'.stores = batch.stores \cup {id} /\ batch'.loads = batch.loads
    /\ batch'.writes = batch.writes /\ batch'.alloc = batch.alloc
    /\ batch'.preempted = batch.preempted /\ batch'.phase = batch.phase

LEMMA BuildStoreView ==
    ASSUME TableInv, NEW r \in Request, BuildStore(r)
    PROVE  /\ batch.phase = "stores" /\ r \in batch.sched /\ UNCHANGED <<req, pendingOf, toFlush, steps, gpu>>
           /\ \A q \in Request : conn[q].jobs \subseteq conn'[q].jobs
           /\ \/ /\ UNCHANGED <<jobs, xfer, nextJob>>
                 /\ batch' = [batch EXCEPT !.built = @ \cup {r}]
              \/ \E id \in Job : StoreAdded(r, id)
  <1>1. batch.phase = "stores" /\ r \in batch.sched /\ UNCHANGED <<req, pendingOf, toFlush, steps, gpu>>
    BY Zenon DEF BuildStore
  <1>2. PICK n : n = Storable(Offloadable(r))
    OBVIOUS
  <1>3. PICK span : span = conn[r].next + 1 .. n
    OBVIOUS
  <1>4. PICK new : new = NewKeys({KeyAt(r, i) : i \in span})
    OBVIOUS
  <1>5. PICK P : P = {<<req[r].blocks[i], KeyAt(r, i)>> : i \in {m \in span : KeyAt(r, m) \in new}}
    OBVIOUS
  <1>6. \/ /\ UNCHANGED <<jobs, xfer, nextJob>> /\ conn' = [conn EXCEPT ![r].next = StoredTo(Offloadable(r))]
           /\ batch' = [batch EXCEPT !.built = @ \cup {r}]
        \/ /\ UNCHANGED <<jobs, xfer, nextJob, conn>>
           /\ batch' = [batch EXCEPT !.built = @ \cup {r}]
        \/ /\ nextJob < MaxJobs
           /\ jobs' = With(jobs, nextJob, JobOf(r, TRUE, new, {p[1] : p \in P}))
           /\ xfer' = With(xfer, nextJob, TransferOf(r, TRUE, P))
           /\ conn' = [conn EXCEPT ![r].next = StoredTo(Offloadable(r)), ![r].jobs = @ \cup {nextJob}]
           /\ nextJob' = nextJob + 1
           /\ batch' = [batch EXCEPT !.built = @ \cup {r}, !.stores = @ \cup {nextJob}]
    BY <1>2, <1>3, <1>4, <1>5, ZenonT(60) DEF BuildStore
  <1>7. CASE /\ UNCHANGED <<jobs, xfer, nextJob>> /\ conn' = [conn EXCEPT ![r].next = StoredTo(Offloadable(r))]
             /\ batch' = [batch EXCEPT !.built = @ \cup {r}]
    <2>1. \A q \in Request : conn[q].jobs \subseteq conn'[q].jobs
      BY <1>7, TableTypes DEF ConnRec
    <2> QED
      BY <1>1, <1>7, <2>1
  <1>8. CASE /\ UNCHANGED <<jobs, xfer, nextJob, conn>>
             /\ batch' = [batch EXCEPT !.built = @ \cup {r}]
    BY <1>1, <1>8
  <1>9. CASE /\ nextJob < MaxJobs
             /\ jobs' = With(jobs, nextJob, JobOf(r, TRUE, new, {p[1] : p \in P}))
             /\ xfer' = With(xfer, nextJob, TransferOf(r, TRUE, P))
             /\ conn' = [conn EXCEPT ![r].next = StoredTo(Offloadable(r)), ![r].jobs = @ \cup {nextJob}]
             /\ nextJob' = nextJob + 1
             /\ batch' = [batch EXCEPT !.built = @ \cup {r}, !.stores = @ \cup {nextJob}]
    <2>1. PICK B : B = {p[1] : p \in P}
      OBVIOUS
    <2>2. PICK d : d = JobOf(r, TRUE, new, B)
      OBVIOUS
    <2>3. d.req = r /\ d.store = TRUE /\ d.blocks = B
      BY <2>2, Zenon DEF JobOf
    <2>4. PICK x : x = TransferOf(r, TRUE, P)
      OBVIOUS
    <2>5. x.req = r /\ x.store = TRUE /\ x.pairs = P /\ x.at = "queued"
      BY <2>4, Zenon DEF TransferOf
    <2>6. xfer' = With(xfer, nextJob, x) /\ jobs' = With(jobs, nextJob, d)
      BY <1>9, <2>1, <2>2, <2>4, Zenon
    <2>7. /\ nextJob < MaxJobs /\ nextJob' = nextJob + 1
          /\ batch' = [batch EXCEPT !.built = @ \cup {r}, !.stores = @ \cup {nextJob}]
      BY <1>9
    <2>8. \A q \in Request : conn[q].jobs \subseteq conn'[q].jobs
      BY <1>9, TableTypes DEF ConnRec
    <2>9. PICK id : id = nextJob
      OBVIOUS
    <2>10. /\ id \in Job /\ id \notin DOMAIN xfer /\ id \notin DOMAIN jobs
           /\ DOMAIN xfer' = DOMAIN xfer \cup {id} /\ xfer'[id] = x /\ \A j \in DOMAIN xfer : xfer'[j] = xfer[j]
      BY <2>6, <2>7, <2>9, NewTransfer
    <2>11. DOMAIN jobs' = DOMAIN jobs \cup {id} /\ jobs'[id] = d /\ \A j \in DOMAIN jobs : jobs'[j] = jobs[j]
      BY <2>6, <2>9, <2>10 DEF With
    <2>12. /\ batch'.stores = batch.stores \cup {id} /\ batch'.loads = batch.loads
           /\ batch'.writes = batch.writes /\ batch'.alloc = batch.alloc
           /\ batch'.preempted = batch.preempted /\ batch'.phase = batch.phase
      BY <2>7, <2>9, TableTypes DEF BatchRec
    <2>13. \A p \in P : \E i \in 1..req[r].computed : p = <<req[r].blocks[i], KeyAt(r, i)>>
      <3>1. /\ Offloadable(r) \in Nat /\ Offloadable(r) <= req[r].computed /\ req[r].computed \in Nat /\ conn[r].next \in Nat
        BY OffloadableRange, LengthOfKeys, TableTypes DEF TableInv, ReqsFit, ReqRec, ConnRec
      <3>2. n \in Nat /\ n <= Offloadable(r)
        BY <1>2, <3>1, StorableRange
      <3>3. \A i \in span : i \in 1..req[r].computed
        BY <1>3, <3>1, <3>2
      <3> QED
        BY <1>5, <3>3
    <2>14. /\ xfer'[id].req = r /\ xfer'[id].at = "queued" /\ xfer'[id].pairs = P
           /\ jobs'[id].req = r /\ jobs'[id].blocks = B
      BY <2>3, <2>5, <2>10, <2>11
    <2>15. id \notin Loads'
      BY <2>5, <2>10 DEF Loads
    <2>16. jobs'[id].store
      BY <2>3, <2>11
    <2>17. \A p \in P : p[1] \in B
      BY <2>1
    <2>18. StoreAdded(r, id)
      <3>1. /\ \A p \in xfer'[id].pairs : \E i \in 1..req[r].computed : p = <<req[r].blocks[i], KeyAt(r, i)>>
            /\ \A p \in xfer'[id].pairs : p[1] \in jobs'[id].blocks
        BY <2>13, <2>14, <2>17
      <3>2. nextJob' = id + 1
        BY <2>7, <2>9
      <3> QED
        BY <2>9, <2>10, <2>11, <2>12, <2>14, <2>15, <2>16, <3>1, <3>2 DEF StoreAdded
    <2> QED
      BY <1>1, <2>8, <2>10, <2>18
  <1> QED
    BY <1>6, <1>7, <1>8, <1>9

\* A new store reads what its request computed: written, or to be written by then.
LEMMA StoreAddedFlush ==
    ASSUME TableInv, MemInv, FlushInv, NEW r \in batch.sched, NEW id \in Job, StoreAdded(r, id), batch.phase = "stores",
           \A q \in Request : conn[q].jobs \subseteq conn'[q].jobs, UNCHANGED <<req, pendingOf, toFlush, steps, gpu>>
    PROVE  FlushInv'
  <1>1. /\ id = nextJob /\ nextJob' = id + 1 /\ id \notin DOMAIN xfer /\ id \notin DOMAIN jobs
        /\ DOMAIN xfer' = DOMAIN xfer \cup {id} /\ \A j \in DOMAIN xfer : xfer'[j] = xfer[j]
        /\ xfer'[id].req = r /\ id \notin Loads' /\ xfer'[id].at = "queued"
        /\ \A p \in xfer'[id].pairs : \E i \in 1..req[r].computed : p = <<req[r].blocks[i], KeyAt(r, i)>>
        /\ DOMAIN jobs' = DOMAIN jobs \cup {id} /\ \A j \in DOMAIN jobs : jobs'[j] = jobs[j]
        /\ jobs'[id].req = r /\ jobs'[id].store /\ \A p \in xfer'[id].pairs : p[1] \in jobs'[id].blocks
        /\ batch'.stores = batch.stores \cup {id} /\ batch'.loads = batch.loads
        /\ batch'.writes = batch.writes /\ batch'.alloc = batch.alloc
        /\ batch'.preempted = batch.preempted /\ batch'.phase = batch.phase
    BY DEF StoreAdded
  <1>2. Grows(id)
    BY <1>1 DEF Grows
  <1>3. r \in Request /\ req[r].status = "running" /\ \A i \in 1..req[r].computed : i \in DOMAIN req[r].blocks
    BY TableTypes DEF TableInv, BatchFits, BatchRec, ReqsFit, ReqRec
  <1>4. FreesOnly
    BY SameSteps, TableTypes
  <1>5. \A j, b : Due(j, b) => Due(j, b)'
    BY <1>1, <1>4, DueFrame, TableTypes DEF BatchRec
  <1>6. Held' = Held /\ \A q, p : Computes(q, p)' <=> Computes(q, p)
    BY DEF Held, Computes
  <1>7. ASSUME NEW j \in DOMAIN xfer, NEW p, Home(j, p) PROVE Home(j, p)'
    <2>1. CASE Due(j, p[1])
      BY <1>5, <2>1 DEF Home
    <2>2. CASE j \in DOMAIN jobs /\ Computes(xfer[j].req, p)
      <3>1. PICK q \in Request : q = xfer[j].req /\ q = xfer'[j].req
        BY <1>1, TableTypes DEF XferRec
      <3>2. Computes(q, p)'
        BY <1>6, <2>2, <3>1
      <3> QED
        BY <1>1, <2>2, <3>1, <3>2 DEF Home
    <2>3. CASE <<p[1], j>> \in pendingOf /\ p[1] \notin Held
      BY <1>6, <2>3 DEF Home
    <2> QED
      BY <1>7, <2>1, <2>2, <2>3 DEF Home
  <1>8. ASSUME NEW p \in xfer'[id].pairs
        PROVE  (Home(id, p) /\ StepGuard(id, p) /\ BatchGuard(id, p) /\ LoadGuard(id, p) /\ Data(id, p))'
    <2>1. PICK i \in 1..req[r].computed : p = <<req[r].blocks[i], KeyAt(r, i)>>
      BY <1>1
    <2>2. i \in DOMAIN req[r].blocks /\ p[1] = req[r].blocks[i]
      BY <1>3, <2>1
    <2>3. Computes(r, p)'
      BY <1>3, <2>1 DEF Computes
    <2>4. Home(id, p)'
      BY <1>1, <2>3 DEF Home
    <2>5. StepGuard(id, p)'
      <3>1. \A s \in DOMAIN steps : \A q \in steps[s].writes : q[1] = p[1] => q = p
        BY <1>3, <2>1, <2>2, WriteHome
      <3> QED
        BY <3>1 DEF StepGuard
    <2>6. BatchGuard(id, p)'
      <3>1. ASSUME NEW q \in batch.writes, q[1] = p[1] PROVE q = p
        <4>1. PICK z \in batch.sched : Computes(z, q)
          BY DEF MemInv, WritesOwned
        <4>2. z \in Request
          BY TableTypes DEF BatchRec
        <4>3. PICK k \in 1..req[z].computed : q = <<req[z].blocks[k], KeyAt(z, k)>>
          BY <4>1 DEF Computes
        <4>4. k \in DOMAIN req[z].blocks
          BY <4>2, <4>3, TableTypes DEF TableInv, ReqsFit, ReqRec
        <4>5. z = r /\ k = i
          BY <1>3, <2>2, <3>1, <4>2, <4>3, <4>4 DEF MemInv, BlocksApart
        <4> QED
          BY <2>1, <4>3, <4>5
      <3> QED
        BY <1>1, <3>1 DEF BatchGuard
    <2>7. LoadGuard(id, p)'
      <3>1. \A j \in Loads' : j \in Loads /\ xfer'[j] = xfer[j]
        BY <1>1 DEF Loads
      <3>2. \A j \in Loads : \A q \in xfer[j].pairs : q[1] # p[1]
        BY <1>3, <2>2, LoadHome DEF Filling
      <3> QED
        BY <3>1, <3>2 DEF LoadGuard
    <2>8. Data(id, p)'
      <3>1. Intact(r, i)
        BY <1>3 DEF MemInv, PrefixIntact, Intact
      <3>2. gpu[p[1]] = p[2] \/ Unwritten(p) \/ p \in batch.writes
        BY <2>1, <3>1 DEF Intact, Unwritten
      <3> QED
        BY <1>1, <3>2 DEF Data, Unwritten
    <2> QED
      BY <2>4, <2>5, <2>6, <2>7, <2>8
  <1> HIDE DEF Due, Home, Reads, StepGuard, BatchGuard, LoadGuard, Data
  <1>9. SourceFits'
    BY <1>1, <1>2, <1>5, <1>7, <1>8, GrowSource DEF FlushInv
  <1>10. KindsFit' /\ LoadsStart'
    <2>1. id \notin batch'.loads
      <3>1. \A i \in batch.loads : i < id /\ i \in Nat
        BY <1>1, TableTypes DEF FlushInv, KindsFit, BatchRec, Job
      <3> QED
        BY <1>1, <3>1
    <2> QED
      BY <1>1, <1>2, <2>1, GrowKinds DEF FlushInv
  <1> QED
    BY <1>9, <1>10 DEF FlushInv

LEMMA BuildStoreFlush ==
    ASSUME TableInv, MemInv, FlushInv, NEW r \in Request, BuildStore(r)
    PROVE  FlushInv'
  <1>1. /\ batch.phase = "stores" /\ r \in batch.sched /\ UNCHANGED <<req, pendingOf, toFlush, steps, gpu>>
        /\ \A q \in Request : conn[q].jobs \subseteq conn'[q].jobs
    BY BuildStoreView
  <1>2. CASE UNCHANGED <<jobs, xfer, nextJob>> /\ batch' = [batch EXCEPT !.built = @ \cup {r}]
    <2>1. /\ batch'.writes = batch.writes /\ batch'.loads = batch.loads /\ batch'.stores = batch.stores
          /\ batch'.phase = batch.phase /\ batch'.alloc = batch.alloc /\ batch'.preempted = batch.preempted
      BY <1>2, TableTypes DEF BatchRec
    <2>2. FreesOnly
      BY <1>1, SameSteps, TableTypes
    <2>3. ASSUME NEW j \in DOMAIN xfer, NEW p, j \in DOMAIN jobs, Computes(xfer[j].req, p) PROVE Home(j, p)'
      <3>1. PICK z : z = xfer[j].req /\ z = xfer'[j].req
        BY <1>2
      <3>2. Computes(z, p)'
        BY <1>1, <2>3, <3>1 DEF Computes
      <3> QED
        BY <1>2, <2>3, <3>1, <3>2 DEF Home
    <2>4. batch'.preempted # {} => batch.loads = {}
      BY <2>1 DEF FlushInv, KindsFit
    <2> QED
      BY <1>1, <1>2, <2>1, <2>2, <2>3, <2>4, CalmFrame
  <1>3. CASE \E id \in Job : StoreAdded(r, id)
    BY <1>1, <1>3, StoreAddedFlush
  <1> QED
    BY <1>2, <1>3, BuildStoreView

LEMMA IssueStepFlush ==
    ASSUME TableInv, FlushInv, IssueStep
    PROVE  FlushInv'
  <1>0. PICK n \in Nat : StepAdded(n)
    BY IssueStepView
  <1>1. /\ n \notin DOMAIN steps /\ DOMAIN steps' = DOMAIN steps \cup {n}
        /\ \A s \in DOMAIN steps : s < n /\ steps'[s] = steps[s]
        /\ steps'[n].flush = toFlush /\ steps'[n].loads = batch.loads /\ steps'[n].stores = batch.stores
        /\ steps'[n].writes = batch.writes /\ steps'[n].state = "queued"
        /\ batch'.writes = {} /\ batch'.loads = {} /\ batch'.stores = {}
        /\ batch'.preempted = {} /\ batch'.phase = "plan" /\ batch.phase = "stores"
        /\ toFlush' = {} /\ UNCHANGED <<req, conn, jobs, pendingOf, nextJob, xfer, gpu>>
    BY <1>0 DEF StepAdded
  <1>2. \A s \in DOMAIN steps : s \in Nat
    BY TableTypes
  <1>3. Loads' = Loads /\ \A j : Reads(j)' <=> Reads(j)
    BY <1>1 DEF Loads, Reads
  <1>4. \A j : \A s \in DOMAIN steps : Guarded(j, s) => Guarded(j, s)'
    BY <1>1 DEF Guarded
  <1>5. ASSUME NEW j, NEW b, Due(j, b) PROVE Guarded(j, n)' /\ Due(j, b)'
    <2>1. CASE j \in toFlush
      BY <1>1, <2>1 DEF Guarded, Due
    <2>2. CASE \E t \in DOMAIN steps : steps[t].state = "queued" /\ j \in steps[t].flush
      <3>1. PICK t \in DOMAIN steps : steps[t].state = "queued" /\ j \in steps[t].flush
        BY <2>2
      <3>2. t \in DOMAIN steps' /\ t <= n /\ steps'[t].state = "queued" /\ j \in steps'[t].flush
        BY <1>1, <1>2, <3>1
      <3> QED
        BY <3>2 DEF Guarded, Due
    <2> QED
      BY <1>1, <1>5, <2>1, <2>2 DEF Due
  <1>6. ASSUME NEW j, NEW p, Home(j, p) PROVE Home(j, p)'
    <2>1. CASE Due(j, p[1])
      BY <1>5, <2>1 DEF Home
    <2>2. CASE j \in DOMAIN jobs /\ Computes(xfer[j].req, p)
      <3>1. PICK q : q = xfer[j].req /\ q = xfer'[j].req
        BY <1>1
      <3>2. Computes(q, p)'
        BY <1>1, <2>2, <3>1 DEF Computes
      <3> QED
        BY <1>1, <2>2, <3>1, <3>2 DEF Home
    <2>3. CASE <<p[1], j>> \in pendingOf /\ p[1] \notin Held
      BY <1>1, <2>3 DEF Home, Held
    <2> QED
      BY <1>6, <2>1, <2>2, <2>3 DEF Home
  <1>7. ASSUME NEW j \in DOMAIN xfer, Reads(j), NEW p \in xfer[j].pairs
        PROVE  (Home(j, p) /\ StepGuard(j, p) /\ BatchGuard(j, p) /\ LoadGuard(j, p) /\ Data(j, p))'
    <2>1. Home(j, p) /\ StepGuard(j, p) /\ BatchGuard(j, p) /\ LoadGuard(j, p) /\ Data(j, p)
      BY <1>7 DEF FlushInv, SourceFits
    <2>2. Home(j, p)'
      BY <1>6, <2>1
    <2> HIDE DEF Due, Home, Guarded
    <2>3. StepGuard(j, p)'
      <3> SUFFICES ASSUME NEW s \in DOMAIN steps', NEW q \in steps'[s].writes, steps'[s].state # "ran", q[1] = p[1], q # p
                   PROVE  Guarded(j, s)'
        BY DEF StepGuard
      <3>1. CASE s = n
        BY <1>1, <1>5, <2>1, <3>1 DEF BatchGuard
      <3>2. CASE s \in DOMAIN steps
        BY <1>1, <1>4, <2>1, <3>2 DEF StepGuard
      <3> QED
        BY <1>1, <3>1, <3>2
    <2>4. BatchGuard(j, p)'
      BY <1>1 DEF BatchGuard
    <2>5. LoadGuard(j, p)'
      <3> SUFFICES ASSUME NEW i \in Loads, Here \in xfer[i].busy, NEW q \in xfer[i].pairs, q[1] = p[1]
                   PROVE  /\ xfer[i].at # "started"
                          /\ \A s \in DOMAIN steps' : i \in steps'[s].loads => Guarded(j, s)'
        BY <1>1, <1>3 DEF LoadGuard
      <3>1. /\ xfer[i].at # "started"
            /\ \A s \in DOMAIN steps : i \in steps[s].loads => Guarded(j, s)
            /\ i \in batch.loads => Due(j, p[1])
        BY <2>1 DEF LoadGuard
      <3>2. ASSUME NEW s \in DOMAIN steps', i \in steps'[s].loads PROVE Guarded(j, s)'
        <4>1. CASE s = n
          BY <1>1, <1>5, <3>1, <3>2, <4>1
        <4>2. CASE s \in DOMAIN steps
          BY <1>1, <1>4, <3>1, <3>2, <4>2
        <4> QED
          BY <1>1, <4>1, <4>2
      <3> QED
        BY <3>1, <3>2
    <2>6. Data(j, p)'
      <3>1. CASE gpu[p[1]] = p[2]
        BY <1>1, <3>1 DEF Data
      <3>2. CASE \E t, u \in DOMAIN steps : t <= u /\ steps[t].state # "ran" /\ p \in steps[t].writes /\ j \in steps[u].stores
        BY <1>1, <3>2 DEF Data
      <3>3. CASE j \in batch.stores /\ p \in batch.writes
        <4>1. n \in DOMAIN steps' /\ n <= n /\ steps'[n].state # "ran" /\ p \in steps'[n].writes /\ j \in steps'[n].stores
          BY <1>1, <3>3
        <4> QED
          BY <4>1 DEF Data
      <3>4. CASE j \in batch.stores /\ Unwritten(p)
        <4>1. PICK t \in DOMAIN steps : steps[t].state # "ran" /\ p \in steps[t].writes
          BY <3>4 DEF Unwritten
        <4>2. /\ t \in DOMAIN steps' /\ n \in DOMAIN steps' /\ t <= n /\ steps'[t].state # "ran"
              /\ p \in steps'[t].writes /\ j \in steps'[n].stores
          BY <1>1, <1>2, <3>4, <4>1
        <4> QED
          BY <4>2 DEF Data
      <3> QED
        BY <2>1, <3>1, <3>2, <3>3, <3>4 DEF Data
    <2> QED
      BY <2>2, <2>3, <2>4, <2>5, <2>6
  <1>8. SourceFits'
    <2> HIDE DEF Home, StepGuard, BatchGuard, LoadGuard, Data, Reads
    <2> QED
      BY <1>1, <1>3, <1>7 DEF SourceFits
  <1>9. KindsFit'
    <2>1. /\ \A j \in (toFlush \cup batch.loads \cup batch.stores)' : j < nextJob'
          /\ \A s \in DOMAIN steps' : \A j \in (steps[s].flush \cup steps[s].loads \cup steps[s].stores)' : j < nextJob'
      <3>1. \A s \in DOMAIN steps : steps'[s] = steps[s]
        BY <1>1
      <3>2. \A s \in DOMAIN steps : \A j \in steps[s].flush \cup steps[s].loads \cup steps[s].stores : j < nextJob
        BY DEF FlushInv, KindsFit
      <3>3. \A j \in toFlush \cup batch.loads \cup batch.stores : j < nextJob
        BY DEF FlushInv, KindsFit
      <3>4. \A j \in steps'[n].flush \cup steps'[n].loads \cup steps'[n].stores : j < nextJob
        BY <1>1, <3>3
      <3> QED
        BY <1>1, <3>1, <3>2, <3>4
    <2>2. /\ \A j \in DOMAIN xfer : \A s \in DOMAIN steps' : j \in steps'[s].loads => j \in Loads
          /\ \A j \in DOMAIN xfer : \A s \in DOMAIN steps' : j \in steps'[s].stores => j \notin Loads
      BY <1>1 DEF FlushInv, KindsFit
    <2>3. /\ \A j \in Loads : xfer[j].at # "deferred"
          /\ \A j \in DOMAIN jobs : ~jobs[j].store => jobs[j].blocks = {}
          /\ \A j \in DOMAIN jobs \cap DOMAIN xfer :
                /\ jobs[j].req = xfer[j].req /\ (jobs[j].store <=> j \notin Loads)
                /\ j \notin Loads => \A p \in xfer[j].pairs : p[1] \in jobs[j].blocks
      BY DEF FlushInv, KindsFit
    <2>4. KindsFit' <=>
            /\ \A j \in (toFlush \cup batch.loads \cup batch.stores)' : j < nextJob'
            /\ \A s \in DOMAIN steps' : \A j \in (steps[s].flush \cup steps[s].loads \cup steps[s].stores)' : j < nextJob'
            /\ \A j \in DOMAIN xfer : \A s \in DOMAIN steps' : j \in steps'[s].loads => j \in Loads
            /\ \A j \in DOMAIN xfer : \A s \in DOMAIN steps' : j \in steps'[s].stores => j \notin Loads
            /\ \A j \in Loads : xfer[j].at # "deferred"
            /\ \A j \in DOMAIN jobs : ~jobs[j].store => jobs[j].blocks = {}
            /\ \A j \in DOMAIN jobs \cap DOMAIN xfer :
                  /\ jobs[j].req = xfer[j].req /\ (jobs[j].store <=> j \notin Loads)
                  /\ j \notin Loads => \A p \in xfer[j].pairs : p[1] \in jobs[j].blocks
      BY <1>1, <1>3 DEF KindsFit
    <2> QED
      BY <2>1, <2>2, <2>3, <2>4
  <1>10. LoadsStart'
    <2>1. \A j : \A s \in DOMAIN steps : InQueue(j, s) => InQueue(j, s)'
      BY <1>1 DEF InQueue
    <2>2. \A j \in batch.loads : InQueue(j, n)'
      BY <1>1 DEF InQueue
    <2> HIDE DEF InQueue
    <2> SUFFICES ASSUME NEW j \in Loads, xfer[j].at # "started"
                 PROVE  /\ \E s \in DOMAIN steps' : InQueue(j, s)'
                        /\ \A s \in DOMAIN steps' : steps'[s].state = "queued" /\ j \in steps'[s].flush =>
                              \E t \in DOMAIN steps' : t < s /\ InQueue(j, t)'
      BY <1>1, <1>3 DEF LoadsStart
    <2>3. /\ j \in batch.loads \/ \E s \in DOMAIN steps : InQueue(j, s)
          /\ j \in toFlush => \E s \in DOMAIN steps : InQueue(j, s)
          /\ \A s \in DOMAIN steps : steps[s].state = "queued" /\ j \in steps[s].flush =>
                \E t \in DOMAIN steps : t < s /\ InQueue(j, t)
      BY DEF FlushInv, LoadsStart
    <2>4. \E s \in DOMAIN steps' : InQueue(j, s)'
      BY <1>1, <2>1, <2>2, <2>3
    <2>5. ASSUME NEW s \in DOMAIN steps', steps'[s].state = "queued", j \in steps'[s].flush
          PROVE  \E t \in DOMAIN steps' : t < s /\ InQueue(j, t)'
      <3>1. CASE s = n
        <4>1. PICK t \in DOMAIN steps : InQueue(j, t)
          BY <1>1, <2>3, <2>5, <3>1
        <4> QED
          BY <1>1, <2>1, <3>1, <4>1
      <3>2. CASE s \in DOMAIN steps
        <4>1. PICK t \in DOMAIN steps : t < s /\ InQueue(j, t)
          BY <1>1, <2>3, <2>5, <3>2
        <4> QED
          BY <1>1, <2>1, <4>1
      <3> QED
        BY <1>1, <3>1, <3>2
    <2> QED
      BY <2>4, <2>5
  <1> QED
    BY <1>8, <1>9, <1>10 DEF FlushInv

LEMMA LaunchFlush ==
    ASSUME TableInv, MemInv, FlushInv, NEW s \in DOMAIN steps, Launch(s)
    PROVE  FlushInv'
  <1>0. PICK tell, rep : /\ StepLaunched(s, tell, rep) /\ TransfersTold(s, tell)
                         /\ gpu' = Written(FlushedPairs(s))
    BY LaunchView
  <1>1. /\ DOMAIN steps' = DOMAIN steps /\ steps[s].state = "queued" /\ steps'[s].state = "launched"
        /\ \A t \in DOMAIN steps : t < s => steps[t].state # "queued"
        /\ \A t \in DOMAIN steps : t # s => steps'[t] = steps[t]
        /\ steps'[s].flush = steps[s].flush /\ steps'[s].loads = steps[s].loads /\ steps'[s].stores = steps[s].stores
        /\ steps'[s].writes = steps[s].writes
        /\ UNCHANGED <<req, conn, jobs, pendingOf, toFlush, nextJob, batch>>
    BY <1>0 DEF StepLaunched
  <1>2. /\ DOMAIN xfer' \subseteq DOMAIN xfer
        /\ \A j \in DOMAIN xfer' :
              /\ xfer'[j].req = xfer[j].req /\ xfer'[j].store = xfer[j].store /\ xfer'[j].pairs = xfer[j].pairs
              /\ xfer'[j].busy = (IF j \in steps[s].flush THEN {} ELSE xfer[j].busy)
              /\ xfer'[j].at = (IF j \in steps[s].stores THEN "deferred"
                                ELSE IF j \in steps[s].loads \/ xfer[j].at = "deferred" THEN "started"
                                ELSE xfer[j].at)
    BY <1>0 DEF TransfersTold
  <1>3. /\ \A t \in DOMAIN steps :
              /\ steps'[t].flush = steps[t].flush /\ steps'[t].loads = steps[t].loads
              /\ steps'[t].stores = steps[t].stores /\ steps'[t].writes = steps[t].writes
              /\ steps'[t].state = "ran" <=> steps[t].state = "ran"
              /\ steps'[t].state = "queued" <=> steps[t].state = "queued" /\ t # s
        /\ \A t \in DOMAIN steps : t \in Nat
    BY <1>1, TableTypes
  <1>4. Loads' \subseteq Loads /\ Loads' \subseteq DOMAIN xfer' /\ \A j \in DOMAIN xfer' : j \in Loads' <=> j \in Loads
    BY <1>2 DEF Loads
  <1>5. \A j \in DOMAIN xfer' : Here \in xfer'[j].busy => Here \in xfer[j].busy /\ j \notin steps[s].flush
    BY <1>2
  <1>6. ASSUME NEW j, j \notin steps[s].flush
        PROVE  /\ \A t \in DOMAIN steps : Guarded(j, t) => Guarded(j, t)'
               /\ \A b : Due(j, b) => Due(j, b)'
               /\ ~Guarded(j, s)
    <2>1. \A t \in DOMAIN steps : steps[t].state = "queued" /\ j \in steps[t].flush =>
              steps'[t].state = "queued" /\ j \in steps'[t].flush
      BY <1>1, <1>3, <1>6
    <2>2. \A t \in DOMAIN steps : Guarded(j, t) => Guarded(j, t)'
      BY <1>1, <2>1 DEF Guarded
    <2>3. \A b : Due(j, b) => Due(j, b)'
      BY <1>1, <2>1 DEF Due
    <2>4. ~Guarded(j, s)
      BY <1>1, <1>3, <1>6 DEF Guarded
    <2> QED
      BY <2>2, <2>3, <2>4
  <1>7. ASSUME NEW i \in Loads' PROVE
           /\ i \in DOMAIN xfer /\ i \in Loads /\ i \notin steps[s].stores /\ xfer[i].at # "deferred"
           /\ xfer'[i].at = (IF i \in steps[s].loads THEN "started" ELSE xfer[i].at)
    <2>1. i \in DOMAIN xfer /\ i \in DOMAIN xfer' /\ i \in Loads
      BY <1>2, <1>4
    <2>2. i \notin steps[s].stores /\ xfer[i].at # "deferred"
      BY <2>1 DEF FlushInv, KindsFit
    <2> QED
      BY <1>2, <2>1, <2>2
  <1>8. ASSUME NEW i \in Loads, i \in steps[s].flush PROVE xfer[i].at = "started"
    <2>1. xfer[i].at # "started" => \E t \in DOMAIN steps : t < s /\ InQueue(i, t)
      BY <1>1, <1>8 DEF FlushInv, LoadsStart
    <2> QED
      BY <1>1, <2>1 DEF InQueue
  <1>9. ASSUME NEW j \in DOMAIN xfer', Reads(j)', NEW p \in xfer'[j].pairs
        PROVE  (Home(j, p) /\ StepGuard(j, p) /\ BatchGuard(j, p) /\ LoadGuard(j, p) /\ Data(j, p))'
    <2>1. j \in DOMAIN xfer /\ Reads(j) /\ j \notin steps[s].flush /\ p \in xfer[j].pairs
      BY <1>2, <1>4, <1>5, <1>9 DEF Reads
    <2>2. Home(j, p) /\ StepGuard(j, p) /\ BatchGuard(j, p) /\ LoadGuard(j, p) /\ Data(j, p)
      BY <2>1 DEF FlushInv, SourceFits
    <2>3. /\ \A t \in DOMAIN steps : Guarded(j, t) => Guarded(j, t)'
          /\ \A b : Due(j, b) => Due(j, b)'
          /\ ~Guarded(j, s)
      BY <1>6, <2>1
    <2>4. Home(j, p)'
      <3>1. CASE Due(j, p[1])
        BY <2>3, <3>1 DEF Home
      <3>2. CASE j \in DOMAIN jobs /\ Computes(xfer[j].req, p)
        <4>1. PICK q : q = xfer[j].req /\ q = xfer'[j].req
          BY <1>2
        <4>2. Computes(q, p)'
          BY <1>1, <3>2, <4>1 DEF Computes
        <4> QED
          BY <1>1, <3>2, <4>1, <4>2 DEF Home
      <3>3. CASE <<p[1], j>> \in pendingOf /\ p[1] \notin Held
        BY <1>1, <3>3 DEF Home, Held
      <3> QED
        BY <2>2, <3>1, <3>2, <3>3 DEF Home
    <2> HIDE DEF Due, Home, Guarded
    <2>5. StepGuard(j, p)'
      BY <1>1, <1>3, <2>2, <2>3 DEF StepGuard
    <2>6. BatchGuard(j, p)'
      BY <1>1, <2>2, <2>3 DEF BatchGuard
    <2>7. LoadGuard(j, p)'
      <3> SUFFICES ASSUME NEW i \in Loads', Here \in xfer'[i].busy, NEW q \in xfer'[i].pairs, q[1] = p[1]
                   PROVE  /\ xfer'[i].at # "started"
                          /\ \A t \in DOMAIN steps : i \in steps'[t].loads => Guarded(j, t)'
                          /\ i \in batch.loads => Due(j, p[1])'
        BY <1>1 DEF LoadGuard
      <3>1. i \in Loads /\ Here \in xfer[i].busy /\ q \in xfer[i].pairs
        BY <1>2, <1>4, <1>5
      <3>2. /\ xfer[i].at # "started"
            /\ \A t \in DOMAIN steps : i \in steps[t].loads => Guarded(j, t)
            /\ i \in batch.loads => Due(j, p[1])
        BY <2>2, <3>1 DEF LoadGuard
      <3>3. i \notin steps[s].loads
        BY <2>3, <3>2
      <3> QED
        BY <1>3, <1>7, <2>3, <3>2, <3>3
    <2>8. Data(j, p)'
      <3>1. CASE gpu[p[1]] = p[2]
        <4>1. FlushedPairs(s) \in SUBSET (Block \X Key)
          BY TableTypes DEF FlushedPairs, XferRec
        <4>2. \A i \in DOMAIN xfer : ~xfer[i].store => i \in Loads
          BY DEF Loads
        <4>3. \A q \in FlushedPairs(s) : \E i \in Loads : i \in steps[s].flush /\ Here \in xfer[i].busy /\ q \in xfer[i].pairs
          BY <4>2 DEF FlushedPairs
        <4>4. \A q, z \in FlushedPairs(s) : q[1] = z[1] => q = z
          BY <4>3, LoadsSingle
        <4>5. \A q \in FlushedPairs(s) : q[1] # p[1]
          BY <1>8, <2>2, <4>3 DEF LoadGuard
        <4>6. p[1] \in Block
          BY <2>1, TableTypes DEF XferRec
        <4>7. Written(FlushedPairs(s))[p[1]] = gpu[p[1]]
          BY <4>1, <4>4, <4>5, <4>6, WrittenAt
        <4> QED
          BY <1>0, <3>1, <4>7 DEF Data
      <3>2. CASE \E t, u \in DOMAIN steps : t <= u /\ steps[t].state # "ran" /\ p \in steps[t].writes /\ j \in steps[u].stores
        BY <1>1, <1>3, <3>2 DEF Data
      <3>3. CASE j \in batch.stores /\ (p \in batch.writes \/ Unwritten(p))
        BY <1>1, <1>3, <3>3 DEF Data, Unwritten
      <3> QED
        BY <2>2, <3>1, <3>2, <3>3 DEF Data
    <2> QED
      BY <2>4, <2>5, <2>6, <2>7, <2>8
  <1>10. SourceFits'
    <2> HIDE DEF Home, StepGuard, BatchGuard, LoadGuard, Data, Reads
    <2> QED
      BY <1>9 DEF SourceFits
  <1>11. KindsFit'
    <2>1. /\ \A j \in (toFlush \cup batch.loads \cup batch.stores)' : j < nextJob'
          /\ \A t \in DOMAIN steps' : \A j \in (steps[t].flush \cup steps[t].loads \cup steps[t].stores)' : j < nextJob'
      BY <1>1, <1>3 DEF FlushInv, KindsFit
    <2>2. /\ \A j \in DOMAIN xfer' : j \in batch'.loads => j \in Loads'
          /\ \A j \in DOMAIN xfer' : \A t \in DOMAIN steps' : j \in steps'[t].loads => j \in Loads'
          /\ \A j \in DOMAIN xfer' : \A t \in DOMAIN steps' : j \in steps'[t].stores => j \notin Loads'
          /\ \A j \in DOMAIN xfer' : j \in batch'.stores => j \notin Loads'
      BY <1>1, <1>2, <1>3, <1>4 DEF FlushInv, KindsFit
    <2>3. \A j \in Loads' : xfer'[j].at # "deferred"
      BY <1>7
    <2>4. \A j \in DOMAIN jobs' : ~jobs'[j].store => jobs'[j].blocks = {}
      BY <1>1 DEF FlushInv, KindsFit
    <2>5. \A j \in DOMAIN jobs' \cap DOMAIN xfer' :
          /\ jobs'[j].req = xfer'[j].req /\ (jobs'[j].store <=> j \notin Loads')
          /\ j \notin Loads' => \A p \in xfer'[j].pairs : p[1] \in jobs'[j].blocks
      BY <1>1, <1>2, <1>4 DEF FlushInv, KindsFit
    <2>6. /\ batch'.preempted # {} => batch'.loads = {}
          /\ batch'.phase = "plan" => batch'.stores = {}
      BY <1>1 DEF FlushInv, KindsFit
    <2> QED
      BY <2>1, <2>2, <2>3, <2>4, <2>5, <2>6 DEF KindsFit
  <1>12. LoadsStart'
    <2> SUFFICES ASSUME NEW j \in Loads', xfer'[j].at # "started"
                 PROVE  /\ j \in batch'.loads \/ \E t \in DOMAIN steps' : InQueue(j, t)'
                        /\ j \in toFlush' => \E t \in DOMAIN steps' : InQueue(j, t)'
                        /\ \A u \in DOMAIN steps' : steps'[u].state = "queued" /\ j \in steps'[u].flush =>
                              \E t \in DOMAIN steps' : t < u /\ InQueue(j, t)'
      BY DEF LoadsStart
    <2>1. j \in Loads /\ j \notin steps[s].loads /\ xfer[j].at # "started"
      BY <1>7
    <2>2. \A t \in DOMAIN steps : InQueue(j, t) => InQueue(j, t)'
      BY <1>1, <1>3, <2>1 DEF InQueue
    <2> HIDE DEF InQueue
    <2>3. /\ j \in batch.loads \/ \E t \in DOMAIN steps : InQueue(j, t)
          /\ j \in toFlush => \E t \in DOMAIN steps : InQueue(j, t)
          /\ \A u \in DOMAIN steps : steps[u].state = "queued" /\ j \in steps[u].flush =>
                \E t \in DOMAIN steps : t < u /\ InQueue(j, t)
      BY <2>1 DEF FlushInv, LoadsStart
    <2>4. \A u \in DOMAIN steps' : steps'[u].state = "queued" /\ j \in steps'[u].flush =>
             \E t \in DOMAIN steps' : t < u /\ InQueue(j, t)'
      BY <1>1, <1>3, <2>2, <2>3
    <2> QED
      BY <1>1, <2>2, <2>3, <2>4
  <1> QED
    BY <1>10, <1>11, <1>12 DEF FlushInv

LEMMA ForwardDoneFlush ==
    ASSUME TableInv, MemInv, FlushInv, NEW s \in DOMAIN steps, ForwardDone(s)
    PROVE  FlushInv'
  <1>1. /\ DOMAIN steps' = DOMAIN steps /\ steps[s].state = "launched" /\ steps'[s].state = "ran"
        /\ \A t \in DOMAIN steps : t < s => steps[t].state = "ran"
        /\ \A t \in DOMAIN steps : t # s => steps'[t].state = steps[t].state
        /\ \A t \in DOMAIN steps :
              /\ steps'[t].flush = steps[t].flush /\ steps'[t].loads = steps[t].loads
              /\ steps'[t].stores = steps[t].stores /\ steps'[t].writes = steps[t].writes
        /\ gpu' = Written(steps[s].writes)
        /\ UNCHANGED <<req, conn, jobs, pendingOf, toFlush, nextJob, batch, xfer>>
    BY ForwardDoneView
  <1>2. /\ \A t \in DOMAIN steps : t \in Nat
        /\ \A t \in DOMAIN steps : steps'[t].state = "queued" <=> steps[t].state = "queued"
    BY <1>1, TableTypes
  <1>3. Loads' = Loads /\ \A j : Reads(j)' <=> Reads(j)
    BY <1>1 DEF Loads, Reads
  <1>4. /\ \A j, t : Guarded(j, t)' <=> Guarded(j, t)
        /\ \A j : \A t \in DOMAIN steps : InQueue(j, t)' <=> InQueue(j, t)
        /\ \A j : ~Guarded(j, s)
    BY <1>1, <1>2 DEF Guarded, InQueue
  <1>5. \A j, b : Due(j, b)' <=> Due(j, b)
    BY <1>1, <1>2 DEF Due
  <1>6. \A j, p : Home(j, p) => Home(j, p)'
    <2> SUFFICES ASSUME NEW j, NEW p, Home(j, p) PROVE Home(j, p)'
      OBVIOUS
    <2>1. CASE Due(j, p[1])
      BY <1>5, <2>1 DEF Home
    <2>2. CASE j \in DOMAIN jobs /\ Computes(xfer[j].req, p)
      <3>1. PICK q : q = xfer[j].req /\ q = xfer'[j].req
        BY <1>1
      <3>2. Computes(q, p)'
        BY <1>1, <2>2, <3>1 DEF Computes
      <3> QED
        BY <1>1, <2>2, <3>1, <3>2 DEF Home
    <2>3. CASE <<p[1], j>> \in pendingOf /\ p[1] \notin Held
      BY <1>1, <2>3 DEF Home, Held
    <2> QED
      BY <2>1, <2>2, <2>3 DEF Home
  <1>7. /\ \A q \in steps[s].writes : gpu'[q[1]] = q[2]
        /\ \A b \in Block : (\A q \in steps[s].writes : q[1] # b) => gpu'[b] = gpu[b]
    <2>1. steps[s].writes \in SUBSET (Block \X Key)
      BY TableTypes DEF StepRec
    <2>2. \A p, q \in steps[s].writes : p[1] = q[1] => p = q
      BY DEF MemInv, WritesOwned
    <2> QED
      BY <1>1, <2>1, <2>2, WrittenAt
  <1>8. ASSUME NEW j \in DOMAIN xfer, Reads(j), NEW p \in xfer[j].pairs
        PROVE  (Home(j, p) /\ StepGuard(j, p) /\ BatchGuard(j, p) /\ LoadGuard(j, p) /\ Data(j, p))'
    <2>1. Home(j, p) /\ StepGuard(j, p) /\ BatchGuard(j, p) /\ LoadGuard(j, p) /\ Data(j, p)
      BY <1>8 DEF FlushInv, SourceFits
    <2>2. Home(j, p)'
      BY <1>6, <2>1
    <2> HIDE DEF Due, Home, Guarded
    <2>3. StepGuard(j, p)'
      <3>1. \A t \in DOMAIN steps : steps'[t].state # "ran" => steps[t].state # "ran"
        BY <1>1
      <3> QED
        BY <1>1, <1>4, <2>1, <3>1 DEF StepGuard
    <2>4. BatchGuard(j, p)'
      BY <1>1, <1>5, <2>1 DEF BatchGuard
    <2>5. LoadGuard(j, p)'
      BY <1>1, <1>3, <1>4, <1>5, <2>1 DEF LoadGuard
    \* the step does not write over what is to be read
    <2>6. Data(j, p)'
      <3>1. \A q \in steps[s].writes : q[1] = p[1] => q = p
        BY <1>1, <1>4, <2>1 DEF StepGuard
      <3>2. p[1] \in Block
        BY TableTypes DEF XferRec
      <3>3. p \in steps[s].writes => gpu'[p[1]] = p[2]
        BY <1>7
      <3>4. CASE gpu[p[1]] = p[2]
        BY <1>7, <3>1, <3>2, <3>3, <3>4 DEF Data
      <3>5. CASE \E t, u \in DOMAIN steps : t <= u /\ steps[t].state # "ran" /\ p \in steps[t].writes /\ j \in steps[u].stores
        <4>1. PICK t, u \in DOMAIN steps : t <= u /\ steps[t].state # "ran" /\ p \in steps[t].writes /\ j \in steps[u].stores
          BY <3>5
        <4>2. CASE t = s
          BY <3>3, <4>1, <4>2 DEF Data
        <4>3. CASE t # s
          BY <1>1, <4>1, <4>3 DEF Data
        <4> QED
          BY <4>2, <4>3
      <3>6. CASE j \in batch.stores /\ p \in batch.writes
        BY <1>1, <3>6 DEF Data
      <3>7. CASE j \in batch.stores /\ Unwritten(p)
        <4>1. PICK t \in DOMAIN steps : steps[t].state # "ran" /\ p \in steps[t].writes
          BY <3>7 DEF Unwritten
        <4>2. CASE t = s
          BY <3>3, <4>1, <4>2 DEF Data
        <4>3. CASE t # s
          <5>1. Unwritten(p)'
            BY <1>1, <4>1, <4>3 DEF Unwritten
          <5> QED
            BY <1>1, <3>7, <5>1 DEF Data
        <4> QED
          BY <4>2, <4>3
      <3> QED
        BY <2>1, <3>4, <3>5, <3>6, <3>7 DEF Data
    <2> QED
      BY <2>2, <2>3, <2>4, <2>5, <2>6
  <1>9. SourceFits'
    <2> HIDE DEF Home, StepGuard, BatchGuard, LoadGuard, Data, Reads
    <2> QED
      BY <1>1, <1>3, <1>8 DEF SourceFits
  <1>10. KindsFit'
    BY <1>1, <1>3 DEF FlushInv, KindsFit
  <1>11. LoadsStart'
    <2> HIDE DEF InQueue
    <2> QED
      BY <1>1, <1>2, <1>3, <1>4 DEF FlushInv, LoadsStart
  <1> QED
    BY <1>9, <1>10, <1>11 DEF FlushInv

LEMMA TransferDoneFlush ==
    ASSUME TableInv, MemInv, FlushInv,
           NEW i \in DOMAIN xfer, NEW k \in Rank, NEW bad \in Outcomes(i), TransferDone(i, k, bad)
    PROVE  FlushInv'
  <1>1. /\ DOMAIN xfer' = DOMAIN xfer /\ k \in xfer[i].busy /\ (i \in Loads => xfer[i].at = "started")
        /\ \A j \in DOMAIN xfer : j # i => xfer'[j] = xfer[j]
        /\ \A j \in DOMAIN xfer :
              /\ xfer'[j].req = xfer[j].req /\ xfer'[j].store = xfer[j].store /\ xfer'[j].pairs = xfer[j].pairs
              /\ xfer'[j].at = xfer[j].at
        /\ xfer'[i].busy = xfer[i].busy \ {k}
        /\ \/ UNCHANGED gpu /\ (i \in Loads => k # Here)
           \/ i \in Loads /\ k = Here /\ gpu' = Written({p \in xfer[i].pairs : p[1] \notin bad})
        /\ UNCHANGED <<req, conn, jobs, pendingOf, toFlush, nextJob, batch, steps>>
    BY TransferDoneView
  <1>2. Loads' = Loads /\ Loads \subseteq DOMAIN xfer
    BY <1>1 DEF Loads
  <1>3. \A j \in DOMAIN xfer : (Here \in xfer'[j].busy => Here \in xfer[j].busy) /\ (Reads(j)' => Reads(j))
    BY <1>1, <1>2 DEF Reads
  <1>4. /\ \A j, t : Guarded(j, t)' <=> Guarded(j, t)
        /\ \A j, b : Due(j, b)' <=> Due(j, b)
        /\ \A j, t : InQueue(j, t)' <=> InQueue(j, t)
    BY <1>1 DEF Guarded, Due, InQueue
  <1>5. \A j \in DOMAIN xfer : \A p : Home(j, p) => Home(j, p)'
    <2> SUFFICES ASSUME NEW j \in DOMAIN xfer, NEW p, Home(j, p) PROVE Home(j, p)'
      OBVIOUS
    <2>1. CASE Due(j, p[1])
      BY <1>4, <2>1 DEF Home
    <2>2. CASE j \in DOMAIN jobs /\ Computes(xfer[j].req, p)
      <3>1. PICK q : q = xfer[j].req /\ q = xfer'[j].req
        BY <1>1
      <3>2. Computes(q, p)'
        BY <1>1, <2>2, <3>1 DEF Computes
      <3> QED
        BY <1>1, <2>2, <3>1, <3>2 DEF Home
    <2>3. CASE <<p[1], j>> \in pendingOf /\ p[1] \notin Held
      BY <1>1, <2>3 DEF Home, Held
    <2> QED
      BY <2>1, <2>2, <2>3 DEF Home
  <1>6. ASSUME NEW j \in DOMAIN xfer, Reads(j), NEW p \in xfer[j].pairs
        PROVE  (Home(j, p) /\ StepGuard(j, p) /\ BatchGuard(j, p) /\ LoadGuard(j, p) /\ Data(j, p))'
    <2>1. Home(j, p) /\ StepGuard(j, p) /\ BatchGuard(j, p) /\ LoadGuard(j, p) /\ Data(j, p)
      BY <1>6 DEF FlushInv, SourceFits
    <2>2. Home(j, p)'
      BY <1>5, <2>1
    <2> HIDE DEF Due, Home, Guarded
    <2>3. StepGuard(j, p)' /\ BatchGuard(j, p)'
      BY <1>1, <1>4, <2>1 DEF StepGuard, BatchGuard
    <2>4. LoadGuard(j, p)'
      BY <1>1, <1>2, <1>3, <1>4, <2>1 DEF LoadGuard
    \* a load that has started does not write over what is to be read
    <2>5. gpu'[p[1]] = gpu[p[1]]
      <3>1. CASE UNCHANGED gpu
        BY <3>1
      <3>2. CASE i \in Loads /\ k = Here /\ gpu' = Written({q \in xfer[i].pairs : q[1] \notin bad})
        <4>1. PICK P : P = {q \in xfer[i].pairs : q[1] \notin bad}
          OBVIOUS
        <4>2. P \in SUBSET (Block \X Key) /\ p[1] \in Block
          BY <4>1, TableTypes DEF XferRec
        <4>3. \A q, z \in P : q[1] = z[1] => q = z
          BY <3>2, <4>1, LoadsSingle
        <4>4. \A q \in P : q[1] # p[1]
          BY <1>1, <2>1, <3>2, <4>1 DEF LoadGuard
        <4> QED
          BY <3>2, <4>1, <4>2, <4>3, <4>4, WrittenAt
      <3> QED
        BY <1>1, <3>1, <3>2
    <2>6. Data(j, p)'
      BY <1>1, <2>1, <2>5 DEF Data, Unwritten
    <2> QED
      BY <2>2, <2>3, <2>4, <2>6
  <1>7. SourceFits'
    <2>1. \A j \in DOMAIN xfer : xfer'[j].pairs = xfer[j].pairs
      BY <1>1
    <2> HIDE DEF Home, StepGuard, BatchGuard, LoadGuard, Data, Reads
    <2> QED
      BY <1>1, <1>3, <1>6, <2>1 DEF SourceFits
  <1>8. KindsFit'
    BY <1>1, <1>2 DEF FlushInv, KindsFit
  <1>9. LoadsStart'
    <2> HIDE DEF InQueue
    <2> QED
      BY <1>1, <1>2, <1>4 DEF FlushInv, LoadsStart
  <1> QED
    BY <1>7, <1>8, <1>9 DEF FlushInv

\* A job whose count is reached has been reported by every rank.
LEMMA DoneSilent ==
    ASSUME TableInv, 1 \in DOMAIN steps, NEW j \in DOMAIN jobs, NEW report, report = Current(steps[1].report),
           NEW c, c = IF \E m \in report : m.job = j THEN Cardinality((CHOOSE m \in report : m.job = j).ranks) ELSE 0,
           jobs[j].pending = c
    PROVE  Silent(j) = {}
  <1>1. j \in Job
    BY TableTypes
  <1>2. \A m \in steps[1].report : m.job = j => m \in report
    BY DEF Current, TableInv, IdsFit
  <1>3. \A m \in report : m \in steps[1].report
    BY DEF Current
  <1>4. \A m, n \in steps[1].report : m.job = n.job => m = n
    BY DEF TableInv, ReportsFit
  <1>5. c = Cardinality(Told(1, j))
    <2>1. CASE \E m \in report : m.job = j
      <3>1. PICK m : m = CHOOSE x \in report : x.job = j
        OBVIOUS
      <3>2. m \in report /\ m.job = j
        BY <2>1, <3>1
      <3>3. Told(1, j) = m.ranks
        BY <1>3, <1>4, <3>2 DEF Told
      <3> QED
        BY <2>1, <3>1, <3>3
    <2>2. CASE ~\E m \in report : m.job = j
      <3>1. Told(1, j) = {}
        BY <1>2, <2>2 DEF Told
      <3> QED
        BY <2>2, <3>1, FS_EmptySet
    <2> QED
      BY <2>1, <2>2
  <1>6. Told(1, j) \subseteq Awaited(j) /\ Silent(j) \subseteq Awaited(j) /\ Told(1, j) \cap Silent(j) = {}
    BY <1>1 DEF Awaited, TableInv, ReportsFit
  <1>7. IsFiniteSet(Awaited(j))
    <2>1. Silent(j) \subseteq Rank
      BY TableTypes DEF Silent, XferRec
    <2>2. \A t \in DOMAIN steps : Told(t, j) \subseteq Rank
      BY TableTypes DEF Told, StepRec, Report
    <2>3. Awaited(j) \subseteq Rank
      BY <2>1, <2>2 DEF Awaited
    <2> QED
      BY <2>3, FS_Subset, OffloadingConnectorAssumption DEF OffloadingConnectorAssumption
  <1>8. Cardinality(Awaited(j)) = Cardinality(Told(1, j))
    BY <1>5 DEF TableInv, Counted
  <1>9. Awaited(j) = Told(1, j)
    BY <1>6, <1>7, <1>8, FS_Subset
  <1> QED
    BY <1>6, <1>9

\* The jobs that end with an output, and what is left of the tables.
JobsEnd(D) ==
    /\ \A j \in D : j \in DOMAIN jobs /\ Silent(j) = {}
    /\ DOMAIN jobs' = DOMAIN jobs \ D
    /\ \A j \in DOMAIN jobs' : /\ jobs'[j].req = jobs[j].req /\ jobs'[j].store = jobs[j].store
                               /\ jobs'[j].blocks = jobs[j].blocks
    /\ pendingOf' = {p \in pendingOf : p[2] \notin D}

LEMMA OutputJobs ==
    ASSUME TableInv, ProcessOutput
    PROVE  \E D : JobsEnd(D)
  <1> DEFINE report == Current(Head(steps).report)
             Count(j) == IF \E m \in report : m.job = j
                         THEN Cardinality((CHOOSE m \in report : m.job = j).ranks) ELSE 0
             Failed(j) == jobs[j].failed \/ \E m \in report : m.job = j /\ m.bad # {}
             done == {j \in DOMAIN jobs : jobs[j].pending = Count(j)}
  <1>1. /\ jobs' = [j \in DOMAIN jobs \ done |->
                      [jobs[j] EXCEPT !.pending = @ - Count(j), !.failed = Failed(j)]]
        /\ pendingOf' = {p \in pendingOf : p[2] \notin done}
        /\ steps # <<>>
    BY DEF ProcessOutput
  <1>2. PICK D : D = done
    OBVIOUS
  <1>3. 1 \in DOMAIN steps /\ Head(steps) = steps[1]
    <2>1. steps \in Seq(StepRec) /\ steps # <<>>
      BY <1>1, TableTypes
    <2> HIDE DEF report, Count, Failed, done
    <2>2. Len(steps) \in Nat /\ Len(steps) >= 1 /\ DOMAIN steps = 1..Len(steps) /\ Head(steps) = steps[1]
      BY <2>1
    <2> QED
      BY <2>2
  <1>4. ASSUME NEW j \in D PROVE j \in DOMAIN jobs /\ Silent(j) = {}
    <2>1. j \in DOMAIN jobs /\ jobs[j].pending = Count(j)
      BY <1>2
    <2>2. PICK c : c = Count(j)
      OBVIOUS
    <2>3. PICK R : R = report
      OBVIOUS
    <2>4. /\ R = Current(steps[1].report) /\ jobs[j].pending = c
          /\ c = IF \E m \in R : m.job = j THEN Cardinality((CHOOSE m \in R : m.job = j).ranks) ELSE 0
      BY <1>3, <2>1, <2>2, <2>3
    <2> QED
      BY <1>3, <2>1, <2>4, DoneSilent
  <1>5. jobs' = [j \in DOMAIN jobs \ D |-> [jobs[j] EXCEPT !.pending = @ - Count(j), !.failed = Failed(j)]]
    BY <1>1, <1>2
  <1> HIDE DEF Count, Failed, done
  <1>6. ASSUME NEW j \in DOMAIN jobs \ D
        PROVE  /\ jobs'[j].req = jobs[j].req /\ jobs'[j].store = jobs[j].store
               /\ jobs'[j].blocks = jobs[j].blocks
    <2>1. PICK c, f : c = jobs[j].pending - Count(j) /\ f = Failed(j)
      OBVIOUS
    <2>2. jobs'[j] = [jobs[j] EXCEPT !.pending = c, !.failed = f]
      BY <1>5, <2>1
    <2>3. jobs[j] \in JobRec
      BY TableTypes
    <2> QED
      BY <2>2, <2>3, Zenon DEF JobRec
  <1>7. DOMAIN jobs' = DOMAIN jobs \ D
    BY <1>5
  <1>8. pendingOf' = {p \in pendingOf : p[2] \notin D}
    BY <1>1, <1>2
  <1>9. \A j \in DOMAIN jobs' : /\ jobs'[j].req = jobs[j].req /\ jobs'[j].store = jobs[j].store
                                /\ jobs'[j].blocks = jobs[j].blocks
    BY <1>6, <1>7
  <1>10. JobsEnd(D)
    BY <1>4, <1>7, <1>8, <1>9 DEF JobsEnd
  <1> QED
    BY <1>10

LEMMA ProcessOutputFlush ==
    ASSUME TableInv, MemInv, FlushInv, ProcessOutput
    PROVE  FlushInv'
  <1>0. OutputSteps /\ batch = NoBatch /\ UNCHANGED <<toFlush, nextJob, batch, xfer, gpu>>
    BY OutputView
  <1>a. PICK inv, recv : OutputReqs(inv, recv)
    BY OutputView
  <1>b. PICK D : JobsEnd(D)
    BY OutputJobs
  <1>1. /\ 1 \in DOMAIN steps /\ steps[1].state = "ran" /\ \A t \in DOMAIN steps : t \in Nat /\ t >= 1
        /\ \A t \in DOMAIN steps' : t \in Nat /\ t >= 1 /\ t + 1 \in DOMAIN steps /\ steps'[t] = steps[t + 1]
        /\ \A t \in DOMAIN steps : t # 1 => t - 1 \in DOMAIN steps' /\ steps'[t - 1] = steps[t]
        /\ batch.writes = {} /\ batch.loads = {} /\ batch.stores = {} /\ batch.preempted = {} /\ batch.alloc = {}
        /\ UNCHANGED <<toFlush, nextJob, batch, xfer, gpu>>
    BY <1>0 DEF OutputSteps, NoBatch
  <1>2. \A r \in Request : (req'[r].blocks = req[r].blocks \/ req'[r].blocks = <<>>)
                           /\ (req[r].status = "running" => req'[r] = req[r])
    BY <1>a DEF OutputReqs
  <1>3. /\ \A j \in D : j \in DOMAIN jobs /\ Silent(j) = {}
        /\ DOMAIN jobs' = DOMAIN jobs \ D
        /\ \A j \in DOMAIN jobs' : /\ jobs'[j].req = jobs[j].req /\ jobs'[j].store = jobs[j].store
                                   /\ jobs'[j].blocks = jobs[j].blocks
        /\ pendingOf' = {p \in pendingOf : p[2] \notin D}
    BY <1>b DEF JobsEnd
  <1>4. Loads' = Loads /\ \A j : Reads(j)' <=> Reads(j)
    BY <1>1 DEF Loads, Reads
  \* a job that has a rank still busy is not done
  <1>5. \A j \in DOMAIN xfer : Reads(j) => j \notin D
    <2>1. \A j \in DOMAIN xfer : Reads(j) => Here \in Silent(j)
      BY DEF Reads, Silent, MemInv, LoadsOwned, BusySilent
    <2> QED
      BY <1>3, <2>1
  <1>6. \A j : \A s \in DOMAIN steps' : Guarded(j, s + 1) => Guarded(j, s)'
    <2> SUFFICES ASSUME NEW j, NEW s \in DOMAIN steps', Guarded(j, s + 1) PROVE Guarded(j, s)'
      OBVIOUS
    <2>1. PICK t \in DOMAIN steps : t <= s + 1 /\ steps[t].state = "queued" /\ j \in steps[t].flush
      BY DEF Guarded
    <2>2. PICK u : u = t - 1
      OBVIOUS
    <2>3. u \in DOMAIN steps' /\ u <= s /\ steps'[u] = steps[t]
      BY <1>1, <2>1, <2>2
    <2> QED
      BY <2>1, <2>3 DEF Guarded
  <1>7. \A j, b : Due(j, b) => Due(j, b)'
    <2> SUFFICES ASSUME NEW j, NEW b, Due(j, b) PROVE Due(j, b)'
      OBVIOUS
    <2>1. CASE j \in toFlush
      BY <1>1, <2>1 DEF Due
    <2>2. CASE \E t \in DOMAIN steps : steps[t].state = "queued" /\ j \in steps[t].flush
      <3>1. PICK t \in DOMAIN steps : steps[t].state = "queued" /\ j \in steps[t].flush
        BY <2>2
      <3>2. PICK u : u = t - 1
        OBVIOUS
      <3>3. u \in DOMAIN steps' /\ steps'[u] = steps[t]
        BY <1>1, <3>1, <3>2
      <3> QED
        BY <3>1, <3>3 DEF Due
    <2> QED
      BY <1>1, <2>1, <2>2 DEF Due
  <1>8. Held' \subseteq Held
    BY <1>2 DEF Held, ToSet
  <1>9. ASSUME NEW j \in DOMAIN xfer, Reads(j), NEW p, Home(j, p) PROVE Home(j, p)'
    <2>1. CASE Due(j, p[1])
      BY <1>7, <2>1 DEF Home
    <2>2. CASE j \in DOMAIN jobs /\ Computes(xfer[j].req, p)
      <3>1. PICK q \in Request : q = xfer[j].req /\ q = xfer'[j].req
        BY <1>1, TableTypes DEF XferRec
      <3>2. req'[q] = req[q]
        BY <1>2, <2>2, <3>1 DEF Computes
      <3>3. Computes(q, p)'
        BY <2>2, <3>1, <3>2 DEF Computes
      <3> QED
        BY <1>3, <1>5, <1>9, <2>2, <3>1, <3>3 DEF Home
    <2>3. CASE <<p[1], j>> \in pendingOf /\ p[1] \notin Held
      <3>1. <<p[1], j>> \in pendingOf'
        BY <1>3, <1>5, <1>9, <2>3
      <3> QED
        BY <1>8, <2>3, <3>1 DEF Home
    <2> QED
      BY <1>9, <2>1, <2>2, <2>3 DEF Home
  <1>10. ASSUME NEW j \in DOMAIN xfer, Reads(j), NEW p \in xfer[j].pairs
         PROVE  (Home(j, p) /\ StepGuard(j, p) /\ BatchGuard(j, p) /\ LoadGuard(j, p) /\ Data(j, p))'
    <2>1. Home(j, p) /\ StepGuard(j, p) /\ BatchGuard(j, p) /\ LoadGuard(j, p) /\ Data(j, p)
      BY <1>10 DEF FlushInv, SourceFits
    <2>2. Home(j, p)'
      BY <1>9, <1>10, <2>1
    <2> HIDE DEF Due, Home, Guarded
    <2>3. StepGuard(j, p)'
      BY <1>1, <1>6, <2>1 DEF StepGuard
    <2>4. BatchGuard(j, p)'
      BY <1>1 DEF BatchGuard
    <2>5. LoadGuard(j, p)'
      BY <1>1, <1>4, <1>6, <2>1 DEF LoadGuard
    <2>6. Data(j, p)'
      <3>1. CASE gpu[p[1]] = p[2]
        BY <1>1, <3>1 DEF Data
      <3>2. CASE \E t, u \in DOMAIN steps : t <= u /\ steps[t].state # "ran" /\ p \in steps[t].writes /\ j \in steps[u].stores
        <4>1. PICK t, u \in DOMAIN steps : t <= u /\ steps[t].state # "ran" /\ p \in steps[t].writes /\ j \in steps[u].stores
          BY <3>2
        <4>2. PICK v, w : v = t - 1 /\ w = u - 1
          OBVIOUS
        <4>3. t # 1 /\ u # 1
          BY <1>1, <4>1
        <4>4. v \in DOMAIN steps' /\ w \in DOMAIN steps' /\ v <= w /\ steps'[v] = steps[t] /\ steps'[w] = steps[u]
          BY <1>1, <4>1, <4>2, <4>3
        <4> QED
          BY <4>1, <4>4 DEF Data
      <3> QED
        BY <1>1, <2>1, <3>1, <3>2 DEF Data
    <2> QED
      BY <2>2, <2>3, <2>4, <2>5, <2>6
  <1>11. SourceFits'
    <2> HIDE DEF Home, StepGuard, BatchGuard, LoadGuard, Data, Reads
    <2> QED
      BY <1>1, <1>4, <1>10 DEF SourceFits
  <1>12. KindsFit'
    <2>1. /\ \A j \in (toFlush \cup batch.loads \cup batch.stores)' : j < nextJob'
          /\ \A t \in DOMAIN steps' : \A j \in (steps[t].flush \cup steps[t].loads \cup steps[t].stores)' : j < nextJob'
      BY <1>1 DEF FlushInv, KindsFit
    <2>2. /\ \A j \in DOMAIN xfer' : j \in batch'.loads => j \in Loads'
          /\ \A j \in DOMAIN xfer' : \A t \in DOMAIN steps' : j \in steps'[t].loads => j \in Loads'
          /\ \A j \in DOMAIN xfer' : \A t \in DOMAIN steps' : j \in steps'[t].stores => j \notin Loads'
          /\ \A j \in DOMAIN xfer' : j \in batch'.stores => j \notin Loads'
          /\ \A j \in Loads' : xfer'[j].at # "deferred"
      BY <1>1, <1>4 DEF FlushInv, KindsFit
    <2>3. \A j \in DOMAIN jobs' : ~jobs'[j].store => jobs'[j].blocks = {}
      BY <1>3 DEF FlushInv, KindsFit
    <2>4. \A j \in DOMAIN jobs' \cap DOMAIN xfer' :
          /\ jobs'[j].req = xfer'[j].req /\ (jobs'[j].store <=> j \notin Loads')
          /\ j \notin Loads' => \A p \in xfer'[j].pairs : p[1] \in jobs'[j].blocks
      BY <1>1, <1>3, <1>4 DEF FlushInv, KindsFit
    <2>5. /\ batch'.preempted # {} => batch'.loads = {}
          /\ batch'.phase = "plan" => batch'.stores = {}
      BY <1>1 DEF FlushInv, KindsFit
    <2> QED
      BY <2>1, <2>2, <2>3, <2>4, <2>5 DEF KindsFit
  <1>13. LoadsStart'
    <2> SUFFICES ASSUME NEW j \in Loads, xfer[j].at # "started"
                 PROVE  /\ \E t \in DOMAIN steps' : InQueue(j, t)'
                        /\ \A u \in DOMAIN steps' : steps'[u].state = "queued" /\ j \in steps'[u].flush =>
                              \E t \in DOMAIN steps' : t < u /\ InQueue(j, t)'
      BY <1>1, <1>4 DEF LoadsStart
    <2>1. /\ \E t \in DOMAIN steps : InQueue(j, t)
          /\ \A u \in DOMAIN steps : steps[u].state = "queued" /\ j \in steps[u].flush =>
                \E t \in DOMAIN steps : t < u /\ InQueue(j, t)
      BY <1>1 DEF FlushInv, LoadsStart
    <2>2. ASSUME NEW t \in DOMAIN steps, InQueue(j, t) PROVE t - 1 \in DOMAIN steps' /\ InQueue(j, t - 1)'
      <3>1. PICK v : v = t - 1
        OBVIOUS
      <3>2. v \in DOMAIN steps' /\ steps'[v] = steps[t]
        BY <1>1, <2>2, <3>1 DEF InQueue
      <3>3. InQueue(j, v)'
        BY <2>2, <3>2 DEF InQueue
      <3> QED
        BY <3>1, <3>2, <3>3
    <2> HIDE DEF InQueue
    <2>3. ASSUME NEW u \in DOMAIN steps', steps'[u].state = "queued", j \in steps'[u].flush
          PROVE  \E t \in DOMAIN steps' : t < u /\ InQueue(j, t)'
      <3>1. u + 1 \in DOMAIN steps /\ steps[u + 1].state = "queued" /\ j \in steps[u + 1].flush /\ u \in Nat
        BY <1>1, <2>3
      <3>2. PICK t \in DOMAIN steps : t < u + 1 /\ InQueue(j, t)
        BY <2>1, <3>1
      <3>3. t - 1 < u
        BY <1>1, <3>1, <3>2
      <3> QED
        BY <2>2, <3>2, <3>3
    <2> QED
      BY <2>1, <2>2, <2>3
  <1> QED
    BY <1>11, <1>12, <1>13 DEF FlushInv

(* The flush invariant holds while resets find nothing running. *)

LEMMA InitFlush == Init => FlushInv
  <1> SUFFICES ASSUME Init PROVE FlushInv
    OBVIOUS
  <1>1. /\ DOMAIN xfer = {} /\ DOMAIN steps = {} /\ DOMAIN jobs = {} /\ toFlush = {}
        /\ batch.loads = {} /\ batch.stores = {} /\ batch.preempted = {}
    BY DEF Init, NoBatch
  <1>2. Loads = {}
    BY <1>1 DEF Loads
  <1> QED
    BY <1>1, <1>2 DEF FlushInv, KindsFit, LoadsStart, SourceFits

LEMMA NextFlush ==
    ASSUME \A kind \in ResetKinds : ~kind.running
    PROVE  TableInv /\ MemInv /\ FlushInv /\ [Next]_vars => FlushInv'
  <1> SUFFICES ASSUME TableInv, MemInv, FlushInv, [Next]_vars PROVE FlushInv'
    OBVIOUS
  <1>1. CASE UNCHANGED vars
    <2>1. UNCHANGED <<req, conn, jobs, pendingOf, toFlush, nextJob, batch, steps, xfer, gpu>>
      BY <1>1 DEF vars
    <2>2. FreesOnly
      BY <2>1, SameSteps, TableTypes
    <2>3. ASSUME NEW j \in DOMAIN xfer, NEW p, j \in DOMAIN jobs, Computes(xfer[j].req, p) PROVE Home(j, p)'
      <3>1. PICK z : z = xfer[j].req /\ z = xfer'[j].req
        BY <2>1
      <3>2. Computes(z, p)'
        BY <2>1, <2>3, <3>1 DEF Computes
      <3> QED
        BY <2>1, <2>3, <3>1, <3>2 DEF Home
    <2>4. batch'.preempted # {} => batch.loads = {}
      BY <2>1 DEF FlushInv, KindsFit
    <2> QED
      BY <2>1, <2>2, <2>3, <2>4, CalmFrame
  <1>2. ASSUME NEW r \in Request, Arrive(r) \/ Preempt(r) \/ AdmitLoad(r) \/ Promote(r) \/ Finish(r) \/ BuildStore(r)
        PROVE  FlushInv'
    BY <1>2, ArriveFlush, PreemptFlush, AdmitLoadFlush, PromoteFlush, FinishFlush, BuildStoreFlush
  <1>3. ASSUME NEW r \in Request, NEW n \in 0..N(r), ScheduleRunning(r, n)
        PROVE  FlushInv'
    <2>1. /\ n \in Nat /\ req[r].status \in {"waiting", "running"} /\ batch.phase = "plan"
          /\ UNCHANGED <<conn, jobs, pendingOf, toFlush, nextJob, steps, xfer, gpu>>
      BY <1>3, LengthOfKeys DEF ScheduleRunning, Planning
    <2>2. PICK new \in Allocations(Lacks(r, n)) : Scheduled(r, n, new)
      BY <1>3 DEF ScheduleRunning
    <2> QED
      BY <2>1, <2>2, ScheduledFlush
  <1>4. ASSUME NEW r \in Request, NEW n \in 0..N(r), Admit(r, n)
        PROVE  FlushInv'
    <2>1. /\ n \in Nat /\ req[r].status \in {"waiting", "running"} /\ batch.phase = "plan"
          /\ UNCHANGED <<conn, jobs, pendingOf, toFlush, nextJob, steps, xfer, gpu>>
      BY <1>4, LengthOfKeys DEF Admit, Planning
    <2>2. PICK new \in Allocations(Lacks(r, n)) : Scheduled(r, n, new)
      BY <1>4 DEF Admit
    <2> QED
      BY <2>1, <2>2, ScheduledFlush
  <1>5. CASE Engine
    BY <1>2, <1>3, <1>4, <1>5, BuildMetaFlush, IssueStepFlush, ProcessOutputFlush, ResetFlush DEF Engine
  <1>6. CASE WorkerLoop
    BY <1>6, LaunchFlush, ForwardDoneFlush DEF WorkerLoop
  <1>7. ASSUME NEW j \in Job, NEW k \in Rank, Transfers(j, k) PROVE FlushInv'
    BY <1>7, TransferDoneFlush DEF Transfers
  <1> QED
    BY <1>1, <1>5, <1>6, <1>7 DEF Next

\* A store that may read has its data: the steps that could have yet to write it have run.
LEMMA SourcesIntact == TableInv /\ MemInv /\ FlushInv => StoreSourceIntact
  <1> SUFFICES ASSUME TableInv, MemInv, FlushInv, NEW j \in DOMAIN xfer, xfer[j].store, Here \in xfer[j].busy, Ran(j),
                      NEW p \in xfer[j].pairs
               PROVE  gpu[p[1]] = p[2]
    BY DEF StoreSourceIntact
  <1>1. Data(j, p)
    BY DEF Reads, Loads, FlushInv, SourceFits
  <1>2. j \notin batch.stores
    BY DEF Ran
  <1>3. ASSUME NEW t \in DOMAIN steps, NEW u \in DOMAIN steps, t <= u, steps[t].state # "ran", j \in steps[u].stores
        PROVE  FALSE
    <2>1. steps[u].state = "ran"
      BY <1>3 DEF Ran
    <2>2. t # u
      BY <1>3, <2>1
    <2>3. t < u => steps[t].state = "ran"
      BY <2>1 DEF MemInv, StepsOrdered
    <2>4. t < u
      BY <1>3, <2>2, TableTypes
    <2> QED
      BY <1>3, <2>3, <2>4
  <1> QED
    BY <1>1, <1>2, <1>3 DEF Data

\* scheduler.py stores blocks of requests that may be preempted, finished or reset before the
\* worker has read them: wherever get_finished lets a store read, every block of it still holds
\* the data of its key, as long as resets come between steps with nothing running. A forced
\* reset of running requests reuses blocks that stores of the current batch have still to read.
THEOREM StoreSourceIsIntact ==
    ASSUME \A kind \in ResetKinds : ~kind.running
    PROVE  Spec => []StoreSourceIntact
  <1>1. TableInv /\ MemInv /\ FlushInv /\ [Next]_vars => FlushInv'
    BY NextFlush
  <1> QED
    BY <1>1, SourcesIntact, ConnectorInvariant, InitMem, NextMem, InitFlush, PTL DEF Spec
=============================================================================
