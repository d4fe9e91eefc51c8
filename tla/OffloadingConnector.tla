------------------------ MODULE OffloadingConnector ------------------------
(***************************************************************************)
(* The scheduler side of the KV offloading connector, driven by the engine *)
(* scheduler and served by the workers' transfer threads.                  *)
(*                                                                         *)
(* Source (see the map in PROJECT.json):                                   *)
(*   offloading/scheduler.py   OffloadingConnectorScheduler: _jobs,        *)
(*                             _req_status, _block_id_to_pending_jobs,     *)
(*                             _current_batch_*, _stale_job_threshold      *)
(*   core/sched/scheduler.py   admission, preemption, finishing, deferred  *)
(*                             frees, invalid-block recovery and resets    *)
(*   multinode.py              the worker's report of finished jobs        *)
(*                                                                         *)
(* A request is a sequence of offloaded blocks (KeyOf); one full-attention *)
(* group is modelled, a GPU block per offloaded block, and no hit in the   *)
(* GPU's own prefix cache.  The engine keeps up to Depth issued steps      *)
(* whose output it has not processed (1: synchronous scheduling, 2:        *)
(* asynchronous).  gpu is the memory of one rank, Here; the other ranks    *)
(* matter through the time and the outcome of their reports.               *)
(***************************************************************************)
EXTENDS Integers, Sequences, FiniteSets, FiniteSetsExt, SequencesExt

CONSTANTS
    Request, Key,
    KeyOf,         \* [Request -> Seq(Key)]: the offload keys of a request
    Prompt,        \* [Request -> Nat]: the blocks of it that may be offloaded
    Block,         \* GPU blocks
    Rank, Here,    \* workers, and the one whose memory is followed
    Slots,         \* capacity of the offloading tier, in keys
    Eagle,         \* the group's trailing block is volatile
    Depth,         \* concurrent batches
    Failures,      \* transfers may fail
    ResetKinds,    \* resets explored, [running, connector : BOOLEAN]
    MaxJobs, MaxPreempts, MaxResets  \* bounds

ASSUME OffloadingConnectorAssumption ==
    /\ KeyOf \in [Request -> Seq(Key)] /\ Prompt \in [Request -> Nat]
    /\ Here \in Rank /\ IsFiniteSet(Rank) /\ IsFiniteSet(Block)
    /\ Depth \in Nat \ {0} /\ Slots \in Nat
    /\ Eagle \in BOOLEAN /\ Failures \in BOOLEAN
    /\ ResetKinds \subseteq [running : BOOLEAN, connector : BOOLEAN]
    /\ MaxJobs \in Nat /\ MaxPreempts \in Nat /\ MaxResets \in Nat

VARIABLES
    req,        \* engine: [Request -> [status, computed, blocks]]
    conn,       \* _req_status: [Request -> [tracked, next, jobs]]
    jobs,       \* _jobs: live job id -> TransferJobStatus
    pendingOf,  \* _block_id_to_pending_jobs, as <<block, job>> pairs
    toFlush,    \* _current_batch_jobs_to_flush
    nextJob,    \* _job_counter
    stale,      \* _stale_job_threshold
    batch,      \* the schedule() call in progress
    steps,      \* issued steps whose output is not processed
    xfer,       \* transfers the workers have not completely reported
    gpu,        \* [Block -> Key or NoKey]: contents on rank Here
    stored,     \* keys in the tier's index
    seen,       \* keys that were ever offered to or found in the tier
    preempts, resets

vars == <<req, conn, jobs, pendingOf, toFlush, nextJob, stale, batch, steps,
          xfer, gpu, stored, seen, preempts, resets>>

NoKey == "empty"
Job == 0..MaxJobs - 1
N(r) == Len(KeyOf[r])
KeyAt(r, i) == KeyOf[r][i]
KeysTo(r, n) == {KeyAt(r, i) : i \in 1..n}

NoBatch == [phase |-> "plan", loads |-> {}, alloc |-> {}, sched |-> {},
            built |-> {}, preempted |-> {}, owed |-> {}, admitted |-> {}, writes |-> {},
            stores |-> {}]

Init ==
    /\ req = [r \in Request |->
                [status |-> "unborn", computed |-> 0, blocks |-> <<>>]]
    /\ conn = [r \in Request |-> [tracked |-> FALSE, next |-> 0, jobs |-> {}]]
    /\ jobs = <<>> /\ pendingOf = {} /\ toFlush = {}
    /\ nextJob = 0 /\ stale = 0
    /\ batch = NoBatch /\ steps = <<>>
    /\ xfer = <<>> /\ gpu = [b \in Block |-> NoKey]
    /\ stored = {} /\ seen = {} /\ preempts = 0 /\ resets = 0

----------------------------------------------------------------------------
(* Derived state *)

IsFinished(r) == req[r].status \in {"finished", "gone"}
Held == UNION {ToSet(req[r].blocks) : r \in Request}
Fenced == UNION {steps[s].frees : s \in DOMAIN steps}
Free == Block \ (Held \cup Fenced)

Storing == UNION {jobs[j].keys : j \in {i \in DOMAIN jobs : jobs[i].store}}
Loading == UNION {jobs[j].keys : j \in {i \in DOMAIN jobs : ~jobs[i].store}}

\* The engine is between two schedule() calls, or inside the planning part of
\* one that may still begin or go on.
Planning == batch.phase = "plan" /\ Len(steps) < Depth
Idle == Planning /\ batch = NoBatch

\* Every write of the step that computed a store's blocks has been executed.
Ran(j) ==
    /\ j \notin batch.stores
    /\ \A s \in DOMAIN steps : j \in steps[s].stores => steps[s].state = "ran"

\* storable_blocks: the trailing block of an eagle group is held back.
Storable(n) == IF Eagle /\ n > 0 THEN n - 1 ELSE n

\* num_offloadable_tokens: max_offload_tokens and offload_prompt_only.
Offloadable(r) == Min({req[r].computed, Prompt[r]})

\* advance_stored_idx: store progress after n offloadable blocks.
StoredToRaw(n) == n
StoredTo(n) == Storable(n)

\* _lookup for one group: the longest prefix the tier holds, less the block
\* an eagle group pops; -1 when the answer must wait for a transfer.
Prefix(r, S) == Max({n \in 0..N(r) : KeysTo(r, n) \subseteq S})
Lookup(r) ==
    LET reach == Prefix(r, stored \cup Storing)
        hit == Prefix(r, stored)
        h == IF Eagle /\ hit > 0 THEN hit - 1 ELSE hit
    IN  IF hit < reach \/ (h > 0 /\ KeysTo(r, h) \cap Loading # {}) THEN -1 ELSE h

\* _free_request_blocks: blocks a step in flight may still write return to the
\* pool only when every issued step has been processed.
FreedAtOnce(R) == steps
FencedFree(R) ==
    LET late == {r \in R : \E s \in DOMAIN steps : r \in steps[s].reqs}
        last == Max({s \in DOMAIN steps : steps[s].reqs # {}})
    IN  IF late = {} THEN steps
        ELSE [steps EXCEPT ![last].frees =
                @ \cup UNION {ToSet(req[r].blocks) : r \in late}]
----------------------------------------------------------------------------
(* Requests and the planning part of schedule() *)

\* add_request, on_new_request
Arrive(r) ==
    /\ Idle /\ req[r].status = "unborn"
    /\ req' = [req EXCEPT ![r].status = "waiting"]
    /\ conn' = [conn EXCEPT ![r].tracked = TRUE]
    /\ UNCHANGED <<jobs, pendingOf, toFlush, nextJob, stale, batch, steps, xfer,
                   gpu, stored, seen, preempts, resets>>

\* Blocks a request lacks before n more of its blocks can be computed.
Lacks(r, n) == Max({0, req[r].computed + n - Len(req[r].blocks)})

\* allocate_slots and the bookkeeping of a scheduled request.
Scheduled(r, n, new) ==
    LET all == req[r].blocks \o new
        at == req[r].computed + 1 .. req[r].computed + n
    IN  /\ req' = [req EXCEPT ![r] = [status |-> "running", blocks |-> all,
                                      computed |-> @.computed + n]]
        /\ batch' = [batch EXCEPT !.sched = @ \cup {r},
                       !.alloc = @ \cup ToSet(new),
                       !.admitted = @ \cup (IF req[r].status = "running" THEN {} ELSE {r}),
                       !.writes = @ \cup {<<all[i], KeyAt(r, i)>> : i \in at}]

Allocations(n) == {new \in [1..n -> Free] : IsInjective(new)}

\* The loop over self.running: n more blocks are computed in this step (none
\* when the request decodes inside its last block).
ScheduleRunning(r, n) ==
    /\ Planning /\ req[r].status = "running"
    /\ r \notin batch.sched /\ batch.admitted = {} /\ batch.loads = {}
    /\ req[r].computed + n <= N(r) /\ (n = 0 => req[r].computed = N(r))
    /\ \E new \in Allocations(Lacks(r, n)) : Scheduled(r, n, new)
    /\ UNCHANGED <<conn, jobs, pendingOf, toFlush, nextJob, stale, steps, xfer,
                   gpu, stored, seen, preempts, resets>>

\* _preempt_request: a running request gives its blocks back because another
\* one, or it itself, cannot get a block.
Preempt(r) ==
    /\ Planning /\ preempts < MaxPreempts
    /\ req[r].status = "running" /\ r \notin batch.sched
    /\ batch.admitted = {} /\ batch.loads = {}
    /\ \E q \in Request \ batch.sched :
          /\ req[q].status = "running" /\ req[q].computed < N(q)
          /\ Lacks(q, 1) > Cardinality(Free)
          /\ batch' = [batch EXCEPT !.preempted = @ \cup {r}, !.owed = @ \cup {q}]
    /\ steps' = FencedFree({r})
    /\ req' = [req EXCEPT ![r] = [status |-> "waiting", computed |-> 0, blocks |-> <<>>]]
    /\ preempts' = preempts + 1
    /\ UNCHANGED <<conn, jobs, pendingOf, toFlush, nextJob, stale, xfer, gpu,
                   stored, seen, resets>>

\* The loop over the waiting queues runs only when nothing was preempted.
\* A request without an external hit, or resumed after a load, starts to run; when all
\* its blocks were loaded (n = 0), it computes its last token again, which leaves the
\* data of its last block what it is.
Admit(r, n) ==
    /\ Planning /\ batch.preempted = {}
    /\ req[r].status = "waiting"
    /\ req[r].computed + n <= N(r) /\ (n = 0 => req[r].computed = N(r))
    /\ req[r].computed = 0 => Lookup(r) = 0
    /\ \E new \in Allocations(Lacks(r, n)) : Scheduled(r, n, new)
    /\ UNCHANGED <<conn, jobs, pendingOf, toFlush, nextJob, stale, steps, xfer,
                   gpu, stored, seen, preempts, resets>>

\* The record of a new job, at the connector and at the workers.
JobOf(r, store, K, B) ==
    [req |-> r, store |-> store, keys |-> K, blocks |-> B,
     pending |-> Cardinality(Rank), failed |-> FALSE]
TransferOf(r, store, pairs) ==
    [req |-> r, store |-> store, pairs |-> pairs, at |-> "queued",
     busy |-> Rank, unreported |-> Rank, bad |-> [k \in Rank |-> {}]]
With(table, j, entry) == [i \in DOMAIN table \cup {j} |-> IF i = j THEN entry ELSE table[i]]

\* get_num_new_matched_tokens found h blocks; update_state_after_alloc creates
\* the load job and the request waits for it.
AdmitLoad(r) ==
    LET h == Lookup(r) IN
    /\ Planning /\ batch.preempted = {} /\ nextJob < MaxJobs
    /\ req[r].status = "waiting" /\ req[r].computed = 0 /\ h > 0
    /\ \E new \in Allocations(h) :
          LET pairs == {<<new[i], KeyAt(r, i)>> : i \in 1..h} IN
          /\ req' = [req EXCEPT ![r] = [status |-> "loading", computed |-> h, blocks |-> new]]
          /\ batch' = [batch EXCEPT !.loads = @ \cup {nextJob}, !.alloc = @ \cup ToSet(new)]
          /\ jobs' = With(jobs, nextJob, JobOf(r, FALSE, KeysTo(r, h), {}))
          /\ xfer' = With(xfer, nextJob, TransferOf(r, FALSE, pairs))
    /\ conn' = [conn EXCEPT ![r].jobs = @ \cup {nextJob}, ![r].next = h]
    /\ nextJob' = nextJob + 1
    /\ seen' = seen \cup KeysTo(r, h)
    /\ UNCHANGED <<pendingOf, toFlush, stale, steps, gpu, stored, preempts, resets>>

\* _try_promote_blocked_waiting_request, _update_waiting_for_remote_kv: a
\* request left with no valid block gives its blocks back.
Promote(r) ==
    /\ Planning /\ batch.preempted = {} /\ req[r].status = "received"
    /\ req' = [req EXCEPT ![r] = [status |-> "waiting", computed |-> @.computed,
                                  blocks |-> IF @.computed > 0 THEN @.blocks ELSE <<>>]]
    /\ UNCHANGED <<conn, jobs, pendingOf, toFlush, nextJob, stale, batch, steps,
                   xfer, gpu, stored, seen, preempts, resets>>

----------------------------------------------------------------------------
(* build_connector_meta *)

\* Jobs of preempted requests, and jobs that read a block just given away.
FlushNone == {}
FlushPreempted == UNION {conn[r].jobs : r \in batch.preempted}
FlushReused == {p[2] : p \in {q \in pendingOf : q[1] \in batch.alloc}}

\* has_requests: the engine steps while requests are alive or, through
\* has_pending_push_work, while the connector has jobs.
HasWorkRequests == \E r \in Request : req[r].status \notin {"unborn", "gone"}
HasWorkScheduled == \E r \in Request : req[r].status \in {"waiting", "running"}
HasWork == jobs # <<>> \/ \E r \in Request : req[r].status \notin {"unborn", "gone"}

BuildMeta ==
    /\ Planning /\ HasWork
    /\ batch.owed \subseteq batch.sched \cup batch.preempted
    /\ \A r \in batch.preempted : conn[r].jobs \subseteq DOMAIN jobs
    /\ toFlush' = toFlush \cup FlushPreempted \cup FlushReused
    /\ batch' = [batch EXCEPT !.phase = "stores"]
    /\ UNCHANGED <<req, conn, jobs, pendingOf, nextJob, stale, steps, xfer, gpu,
                   stored, seen, preempts, resets>>

\* What the tier accepts of the keys offered (prepare_store).
NewKeys(K) == K \ (stored \cup Storing)
Used == Cardinality(stored \cup Storing)
Victims(K) ==
    LET need == Used + Cardinality(NewKeys(K)) - Slots
        size == IF need > 0 THEN need ELSE 0
    IN  {E \in SUBSET (stored \ (Loading \cup K)) : Cardinality(E) = size}

\* _build_store_jobs, one scheduled request: nothing new to store, or refused
\* by a full tier and offered again in the next step, or a job is created.
\* (At the bound MaxJobs the tier refuses.)
BuildStore(r) ==
    LET n == Storable(Offloadable(r))
        span == conn[r].next + 1 .. n
        offer == {KeyAt(r, i) : i \in span}
        new == NewKeys(offer)
        pairs == {<<req[r].blocks[i], KeyAt(r, i)>> : i \in {m \in span : KeyAt(r, m) \in new}}
    IN
    /\ batch.phase = "stores" /\ r \in batch.sched \ batch.built
    /\ \/ /\ new = {}
          /\ conn' = [conn EXCEPT ![r].next = StoredTo(Offloadable(r))]
          /\ seen' = seen \cup offer
          /\ batch' = [batch EXCEPT !.built = @ \cup {r}]
          /\ UNCHANGED <<jobs, xfer, nextJob, stored>>
       \/ /\ new # {} /\ (Victims(offer) = {} \/ nextJob = MaxJobs)
          /\ batch' = [batch EXCEPT !.built = @ \cup {r}]
          /\ UNCHANGED <<conn, jobs, xfer, nextJob, stored, seen>>
       \/ /\ new # {} /\ nextJob < MaxJobs
          /\ conn[r].jobs \subseteq DOMAIN jobs
          /\ \E E \in Victims(offer) : stored' = stored \ E
          /\ jobs' = With(jobs, nextJob, JobOf(r, TRUE, new, {p[1] : p \in pairs}))
          /\ xfer' = With(xfer, nextJob, TransferOf(r, TRUE, pairs))
          /\ conn' = [conn EXCEPT ![r].next = StoredTo(Offloadable(r)),
                                  ![r].jobs = @ \cup {nextJob}]
          /\ nextJob' = nextJob + 1
          /\ seen' = seen \cup offer
          /\ batch' = [batch EXCEPT !.built = @ \cup {r}, !.stores = @ \cup {nextJob}]
    /\ UNCHANGED <<req, pendingOf, toFlush, stale, steps, gpu, preempts, resets>>

\* The metadata is complete: the step goes to the workers.
IssueStep ==
    /\ batch.phase = "stores" /\ batch.built = batch.sched
    /\ steps' = Append(steps,
         [flush |-> toFlush, loads |-> batch.loads, stores |-> batch.stores,
          writes |-> batch.writes, reqs |-> batch.sched, frees |-> {},
          state |-> "queued", report |-> {}])
    /\ batch' = NoBatch /\ toFlush' = {}
    /\ UNCHANGED <<req, conn, jobs, pendingOf, nextJob, stale, xfer, gpu, stored,
                   seen, preempts, resets>>

----------------------------------------------------------------------------
(* The workers *)

Written(pairs) == [b \in Block |->
    IF \E k \in Key : <<b, k>> \in pairs THEN CHOOSE k \in Key : <<b, k>> \in pairs
    ELSE gpu[b]]

\* A worker starts a step: the stores it held back since the last step are
\* submitted, the jobs to flush are waited for, the step's loads start, its
\* stores are held back, the forward pass is launched, and what has finished
\* is reported with this step's output.
Launch(s) ==
    LET step == steps[s]
        flushed == step.flush \cap DOMAIN xfer
        Now(j) == [xfer[j] EXCEPT
            !.at = IF j \in step.stores THEN "deferred"
                   ELSE IF j \in step.loads \/ @ = "deferred" THEN "started" ELSE @,
            !.busy = IF j \in flushed THEN {} ELSE @]
        Told(j) == IF Now(j).at = "started" THEN Now(j).unreported \ Now(j).busy ELSE {}
        told == {j \in DOMAIN xfer : Told(j) # {}}
        AllTold(j) == Now(j).unreported \ Told(j) = {}
    IN
    /\ step.state = "queued"
    /\ \A t \in 1..s - 1 : steps[t].state # "queued"
    /\ \A j \in flushed : Ran(j)
    /\ steps' = [steps EXCEPT ![s].state = "launched",
          ![s].report = {[job |-> j, req |-> xfer[j].req, load |-> ~xfer[j].store,
                          ranks |-> Told(j), last |-> AllTold(j),
                          bad |-> UNION {xfer[j].bad[k] : k \in Told(j)}] : j \in told}]
    /\ xfer' = [j \in {i \in DOMAIN xfer : ~(i \in told /\ AllTold(i))} |->
                  [Now(j) EXCEPT !.unreported = @ \ Told(j)]]
    /\ gpu' = Written(UNION {xfer[j].pairs : j \in
                 {i \in flushed : ~xfer[i].store /\ Here \in xfer[i].busy}})
    /\ UNCHANGED <<req, conn, jobs, pendingOf, toFlush, nextJob, stale, batch,
                   stored, seen, preempts, resets>>

\* The forward pass of a launched step has written its blocks.
ForwardDone(s) ==
    /\ steps[s].state = "launched"
    /\ \A t \in 1..s - 1 : steps[t].state = "ran"
    /\ steps' = [steps EXCEPT ![s].state = "ran"]
    /\ gpu' = Written(steps[s].writes)
    /\ UNCHANGED <<req, conn, jobs, pendingOf, toFlush, nextJob, stale, batch, xfer,
                   stored, seen, preempts, resets>>

\* A store held back so far that the next launch submits and waits for.
Flushing(j) ==
    /\ xfer[j].store /\ xfer[j].at = "deferred"
    /\ \E s \in DOMAIN steps : /\ steps[s].state = "queued" /\ j \in steps[s].flush
                             /\ \A t \in 1..s - 1 : steps[t].state # "queued"

\* A transfer that was submitted ends on one rank, before the next launch or while that
\* waits for it; bad are the blocks that failed there.  A store's copy waits for the
\* forward pass that computed its blocks.
TransferDone(j, k, bad) ==
    /\ xfer[j].at = "started" \/ Flushing(j)
    /\ k \in xfer[j].busy
    /\ xfer[j].store => Ran(j)
    /\ bad = {} \/ Failures
    /\ xfer' = [xfer EXCEPT ![j].busy = @ \ {k}, ![j].bad[k] = bad]
    /\ gpu' = IF xfer[j].store \/ k # Here THEN gpu
              ELSE Written({p \in xfer[j].pairs : p[1] \notin bad})
    /\ UNCHANGED <<req, conn, jobs, pendingOf, toFlush, nextJob, stale, batch, steps,
                   stored, seen, preempts, resets>>

----------------------------------------------------------------------------
(* The output of a step, the end of a request, resets *)

\* _update_requests_with_invalid_blocks for a request whose load failed.
ValidToLast(r, invalid) ==
    LET bad == {i \in 1..req[r].computed : req[r].blocks[i] \in invalid}
    IN  IF bad = {} THEN req[r].computed ELSE Max(bad) - 1
ValidTo(r, invalid) ==
    LET bad == {i \in 1..req[r].computed : req[r].blocks[i] \in invalid}
    IN  IF bad = {} THEN req[r].computed ELSE Min(bad) - 1
\* update_connector_output ignores the jobs of before a reset.
Current(report) == {m \in report : m.job >= stale}

\* update_from_output of the oldest step: invalid blocks, failed jobs, job
\* completions, received requests, and the fenced blocks return to the pool.
ProcessOutput ==
    LET step == Head(steps)
        report == Current(step.report)
        invalid == UNION {m.bad : m \in {n \in step.report : n.load}}
        Count(j) == IF \E m \in report : m.job = j
                    THEN Cardinality((CHOOSE m \in report : m.job = j).ranks) ELSE 0
        Failed(j) == jobs[j].failed \/ \E m \in report : m.job = j /\ m.bad # {}
        done == {j \in DOMAIN jobs : jobs[j].pending = Count(j)}
        dropped == UNION {jobs[j].keys : j \in {i \in DOMAIN jobs : ~jobs[i].store /\ Failed(i)}}
        added == UNION {jobs[j].keys : j \in {i \in done : jobs[i].store /\ ~Failed(i)}}
        Left(r) == conn[r].jobs \ done
        received == {m.req : m \in {n \in step.report : n.load /\ n.last}}
    IN
    /\ steps # <<>> /\ step.state = "ran" /\ batch = NoBatch
    /\ steps' = Tail(steps)
    /\ stored' = (stored \ dropped) \cup added
    /\ jobs' = [j \in DOMAIN jobs \ done |->
                  [jobs[j] EXCEPT !.pending = @ - Count(j), !.failed = Failed(j)]]
    /\ pendingOf' = {p \in pendingOf : p[2] \notin done}
    /\ conn' = [r \in Request |->
                  [conn[r] EXCEPT !.jobs = Left(r),
                     !.tracked = @ /\ ~(IsFinished(r) /\ Left(r) = {} /\ conn[r].jobs # {})]]
    /\ req' = [r \in Request |->
         IF r \in received /\ req[r].status = "finished"
         THEN [status |-> "gone", computed |-> 0, blocks |-> <<>>]
         ELSE IF req[r].status = "loading"
         THEN [req[r] EXCEPT !.computed = ValidTo(r, invalid),
                             !.status = IF r \in received THEN "received" ELSE @]
         ELSE req[r]]
    /\ UNCHANGED <<toFlush, nextJob, stale, batch, xfer, gpu, seen, preempts, resets>>

\* Mutant of Watched: the blocks of pending stores are not watched.
WatchedNone(r) == {}

\* finish_requests / a stop in update_from_output, then _free_request and
\* request_finished: the connector forgets the request, or watches the blocks
\* its pending stores read; blocks a load still fills stay allocated.
Watched(r) ==
    UNION {{<<b, j>> : b \in jobs[j].blocks} : j \in conn[r].jobs}

\* The status outlives the request while jobs are in flight.
Kept(r) == conn[r].jobs # {}

Finish(r) ==
    LET loading == req[r].status = "loading" IN
    /\ Idle /\ req[r].status \in {"waiting", "loading", "received", "running"}
    /\ conn[r].jobs \subseteq DOMAIN jobs
    /\ conn' = [conn EXCEPT ![r].tracked = Kept(r)]
    /\ pendingOf' = pendingOf \cup Watched(r)
    /\ steps' = IF loading THEN steps ELSE FencedFree({r})
    /\ req' = [req EXCEPT ![r] = IF loading THEN [@ EXCEPT !.status = "finished"]
                 ELSE [status |-> "gone", computed |-> 0, blocks |-> <<>>]]
    /\ UNCHANGED <<jobs, toFlush, nextJob, stale, batch, xfer, gpu, stored, seen,
                   preempts, resets>>

\* reset_cache of the connector: every job is to be flushed and forgotten,
\* finished requests are finalised, active ones store again from block 0.
FlushAll == DOMAIN jobs
AfterResetLeaking(r) == [conn[r] EXCEPT !.next = 0, !.jobs = {}]
AfterReset(r) ==
    IF IsFinished(r) THEN [conn[r] EXCEPT !.tracked = FALSE, !.jobs = {}]
    ELSE [conn[r] EXCEPT !.next = 0]
ResetConnector ==
    /\ toFlush = {} /\ toFlush' = FlushAll
    /\ conn' = [r \in Request |-> AfterReset(r)]
    /\ stored' = {} /\ seen' = {}
    /\ stale' = nextJob /\ jobs' = <<>> /\ pendingOf' = {}

\* reset_prefix_cache: running requests are preempted when asked to; the call
\* fails, before it reaches the connector, if blocks are still in use then.
Reset(kind) ==
    LET R == {r \in Request : kind.running /\ req[r].status = "running"}
        late == {r \in R : \E s \in DOMAIN steps : r \in steps[s].reqs}
        inUse == \/ late # {} \/ Fenced # {}
                 \/ \E r \in Request \ R : req[r].blocks # <<>>
    IN
    /\ Idle /\ resets < MaxResets
    /\ steps' = FencedFree(R)
    /\ req' = [r \in Request |-> IF r \in R
                 THEN [status |-> "waiting", computed |-> 0, blocks |-> <<>>] ELSE req[r]]
    /\ IF kind.connector /\ ~(kind.running /\ inUse) THEN ResetConnector
       ELSE UNCHANGED <<toFlush, conn, stored, seen, stale, jobs, pendingOf>>
    /\ resets' = resets + 1
    /\ UNCHANGED <<nextJob, batch, xfer, gpu, preempts>>

----------------------------------------------------------------------------
Engine ==
    \/ \E r \in Request : Arrive(r) \/ Preempt(r) \/ AdmitLoad(r) \/ Promote(r) \/ Finish(r)
    \/ \E r \in Request : \E n \in 0..N(r) : ScheduleRunning(r, n) \/ Admit(r, n)
    \/ BuildMeta \/ IssueStep \/ ProcessOutput
    \/ \E r \in Request : BuildStore(r)
    \/ \E kind \in ResetKinds : Reset(kind)

WorkerLoop == \E s \in DOMAIN steps : Launch(s) \/ ForwardDone(s)

\* Any blocks of a load may fail; of a store only success or failure is reported.
Outcomes(j) ==
    LET all == {p[1] : p \in xfer[j].pairs}
    IN  IF xfer[j].store THEN {{}, all} ELSE SUBSET all

Transfers(j, k) ==
    /\ j \in DOMAIN xfer
    /\ \E bad \in Outcomes(j) : TransferDone(j, k, bad)

Next == Engine \/ WorkerLoop \/ \E j \in Job, k \in Rank : Transfers(j, k)

Spec == Init /\ [][Next]_vars

\* The engine loop and each worker's loop never stop while they have something
\* to do, and a transfer that was started ends.
FairSpec ==
    /\ Spec /\ WF_vars(Engine) /\ WF_vars(WorkerLoop)
    /\ \A j \in Job, k \in Rank : WF_vars(Transfers(j, k))

----------------------------------------------------------------------------
(* Properties *)

\* Every variable has its type (jobs, transfers and steps are records the
\* actions build; their ids, requests, blocks and ranks are checked).
TypeOK ==
    /\ \A r \in Request :
          /\ req[r].status \in {"unborn", "waiting", "loading", "received", "running",
                                "finished", "gone"}
          /\ req[r].computed \in 0..N(r) /\ ToSet(req[r].blocks) \subseteq Block
          /\ conn[r].next \in 0..N(r) /\ conn[r].jobs \subseteq Job
    /\ DOMAIN jobs \subseteq Job
    /\ \A j \in DOMAIN jobs : jobs[j].pending \in 1..Cardinality(Rank)
    /\ pendingOf \subseteq Block \X Job
    /\ DOMAIN xfer \subseteq Job /\ gpu \in [Block -> Key \cup {NoKey}]
    /\ Len(steps) <= Depth /\ stored \subseteq Key
    /\ Cardinality(stored \cup Storing) <= Slots

\* A GPU block a store still has to copy holds what the store's step computed:
\* blocks are reused (preemption, finished requests) only after a flush.
StoreSourceIntact ==
    \A j \in DOMAIN xfer : xfer[j].store /\ Here \in xfer[j].busy /\ Ran(j) =>
        \A p \in xfer[j].pairs : gpu[p[1]] = p[2]

\* What a request counts as computed is in its blocks, except for what steps in
\* flight have yet to write and for a load that is not received: no late load,
\* late forward pass or failed load leaves wrong data in a prefix.
PrefixIntact ==
    \A r \in Request : req[r].status \in {"running", "received", "waiting"} =>
        \A i \in 1..req[r].computed :
            \/ gpu[req[r].blocks[i]] = KeyAt(r, i)
            \/ \E s \in DOMAIN steps : steps[s].state # "ran" /\
                  <<req[r].blocks[i], KeyAt(r, i)>> \in steps[s].writes
            \/ <<req[r].blocks[i], KeyAt(r, i)>> \in batch.writes

\* transfer_jobs names jobs the connector still knows, and the other way round.
JobsKnown ==
    /\ \A r \in Request : conn[r].tracked => conn[r].jobs \subseteq DOMAIN jobs
    /\ \A j \in DOMAIN jobs : conn[jobs[j].req].tracked /\ j \in conn[jobs[j].req].jobs

\* The request's status is dropped with its last job, and the watch on blocks
\* covers exactly the pending stores of finished requests.
FinishedAccounted ==
    /\ \A r \in Request : conn[r].tracked /\ IsFinished(r) => conn[r].jobs # {}
    /\ pendingOf = UNION {{<<b, j>> : b \in jobs[j].blocks} :
                            j \in {i \in DOMAIN jobs : IsFinished(jobs[i].req)}}

\* The job table, the per-request job sets and the block watch agree, and are
\* well typed.
JobsOK == TypeOK /\ JobsKnown /\ FinishedAccounted

\* Store progress never passes a block that was not offered to the tier.
NoHole ==
    \A r \in Request : conn[r].tracked => KeysTo(r, conn[r].next) \subseteq seen

\* A request waiting for a load is received or ends.
LoadResolves ==
    \A r \in Request : req[r].status = "loading" ~> req[r].status # "loading"

\* The connector drops a finished request: its last jobs are reported even
\* when no request is left to schedule.
FinishedForgotten ==
    \A r \in Request : req[r].status = "gone" ~> ~conn[r].tracked
=============================================================================
