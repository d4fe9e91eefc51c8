------------------------------ MODULE SlabManager ------------------------------
(***************************************************************************)
(* The scheduler side of the slab KV tier: SlabOffloadingManager, the index *)
(* of rank 0's slabs (runtime/vllm029/.../kv_offload/tiering/multinode.py), *)
(* driven by the connector's job table (_FailureAwareScheduler and the      *)
(* OffloadingConnectorScheduler it extends).  Every rank executes every job *)
(* on its own copy of the slab and reports success or failure by itself,    *)
(* so the reports of one job reach the scheduler in different engine steps. *)
(*                                                                          *)
(* The manager's fields are the fields of the record mgr; each method is an *)
(* operator from a manager record to the next one.  Two abstractions: the   *)
(* free deque is a set (which free slot is handed out first is left open),  *)
(* and the recency order of a group's OrderedDict is the relation "older"   *)
(* (<<a, b>>: a is evicted before b).                                       *)
(***************************************************************************)
EXTENDS Naturals, FiniteSets, Sequences, Functions

CONSTANTS
    Key,              \* offload keys (block hash and group index)
    Group,            \* KV cache groups
    TargetGroup,      \* group 0, the target model; the others are drafter groups
    GroupOf,          \* key -> group (get_offload_group_idx)
    Slot,             \* slots of all slab files
    SlotGroup,        \* slot -> the group whose slab file holds it
    NoSlot,
    Rank,             \* workers; each holds its own copy of every slab file
    Job,              \* names for in-flight jobs, reused once nobody knows the job
    Request,          \* requests: the sequence of their offload keys, group-major
    DrafterPerTarget, \* DRAFTER_PER_TARGET
    OverlapLoads,     \* TRUE: _blocks_being_loaded is None (prefix caching off)
    MaxResets         \* bound: cache resets while one job is being executed

ASSUME SlabConstants ==
    /\ TargetGroup \in Group
    /\ GroupOf \in [Key -> Group]
    /\ SlotGroup \in [Slot -> Group]
    /\ NoSlot \notin Slot
    /\ Request \subseteq Seq(Key)
    /\ DrafterPerTarget \in Nat \ {0}
    /\ OverlapLoads \in BOOLEAN
    /\ MaxResets \in Nat
    /\ Rank # {}

ASSUME SlabFinite ==
    IsFiniteSet(Key) /\ IsFiniteSet(Slot) /\ IsFiniteSet(Job) /\ IsFiniteSet(Rank)

VARIABLES
    mgr,    \* the SlabOffloadingManager
    jobs    \* the connector's _jobs, and the stale jobs the workers still hold

vars == <<mgr, jobs>>

SlotOrNone == Slot \cup {NoSlot}

Manager ==
    [index         : [Key -> SlotOrNone],   \* NoSlot: not in the index
     older         : SUBSET (Key \X Key),
     free          : SUBSET Slot,
     inflightStore : [Key -> SlotOrNone],
     inflightLoad  : [Key -> Nat],
     condemned     : [Key -> SlotOrNone],
     failedStore   : SUBSET Key,
     siblings      : [Key -> SUBSET Key]]

\* A job: what it transfers (at[k] is the slot of key k, NoSlot when k is not of
\* the job), the ranks that have not reported it, and the number of cache resets
\* since it was issued: a reset drops a job from _jobs (its id is below
\* _stale_job_threshold from then on) while the ranks may still be executing it.
JobStatus ==
    [kind : {"none", "store", "load"}, at : [Key -> SlotOrNone],
     todo : SUBSET Rank, resets : Nat]

NoJob == [kind |-> "none", at |-> [k \in Key |-> NoSlot], todo |-> {}, resets |-> 0]

TypeOK == mgr \in Manager /\ jobs \in [Job -> JobStatus]

----------------------------------------------------------------------------
(* Recency *)

SameGroup == {p \in Key \X Key : GroupOf[p[1]] = GroupOf[p[2]]}

\* The strict orders that list the keys of S group by group.
Orders(S) ==
    {o \in SUBSET (SameGroup \cap (S \X S)) :
        /\ \A a, b \in S : <<a, b>> \in o => <<b, a>> \notin o
        /\ \A a, b \in S :
              a # b /\ GroupOf[a] = GroupOf[b] => <<a, b>> \in o \/ <<b, a>> \in o
        /\ \A a, b, c \in S : <<a, b>> \in o /\ <<b, c>> \in o => <<a, c>> \in o}

Indexed(m) == {k \in Key : m.index[k] # NoSlot}

Without(o, S) == {p \in o : p[1] \notin S /\ p[2] \notin S}

\* The keys of S, in the order ord, become the most recently used of held.
AtEnd(o, held, S, ord) ==
    Without(o, S) \cup (SameGroup \cap ((held \ S) \X S)) \cup ord

PositionOf(req, k) == CHOOSE i \in DOMAIN req : req[i] = k

RequestOrder(req, S) ==
    {p \in SameGroup \cap (S \X S) : PositionOf(req, p[1]) < PositionOf(req, p[2])}

\* manager.touch(keys)
Touch(m, req) ==
    LET S == Range(req) \cap Indexed(m)
    IN  [m EXCEPT !.older = AtEnd(@, Indexed(m), S, RequestOrder(req, S))]

----------------------------------------------------------------------------
(* prepare_store *)

\* Mutant: the eviction loop forgets that a key may be being read.
EvictableIgnoringReaders(m, g, protect) ==
    {k \in Indexed(m) : GroupOf[k] = g /\ k \notin protect}

Evictable(m, g, protect) ==
    {k \in Indexed(m) : GroupOf[k] = g /\ m.inflightLoad[k] = 0 /\ k \notin protect}

FreeIn(m, g) == {s \in m.free : SlotGroup[s] = g}

NewKeys(m, K) == {k \in K : m.index[k] = NoSlot /\ m.inflightStore[k] = NoSlot}

InGroup(K, g) == {k \in K : GroupOf[k] = g}

\* Mutant: the preflight counts keys of the call itself as evictable.
PreflightUnprotected(m, K) ==
    \A g \in Group :
        Cardinality(InGroup(NewKeys(m, K), g))
            <= Cardinality(FreeIn(m, g)) + Cardinality(Evictable(m, g, {}))

\* The preflight: every group can place its new keys, or the call returns None.
Preflight(m, K) ==
    \A g \in Group :
        Cardinality(InGroup(NewKeys(m, K), g))
            <= Cardinality(FreeIn(m, g)) + Cardinality(Evictable(m, g, K))

\* The keys _take_slot evicts for the call: per group the least recently used
\* evictable ones, as many as the free slots fall short.
Victims(m, K) ==
    {v \in Indexed(m) :
        LET g == GroupOf[v]
            E == Evictable(m, g, K)
        IN  /\ v \in E
            /\ Cardinality({u \in E : <<u, v>> \in m.older}) + Cardinality(FreeIn(m, g))
                  < Cardinality(InGroup(NewKeys(m, K), g))}

\* The slots _take_slot can return for the call, in any order of the free list.
Placements(m, K) ==
    {at \in [NewKeys(m, K) -> m.free \cup {m.index[v] : v \in Victims(m, K)}] :
        /\ \A k \in NewKeys(m, K) : SlotGroup[at[k]] = GroupOf[k]
        /\ \A k1, k2 \in NewKeys(m, K) : at[k1] = at[k2] => k1 = k2}

\* siblings[t] for the i-th new target of the call: the i-th run of
\* DrafterPerTarget drafter keys of the call.
Earlier(req, S, k) == {u \in S : PositionOf(req, u) < PositionOf(req, k)}

SiblingsIn(m, req, K, t) ==
    LET drafters == {k \in K : GroupOf[k] # TargetGroup}
        i == Cardinality(Earlier(req, InGroup(NewKeys(m, K), TargetGroup), t))
    IN  {d \in drafters : GroupOf[t] = TargetGroup /\
            LET n == Cardinality(Earlier(req, drafters, d))
            IN  DrafterPerTarget * i <= n /\ n < DrafterPerTarget * (i + 1)}

\* Mutant: an evicted key stays in the index.
PrepareStoreKeepingVictims(m, req, K, at) ==
    [m EXCEPT
        !.free = @ \ {at[k] : k \in NewKeys(m, K)},
        !.inflightStore = [k \in Key |-> IF k \in NewKeys(m, K) THEN at[k] ELSE @[k]]]

PrepareStore(m, req, K, at) ==
    LET gone == Victims(m, K)
        new  == NewKeys(m, K)
    IN  [m EXCEPT
            !.index = [k \in Key |-> IF k \in gone THEN NoSlot ELSE @[k]],
            !.older = Without(@, gone),
            !.free  = @ \ {at[k] : k \in new},
            !.inflightStore = [k \in Key |-> IF k \in new THEN at[k] ELSE @[k]],
            !.siblings = [k \in Key |-> IF k \in gone THEN {}
                                       ELSE IF k \in new /\ SiblingsIn(m, req, K, k) # {}
                                       THEN SiblingsIn(m, req, K, k) ELSE @[k]]]
----------------------------------------------------------------------------
(* The other methods *)

\* mark_store_failed(keys)
MarkStoreFailed(m, K) == [m EXCEPT !.failedStore = @ \cup K]

\* complete_store(keys); ord is the iteration order of the job's key set.
CompleteStore(m, K, ord) ==
    LET done == {k \in K : m.inflightStore[k] # NoSlot}
        good == done \ m.failedStore
        bad  == done \cap m.failedStore
    IN  [m EXCEPT
            !.index = [k \in Key |-> IF k \in good THEN m.inflightStore[k] ELSE @[k]],
            !.older = AtEnd(@, Indexed(m) \cup good, good, ord),
            !.free  = @ \cup {m.inflightStore[k] : k \in bad},
            !.inflightStore = [k \in Key |-> IF k \in done THEN NoSlot ELSE @[k]],
            !.failedStore = @ \ done,
            !.siblings = [k \in Key |-> IF k \in bad THEN {} ELSE @[k]]]

\* Mutant: readers are a flag, not a count.
PrepareLoadAsFlag(m, K) ==
    [m EXCEPT !.inflightLoad = [k \in Key |-> IF k \in K THEN 1 ELSE @[k]]]

\* prepare_load(keys): one more reader of every key.
PrepareLoad(m, K) ==
    [m EXCEPT !.inflightLoad = [k \in Key |-> IF k \in K THEN @[k] + 1 ELSE @[k]]]

\* complete_load: ends[k] is the number of finished jobs that were reading k.
LastReader(m, ends, k) == ends[k] > 0 /\ m.inflightLoad[k] <= ends[k]

CompleteLoad(m, ends) ==
    [m EXCEPT
        !.inflightLoad = [k \in Key |-> IF LastReader(m, ends, k) THEN 0 ELSE @[k] - ends[k]],
        !.free = @ \cup {m.condemned[k] :
                            k \in {c \in Key : LastReader(m, ends, c)
                                                /\ m.condemned[c] # NoSlot}},
        !.condemned = [k \in Key |-> IF LastReader(m, ends, k) THEN NoSlot ELSE @[k]]]

\* Mutant: the slot of a failed load is reusable at once.
MarkLoadFailedFreeing(m, K) ==
    LET dropped == K \cap Indexed(m)
    IN  [m EXCEPT
            !.index = [k \in Key |-> IF k \in dropped THEN NoSlot ELSE @[k]],
            !.older = Without(@, dropped),
            !.free  = @ \cup {m.index[k] : k \in dropped}]

\* mark_load_failed(keys): the key is a miss from now on; its slot is condemned
\* while it has readers, free otherwise.
MarkLoadFailed(m, K) ==
    LET dropped == K \cap Indexed(m)
        read    == {k \in dropped : m.inflightLoad[k] > 0}
    IN  [m EXCEPT
            !.index = [k \in Key |-> IF k \in dropped THEN NoSlot ELSE @[k]],
            !.older = Without(@, dropped),
            !.condemned = [k \in Key |-> IF k \in read THEN m.index[k] ELSE @[k]],
            !.free  = @ \cup {m.index[k] : k \in dropped \ read},
            !.siblings = [k \in Key |-> IF k \in dropped THEN {} ELSE @[k]]]

\* reset_cache() once attached: every slot is free, nothing is in flight.
EmptyManager ==
    [index |-> [k \in Key |-> NoSlot], older |-> {}, free |-> Slot,
     inflightStore |-> [k \in Key |-> NoSlot], inflightLoad |-> [k \in Key |-> 0],
     condemned |-> [k \in Key |-> NoSlot], failedStore |-> {},
     siblings |-> [k \in Key |-> {}]]

----------------------------------------------------------------------------
(* The connector *)

KeysOf(j) == {k \in Key : jobs[j].at[k] # NoSlot}

Live(j) == jobs[j].kind # "none" /\ jobs[j].resets = 0

Loading(k) == {j \in Job : Live(j) /\ jobs[j].kind = "load" /\ jobs[j].at[k] # NoSlot}

\* Rank r may be transferring job j.  The job ids a reset flushes reach a worker
\* before any later job does, and SlabWorker.wait drains the controller.
Executing(j, r) ==
    /\ r \in jobs[j].todo
    /\ \A i \in Job : jobs[i].resets > jobs[j].resets => r \notin jobs[i].todo

\* The index _attach rebuilds from rank 0's headers: any assignment of slots.
Rebuilt(index, older) ==
    [EmptyManager EXCEPT !.index = index, !.older = older,
                         !.free = Slot \ {index[k] : k \in Key}]

Init ==
    /\ \E index \in [Key -> SlotOrNone] :
        /\ \A k \in Key : index[k] # NoSlot => SlotGroup[index[k]] = GroupOf[k]
        /\ \A a, b \in Key : a # b /\ index[a] = index[b] => index[a] = NoSlot
        /\ \E older \in Orders({k \in Key : index[k] # NoSlot}) :
              mgr = Rebuilt(index, older)
    /\ jobs = [j \in Job |-> NoJob]

\* manager.lookup, when the key is a HIT: it and its indexed siblings are used.
LookupHit(k) ==
    /\ k \in Indexed(mgr)
    /\ LET used == {k} \cup (mgr.siblings[k] \cap Indexed(mgr))
       IN  \E ord \in Orders(used) :
              mgr' = [mgr EXCEPT !.older = AtEnd(@, Indexed(mgr), used, ord)]
    /\ UNCHANGED jobs

\* get_num_new_matched_tokens ends with a touch of the request's keys.
TouchRequest(req) ==
    /\ mgr' = Touch(mgr, req)
    /\ UNCHANGED jobs

\* _build_store_jobs for one request: K are its keys not yet offered.
BuildStoreJob(j, req, K) ==
    /\ jobs[j] = NoJob
    /\ NewKeys(mgr, K) # {}
    /\ Preflight(mgr, K)
    /\ \E at \in Placements(mgr, K) :
          /\ mgr' = Touch(PrepareStore(mgr, req, K, at), req)
          /\ jobs' = [jobs EXCEPT ![j] =
                [kind |-> "store", todo |-> Rank, resets |-> 0,
                 at |-> [k \in Key |-> IF k \in NewKeys(mgr, K) THEN at[k] ELSE NoSlot]]]

\* update_state_after_alloc: the keys of the request that _lookup found.  With
\* prefix caching a request waits while one of its keys is being loaded.
StartLoad(j, req, K) ==
    /\ jobs[j] = NoJob
    /\ K # {} /\ K \subseteq Indexed(mgr)
    /\ OverlapLoads \/ \A k \in K : Loading(k) = {}
    /\ mgr' = PrepareLoad(mgr, K)
    /\ jobs' = [jobs EXCEPT ![j] =
            [kind |-> "load", todo |-> Rank, resets |-> 0,
             at |-> [k \in Key |-> IF k \in K THEN mgr.index[k] ELSE NoSlot]]]

\* The jobs whose pending_count reaches zero.
Completed(done) == {j \in Job : done[j] # {} /\ done[j] = jobs[j].todo}

\* update_connector_output: the workers' reports of one engine step.  done[j] are
\* the ranks whose report of j arrives, failed the jobs one of them failed.
UpdateConnectorOutput(done, failed) ==
    LET KeysIn(J, kind) == UNION {KeysOf(j) : j \in {i \in J : jobs[i].kind = kind}}
        complete == Completed(done)
        ends == [k \in Key |-> Cardinality(Loading(k) \cap complete)]
        marked == MarkStoreFailed(MarkLoadFailed(mgr, KeysIn(failed, "load")),
                                  KeysIn(failed, "store"))
    IN  /\ \E j \in Job : done[j] # {}
        /\ \A j \in Job : \A r \in done[j] : Live(j) /\ Executing(j, r)
        /\ \A j \in failed : done[j] # {}
        /\ \E ord \in Orders(KeysIn(complete, "store") \ marked.failedStore) :
              mgr' = CompleteLoad(CompleteStore(marked, KeysIn(complete, "store"), ord), ends)
        /\ jobs' = [j \in Job |-> IF j \in complete THEN NoJob
                                  ELSE [jobs[j] EXCEPT !.todo = @ \ done[j]]]

\* reset_cache of the connector: its jobs become stale, the manager is emptied.
ResetCache ==
    /\ \A j \in Job : jobs[j].resets < MaxResets
    /\ mgr' = EmptyManager
    /\ jobs' = [j \in Job |->
                    IF jobs[j] = NoJob THEN NoJob ELSE [jobs[j] EXCEPT !.resets = @ + 1]]

\* A rank finishes a stale job; the scheduler ignores its report.
FinishStale(j, r) ==
    /\ jobs[j].resets > 0 /\ Executing(j, r)
    /\ jobs' = [jobs EXCEPT ![j] = IF jobs[j].todo = {r} THEN NoJob
                                   ELSE [jobs[j] EXCEPT !.todo = jobs[j].todo \ {r}]]
    /\ UNCHANGED mgr

Next ==
    \/ \E k \in Key : LookupHit(k)
    \/ \E req \in Request : TouchRequest(req)
    \/ \E j \in Job, req \in Request : \E K \in SUBSET Range(req) :
          BuildStoreJob(j, req, K) \/ StartLoad(j, req, K)
    \/ \E done \in [Job -> SUBSET Rank] : \E failed \in SUBSET Job :
          UpdateConnectorOutput(done, failed)
    \/ ResetCache
    \/ \E j \in Job, r \in Rank : FinishStale(j, r)

Spec == Init /\ [][Next]_vars

----------------------------------------------------------------------------
(* Properties *)

\* A slot has one owner: it is free, or it holds the block of one indexed key,
\* or one store is writing it, or one dropped key keeps it for its readers.
Injective(f) == \A a, b \in Key : a # b /\ f[a] = f[b] => f[a] = NoSlot

Apart(f, h) == \A a, b \in Key : f[a] = h[b] => f[a] = NoSlot

OneOwnerIn(m) ==
    /\ Injective(m.index) /\ Injective(m.inflightStore) /\ Injective(m.condemned)
    /\ Apart(m.index, m.inflightStore)
    /\ Apart(m.index, m.condemned)
    /\ Apart(m.inflightStore, m.condemned)
    /\ \A k \in Key : /\ m.index[k] \notin m.free
                      /\ m.inflightStore[k] \notin m.free
                      /\ m.condemned[k] \notin m.free

OneOwner == OneOwnerIn(mgr)

\* The slot a load reads stays out of reuse until the load is complete: it is not
\* free, no store writes it, and no other key is served from it.
\* (mark_load_failed: "a reader must never see another key's payload".)
ReadersKeepSlot ==
    \A k \in Key : \A j \in Loading(k) :
        LET s == jobs[j].at[k]
        IN  /\ s \notin mgr.free
            /\ \A o \in Key : mgr.inflightStore[o] # s
            /\ \A o \in Key \ {k} : mgr.index[o] # s /\ mgr.condemned[o] # s

\* On no rank do two transfers touch one slot at a time unless both read it,
\* across failures, evictions and resets.
NoTornTransfer ==
    \A r \in Rank : \A i, j \in Job : \A a, b \in Key :
        /\ i # j
        /\ Executing(i, r) /\ Executing(j, r)
        /\ jobs[i].at[a] # NoSlot /\ jobs[i].at[a] = jobs[j].at[b]
        => jobs[i].kind = "load" /\ jobs[j].kind = "load"

\* has_pending_work agrees with the jobs: a key is being stored exactly when one
\* live store job holds its slot, and a key's reader count is its number of live
\* load jobs.  A count too high pins the key for ever and keeps the engine
\* stepping; one too low lets the slot of a reader be evicted.
PendingMatchesJobs ==
    \A k \in Key :
        /\ mgr.inflightLoad[k] = Cardinality(Loading(k))
        /\ LET writers == {j \in Job : Live(j) /\ jobs[j].kind = "store"
                                               /\ jobs[j].at[k] # NoSlot}
           IN  IF mgr.inflightStore[k] = NoSlot THEN writers = {}
               ELSE \E j \in Job : writers = {j} /\ jobs[j].at[k] = mgr.inflightStore[k]

\* A failure mark never outlives its store, or the next store of the key, which
\* may well succeed, would be thrown away.
FailureNotInherited == \A k \in mgr.failedStore : mgr.inflightStore[k] # NoSlot

\* After a successful preflight _take_slot finds a slot for every new key: its
\* RuntimeError "no evictable slot after a successful preflight" is unreachable.
PreflightSuffices ==
    \A req \in Request : \A K \in SUBSET Range(req) :
        Preflight(mgr, K) => Placements(mgr, K) # {}

\* A slot is kept out of reuse only for a load that is still to complete, and so
\* comes back with the last report of that load.
CondemnedHasReader ==
    \A k \in Key : mgr.condemned[k] # NoSlot => \E j \in Loading(k) : jobs[j].todo # {}

\* The manager's books agree with the jobs in flight: it is well typed, and the
\* three conditions above hold together.
BookkeepingOK == TypeOK /\ PendingMatchesJobs /\ FailureNotInherited /\ CondemnedHasReader

\* No slot is ever lost: each is free, indexed, being written or condemned
\* (tests/test_slab_manager.py: "index U free == all slots (nothing lost)").
NoSlotLost ==
    \A s \in Slot :
        \/ s \in mgr.free
        \/ \E k \in Key : s \in {mgr.index[k], mgr.inflightStore[k], mgr.condemned[k]}
============================================================================
