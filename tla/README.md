# TLA+ models of the slab KV tier, the NVMe loader and the cluster control

This directory is a verification development for the parts of this repository
that carry its own control logic: GLM-5.3 served by vLLM on four DGX Sparks with
decode context parallelism, where KV blocks that leave the GPU are kept on each
node's NVMe in preallocated *slab* files, weights are streamed or restored from
NVMe, and scripts replace the serving containers and switch the ring adapters of
all nodes.  It holds TLA+ modules translated from the source,
TLC configurations, TLAPS proofs, and `PROJECT.json`, which maps every
definition to the lines it stands for.

Paths used below (`src/` is the repository root):

* **MN** `src/runtime/vllm029/overlay/vllm/v1/kv_offload/tiering/multinode.py`
* **SC** `src/overlay/vllm/distributed/kv_transfer/kv_connector/v1/offloading/scheduler.py`
* **ES** `src/overlay/vllm/v1/core/sched/scheduler.py`
* **LD** `src/runtime/nvme_loader/spark_nvme/` (`streaming.py`, `coalesced.py`, `transport.py`, `loader.py`, `artifact.py`)
* **RO** `src/runtime/vllm029/rollout.py`
* **SI** `src/spark-idle.sh`

MN belongs to the runtime for vLLM 0.29 (`runtime/vllm029/overlay`), whose overlay has no
scheduler of its own.  SC and ES are the patched ones of `src/overlay`, for an earlier
vLLM: they stand for the engine that calls MN's connector, over the interface of
section 1.2.

## 1. Inventory

### 1.1 Components

| component | state | operations | modelled in |
|---|---|---|---|
| slab manager, `SlabOffloadingManager` (MN) | `index` per group (LRU), `free`, `_inflight_store`, `_inflight_load`, `condemned`, `_failed_store`, `siblings`, epoch, `_seq` | `lookup`, `prepare_store`, `complete_store`, `prepare_load`, `complete_load`, `mark_store_failed`, `mark_load_failed`, `touch`, `reset_cache`, `_attach` | `SlabManager`, `SlabDisk` |
| slab files and recovery, `SlabIO`, `get_worker` (MN) | one slab file per group and rank (a header and a payload per slot), `slab-meta.json`, `slab-epoch` | `write`, `read`, `sync`, `scan`, `max_epoch`, `wipe`, publishing the metadata | `SlabDisk` |
| data mover of a rank, `BounceController`, `SlabWorker` (MN) | job table, chunks in flight, bounce slots, results, failed GPU blocks | `submit`, `pump`, `take_results`, `take_failed_gpu_blocks`, `wait_all` | `BounceController`, `TransferContract` |
| connector and failure channel (MN) | per-step worker metadata | aggregate reports of the ranks, mark failures before the jobs complete | `SlabManager`, `BounceController` |
| offloading connector scheduler (SC) | `_jobs`, `_req_status`, `_block_id_to_pending_jobs`, the current batch, `_stale_job_threshold` | `get_num_new_matched_tokens`, `update_state_after_alloc`, `build_connector_meta`, `update_connector_output`, `request_finished`, `reset_cache` | `OffloadingConnector` |
| engine scheduler (ES) | requests, running and waiting queues, block ownership, deferred frees | `schedule`, preemption, `update_from_output`, finishing, invalid-block recovery, `reset_prefix_cache` | `OffloadingConnector` (what the connector depends on) |
| weight stream, `coalesced_weights`, `prefetch_weights`, `OwnedStorageBudget` (LD) | queue of one, semaphore, stop event, two pinned tiles, upload stream, charged storages | pump thread, reader pool, consumer, close, join | `WeightStream` |
| artifact loader, `NvmeModelLoader._load`, `publish`, `inspect`, `restore`, `stream` (LD) | an artifact directory, staging slots, copy stream, the model's storages | plan, inspect, restore, native load, publish, activation gate | `NvmeLoader`, `DirectStream`, `RestoreContract` |
| rollout (RO, `launch.sh`) | containers on each host, `original.private.json` | stop, rename, launch, health, restore, `--restore` | `Rollout` |
| ring power control (SI) | plugin state, adapter power, dead-man timer | `--down`, `--up`, `--suspend`, `--resume` | `PowerControl` |
| hybrid cache coordinator, block tables for context parallelism | pure computations | hit length over groups, local counts per rank | not modelled |
| adaptive speculation | confidence statistics | controllers over floating point | not modelled |
| kernels, model runner, benchmarks, results, launch scripts | | | not modelled |

### 1.2 How they interact

The engine calls the connector scheduler synchronously while it plans a step:
the connector looks keys up in the slab manager, creates load jobs at admission
and store jobs when the step's metadata is built, and lists the jobs the workers
must *flush* because their GPU blocks are given away.  The metadata goes to every
rank with the step.  Each rank runs **every** job on its own files, through its
own bounce buffer and threads, and reports by itself; the reports of one job
therefore arrive in different steps, with different outcomes.  The connector
counts them down, hands failures to the manager before completions, and the
engine cuts a request back to the first block that no rank may trust.

On disk the ranks share nothing.  Rank 0's headers are what the scheduler
rebuilds its index from, and `slab-epoch` on rank 0 is the only thing that
separates blocks of before and after a `reset_cache`.

Before an engine serves, each rank's worker fills the model's storages.  In mode
`stream` a pump thread reads batches ahead of the native loader; in the artifact
modes a rank restores a file it published earlier, or loads natively and
publishes one.  All ranks' receipts must agree before any serves.

Two controllers act on all nodes at once from one machine: `rollout.py` replaces
the containers and must be able to put the originals back from any point, and
`spark-idle.sh` quiesces the network plugin in two phases before it cuts power.
Both talk to nodes whose answers may be lost or late.

### 1.3 What is hard here

* **Interleaving.** Eviction and condemnation against reads in progress on other
  ranks; reuse of GPU blocks against stores not yet copied and forward passes not
  yet run (asynchronous scheduling keeps two steps in flight).
* **Crash recovery.** A store is four separately persisted writes; a power cut
  keeps any subset of what was not synced, on any subset of the nodes; the epoch
  bump, the wipe of another configuration's slabs and their metadata have an
  order that matters.
* **Partial failure.** One chunk of a job, or one rank of a job, fails.
* **Stale reports.** Jobs issued before a reset report after it.
* **Limits.** A tier full of keys that are being read or written; one bounce slot
  for a long job.
* **Buffers under asynchronous copies.** Pinned tiles and staging slots are refilled
  while the GPU runs behind; a batch's memory is given away while a stream has
  still to read it.
* **Partial control.** One of several nodes fails, answers late or not at all, or
  the controlling script is killed; the next invocation must cope.
* **Liveness.** `wait_all` spins on the main thread; the engine must go on
  stepping until the last job of the last finished request was reported; the pump
  thread and the consumer must not wait for each other; a damaged artifact must
  not keep a rank from ever serving.

The complete list, line by line, is `hazards` in `PROJECT.json`.

### 1.4 What makes each component correct

| component | properties |
|---|---|
| slab manager | one owner per slot; a slot being read is not reused; two transfers never tear a slot; reader counts and jobs agree; a store that passes the preflight gets its slots |
| slab files | a served block is the key's, of after the last reset, of the running configuration; an acknowledged store survives; the running epoch is durable and a ceiling |
| data mover | slots and blocks conserved; results and load errors are true; every job is reported; a flush ends with nothing in flight |
| connector and engine | a store copies what its step computed; a computed prefix holds its data; job tables agree; store progress has no hole; loads resolve and finished requests are forgotten |
| weight stream | the model reads a batch's own bytes; completion means every byte came from unchanged files; storage within the budget; nothing in flight at the end; both threads end |
| artifact loader | storages are filled from one source; what is published is whole; `stream()` keeps its contract; in auto mode the rank comes to serve |
| rollout | originals are kept (unless a launch was cut off there), and never run beside the new ones; a reported success is uniform; other people's containers are left alone; `--restore` gets there |
| power control | nothing is torn down before all are gated; no power cut under traffic; reported success is true; the dead-man timer works |

## 2. Modules

```
SlabManager ── SlabManagerProofs          TransferContract
     └── MCSlabManager                          ▲ implements
SlabDisk ──── SlabDiskProofs              BounceController ── BounceProofs
     └── MCSlabDisk                             └── MCBounce
OffloadingConnector ── ConnectorProofs
     └── MCConnector                      WeightStream ── WeightStreamProofs
RestoreContract                                 └── MCWeightStream
     ▲ implements                         Rollout ── RolloutProofs
NvmeLoader (composes DirectStream)              └── MCRollout
     └── NvmeLoaderProofs                 PowerControl ── PowerControlProofs
```

**SlabManager.** `mgr` is a record with the manager's fields and each method is an
operator from a record to the next one; `jobs` is the connector's job table
together with the ranks that have still to report.  `BuildStoreJob`, `StartLoad`,
`UpdateConnectorOutput` (any set of ranks reports any set of jobs in one step,
failures first, completions next, as `_FailureAwareScheduler` orders them),
`TouchRequest`, `LookupHit`, `ResetCache` and `FinishStale` (a report of a job of
before a reset, which is ignored) are the actions.  The free deque is a set and
the recency order a relation, so that no run depends on which free slot comes
first.  The eviction rule, the preflight, the siblings pinned with a target and
the condemned slots are complete.

**SlabDisk.** A cell is what a read of a slot returns (`hdr`, `pay`) and what a
power cut may leave of it (`hdrs`, `pays`).  The steps of `SlabIO.write`, the
sync of the chunk, a failing write, the phases of `get_worker`, `_attach` (in two
steps when a reset is pending, because the code publishes an epoch in between),
`reset_cache` before and after the first lookup, stores, completions, failed load
jobs and crashes are actions.  A load job that fails on a rank makes a miss of every
key it has, readable ones included and for a transient error as well
(`LoadJobFails`).  A crash cuts power on any subset of the ranks, may lose the epoch
file, and restarts with any configuration.  A payload *means* the key, the number of
resets and the configuration it was computed under, which is what the properties
compare; a CRC is the value it covers.  `resets` counts the calls of `reset_cache`,
`durable` is the last one that reached the epoch file and `due` the last one a served
block must have followed; they differ while a reset is pending, and `due` falls back
to `durable` when the engine dies then.  Which slot a store gets is any slot not
being written: SlabManager has the eviction rule.

**BounceController** and **TransferContract.** The five phases of `pump` are
separate actions, because copies, writes and reads end on other threads between
them; inside a phase everything that `get_finished` returned is handled.  `jobs` is
the set of the job table's keys; the order of the table, which decides who gets free
slots, is kept as the keys before each job (`older`).
`TransferContract` is the promise the connector relies on: a job is reported once,
after all its blocks' transfers have ended, as a success exactly when all arrived,
and never before the blocks it could not load.  `ImplementsContract` is the
refinement, with `taken` and `ended` derived from the controller's counters and
chunks.

**OffloadingConnector.** The engine's `schedule()` is a sequence of actions that
fill `batch` (running loop, preemption, admission with or without an external
hit, promotion), followed by `build_connector_meta` (`BuildMeta`, `BuildStore`
per scheduled request, `IssueStep`).  A step goes through `Launch` and
`ForwardDone` on the workers and is consumed by `ProcessOutput`.  `Depth` is the
number of issued steps whose output is not processed: 1 is synchronous, 2
asynchronous scheduling.  `gpu` is the memory of one rank; the other ranks matter
through the time and outcome of their reports.  One full-attention group, one GPU
block per offloaded block and no hit in the GPU's own prefix cache are modelled;
the tier is the set of its keys with the manager's admission rule.  Where the code
would fail an assertion or raise `KeyError`, the action is disabled; section 6
names the instances in which such a state is reachable.  A request whose blocks all
came from the tier is admitted with nothing left to compute but its last token, which
leaves the data of its last block what it is.  Transfers end on their own, or while
`handle_preemptions` waits for them (`Flushing`), and may fail either way.

**WeightStream.** The pump thread, the reader pool, the consumer and the GPU's two
streams (uploads, and the consumer's own) are separate actors.  The generator
`produce()` runs on the pump thread, so its `reserve`, `fill` and `close` are
actions of the pump.  A byte is abstracted to the batch, tile and file version it
was read from; GPU memory is a set of allocations, a budget counts their tiles, and
`Reusable` is what
`record_stream` makes of the caching allocator.  `reserve` never waits: it raises.
The stop event, the semaphore and the queue of one item are the variables of the
same meaning; a wait with time-out that is tried again is an action that stays
disabled.  The device is `cuda`.

**NvmeLoader**, **DirectStream** and **RestoreContract.** `NvmeLoader` is
`_load` over successive workers of one rank, with `publish` in its six persistent
steps, crashes, power failures (which keep what was synced and any part of the
rest) and damage on disk.  It composes `DirectStream`, the slot pipeline of
`transport.stream`, by `INSTANCE`; `Transfer` is a step of it.  `RestoreContract`
is what `_load` relies on: extents arrive with their own bytes, it returns when all
have, and nothing is written after it returned or raised; `RestoreKeepsContract`
is the refinement.  A crash ends the worker, and a new worker starts with storages
constructed anew; so does a rename of a refused artifact that fails (`SetAsideFails`).

**Rollout.** Each host has the original container, the one the rollout launches and
possibly somebody else's.  `th[h]` is the command the host's thread issues next;
`Effect`, `Refused` and `After` are what docker does, when it refuses, and what
`main` or `restore` do next.  A command may fail, its answer may be lost, or it may be
cut off by its time-out (RO:222 for `launch.sh`) or by a kill of the controller, and
takes effect later or never: `late` has those still to come, `adrift` all there ever
were.  `Outcomes` are the states such a command may leave; a launch may end between
its `docker rm -f` and its `docker run`.  Every command of `LateOps` may be cut off;
the run has all that change a container.  Between the health check and the report of
success lie the smoke test, the probe and the log capture, minutes of them: `verify` and
`r_verify` are phases of their own, in which a rank may exit or the controller be killed.
`world` chooses per behaviour between late commands and foreign containers (section 6
says what happens when both occur).  Preflight, benchmarks and regressions are the
possible failures of a phase.

**PowerControl.** `phase` is the script's step and `th[h]` the step the node's own
script is at.  A plugin verb may run and its answer be lost; each step of `OFF` and
`ON_A` may fail with its effect partly done; the script may be killed, and the node
scripts go on.  The next invocation starts when those have ended: the script does not enforce that,
it is assumed of the operator.  Every invocation acts on all hosts: the subset of
`--hosts` (SI:42) is left out.  Timers left by
an earlier `--down` fire whenever they do.  The plugin behind its control port is
external and modelled by the states its answers name.

Each module's unused-looking operators next to a definition (`...Unchecked`,
`FlushNone`, `CountGood`, ...) are plausible bugs of it; replacing the definition
by one of them must make the property named in `PROJECT.json` fail.

## 3. Runs

All of them finish within about three minutes on two workers.

| run | instance | shows |
|---|---|---|
| `slab_manager` | 2 target keys, 1 drafter key, 2+1 slots, 2 ranks, 2 jobs, overlapping loads, 2 resets | `OneOwner`, `ReadersKeepSlot`, `NoTornTransfer`, `PreflightSuffices`, `BookkeepingOK` |
| `disk_recovery` | 2 ranks, 1 key, 1 slot, 2 configurations, 1 reset (before or after the first lookup), 2 crashes, or 1 that loses the epoch file, 2 writes | `NeverStale`, `LostEpochIsWiped`, `AckedSurvives`, `EpochOK` |
| `bounce` | 2 loads (2 and 1 blocks) and a store (2 blocks), 2 bounce slots, every chunk may fail | `ChunksOK`, `ImplementsContract`, `JobReported`, `FlushEnds` |
| `connector_failures` | 2 requests sharing a block, 3 GPU blocks, 2 ranks, a tier of 2, a preemption, any block of any load fails, synchronous | `PrefixIntact`, `JobsOK` |
| `connector_async` | the same requests, 1 rank, 2 steps in flight, a preemption, fair | `StoreSourceIntact`, `PrefixIntact`, `LoadResolves`, `FinishedForgotten` |
| `connector_reset` | a request of 3 and one of 2 blocks, 4 GPU blocks, 2 ranks, an eagle group, a reset of the connector | `StoreSourceIntact`, `FinishedAccounted`, `NoHole` |
| `weight_stream` | 3 batches (1, 2, 1 tiles) of 2 files, 2 parts per tile, a budget of 3 tiles, failing reads, changing files, kept views, cancellation | `UsedIntact`, `CompleteIsWhole`, `BudgetOK`, `QuietAtEnd`, `StreamEnds` |
| `nvme_loader` | modes auto, prepare and restore, 3 extents through 2 slots, 3 crashes, power failures, damages or failed renames | `LoadedIsWhole`, `ArtifactOK`, `RestoreKeepsContract`, `AutoServes` |
| `rollout` | 3 hosts, 2 faults (failed, lost or late commands, `launch.sh` included, kills, exits, foreign containers) | `OriginalsOK`, `NeverBoth`, `SuccessIsUniform`, `OthersUntouched`, `RestoreSucceeds` |
| `power` | 2 nodes, any sequence of verbs, lost answers, failing steps, kills, timers | `GatesOK`, `NeverUnderTraffic`, `ReportsTrue`, `DeadMan` |

`slab_leak` (`NoSlotLost`) and `pending_reset` (`ResetsPersist`; 1 rank, key, slot and
configuration, 1 reset, 2 crashes, none of which loses the file) end in a violation; section 6 describes them.

An invariant named `...OK` is a module's type invariant together with named parts:
`BookkeepingOK` has `PendingMatchesJobs`, `FailureNotInherited` and
`CondemnedHasReader`; `EpochOK` has `EpochIsCeiling`; `ChunksOK` has
`SlotsConserved`, `ItemsAccounted` and `NoOrphan`; `JobsOK` has `JobsKnown` and
`FinishedAccounted`; `BudgetOK` has `OwnedWithinBudget`; `ArtifactOK` has
`PublishedIsWhole`; `OriginalsOK` has `OriginalsKept` and `RecordSaved`; `GatesOK`
has `CommitWhenAllGated`.

**Why the bounds are enough to be interesting.** Two ranks are the least that
report at different times; two target keys in two slots make every third store
evict; two jobs are a store and a load, or two loads, of one key.  Two crashes
give a crash during recovery from a crash; two ranks give a power cut on one of
them only; two configurations give a wipe, and a wipe that is lost.  One key, slot and
reset are enough for a block of before the reset to come back.  The first
crash may lose the epoch file (`LossAt`) after a reset has raised the epoch above the
headers of earlier stores; no crash follows then (`AfterLoss`), because no property
speaks of the time after one.  Two bounce slots and jobs of one and two blocks make a
job wait in the middle for another one's slots.  Three GPU blocks for two requests of two blocks force a
preemption.  In `weight_stream` the second batch needs both pinned tiles, the third
batch needs one of them again, and two batches fill the budget if the model keeps
them.  Three extents through two slots reuse a slot under a copy; three faults are
enough for a damaged artifact, a failed restore and a power failure that brings the
renamed artifact back (four extents pass as well).  Three hosts distinguish the
last, a middle and the first rank of the launch order; two faults are a failed
command and a failure of the restore that follows it, or a launch that is cut off and
a kill during the restore.
`power` has no bound but the two nodes: one that commits and one whose answer is
lost, or one that is off and one that is on.  `MaxJobs`, `MaxPreempts`, `MaxResets`,
`MaxCrashes`, `MaxSeq`, `LossAt`, `AfterLoss` and `MaxFaults` cap the counters in the
guards.  GPU blocks are symmetric, as are the keys, slots and configurations of `SlabDisk`, and in `connector_failures` the two requests (exchanged
together with their own keys); the runs with temporal properties use no symmetry.

Deadlock is checked where the system never stops (`slab_manager`, `bounce`,
`nvme_loader`, `power`) and where its end is an explicit action (`weight_stream`,
`rollout`).  The
disk and connector runs switch it off: the engine stops when all requests are
gone, and the disk instance when its writes are used up.

**Fairness.**
* `bounce`: `WF(Pump)` because `get_finished` is called in every step and
  `wait_all` loops; `WF(FlushDone)` is that loop's exit test; `WF(EndOf(j))`
  because CUDA streams and pool threads finish what they were given.  Nothing is
  assumed about submission or about success.
* `connector_async`: `WF(Engine)` because the core loop steps while `has_requests`
  holds (through `has_pending_push_work` also when only jobs are left),
  `WF(WorkerLoop)` and `WF(Transfers(j, k))` as above.  No particular engine
  action is fair: the engine may prefer one request for ever, but the bounded
  number of requests and preemptions ends that.
* `weight_stream`: the two threads run when they can, reads return and the GPU runs
  its streams.  Nothing is assumed of the model: it may keep every view.
* `nvme_loader`: `WF(Load \/ Transfer)`, a worker that is down is started again and a
  running one gets on; `SF(NativeLoad)` and `SF(Serve)`, loading natively does not
  fail every time, nor do the peers.  Restoring may fail every time.
* `rollout`: the controller and its threads get on; an operator whose rollout did not
  succeed runs `--restore` until it does (`WF(Rerun)`, not after a success); an engine
  that can serve does not miss its deadline for ever (`SF(RestoreHealthy)`).
* `power`: node scripts run to their end; `SF(TimerFires)`, a systemd timer that is
  not stopped fires.  The script itself is not fair: it may be killed.

## 4. Proofs

All theorems hold for every value of the constants that the modules' named
assumptions allow, and all counters' bounds are arbitrary numbers in them.  Each
component has an inductive invariant, checked by TLC before it was proved, from
which the listed theorems follow; the connector has three, each on top of the one
before.  The assumptions on constants are finiteness and
non-emptiness of sets the program cannot be without (`SlabConstants`: there is a rank,
`BounceConstants`: a job has blocks, there is a bounce slot); two theorems of the
connector have a further hypothesis, named below.

**`SlabManagerProofs`.**  `SlotOwnership` (`OneOwner`), `BooksAgree` (`BookkeepingOK`),
`ReadersAreSafe` (`ReadersKeepSlot`), `TransfersAreWhole` (`NoTornTransfer`),
`PreflightIsEnough` (`PreflightSuffices`).  `TypeOK /\ OneOwner` is inductive by
itself, because it speaks of all four owners (free, indexed, being stored, condemned)
at once; a lemma per manager method shows what it preserves.  The others need the job
table.  `SlabInv` adds that the manager's pending stores and reader counts are those of
the live jobs (`Pending`: a cardinality per key), that a condemned slot has such a
reader and a load's slot stays its own, and what a job's slots are (`JobsWell`).  After
a reset the manager knows nothing of the jobs on their way; `StaleApart` says that
jobs of the same past epoch still do not share a slot, except two loads.
`PreflightIsEnough` compares the counts of the preflight with the slots eviction can
reach: `PlaceInv` adds that keys hold slots of their own group (`GroupsMatch`) and that
the recency order covers exactly the index (`RecencyOK`).

**`SlabDiskProofs`.**  `DiskInvariant`, `EpochIsOnDisk` (`EpochOK`), `ServedIsFresh`
(`NeverStale`) and `AckedIsKept` (`AckedSurvives`), for resets before and after the first
lookup.  They speak of runs in which the epoch file was not lost so far (`lastLoss = 0`: in the
properties themselves, and around `EpochOK` for its types); `LostEpochIsWiped`, what
holds after a loss, is model-checked only.
`NeverStale` says nothing of a file that is not indexed now, of a store on its way, or
of what a power cut would leave, so it is not inductive.  `DiskInv` adds: every header
that could be left on a rank's disk names the key of its payload, is not of an epoch
later than the file's, and, if it is of that epoch, its payload was computed after the
last durable reset under the configuration of the *rank's* `slab-meta.json`
(`DiskFits`); stores in flight fit the running configuration (`WritesFit`, `StepsFit`);
a ready worker has the running configuration and a wiped one empty files
(`WorkersFit`); the manager runs at the epoch of the file on started workers, and
`due` is ahead of `durable` only while a reset is pending, which ends with the attach
(`ManagerFits`).  For `AckedSurvives`, `KeepInv`
follows a key's copies: sequence numbers grow (`SeqsBelow`), a key has one live store,
which is later than every other header of it (`LiveWrites`, `OnlyWrite`), a finished
step is durable (`Written`), and no header that a power cut could bring back beats an
acknowledged one (`SyncedWins`, `AckedKept`).  The last part rests on `fdatasync`
working on the whole file: the sync of the new copy also settles the slot of the old
one.

**`BounceProofs`.**  `ChunksAreWhole` (`ChunksOK`) and the refinement
`MoverKeepsContract == Spec => ImplementsContract`.  `BounceInv` says of every chunk
that its job is in the table, its blocks were started and its slots are its own
(`ChunksFit`, `Apart`), that slots are free or in a chunk (`SlotsShared`), that
`done_items` and the blocks in flight add up to the blocks started and a job leaves the
table with all of them ended (`Counted`), and what became of the ended ones
(`Outcomes`: a job's `failed` flag is set exactly when one of them did not arrive).
Every action but `Submit`, `StartChunk` and `PumpEnd` is a `PhaseOf(R, G, F)`: chunks are
carried on in another hop, those of `R` are retired, those of `G` with success; one
proof covers them all and maps them to `EndSome` of the contract.  `PumpEnd` maps to
`Report`.

**`ConnectorProofs`.**  `FinishedIsAccounted` (`FinishedAccounted`), `ProgressHasNoHole`
(`NoHole`), `ConnectorTyped` (`TypeOK`) and `TablesAgree` (`JobsOK`), the last one while
the connector is not reset: the job ids of active requests outlive a reset (section 6).
The tables agree only because of what is on its way between the engine and the ranks,
so `TableInv` follows the reports.  Ids of jobs are given out once (`IdsFit`); a rank
that has not reported a job is in `xfer`, the report of one that has is in one of the
steps in flight, and no rank is in two of these places (`ReportsFit`, `Told`, `Silent`);
hence a job's `pending` is the number of the ranks in any of them (`Counted`), it comes
to 0 exactly with the last report, and no report of it is left when the job leaves the
table.  `TablesFit` relates requests, their job sets and the job table, `BatchFits` the
schedule in progress with the requests it runs, `TierFits` gives every key one slot
(stored or being stored by one job).  `NewJob` covers both actions that create a job.

`PrefixIsIntact` (`PrefixIntact`) holds for every kind of reset.  Its invariant
`MemInv`, on top of `TableInv`, says who may still write each GPU block.  Steps run in
order (`StepsOrdered`); a block has one owner, and none while it is fenced
(`BlocksApart`); a step writes only what a request that runs in it computes, or blocks
that are fenced until that step is over (`WritesOwned`); a load fills blocks of a
request that waits for it, is its only load, and leaves nothing behind its last report
(`LoadsOwned`).  What a waiting request counts as loaded is in its block, still being
copied, or known as bad on the way to the scheduler (`LoadData`): so a request that is
received after `process_output` has cut it holds good data only.

`StoreSourceIsIntact` (`StoreSourceIntact`) needs that no reset preempts running
requests (`\A kind \in ResetKinds : ~kind.running`; section 6 shows that forced
preemption breaks it).  `FlushInv` says of every block a store has yet to read
(`SourceFits`) where it is now: with the request it was stored from, watched for its
reuse, or with a flush of the job under way (`Home`, `Due`); that whoever may overwrite
it, a step, the batch or a load, comes after that flush (`StepGuard`, `BatchGuard`,
`LoadGuard`); and that it holds the data of its key or is written by a step up to the
store's own (`Data`).  `LoadsStart` is the part that orders loads: one that is to be
flushed is started by an earlier step, so `handle_preemptions` never meets a load that
the worker has not been given.  `KindsFit` keeps the ids in steps and in the batch apart.
The proofs go action by action: a view lemma (`ScheduledView`, `LaunchView`, ...)
restates an action by the fields it changes, and frame lemmas (`SourceFrame`,
`DueFrame`, ...) carry what it leaves alone.

**`WeightStreamProofs`.**  `ViewsAreIntact` (`UsedIntact`), `BudgetIsKept` (`BudgetOK`),
`CompletionIsWhole` (`CompleteIsWhole`), `EndIsQuiet` (`QuietAtEnd`).  `StreamInv` relates
the two threads' program counters with the queue and the semaphore (`Turns`), the tiles
with the reads and uploads in flight (`Reading`, `Copies`), and allocations with the
batches that hold them: what a held batch has been filled with is in its memory or on
its way there (`AllLanded`), no two batches that are held or being copied share an
allocation (`Apart`), and an allocation is not given away under a copy (`CopiesHeld`).
`Charged`, `Handed`, `Ending` and `Unchanged` carry the budget, the batches handed over,
the shutdown and the files.

**`NvmeLoaderProofs`.**  `StreamKeepsContract` (`RestoreKeepsContract`),
`StoragesAreWhole` (`LoadedIsWhole`), `ArtifactIsWhole` (`ArtifactOK`).  The contract says
nothing of slots, so the invariant `StreamInv` relates them: a copy on the stream
finds its extent in its slot because the slot's next read has not begun
(`CopiesFit`), a good read left its extent there (`TasksFit`), an extent that was
submitted is being read, being copied or written (`Accounted`, from which the
return is complete), and nothing is in flight at the end (`EndsFit`).  `LoaderInv`
adds that whatever stands at the artifact's path, or may come back to it after a
power failure, is synced, and that a worker that does not restore has not started
the stream.  `TransferMaps` maps the pipeline's steps to arrivals, the return, an
exception or a stutter.

**`RolloutProofs`.**  `OriginalsAreKept` (`OriginalsOK`), `NeverBothRun` (`NeverBoth`), and
the action properties `SuccessIsTrue` (`SuccessIsUniform`) and `OthersAreUntouched`
(`OthersUntouched`), for every set `LateOps`.  `RolloutInv` has one predicate per host:
which command its thread is at in which phase (`Threads`), where its containers can be
(`Containers`), which late commands can be outstanding (`Commands`), and what the
rollout, the launch and the restore have achieved on it so far (`RollingOut`,
`Launching`, `ComingBack`, `Recorded`).  A late command is harmless by now, except a
launch (`LateLaunch`): as long as it is outstanding it may remove whatever has the
name, the restored original included, and start the new container, but the two still
never run together.

**`PowerControlProofs`.**  `CommitIsGated` (`GatesOK`), `PowerCutIsSafe`
(`NeverUnderTraffic`) and `ReportsAreTrue` (`ReportsTrue`).  `PowerInv` adds to `GatesOK`
that a node's step belongs to the phase that started it or to a killed script
(`StepsInPhase`), that an answer taken for good stays true while its phase lasts
(`AnswersHold`), and that a node on its way to a power cut is under a suspended
stack or a blind `--down` (`CutsAreSafe`).  `ReportInv` adds what the answers to the two
kinds of resume say, and that the ring is up from the pings of an `--up` on.

**Only model-checked.**  Every invariant that a passing run checks has a theorem but
`LostEpochIsWiped`.  Where a theorem has a further hypothesis, it does not hold without
it: `JobsOK` after a reset of the connector, `StoreSourceIntact` after a forced
preemption.  The temporal properties
(`JobReported`, `FlushEnds`, `LoadResolves`, `FinishedForgotten`, `StreamEnds`,
`AutoServes`, `RestoreSucceeds`, `DeadMan`): liveness under fairness and `ENABLED` are
outside the prover's reach, as are inductions over data and modules with `RECURSIVE`
operators; no module uses one.

## 5. Not modelled

* **Vendored engine code.**  Most of `src/` is vLLM itself, in several copies
  (`overlay/`, `baseline/`, `stage/`, `runtime/vllm029/overlay/`) that carry small
  patches: the model runner, attention layers and kernels, configuration.  Its own
  logic is numerical or upstream's, and a model of it would not be one of this
  repository.  This is why the map covers a small share of all lines.
* **Earlier copies** of `multinode.py` and the superseded per-file tier.
* **Connector and engine:** several KV groups, sliding windows, GPU prefix-cache
  hits, token budgets, encoder inputs, structured output and LoRA.
* **Loader:** `stream_weights` over the external Run:ai reader (it uses the same
  `prefetch_weights` and budget), the cpu and pinned devices, the planning of ranges
  from safetensors headers, identity digests, model adapters.
* **Rollout:** `--resume-from`, the cache flushers, regressions and benchmarks (each
  is a phase that may fail), `sparkctl.py`.
* **Pure computations** of the hybrid cache coordinator and the block tables, and the
  floating-point controllers of adaptive speculation.
* Byte layouts, content hashes, geometry, statistics, logging; benchmarks, results
  and launch scripts.

## 6. Where the code and its texts disagree

**`slab_leak`** (MN:1079) is a run.  Two ranks load a key.  The first failure report
condemns its slot; the key is stored again into another slot; the second rank's
failure report of the same load drops the *new* copy and overwrites the condemned
entry.  The first slot is never used again.

**`pending_reset`** (MN:1109) is a run.  `reset_cache` before the first lookup sets a
flag in memory; the engine dies before the first lookup, and the next one serves the
block of before the reset.  `tests/test_nvme_slab.py:258` expects that "the old headers
stay ignored across another restart", and MN:682 that the bump is durable before
anything acts on it.  `NeverStale` speaks of every reset but a pending one whose engine
died (`due`), which is what the code keeps.

The following were seen with other values of the constants or in stronger forms of a
property, and have no run.

KV tier:
* **Lost epoch file, other ranks** (MN:930).  The new epoch is above rank 0's headers
  only; another rank whose disk kept a header of that epoch can serve it.
  `LostEpochIsWiped` therefore speaks of rank 0, and until the next crash.
* **Lost epoch file and pending reset** (MN:923).  A pending reset with no usable epoch
  file publishes epoch 1 before the headers are looked at, so a crash in between leaves
  an epoch file below the headers.  `EpochIsCeiling` and `NeverStale` exclude behaviours
  in which the file was lost.
* **Failed load jobs** (MN:1065, MN:1259).  A load job that fails on a rank drops all of
  its keys, those every rank can read included and for a transient error as well, so
  an acknowledged block may leave the index without being evicted.  `AckedSurvives`
  names this case.
* **Load beside pending stores** (SC:768).  With asynchronous scheduling a preempted
  request can be readmitted with an external hit before its flushed stores are
  reported, and "a load can only be issued when no other jobs are pending" fails
  (`Depth = 2`, `Failures = TRUE`, `MCKeyOfThree`, 4 GPU blocks, `Slots = 4`,
  `MaxJobs = 5`, `MaxPreempts = 1`; with `Depth = 1` there is no such state).  The
  model disables the load there.
* **Forced preemption** (ES:2186).  `reset_prefix_cache(reset_running_requests=True)`
  preempts outside `schedule()`; the stores of those requests are not flushed and
  their blocks not watched, so a block is overwritten while a store still reads it
  (`ResetKinds = {[running |-> TRUE, connector |-> FALSE]}`, `Depth = 1`,
  `MaxResets = 1` violates `StoreSourceIntact`).
* **Stale job ids** (SC:1248).  `reset_cache` clears the job table but not the job ids
  of active requests; the next use of such an id raises `KeyError` (the instance of
  `connector_reset` violates `JobsKnown`).
* `reset_cache` leaves the jobs to flush in the current batch until the next step, so
  a second call before that step fails the assertion at SC:1222; in the model
  `ResetConnector` is disabled there.

Rollout:
* **Late launch** (RO:222).  "exact containers and mounts are retained" does not hold on
  a host where a `launch.sh` was cut off: it goes on by itself, and its `docker rm -f`
  of the name (launch.sh:115) removes the original if the restore has given the name
  back by then.  `OriginalsKept` and `RestoreSucceeds` except these hosts, and no
  others.
* **Reported success** (RO:225 and RO:232, RO:111 and RO:114).  A rank may exit between
  the health check and the report, while the smoke test, the probe and the log capture
  go on; nothing looks again.  `SuccessIsUniform` says which containers have the name and
  which ones are stopped, not that all ranks still run.
* `stop_new` inspects by Id and label but stops and renames by *name*; if late
  commands and foreign containers occur in one behaviour, a container somebody
  started in between can be stopped.
* `--restore` after the controller was killed does not look for a regression
  container it may have left running (RO:243).

Power control:
* SI:75 says the quiesce returns "1 (and nothing torn down) otherwise", but when a
  commit fails others have already torn down; `ReportsTrue` therefore speaks only of
  a quiesce that backs out after prepare.
* SI:88 says that after `plugin_resume` "every plugin process on every node is active
  again", but nodes whose status query failed are skipped: hence `h \in PHOSTS` in
  `ReportsTrue`.
* If no plugin answers on any node, `--down` goes on as if there were none; `blind`
  names this case in `NeverUnderTraffic`.
* A second timed `--down` stops the earlier timer before it arms its own; if arming
  fails then (SI:114), an adapter that is off stays off.  `DeadMan` therefore ends
  where another `--down` arms.  It also assumes that the timer is set longer than
  `OFF` takes and that the next invocation waits for node scripts still running.

## 7. Plan

Done: the slab manager, the slab files, the data mover with its contract, the
connector with the engine for one group, the weight stream, the artifact loader
with its contract, the rollout, the power control, and the theorems of section 4.

Next, in this order:
1. Sliding-window groups in the connector (stale blocks zeroed, watched from store
   creation) and the convergence of `_lookup` over several groups, the latter as an
   operator checked against a reference definition; the attribution of drafter runs
   to targets in `prepare_store` (MN:1009).
2. An abstract ledger of slots that `SlabManager` implements, and `BounceController`
   composed with it through `TransferContract`.
