-------------------------------- MODULE SlabDisk --------------------------------
(***************************************************************************)
(* The slab files of every rank across crashes, power cuts, cache resets   *)
(* and configuration changes: SlabIO (write, read, sync, scan, wipe,       *)
(* max_epoch), the start of a worker (get_worker), and the part of         *)
(* SlabOffloadingManager that touches the disk (_attach, the epoch file,   *)
(* reset_cache).  Source: .../kv_offload/tiering/multinode.py.             *)
(*                                                                         *)
(* One slab file per rank is modelled: the groups have separate files and  *)
(* share only the epoch.  Which slot a store gets is any slot that is not  *)
(* being written (SlabManager has the eviction rule and shows that a slot  *)
(* is transferred by one job at a time).  A CRC is the value it covers.    *)
(*                                                                         *)
(* The content of a payload is what it means: the key it was computed for, *)
(* and the number of cache resets and the configuration it was computed    *)
(* under.  A payload is good when all three are current.                   *)
(***************************************************************************)
EXTENDS Naturals, FiniteSets

CONSTANTS
    Rank, Rank0,      \* the workers; the scheduler reads the files of Rank0
    Key, Slot,
    Config,           \* what slab-meta.json records: geometry, engine, run config
    NoSlot, NoConfig, \* no slab-meta.json
    NoEpoch,          \* the epoch file is missing or unreadable
    Blank,            \* a header that does not parse: zeroed, torn, never written
    Torn,             \* a payload that is no block's content
    NoWrite,
    MaxResets, MaxCrashes, MaxSeq,  \* bounds
    LossAt, AfterLoss  \* bounds: the crash that may lose the epoch file, the crashes after that

ASSUME DiskConstants ==
    /\ Rank0 \in Rank
    /\ NoSlot \notin Slot /\ NoConfig \notin Config
    /\ NoEpoch \notin Nat
    /\ MaxResets \in Nat /\ MaxCrashes \in Nat /\ MaxSeq \in Nat
    /\ LossAt \in Nat /\ AfterLoss \in Nat

Payload == [key : Key, resets : Nat, config : Config]

Header == [key : Key, epoch : Nat, seq : Nat, crc : Payload]

ASSUME DiskSpecials ==
    /\ Blank \notin Header /\ Torn \notin Payload
    /\ NoWrite \notin [hdr : Header, live : BOOLEAN]

VARIABLES
    disk,       \* rank -> slot -> what a read sees, and what a power cut may leave
    meta,       \* rank -> the configuration of its slab-meta.json
    epochFile,  \* rank 0's slab-epoch
    mgr,        \* the scheduler's SlabOffloadingManager
    worker,     \* rank -> progress of its get_worker
    write,      \* slot -> the store job that is writing it
    step,       \* rank -> slot -> progress of that job on the rank
    config,     \* the configuration the engine runs with
    resets,     \* reset_cache calls so far
    durable,    \* the number of the last one that is in the epoch file
    due,        \* the number of the last one that a served block must have followed
    crashes,
    lastLoss,   \* the number of the crash that lost the epoch file last, 0 for none
    acked       \* the keys whose store was reported complete and must be kept

vars == <<disk, meta, epochFile, mgr, worker, write, step, config, resets, durable, due,
          crashes, lastLoss, acked>>

Cell == [hdr : Header \cup {Blank}, pay : Payload \cup {Torn},
         hdrs : SUBSET (Header \cup {Blank}), pays : SUBSET (Payload \cup {Torn})]

\* "starting": not attached; "bumped" and "blind": inside _attach, after the pending
\* reset was applied to a known and to an unknown epoch; "attached".
Phase == {"starting", "bumped", "blind", "attached"}

Mgr == [phase : Phase, epoch : Nat, seq : Nat, pending : BOOLEAN,
        index : [Key -> Slot \cup {NoSlot}]]

Progress == {"idle", "blank", "payload", "seal", "sync", "done", "failed"}

TypeOK ==
    /\ disk \in [Rank -> [Slot -> Cell]]
    /\ meta \in [Rank -> Config \cup {NoConfig}]
    /\ epochFile \in Nat \cup {NoEpoch}
    /\ mgr \in Mgr
    /\ worker \in [Rank -> {"starting", "wiped", "ready"}]
    /\ write \in [Slot -> [hdr : Header, live : BOOLEAN] \cup {NoWrite}]
    /\ step \in [Rank -> [Slot -> Progress]]
    /\ config \in Config
    /\ resets \in Nat /\ durable \in Nat /\ due \in Nat /\ crashes \in Nat
    /\ lastLoss \in Nat
    /\ acked \in SUBSET Key

----------------------------------------------------------------------------
(* Cells *)

Empty == [hdr |-> Blank, pay |-> Torn, hdrs |-> {Blank}, pays |-> {Torn}]

\* fdatasync: only what a read sees can be left.
Synced(c) == [hdr |-> c.hdr, pay |-> c.pay, hdrs |-> {c.hdr}, pays |-> {c.pay}]

\* What a power cut may leave: the header and the payload are in different
\* sectors, and any write since the last sync may or may not have reached them.
AfterPowerCut(c) ==
    {[hdr |-> h, pay |-> p, hdrs |-> {h}, pays |-> {p}] : h \in c.hdrs, p \in c.pays}

WithHeader(c, h) ==
    [hdr |-> h, pay |-> c.pay, hdrs |-> c.hdrs \cup {h}, pays |-> c.pays]

WithPayload(c, p) ==
    [hdr |-> c.hdr, pay |-> p, hdrs |-> c.hdrs, pays |-> c.pays \cup {p, Torn}]

\* SlabIO.read of key k by a job of epoch e succeeds: header, key, epoch, CRC.
Reads(c, k, e) ==
    /\ c.hdr # Blank
    /\ c.hdr.key = k /\ c.hdr.epoch = e
    /\ c.hdr.crc = c.pay

----------------------------------------------------------------------------
(* The workers *)

\* Mutant: the truncation is not synced before the new meta is published.
WipeUnsynced(cells) ==
    [s \in Slot |-> WithPayload(WithHeader(cells[s], Blank), Torn)]

\* SlabIO.wipe: truncate every file, fsync.
Wiped(cells) == [s \in Slot |-> Empty]

\* get_worker: slabs of another configuration are emptied, durably, before
\* slab-meta.json says that they belong to this one.
Wipe(r) ==
    /\ worker[r] = "starting" /\ meta[r] # config
    /\ disk' = [disk EXCEPT ![r] = Wiped(disk[r])]
    /\ worker' = [worker EXCEPT ![r] = "wiped"]
    /\ UNCHANGED <<meta, epochFile, mgr, write, step, config, resets, durable, due,
                   crashes, lastLoss, acked>>

PublishMeta(r) ==
    /\ \/ worker[r] = "starting" /\ meta[r] = config
       \/ worker[r] = "wiped"
    /\ meta' = [meta EXCEPT ![r] = config]
    /\ worker' = [worker EXCEPT ![r] = "ready"]
    /\ UNCHANGED <<disk, epochFile, mgr, write, step, config, resets, durable, due,
                   crashes, lastLoss, acked>>

Started == \A r \in Rank : worker[r] = "ready"

\* One rank's steps through SlabIO.write and the fdatasync of _store_chunk.
Advance(r, s, from, to, cell) ==
    /\ step[r][s] = from
    /\ step' = [step EXCEPT ![r] = [step[r] EXCEPT ![s] = to]]
    /\ disk' = [disk EXCEPT ![r] = [disk[r] EXCEPT ![s] = cell]]
    /\ UNCHANGED <<meta, epochFile, mgr, worker, write, config, resets, durable, due,
                   crashes, lastLoss, acked>>

BlankHeader(r, s) == Advance(r, s, "blank", "payload", WithHeader(disk[r][s], Blank))

\* pwritev may write a part; the loop goes on.
WritePartial(r, s) == Advance(r, s, "payload", "payload", WithPayload(disk[r][s], Torn))

WritePayload(r, s) ==
    /\ write[s] # NoWrite
    /\ Advance(r, s, "payload", "seal", WithPayload(disk[r][s], write[s].hdr.crc))

SealHeader(r, s) ==
    /\ write[s] # NoWrite
    /\ Advance(r, s, "seal", "sync", WithHeader(disk[r][s], write[s].hdr))

\* Mutant: O_DIRECT writes are taken to be durable, and the fdatasync is skipped.
SyncNothing(cells, s) == cells

\* fdatasync works on the file: every slot of it becomes durable.
SyncFile(cells, s) == [t \in Slot |-> Synced(cells[t])]

SyncChunk(r, s) ==
    /\ step[r][s] = "sync"
    /\ step' = [step EXCEPT ![r] = [step[r] EXCEPT ![s] = "done"]]
    /\ disk' = [disk EXCEPT ![r] = SyncFile(disk[r], s)]
    /\ UNCHANGED <<meta, epochFile, mgr, worker, write, config, resets, durable, due,
                   crashes, lastLoss, acked>>

\* An OSError in any of these steps: the slot stays as it is and is not synced.
FailWrite(r, s) ==
    \E from \in {"blank", "payload", "seal", "sync"} :
        Advance(r, s, from, "failed", disk[r][s])

----------------------------------------------------------------------------
(* The manager *)

NewMgr == [phase |-> "starting", epoch |-> 0, seq |-> 0, pending |-> FALSE,
           index |-> [k \in Key |-> NoSlot]]

Headers(r) == {disk[r][s].hdr : s \in Slot} \ {Blank}

Largest(S) == CHOOSE x \in S : \A y \in S : y <= x

\* Mutant: the epoch restarts at 0 when the file is missing.
EpochFromZero == 0

\* The epoch _attach assumes when it has no epoch file: above max_epoch().
EpochFromHeaders ==
    IF Headers(Rank0) = {} THEN 0 ELSE Largest({h.epoch : h \in Headers(Rank0)}) + 1

\* scan: the slots of rank 0 with a header of epoch e for key k.
Found(k, e) ==
    {s \in Slot : /\ disk[Rank0][s].hdr # Blank
                  /\ disk[Rank0][s].hdr.key = k /\ disk[Rank0][s].hdr.epoch = e}

\* Of two copies of a key the newer write wins.  After a crash and then a power cut
\* two copies can have the same sequence number; either may come last in the scan.
Newest(k, e) ==
    {s \in Found(k, e) :
        \A t \in Found(k, e) : disk[Rank0][t].hdr.seq <= disk[Rank0][s].hdr.seq}

\* The index rebuilt for epoch e.
Rebuilt(e) ==
    {index \in [Key -> Slot \cup {NoSlot}] :
        \A k \in Key : IF Found(k, e) = {} THEN index[k] = NoSlot
                       ELSE index[k] \in Newest(k, e)}

LastSeq(e) == Largest({0} \cup {h.seq : h \in {x \in Headers(Rank0) : x.epoch = e}})

\* Mutant: the pending reset is applied to the index only.
PendingEpochUnbumped == IF epochFile = NoEpoch THEN 0 ELSE epochFile

PendingEpoch == (IF epochFile = NoEpoch THEN 0 ELSE epochFile) + 1

\* _attach, first half: a reset requested before the attach is made durable.
AttachPendingReset ==
    /\ mgr.phase = "starting" /\ Started /\ mgr.pending
    /\ epochFile' = PendingEpoch
    /\ mgr' = [mgr EXCEPT !.epoch = PendingEpoch, !.pending = FALSE,
                          !.phase = IF epochFile = NoEpoch THEN "blind" ELSE "bumped"]
    /\ durable' = resets
    /\ UNCHANGED <<disk, meta, worker, write, step, config, resets, due, crashes,
                   lastLoss, acked>>

\* _attach, second half: an unknown epoch is chosen and published, the index rebuilt.
Attach ==
    /\ \/ mgr.phase = "starting" /\ Started /\ ~mgr.pending
       \/ mgr.phase \in {"bumped", "blind"}
    /\ LET known == mgr.phase # "blind" /\ epochFile # NoEpoch
           e == IF known THEN epochFile ELSE EpochFromHeaders
       IN  /\ epochFile' = e
           /\ \E index \in Rebuilt(e) :
                 mgr' = [phase |-> "attached", epoch |-> e, seq |-> LastSeq(e),
                         pending |-> FALSE, index |-> index]
    /\ UNCHANGED <<disk, meta, worker, write, step, config, resets, durable, due,
                   crashes, lastLoss, acked>>

\* prepare_store of key k into slot s, evicting what the index has there.
PrepareStore(k, s) ==
    /\ mgr.phase = "attached" /\ mgr.seq < MaxSeq
    /\ mgr.index[k] = NoSlot
    /\ \A t \in Slot : write[t] # NoWrite => ~(write[t].live /\ write[t].hdr.key = k)
    /\ write[s] = NoWrite
    /\ mgr' = [mgr EXCEPT !.seq = @ + 1,
                          !.index = [x \in Key |-> IF mgr.index[x] = s THEN NoSlot ELSE mgr.index[x]]]
    /\ acked' = acked \ {x \in Key : mgr.index[x] = s}
    /\ write' = [write EXCEPT ![s] =
            [live |-> TRUE,
             hdr  |-> [key |-> k, epoch |-> mgr.epoch, seq |-> mgr.seq + 1,
                       crc |-> [key |-> k, resets |-> resets, config |-> config]]]]
    /\ step' = [r \in Rank |-> [step[r] EXCEPT ![s] = "blank"]]
    /\ UNCHANGED <<disk, meta, epochFile, worker, config, resets, durable, due, crashes, lastLoss>>

\* complete_store keeps the key when no rank reported a failure.
Stored(s) == \A r \in Rank : step[r][s] = "done"

CompleteStore(s) ==
    /\ write[s] # NoWrite
    /\ \A r \in Rank : step[r][s] \in {"done", "failed"}
    /\ LET k    == write[s].hdr.key
           kept == write[s].live /\ Stored(s)
       IN  /\ mgr' = [mgr EXCEPT !.index = [@ EXCEPT ![k] = IF kept THEN s ELSE mgr.index[k]]]
           /\ acked' = IF kept THEN acked \cup {k} ELSE acked
    /\ write' = [write EXCEPT ![s] = NoWrite]
    /\ step' = [r \in Rank |-> [step[r] EXCEPT ![s] = "idle"]]
    /\ UNCHANGED <<disk, meta, epochFile, worker, config, resets, durable, due, crashes, lastLoss>>

\* update_connector_output and mark_load_failed: a rank reported that a load job
\* failed, because a block did not verify, its slot was -1 or an I/O failed.  Every
\* key of the job becomes a miss, those that can be read on every rank as well.
LoadJobFails(K) ==
    /\ mgr.phase = "attached"
    /\ \E k \in K : mgr.index[k] # NoSlot
    /\ mgr' = [mgr EXCEPT !.index = [k \in Key |-> IF k \in K THEN NoSlot ELSE mgr.index[k]]]
    /\ acked' = acked \ K
    /\ UNCHANGED <<disk, meta, epochFile, worker, write, step, config, resets, durable, due,
                   crashes, lastLoss>>

\* Mutant: the new epoch is only kept in memory.
ResetEpochFileInMemory == epochFile

\* _atomic_write_text of the bumped epoch.
ResetEpochFile == mgr.epoch + 1

Stale(w) == IF w = NoWrite THEN NoWrite ELSE [w EXCEPT !.live = FALSE]

\* reset_cache of an attached manager; stores in flight become stale, and the ranks
\* finish them.
ResetCache ==
    /\ mgr.phase = "attached" /\ resets < MaxResets
    /\ epochFile' = ResetEpochFile
    /\ mgr' = [mgr EXCEPT !.epoch = @ + 1, !.index = [k \in Key |-> NoSlot]]
    /\ write' = [s \in Slot |-> Stale(write[s])]
    /\ resets' = resets + 1 /\ durable' = resets + 1 /\ due' = resets + 1
    /\ acked' = {}
    /\ UNCHANGED <<disk, meta, worker, step, config, crashes, lastLoss>>

\* reset_cache before the attach is only remembered.
ResetBeforeAttach ==
    /\ mgr.phase = "starting" /\ Started /\ resets < MaxResets
    /\ mgr' = [mgr EXCEPT !.pending = TRUE]
    /\ resets' = resets + 1 /\ due' = resets + 1
    /\ acked' = {}
    /\ UNCHANGED <<disk, meta, epochFile, worker, write, step, config, durable, crashes,
                   lastLoss>>

\* The engine dies on every node and is started again, perhaps with another
\* configuration.  The nodes in cut lost power: their unsynced writes may or may
\* not be there.  lost: the epoch file is missing or corrupt afterwards.
Crash(cut, lost, cfg) ==
    /\ crashes < MaxCrashes /\ (lastLoss # 0 => crashes < lastLoss + AfterLoss)
    /\ lost => crashes + 1 = LossAt
    /\ disk' \in {d \in [Rank -> [Slot ->
                        UNION {AfterPowerCut(disk[r][s]) : r \in cut, s \in Slot}
                          \cup {disk[r][s] : r \in Rank \ cut, s \in Slot}]] :
                    \A r \in Rank, s \in Slot :
                        IF r \in cut THEN d[r][s] \in AfterPowerCut(disk[r][s])
                        ELSE d[r][s] = disk[r][s]}
    /\ epochFile' = IF lost THEN NoEpoch ELSE epochFile
    /\ lastLoss' = IF lost THEN crashes + 1 ELSE lastLoss
    /\ mgr' = NewMgr
    /\ worker' = [r \in Rank |-> "starting"]
    /\ write' = [s \in Slot |-> NoWrite]
    /\ step' = [r \in Rank |-> [s \in Slot |-> "idle"]]
    /\ config' = cfg
    /\ acked' = IF lost \/ cfg # config THEN {} ELSE acked
    /\ crashes' = crashes + 1
    /\ due' = IF mgr.pending THEN durable ELSE due
    /\ UNCHANGED <<meta, resets, durable>>

Init ==
    /\ disk = [r \in Rank |-> [s \in Slot |-> Empty]]
    /\ meta = [r \in Rank |-> NoConfig]
    /\ epochFile = NoEpoch
    /\ mgr = NewMgr
    /\ worker = [r \in Rank |-> "starting"]
    /\ write = [s \in Slot |-> NoWrite]
    /\ step = [r \in Rank |-> [s \in Slot |-> "idle"]]
    /\ config \in Config
    /\ resets = 0 /\ durable = 0 /\ due = 0 /\ crashes = 0 /\ lastLoss = 0
    /\ acked = {}

Next ==
    \/ \E r \in Rank : Wipe(r) \/ PublishMeta(r)
    \/ \E r \in Rank, s \in Slot :
          \/ BlankHeader(r, s) \/ WritePartial(r, s) \/ WritePayload(r, s)
          \/ SealHeader(r, s) \/ SyncChunk(r, s) \/ FailWrite(r, s)
    \/ AttachPendingReset \/ Attach
    \/ \E k \in Key, s \in Slot : PrepareStore(k, s)
    \/ \E s \in Slot : CompleteStore(s)
    \/ \E K \in SUBSET Key : LoadJobFails(K)
    \/ ResetCache \/ ResetBeforeAttach
    \/ \E cut \in SUBSET Rank, lost \in BOOLEAN, cfg \in Config : Crash(cut, lost, cfg)

Spec == Init /\ [][Next]_vars

----------------------------------------------------------------------------
(* Properties *)

\* A load job that reads block k on rank r now gets it.
Served(k, r) == mgr.index[k] # NoSlot /\ Reads(disk[r][mgr.index[k]], k, mgr.epoch)

\* What it gets is the content of k, computed after the last reset_cache that is due
\* and under the running configuration.
Fresh(k, r) ==
    Served(k, r) => LET p == disk[r][mgr.index[k]].pay
                    IN  p.key = k /\ p.resets >= due /\ p.config = config

\* While the epoch file was never lost, a block the tier serves is good on every rank:
\* whatever was torn, reset or reconfigured, and however often the nodes crashed, a
\* read that succeeds returns the content of the key, computed under the running
\* configuration and after the last reset_cache, except a reset_cache that came before
\* the first lookup of an engine that then died: the code forgets that one (see
\* ResetsPersist).  (read: "stale KV, never serve it".)
NeverStale ==
    mgr.phase = "attached" /\ lastLoss = 0 => \A k \in Key, r \in Rank : Fresh(k, r)

\* A lost or corrupt epoch file is a wipe of rank 0: the engine that attaches after the
\* loss takes an epoch above every header it sees, and until the next crash no block of
\* before a reset (one whose bump was lost with the file, or a later one) or of another
\* configuration is served from rank 0's slabs.  (_attach: "start ABOVE the highest one
\* (logical wipe) rather than at 0".)
LostEpochIsWiped ==
    mgr.phase = "attached" /\ lastLoss # 0 /\ lastLoss = crashes =>
        \A k \in Key : Fresh(k, Rank0)

\* A block whose store was reported complete is kept: across any number of crashes
\* and power cuts it is indexed and readable on every rank, until it is evicted,
\* reset, the configuration changes, or a load job that has it among its keys fails on
\* some rank (the code then drops the readable keys of the job as well).
AckedSurvives ==
    mgr.phase = "attached" /\ lastLoss = 0 => \A k \in acked, r \in Rank : Served(k, r)

\* The running epoch is the one on disk (a bump is durable before it is used), and
\* no rank's files hold a later one, whatever a power cut leaves of them.
EpochIsCeiling ==
    mgr.phase = "attached" /\ lastLoss = 0 =>
        /\ epochFile = mgr.epoch
        /\ \A r \in Rank, s \in Slot : \A h \in disk[r][s].hdrs \ {Blank} : h.epoch <= mgr.epoch

\* The state on disk and in memory is well typed and the epoch on it is a ceiling.
EpochOK == TypeOK /\ EpochIsCeiling

\* What every reset_cache dropped stays dropped across restarts, as the test of it says.
\* The code violates it: a reset before the first lookup is only remembered in memory.
\* (test_nvme_slab: "the old headers stay ignored across another restart".)
ResetsPersist ==
    mgr.phase = "attached" /\ lastLoss = 0 =>
        \A k \in Key, r \in Rank : Served(k, r) => disk[r][mgr.index[k]].pay.resets = resets
=============================================================================
