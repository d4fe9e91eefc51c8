----------------------------- MODULE SlabDiskProofs -----------------------------
(***************************************************************************)
(* What crashes, power cuts, resets and configuration changes leave of the *)
(* slab tier, for any number of ranks, keys and slots, as long as the      *)
(* epoch file was not lost: a block reported as stored is kept, no file    *)
(* holds an epoch above the running one, and no stale block is served.     *)
(***************************************************************************)
EXTENDS SlabDisk, WellFoundedInduction, TLAPS

\* A header that rank r's files may hold, or a store may write: it names the key its
\* payload was computed for, under the configuration cfg, its epoch is not later than
\* the one in the epoch file, and when it is of that epoch its payload was computed
\* after the last reset that is in the file.
Fits(h, cfg) ==
    /\ epochFile \in Nat /\ h.epoch <= epochFile
    /\ h.seq <= MaxSeq
    /\ h.crc.key = h.key /\ h.crc.config = cfg
    /\ h.epoch = epochFile => durable <= h.crc.resets

\* Inductive: every header that a power cut may leave fits the rank's slab-meta.json,
\* every store fits the running configuration, and the manager runs at the epoch of
\* the file, on ranks that all have the running configuration, and the reset that is
\* due is the last durable one or a pending one, which is the last of all.
DiskFits ==
    \A r \in Rank, s \in Slot :
        /\ disk[r][s].hdr \in disk[r][s].hdrs
        /\ \A h \in disk[r][s].hdrs : h # Blank => Fits(h, meta[r])

WritesFit ==
    \A s \in Slot : write[s] # NoWrite =>
        mgr.phase = "attached" /\ Fits(write[s].hdr, config)

StepsFit == \A r \in Rank, s \in Slot : step[r][s] # "idle" => write[s] # NoWrite

WorkersFit ==
    \A r \in Rank :
        /\ worker[r] = "ready" => meta[r] = config
        /\ worker[r] = "wiped" => \A s \in Slot : disk[r][s] = Empty

ManagerFits ==
    /\ mgr.pending => mgr.phase = "starting"
    /\ durable <= resets /\ due = (IF mgr.pending THEN resets ELSE durable)
    /\ mgr.phase # "starting" => Started /\ epochFile \in Nat
    /\ mgr.phase = "attached" => epochFile = mgr.epoch
    /\ mgr.phase = "blind" => \A r \in Rank, s \in Slot : disk[r][s].hdrs \subseteq {Blank}
    /\ mgr.seq <= MaxSeq

DiskInv ==
    TypeOK /\ DiskFits /\ WritesFit /\ StepsFit /\ WorkersFit /\ ManagerFits

----------------------------------------------------------------------------

\* A bounded set of natural numbers has the largest element Largest picks.
LEMMA LargestNat ==
    ASSUME NEW S \in SUBSET Nat, S # {}, NEW b \in Nat, \A x \in S : x <= b
    PROVE  Largest(S) \in S /\ \A y \in S : y <= Largest(S)
<1> DEFINE T == {b - x : x \in S}
           R == {p \in Nat \X Nat : p[1] < p[2]}
<1>0. \A x \in S : x \in Nat /\ b - x \in Nat
  OBVIOUS
<1>1. T \subseteq Nat /\ T # {}
  BY <1>0
<1>2. PICK m \in T : \A y \in T : ~(<<y, m>> \in R)
  <2>1. IsWellFoundedOn(R, Nat)
    BY NatLessThanWellFounded DEF OpToRel
  <2> HIDE DEF T, R
  <2> QED
    BY <1>1, <2>1, WFMin
<1>3. \A y \in T : m <= y
  <2> SUFFICES ASSUME NEW y \in T PROVE m <= y
    OBVIOUS
  <2>1. y \in Nat /\ m \in Nat
    BY <1>1
  <2>2. ~(y < m)
    BY <1>2, <2>1
  <2> QED
    BY <2>1, <2>2
<1>4. PICK x \in S : m = b - x
  BY <1>2
<1>5. \A y \in S : b - y \in T
  OBVIOUS
<1>6. \A y \in S : y <= x
  BY <1>0, <1>3, <1>4, <1>5
<1> QED
  BY <1>6 DEF Largest

\* What one operation on a cell leaves.
LEMMA CellType ==
    ASSUME NEW c \in Cell, c.hdr \in c.hdrs, NEW h \in Header \cup {Blank},
           NEW p \in Payload \cup {Torn}
    PROVE  /\ WithHeader(c, h) \in Cell
           /\ WithHeader(c, h).hdrs = c.hdrs \cup {h}
           /\ WithHeader(c, h).hdr = h
           /\ WithPayload(c, p) \in Cell
           /\ WithPayload(c, p).hdrs = c.hdrs
           /\ WithPayload(c, p).hdr = c.hdr
           /\ Synced(c) \in Cell /\ Synced(c).hdrs = {c.hdr} /\ Synced(c).hdr = c.hdr
           /\ \A x \in AfterPowerCut(c) :
                 x \in Cell /\ x.hdrs = {x.hdr} /\ x.hdr \in c.hdrs
           /\ Empty \in Cell /\ Empty.hdr = Blank /\ Empty.hdrs = {Blank}
<1>1. c.hdr \in Header \cup {Blank} /\ c.pay \in Payload \cup {Torn}
      /\ c.hdrs \subseteq Header \cup {Blank} /\ c.pays \subseteq Payload \cup {Torn}
  BY DEF Cell
<1>2. WithHeader(c, h) \in Cell /\ WithPayload(c, p) \in Cell
  BY <1>1 DEF WithHeader, WithPayload, Cell
<1>3. Synced(c) \in Cell /\ Empty \in Cell
  BY <1>1 DEF Synced, Empty, Cell
<1>4. \A x \in AfterPowerCut(c) : x \in Cell /\ x.hdrs = {x.hdr} /\ x.hdr \in c.hdrs
  <2> SUFFICES ASSUME NEW g \in c.hdrs, NEW q \in c.pays
               PROVE  [hdr |-> g, pay |-> q, hdrs |-> {g}, pays |-> {q}] \in Cell
    BY DEF AfterPowerCut
  <2> QED
    BY <1>1 DEF Cell
<1> QED
  BY <1>2, <1>3, <1>4 DEF WithHeader, WithPayload, Synced, Empty

\* A step of a rank's write keeps the invariant when the cell it leaves fits.
LEMMA AdvanceLemma ==
    ASSUME DiskInv, NEW r \in Rank, NEW s \in Slot, NEW from \in Progress \ {"idle"},
           NEW to \in Progress, NEW cell \in Cell, Advance(r, s, from, to, cell),
           cell.hdr \in cell.hdrs,
           \A h \in cell.hdrs : h # Blank => h \in disk[r][s].hdrs \/ h = write[s].hdr
    PROVE  DiskInv'
<1> USE DEF DiskInv, Advance
<1>1. TypeOK'
  BY DEF TypeOK
<1>2. write[s] # NoWrite /\ meta[r] = config /\ worker[r] = "ready" /\ mgr.phase = "attached"
  BY DEF StepsFit, WritesFit, ManagerFits, Started, WorkersFit
<1>3. DiskFits'
  <2> SUFFICES ASSUME NEW q \in Rank, NEW t \in Slot
               PROVE  (/\ disk[q][t].hdr \in disk[q][t].hdrs
                       /\ \A h \in disk[q][t].hdrs : h # Blank => Fits(h, meta[q]))'
    BY DEF DiskFits
  <2>1. CASE q = r /\ t = s
    <3>1. disk'[q][t] = cell
      BY <2>1 DEF TypeOK
    <3>2. \A h \in cell.hdrs : h # Blank => Fits(h, meta[r])
      BY <1>2 DEF DiskFits, WritesFit
    <3> QED
      BY <2>1, <3>1, <3>2 DEF Fits
  <2>2. CASE ~(q = r /\ t = s)
    <3>1. disk'[q][t] = disk[q][t]
      BY <2>2 DEF TypeOK
    <3> QED
      BY <3>1 DEF DiskFits, Fits
  <2> QED
    BY <2>1, <2>2
<1>4. WritesFit' /\ ManagerFits'
  BY <1>2 DEF WritesFit, ManagerFits, Fits, Started
<1>5. StepsFit'
  BY <1>2 DEF StepsFit, TypeOK
<1>6. WorkersFit'
  BY <1>2 DEF WorkersFit, TypeOK
<1> QED
  BY <1>1, <1>3, <1>4, <1>5, <1>6
LEMMA WriteSteps ==
    ASSUME DiskInv, NEW r \in Rank, NEW s \in Slot,
           \/ BlankHeader(r, s) \/ WritePartial(r, s) \/ WritePayload(r, s)
           \/ SealHeader(r, s) \/ FailWrite(r, s)
    PROVE  DiskInv'
<1> DEFINE c == disk[r][s]
<1>1. c \in Cell /\ c.hdr \in c.hdrs /\ c.hdrs \subseteq Header \cup {Blank}
  BY DEF DiskInv, TypeOK, DiskFits, Cell
<1>2. write[s] # NoWrite => write[s].hdr \in Header /\ write[s].hdr.crc \in Payload
  BY DEF DiskInv, TypeOK, Header
<1>3. CASE BlankHeader(r, s)
  <2> DEFINE d == WithHeader(c, Blank)
  <2>1. d \in Cell /\ d.hdrs = c.hdrs \cup {Blank} /\ d.hdr = Blank
    BY <1>1, CellType
  <2> QED
    BY <1>3, <2>1, AdvanceLemma, SMTT(30) DEF BlankHeader, Progress
<1>4. CASE WritePartial(r, s)
  <2> DEFINE d == WithPayload(c, Torn)
  <2>1. d \in Cell /\ d.hdrs = c.hdrs /\ d.hdr = c.hdr
    BY <1>1, CellType
  <2> QED
    BY <1>1, <1>4, <2>1, AdvanceLemma DEF WritePartial, Progress
<1>5. CASE WritePayload(r, s)
  <2> DEFINE d == WithPayload(c, write[s].hdr.crc)
  <2>1. d \in Cell /\ d.hdrs = c.hdrs /\ d.hdr = c.hdr
    BY <1>1, <1>2, <1>5, CellType DEF WritePayload
  <2> QED
    BY <1>1, <1>5, <2>1, AdvanceLemma DEF WritePayload, Progress
<1>6. CASE SealHeader(r, s)
  <2> DEFINE d == WithHeader(c, write[s].hdr)
  <2>1. d \in Cell /\ d.hdrs = c.hdrs \cup {write[s].hdr} /\ d.hdr = write[s].hdr
    BY <1>1, <1>2, <1>6, CellType DEF SealHeader
  <2> QED
    BY <1>6, <2>1, AdvanceLemma DEF SealHeader, Progress
<1>7. CASE FailWrite(r, s)
  BY <1>1, <1>7, AdvanceLemma DEF FailWrite, Progress
<1> QED
  BY <1>3, <1>4, <1>5, <1>6, <1>7

LEMMA SyncStep ==
    ASSUME DiskInv, NEW r \in Rank, NEW s \in Slot, SyncChunk(r, s)
    PROVE  DiskInv'
<1> USE DEF DiskInv, SyncChunk
<1>1. \A t \in Slot : disk[r][t] \in Cell /\ disk[r][t].hdr \in disk[r][t].hdrs
  BY DEF TypeOK, DiskFits
<1>2. \A t \in Slot : /\ Synced(disk[r][t]) \in Cell
                     /\ Synced(disk[r][t]).hdrs = {disk[r][t].hdr}
                     /\ Synced(disk[r][t]).hdr = disk[r][t].hdr
  BY <1>1, CellType
<1>3. /\ disk' \in [Rank -> [Slot -> Cell]]
      /\ \A t \in Slot : disk'[r][t] = Synced(disk[r][t])
      /\ \A q \in Rank \ {r} : disk'[q] = disk[q]
  BY <1>2 DEF TypeOK, SyncFile
<1>4. TypeOK'
  BY <1>3 DEF TypeOK, Progress
<1>5. DiskFits'
  <2> SUFFICES ASSUME NEW q \in Rank, NEW t \in Slot
               PROVE  (/\ disk[q][t].hdr \in disk[q][t].hdrs
                       /\ \A h \in disk[q][t].hdrs : h # Blank => Fits(h, meta[q]))'
    BY DEF DiskFits
  <2>1. disk'[q][t].hdr = disk[q][t].hdr /\ disk'[q][t].hdrs \subseteq disk[q][t].hdrs
        /\ disk'[q][t].hdr \in disk'[q][t].hdrs
    <3>1. CASE q = r
      <4>1. disk'[q][t] = Synced(disk[q][t]) /\ disk[q][t].hdr \in disk[q][t].hdrs
        BY <1>1, <1>3, <3>1
      <4>2. Synced(disk[q][t]).hdrs = {disk[q][t].hdr} /\ Synced(disk[q][t]).hdr = disk[q][t].hdr
        BY <1>2, <3>1
      <4> QED
        BY <4>1, <4>2
    <3>2. CASE q # r
      BY <1>3, <3>2 DEF DiskFits
    <3> QED
      BY <3>1, <3>2
  <2> QED
    BY <2>1 DEF DiskFits, Fits
<1>6. write[s] # NoWrite /\ worker[r] = "ready" /\ mgr.phase = "attached"
  BY DEF StepsFit, WritesFit, ManagerFits, Started
<1>7. WritesFit' /\ ManagerFits'
  BY <1>6 DEF WritesFit, ManagerFits, Fits, Started
<1>8. StepsFit' /\ WorkersFit'
  BY <1>3, <1>6 DEF StepsFit, WorkersFit, TypeOK
<1> QED
  BY <1>4, <1>5, <1>7, <1>8

LEMMA WorkerSteps ==
    ASSUME DiskInv, NEW r \in Rank, Wipe(r) \/ PublishMeta(r)
    PROVE  DiskInv'
<1> USE DEF DiskInv
<1>0. Empty \in Cell /\ Empty.hdr = Blank /\ Empty.hdrs = {Blank}
  BY DEF Empty, Cell
<1>1. CASE Wipe(r)
  <2> USE <1>1 DEF Wipe
  <2>1. /\ disk' \in [Rank -> [Slot -> Cell]]
        /\ \A t \in Slot : disk'[r][t] = Empty
        /\ \A q \in Rank \ {r} : disk'[q] = disk[q]
    BY <1>0 DEF TypeOK, Wiped
  <2>2. TypeOK'
    BY <2>1 DEF TypeOK
  <2>3. mgr.phase = "starting" /\ \A s \in Slot : write[s] = NoWrite
    BY DEF ManagerFits, WritesFit, Started
  <2>4. DiskFits'
    <3>1. \A q \in Rank, t \in Slot : q # r =>
            (/\ disk[q][t].hdr \in disk[q][t].hdrs
             /\ \A h \in disk[q][t].hdrs : h # Blank => Fits(h, meta[q]))'
      BY <2>1 DEF DiskFits, Fits
    <3>2. \A t \in Slot : (/\ disk[r][t].hdr \in disk[r][t].hdrs
                           /\ \A h \in disk[r][t].hdrs : h # Blank => Fits(h, meta[r]))'
      BY <1>0, <2>1
    <3> QED
      BY <3>1, <3>2 DEF DiskFits
  <2>5. WritesFit' /\ StepsFit'
    BY <2>3 DEF WritesFit, StepsFit
  <2>6. WorkersFit'
    BY <2>1 DEF WorkersFit, TypeOK
  <2>7. ManagerFits'
    BY <2>3 DEF ManagerFits
  <2> QED
    BY <2>2, <2>4, <2>5, <2>6, <2>7
<1>2. CASE PublishMeta(r)
  <2> USE <1>2 DEF PublishMeta
  <2>1. TypeOK'
    BY DEF TypeOK
  <2>2. mgr.phase = "starting" /\ \A s \in Slot : write[s] = NoWrite
    BY DEF ManagerFits, WritesFit, Started
  <2>3. DiskFits'
    <3>1. \A q \in Rank, t \in Slot : q # r =>
            (/\ disk[q][t].hdr \in disk[q][t].hdrs
             /\ \A h \in disk[q][t].hdrs : h # Blank => Fits(h, meta[q]))'
      BY DEF DiskFits, Fits, TypeOK
    <3>2. CASE meta[r] = config
      <4>1. meta'[r] = meta[r]
        BY <3>2 DEF TypeOK
      <4>2. \A t \in Slot : (/\ disk[r][t].hdr \in disk[r][t].hdrs
                             /\ \A h \in disk[r][t].hdrs : h # Blank => Fits(h, meta[r]))'
        BY <4>1 DEF DiskFits, Fits
      <4> QED
        BY <3>1, <4>2 DEF DiskFits
    <3>3. CASE worker[r] = "wiped"
      <4>2. \A t \in Slot : (/\ disk[r][t].hdr \in disk[r][t].hdrs
                             /\ \A h \in disk[r][t].hdrs : h # Blank => Fits(h, meta[r]))'
        BY <1>0, <3>3 DEF WorkersFit
      <4> QED
        BY <3>1, <4>2 DEF DiskFits
    <3> QED
      BY <3>2, <3>3
  <2>4. WritesFit' /\ StepsFit'
    BY <2>2 DEF WritesFit, StepsFit
  <2>5. WorkersFit'
    BY DEF WorkersFit, TypeOK
  <2>6. ManagerFits'
    BY <2>2 DEF ManagerFits
  <2> QED
    BY <2>1, <2>3, <2>4, <2>5, <2>6
<1> QED
  BY <1>1, <1>2

\* Of one rank's headers of an epoch LastSeq is the largest sequence number.
LEMMA LastSeqFacts ==
    ASSUME DiskInv, NEW e
    PROVE  /\ LastSeq(e) \in Nat /\ LastSeq(e) <= MaxSeq
           /\ \A h \in Headers(Rank0) : h.epoch = e => h.seq <= LastSeq(e)
<1>1. \A h \in Headers(Rank0) : h \in Header /\ h.seq <= MaxSeq
  <2> SUFFICES ASSUME NEW t \in Slot, disk[Rank0][t].hdr # Blank
               PROVE  disk[Rank0][t].hdr \in Header /\ disk[Rank0][t].hdr.seq <= MaxSeq
    BY DEF Headers
  <2>1. disk[Rank0][t] \in Cell
    BY DiskConstants DEF DiskInv, TypeOK
  <2> QED
    BY <2>1, DiskConstants DEF DiskInv, DiskFits, Cell, Fits
<1> DEFINE S == {0} \cup {h.seq : h \in {x \in Headers(Rank0) : x.epoch = e}}
<1>2. \A x \in S : x \in Nat /\ x <= MaxSeq
  BY <1>1, DiskConstants DEF Header
<1>3. S \in SUBSET Nat /\ S # {}
  BY <1>2
<1>4. \A h \in Headers(Rank0) : h.epoch = e => h.seq \in S
  OBVIOUS
<1> HIDE DEF S
<1>5. Largest(S) \in S /\ \A y \in S : y <= Largest(S)
  BY <1>2, <1>3, DiskConstants, LargestNat
<1>6. LastSeq(e) = Largest(S)
  BY DEF LastSeq, S
<1> QED
  BY <1>2, <1>4, <1>5, <1>6

LEMMA AttachStep ==
    ASSUME DiskInv, Attach
    PROVE  DiskInv'
<1> USE DEF DiskInv
<1>0. mgr.phase # "attached" /\ Started /\ ~mgr.pending /\ durable <= resets /\ due = durable
  BY DEF Attach, ManagerFits
<1> DEFINE known == mgr.phase # "blind" /\ epochFile # NoEpoch
           e == IF known THEN epochFile ELSE EpochFromHeaders
<1>1. PICK index \in Rebuilt(e) :
        /\ epochFile' = e
        /\ mgr' = [phase |-> "attached", epoch |-> e, seq |-> LastSeq(e),
                   pending |-> FALSE, index |-> index]
        /\ UNCHANGED <<disk, meta, worker, write, step, config, resets, durable, due, crashes, lastLoss, acked>>
  BY <1>0 DEF Attach
<1>2. \A h \in Headers(Rank0) : h \in Header /\ Fits(h, meta[Rank0])
  <2> SUFFICES ASSUME NEW t \in Slot, disk[Rank0][t].hdr # Blank
               PROVE  disk[Rank0][t].hdr \in Header /\ Fits(disk[Rank0][t].hdr, meta[Rank0])
    BY DEF Headers
  <2>1. disk[Rank0][t] \in Cell
    BY DiskConstants DEF TypeOK
  <2> QED
    BY <2>1, DiskConstants DEF DiskFits, Cell
<1>3. e \in Nat /\ (known => e = epochFile)
  <2>1. CASE known
    BY <2>1 DEF TypeOK
  <2>2. CASE ~known
    <3>1. Headers(Rank0) = {}
      BY <1>2, <2>2, DiskConstants DEF Fits, ManagerFits, Headers, DiskFits
    <3> QED
      BY <2>2, <3>1 DEF EpochFromHeaders
  <2> QED
    BY <2>1, <2>2
<1>4. LastSeq(e) \in Nat /\ LastSeq(e) <= MaxSeq
  BY LastSeqFacts
<1> HIDE DEF e, known
<1>5. TypeOK'
  BY <1>1, <1>3, <1>4 DEF TypeOK, Mgr, Phase, Rebuilt
<1>6. DiskFits'
  <2>1. \A r \in Rank, s \in Slot : \A h \in disk[r][s].hdrs :
            h # Blank => Fits(h, meta[r]) /\ known
    BY DiskConstants DEF DiskFits, Fits, ManagerFits, known
  <2> QED
    BY <1>1, <1>3, <2>1 DEF DiskFits, Fits
<1>7. \A s \in Slot : write[s] = NoWrite
  BY <1>0 DEF WritesFit
<1>8. WritesFit' /\ StepsFit' /\ WorkersFit'
  BY <1>1, <1>7 DEF WritesFit, StepsFit, WorkersFit
<1>9. ManagerFits'
  BY <1>0, <1>1, <1>3, <1>4 DEF ManagerFits, Started
<1> QED
  BY <1>5, <1>6, <1>8, <1>9

LEMMA EarlySteps ==
    ASSUME DiskInv, AttachPendingReset \/ ResetBeforeAttach
    PROVE  DiskInv'
<1> USE DEF DiskInv
<1>0. mgr \in Mgr /\ mgr.phase = "starting" /\ Started /\ \A s \in Slot : write[s] = NoWrite
  BY DEF AttachPendingReset, ResetBeforeAttach, ManagerFits, TypeOK, WritesFit
<1>1. CASE AttachPendingReset
  <2>1. PICK e \in Nat : /\ epochFile' = e /\ (epochFile # NoEpoch => e = epochFile + 1)
                         /\ mgr' = [mgr EXCEPT !.epoch = e, !.pending = FALSE,
                                     !.phase = IF epochFile = NoEpoch THEN "blind" ELSE "bumped"]
    <3> DEFINE e == PendingEpoch
    <3>1. e \in Nat /\ (epochFile # NoEpoch => e = epochFile + 1)
      BY DEF TypeOK, PendingEpoch
    <3>2. /\ epochFile' = e
          /\ mgr' = [mgr EXCEPT !.epoch = e, !.pending = FALSE,
                                 !.phase = IF epochFile = NoEpoch THEN "blind" ELSE "bumped"]
      BY <1>1 DEF AttachPendingReset
    <3> HIDE DEF e
    <3> QED
      BY <3>1, <3>2
  <2>2. /\ UNCHANGED <<disk, meta, worker, write, step, config, resets, due, crashes, lastLoss, acked>>
        /\ durable' = resets /\ due = resets /\ resets <= resets
    BY <1>1 DEF AttachPendingReset, ManagerFits, TypeOK
  <2>3. /\ mgr' \in Mgr /\ ~mgr'.pending /\ mgr'.phase \in {"blind", "bumped"}
        /\ mgr'.seq = mgr.seq /\ (mgr'.phase = "blind" => epochFile = NoEpoch)
    BY <1>0, <2>1 DEF Mgr, Phase
  <2>4. TypeOK'
    BY <2>1, <2>2, <2>3 DEF TypeOK
  <2>5. ASSUME NEW r \in Rank, NEW s \in Slot, NEW h \in disk[r][s].hdrs, h # Blank
        PROVE  Fits(h, meta[r])' /\ epochFile # NoEpoch
    <3>1. h \in Header /\ h.epoch \in Nat
      BY <2>5 DEF TypeOK, Cell, Header
    <3>2. Fits(h, meta[r])
      BY <2>5 DEF DiskFits
    <3>3. epochFile # NoEpoch /\ h.epoch <= e
      BY <2>1, <3>1, <3>2, DiskConstants DEF Fits
    <3> QED
      BY <1>0, <2>1, <2>2, <3>2, <3>3 DEF Fits
  <2>6. DiskFits'
    <3>1. \A r \in Rank, s \in Slot : disk[r][s].hdr \in disk[r][s].hdrs
      BY DEF DiskFits
    <3>2. ASSUME NEW r \in Rank, NEW s \in Slot, NEW h \in disk'[r][s].hdrs, h # Blank
          PROVE  Fits(h, meta[r])'
      BY <2>2, <2>5, <3>2
    <3> QED
      BY <2>2, <3>1, <3>2 DEF DiskFits
  <2>7. WritesFit' /\ StepsFit' /\ WorkersFit'
    BY <1>0, <2>2 DEF WritesFit, StepsFit, WorkersFit
  <2>8. ManagerFits'
    BY <1>0, <2>1, <2>2, <2>3, <2>5 DEF ManagerFits, Started
  <2> QED
    BY <2>4, <2>6, <2>7, <2>8
<1>2. CASE ResetBeforeAttach
  <2>1. /\ mgr' = [mgr EXCEPT !.pending = TRUE] /\ acked' = {}
        /\ resets' = resets + 1 /\ due' = resets + 1
        /\ UNCHANGED <<disk, meta, epochFile, worker, write, step, config, durable, crashes, lastLoss>>
    BY <1>2 DEF ResetBeforeAttach
  <2>2. mgr' \in Mgr /\ mgr'.phase = "starting" /\ mgr'.seq = mgr.seq /\ mgr'.pending
    BY <1>0, <2>1 DEF Mgr
  <2>3. TypeOK'
    BY <2>1, <2>2 DEF TypeOK
  <2>4. DiskFits' /\ WritesFit' /\ StepsFit' /\ WorkersFit'
    BY <1>0, <2>1 DEF DiskFits, WritesFit, StepsFit, WorkersFit, Fits
  <2>5. ManagerFits'
    <3>1. durable <= resets + 1
      BY DEF ManagerFits, TypeOK
    <3> QED
      BY <1>0, <2>1, <2>2, <3>1 DEF ManagerFits
  <2> QED
    BY <2>3, <2>4, <2>5
<1> QED
  BY <1>1, <1>2

LEMMA StoreSteps ==
    ASSUME DiskInv, NEW s \in Slot,
           (\E k \in Key : PrepareStore(k, s)) \/ CompleteStore(s)
    PROVE  DiskInv'
<1> USE DEF DiskInv
<1>1. CASE \E k \in Key : PrepareStore(k, s)
  <2> PICK k \in Key : PrepareStore(k, s)
    BY <1>1
  <2> PICK w : w = [live |-> TRUE,
                    hdr  |-> [key |-> k, epoch |-> mgr.epoch, seq |-> mgr.seq + 1,
                              crc |-> [key |-> k, resets |-> resets, config |-> config]]]
    OBVIOUS
  <2>0. mgr \in Mgr /\ mgr.phase = "attached" /\ mgr.seq < MaxSeq
    BY DEF TypeOK, PrepareStore
  <2>1. w \in [hdr : Header, live : BOOLEAN]
    BY <2>0 DEF TypeOK, Header, Payload, Mgr
  <2>2. w.hdr.epoch = mgr.epoch /\ w.hdr.seq = mgr.seq + 1 /\ w.hdr.key = k
        /\ w.hdr.crc = [key |-> k, resets |-> resets, config |-> config]
    OBVIOUS
  <2>3. write' = [write EXCEPT ![s] = w]
    BY DEF PrepareStore
  <2>4. mgr' \in Mgr /\ mgr'.phase = mgr.phase /\ mgr'.epoch = mgr.epoch
        /\ mgr'.pending = mgr.pending /\ mgr'.seq = mgr.seq + 1
    <3> PICK i : i = [x \in Key |-> IF mgr.index[x] = s THEN NoSlot ELSE mgr.index[x]]
      OBVIOUS
    <3>1. i \in [Key -> Slot \cup {NoSlot}]
      BY <2>0 DEF Mgr
    <3>2. mgr' = [mgr EXCEPT !.seq = mgr.seq + 1, !.index = i]
      BY DEF PrepareStore
    <3>3. mgr.seq + 1 \in Nat
      BY <2>0 DEF Mgr
    <3> QED
      BY <2>0, <3>1, <3>2, <3>3 DEF Mgr
  <2>5. step' \in [Rank -> [Slot -> Progress]]
        /\ \A r \in Rank, t \in Slot \ {s} : step'[r][t] = step[r][t]
    BY DEF PrepareStore, TypeOK, Progress
  <2>6. UNCHANGED <<disk, meta, epochFile, worker, config, resets, durable, due, crashes, lastLoss>>
        /\ acked' \subseteq acked
    BY DEF PrepareStore
  <2>7. TypeOK'
    BY <2>1, <2>3, <2>4, <2>5, <2>6 DEF TypeOK
  <2>8. WritesFit'
    <3>1. /\ epochFile' \in Nat /\ w.hdr.epoch <= epochFile' /\ w.hdr.seq <= MaxSeq
          /\ w.hdr.crc.key = w.hdr.key
          /\ durable' <= w.hdr.crc.resets /\ w.hdr.crc.config = config'
      BY <2>0, <2>2, <2>6, DiskConstants DEF ManagerFits, Mgr
    <3>2. \A t \in Slot \ {s} : write'[t] = write[t]
      BY <2>3 DEF TypeOK
    <3>3. write'[s] = w
      BY <2>3 DEF TypeOK
    <3>4. Fits(write[s].hdr, config)'
      BY <3>1, <3>3 DEF Fits
    <3>5. ASSUME NEW t \in Slot \ {s}, write'[t] # NoWrite
          PROVE  Fits(write[t].hdr, config)'
      BY <2>6, <3>2, <3>5 DEF WritesFit, Fits
    <3> QED
      BY <2>0, <2>4, <3>4, <3>5 DEF WritesFit
  <2>9. StepsFit'
    <3>1. write'[s] # NoWrite
      BY <2>1, <2>3, DiskSpecials, ZenonT(40) DEF TypeOK
    <3>2. \A t \in Slot \ {s} : write'[t] = write[t]
      BY <2>3 DEF TypeOK
    <3> QED
      BY <2>5, <3>1, <3>2 DEF StepsFit
  <2>10. DiskFits'
    BY <2>6 DEF DiskFits, Fits
  <2>11. WorkersFit'
    BY <2>6 DEF WorkersFit
  <2>12. ManagerFits'
    BY <2>0, <2>4, <2>6, DiskConstants DEF ManagerFits, Started, Mgr
  <2> QED
    BY <2>7, <2>8, <2>9, <2>10, <2>11, <2>12
<1>2. CASE CompleteStore(s)
  <2> USE <1>2
  <2>0. mgr \in Mgr /\ write[s] # NoWrite /\ write[s].hdr.key \in Key
    BY DEF TypeOK, CompleteStore, Header
  <2>1. mgr' \in Mgr /\ mgr'.phase = mgr.phase /\ mgr'.epoch = mgr.epoch
        /\ mgr'.pending = mgr.pending /\ mgr'.seq = mgr.seq
    BY <2>0 DEF CompleteStore, Mgr
  <2>2. /\ write' = [write EXCEPT ![s] = NoWrite]
        /\ step' = [r \in Rank |-> [step[r] EXCEPT ![s] = "idle"]]
        /\ UNCHANGED <<disk, meta, epochFile, worker, config, resets, durable, due, crashes, lastLoss>>
        /\ acked' \in SUBSET Key
    BY <2>0 DEF CompleteStore, TypeOK
  <2>3. TypeOK'
    BY <2>1, <2>2 DEF TypeOK, Progress
  <2>4. WritesFit'
    BY <2>1, <2>2 DEF WritesFit, Fits, TypeOK
  <2>5. StepsFit'
    BY <2>2 DEF StepsFit, TypeOK
  <2>6. DiskFits' /\ WorkersFit'
    BY <2>2 DEF DiskFits, Fits, WorkersFit
  <2>7. ManagerFits'
    BY <2>1, <2>2 DEF ManagerFits, Started
  <2> QED
    BY <2>3, <2>4, <2>5, <2>6, <2>7
<1> QED
  BY <1>1, <1>2

LEMMA OtherSteps ==
    ASSUME DiskInv, (\E K \in SUBSET Key : LoadJobFails(K)) \/ ResetCache
    PROVE  DiskInv'
<1> USE DEF DiskInv
<1>0. mgr \in Mgr
  BY DEF TypeOK
<1>1. CASE \E K \in SUBSET Key : LoadJobFails(K)
  <2> PICK K \in SUBSET Key : LoadJobFails(K)
    BY <1>1
  <2> PICK i : i = [k \in Key |-> IF k \in K THEN NoSlot ELSE mgr.index[k]]
    OBVIOUS
  <2>1. mgr' \in Mgr /\ mgr'.phase = mgr.phase /\ mgr'.epoch = mgr.epoch
        /\ mgr'.pending = mgr.pending /\ mgr'.seq = mgr.seq
    <3>1. i \in [Key -> Slot \cup {NoSlot}]
      BY <1>0 DEF Mgr
    <3>2. mgr' = [mgr EXCEPT !.index = i]
      BY DEF LoadJobFails
    <3> QED
      BY <1>0, <3>1, <3>2 DEF Mgr
  <2>2. /\ UNCHANGED <<disk, meta, epochFile, worker, write, step, config, resets, durable,
                       due, crashes, lastLoss>>
        /\ acked' \subseteq acked
    BY DEF LoadJobFails
  <2>3. TypeOK'
    BY <2>1, <2>2 DEF TypeOK
  <2>4. WritesFit' /\ StepsFit' /\ DiskFits' /\ WorkersFit'
    BY <2>1, <2>2 DEF WritesFit, StepsFit, DiskFits, WorkersFit, Fits
  <2>5. ManagerFits'
    BY <2>1, <2>2 DEF ManagerFits, Started
  <2> QED
    BY <2>3, <2>4, <2>5
<1>2. CASE ResetCache
  <2>1. mgr' \in Mgr /\ mgr'.phase = "attached" /\ mgr'.epoch = mgr.epoch + 1
        /\ mgr'.pending = mgr.pending /\ mgr'.seq = mgr.seq
    <3> PICK i : i = [x \in Key |-> NoSlot]
      OBVIOUS
    <3>1. i \in [Key -> Slot \cup {NoSlot}] /\ mgr.epoch + 1 \in Nat
      BY <1>0 DEF Mgr
    <3>2. mgr' = [mgr EXCEPT !.epoch = mgr.epoch + 1, !.index = i] /\ mgr.phase = "attached"
      BY <1>2 DEF ResetCache
    <3> QED
      BY <1>0, <3>1, <3>2 DEF Mgr
  <2>2. /\ epochFile' = mgr.epoch + 1 /\ acked' = {}
        /\ resets' = resets + 1 /\ durable' = resets + 1 /\ due' = resets + 1
        /\ write' = [s \in Slot |-> Stale(write[s])]
        /\ UNCHANGED <<disk, meta, worker, step, config, crashes, lastLoss>>
    BY <1>2 DEF ResetCache, ResetEpochFile
  <2>3. epochFile = mgr.epoch /\ epochFile \in Nat /\ Started /\ mgr.phase = "attached"
    BY <1>0, <1>2 DEF ManagerFits, ResetCache, Mgr
  <2>4. \A s \in Slot :
            IF write[s] = NoWrite THEN write'[s] = NoWrite
            ELSE write'[s] \in [hdr : Header, live : BOOLEAN] /\ write'[s].hdr = write[s].hdr
    BY <2>2 DEF TypeOK, Stale
  <2>5. TypeOK'
    <3>1. write' \in [Slot -> [hdr : Header, live : BOOLEAN] \cup {NoWrite}]
      BY <2>2, <2>4
    <3> QED
      BY <2>1, <2>2, <2>3, <3>1 DEF TypeOK
  <2>6. ASSUME NEW h, NEW c, h.epoch \in Nat, Fits(h, c)
        PROVE  /\ epochFile' \in Nat /\ h.epoch <= epochFile' /\ h.epoch # epochFile'
               /\ h.seq <= MaxSeq /\ h.crc.key = h.key /\ h.crc.config = c
    BY <2>2, <2>3, <2>6 DEF Fits
  <2>7. DiskFits'
    <3>1. ASSUME NEW r \in Rank, NEW s \in Slot, NEW h \in disk[r][s].hdrs, h # Blank
          PROVE  /\ epochFile' \in Nat /\ h.epoch <= epochFile' /\ h.epoch # epochFile'
                 /\ h.seq <= MaxSeq /\ h.crc.key = h.key /\ h.crc.config = meta[r]
      <4>1. h \in Header /\ h.epoch \in Nat
        BY <3>1 DEF TypeOK, Cell, Header
      <4>2. Fits(h, meta[r])
        BY <3>1 DEF DiskFits
      <4> QED
        BY <2>6, <4>1, <4>2
    <3>2. \A r \in Rank, s \in Slot : disk[r][s].hdr \in disk[r][s].hdrs
      BY DEF DiskFits
    <3> QED
      BY <2>2, <3>1, <3>2 DEF DiskFits, Fits
  <2>8. WritesFit'
    <3> SUFFICES ASSUME NEW s \in Slot, write'[s] # NoWrite
                 PROVE  Fits(write[s].hdr, config)'
      BY <2>1 DEF WritesFit
    <3>1. write[s] # NoWrite /\ write'[s].hdr = write[s].hdr
      BY <2>4
    <3>2. write[s].hdr.epoch \in Nat
      BY <3>1 DEF TypeOK, Header
    <3>3. Fits(write[s].hdr, config)
      BY <3>1 DEF WritesFit
    <3> QED
      BY <2>2, <2>6, <3>1, <3>2, <3>3 DEF Fits
  <2>9. StepsFit'
    BY <2>2, <2>4, DiskSpecials DEF StepsFit
  <2>10. WorkersFit' /\ ManagerFits'
    BY <2>1, <2>2, <2>3 DEF WorkersFit, ManagerFits, Started
  <2> QED
    BY <2>5, <2>7, <2>8, <2>9, <2>10
<1> QED
  BY <1>1, <1>2

LEMMA CrashStep ==
    ASSUME DiskInv, NEW cut \in SUBSET Rank, NEW lost \in BOOLEAN, NEW cfg \in Config,
           Crash(cut, lost, cfg), lastLoss' = 0
    PROVE  DiskInv'
<1> USE DEF DiskInv
<1>1. ~lost
  BY DEF Crash, TypeOK
<1>2. /\ epochFile' = epochFile /\ lastLoss' = lastLoss /\ mgr' = NewMgr
      /\ worker' = [r \in Rank |-> "starting"]
      /\ write' = [s \in Slot |-> NoWrite]
      /\ step' = [r \in Rank |-> [s \in Slot |-> "idle"]]
      /\ config' = cfg /\ acked' \in SUBSET Key /\ crashes' = crashes + 1
      /\ due' = (IF mgr.pending THEN durable ELSE due) /\ UNCHANGED <<meta, resets, durable>>
  BY <1>1 DEF Crash, TypeOK
<1>3. \A r \in Rank, s \in Slot :
        disk'[r][s] = disk[r][s] \/ disk'[r][s] \in AfterPowerCut(disk[r][s])
  BY DEF Crash
<1>4. \A r \in Rank, s \in Slot :
        /\ disk'[r][s] \in Cell /\ disk'[r][s].hdr \in disk'[r][s].hdrs
        /\ disk'[r][s].hdrs \subseteq disk[r][s].hdrs
  <2> SUFFICES ASSUME NEW r \in Rank, NEW s \in Slot
               PROVE  /\ disk'[r][s] \in Cell /\ disk'[r][s].hdr \in disk'[r][s].hdrs
                      /\ disk'[r][s].hdrs \subseteq disk[r][s].hdrs
    OBVIOUS
  <2>1. disk[r][s] \in Cell /\ disk[r][s].hdr \in disk[r][s].hdrs
    BY DEF TypeOK, DiskFits
  <2>2. \A x \in AfterPowerCut(disk[r][s]) :
            x \in Cell /\ x.hdrs = {x.hdr} /\ x.hdr \in disk[r][s].hdrs
    BY <2>1, CellType
  <2>3. CASE disk'[r][s] = disk[r][s]
    BY <2>1, <2>3
  <2>4. CASE disk'[r][s] \in AfterPowerCut(disk[r][s])
    BY <2>2, <2>4
  <2> QED
    BY <1>3, <2>3, <2>4
<1>5. disk' \in [Rank -> [Slot -> Cell]]
  <2> DEFINE V == UNION {AfterPowerCut(disk[r][s]) : r \in cut, s \in Slot}
                    \cup {disk[r][s] : r \in Rank \ cut, s \in Slot}
  <2>1. disk' \in [Rank -> [Slot -> V]]
    BY DEF Crash
  <2> HIDE DEF V
  <2> QED
    BY <1>4, <2>1
<1>6. NewMgr \in Mgr /\ NewMgr.phase = "starting" /\ ~NewMgr.pending /\ NewMgr.seq = 0
  BY DEF NewMgr, Mgr, Phase
<1>7. TypeOK'
  BY <1>2, <1>5, <1>6 DEF TypeOK, Progress
<1>8. DiskFits'
  BY <1>2, <1>4 DEF DiskFits, Fits
<1>9. WritesFit' /\ StepsFit' /\ WorkersFit'
  BY <1>2 DEF WritesFit, StepsFit, WorkersFit
<1>10. ManagerFits'
  BY <1>2, <1>6, DiskConstants DEF ManagerFits
<1> QED
  BY <1>7, <1>8, <1>9, <1>10

LEMMA InitDisk == Init => DiskInv
<1> SUFFICES ASSUME Init PROVE DiskInv
  OBVIOUS
<1>1. Empty \in Cell /\ Empty.hdr = Blank /\ Empty.hdrs = {Blank}
  BY DEF Empty, Cell
<1>2. NewMgr \in Mgr /\ NewMgr.phase = "starting" /\ ~NewMgr.pending /\ NewMgr.seq = 0
  BY DEF NewMgr, Mgr, Phase
<1>3. TypeOK
  BY <1>1, <1>2 DEF Init, TypeOK, Progress
<1>4. DiskFits /\ WritesFit /\ StepsFit /\ WorkersFit
  BY <1>1 DEF Init, DiskFits, WritesFit, StepsFit, WorkersFit
<1>5. ManagerFits
  BY <1>2, DiskConstants DEF Init, ManagerFits
<1> QED
  BY <1>3, <1>4, <1>5 DEF DiskInv

LEMMA NextDisk ==
    ASSUME DiskInv, [Next]_vars, lastLoss' = 0
    PROVE  DiskInv'
<1>1. CASE Next
  BY <1>1, WorkerSteps, WriteSteps, SyncStep, AttachStep, EarlySteps, StoreSteps, OtherSteps,
     CrashStep DEF Next
<1>2. CASE UNCHANGED vars
  BY <1>2 DEF DiskInv, TypeOK, DiskFits, WritesFit, StepsFit, WorkersFit, ManagerFits,
              Fits, Started, vars
<1> QED
  BY <1>1, <1>2

\* A loss of the epoch file is remembered.
CountOK == crashes \in Nat /\ lastLoss \in Nat

LEMMA LossRemembered ==
    ASSUME CountOK, [Next]_vars
    PROVE  CountOK' /\ (lastLoss' = 0 => lastLoss = 0)
<1>1. CASE \E cut \in SUBSET Rank, lost \in BOOLEAN, cfg \in Config : Crash(cut, lost, cfg)
  BY <1>1 DEF CountOK, Crash
<1>2. CASE UNCHANGED <<crashes, lastLoss>>
  BY <1>2 DEF CountOK
<1>3. ASSUME NEW r \in Rank, NEW s \in Slot,
             \/ BlankHeader(r, s) \/ WritePartial(r, s) \/ WritePayload(r, s)
             \/ SealHeader(r, s) \/ SyncChunk(r, s) \/ FailWrite(r, s)
      PROVE  UNCHANGED <<crashes, lastLoss>>
  BY <1>3 DEF BlankHeader, WritePartial, WritePayload, SealHeader, SyncChunk, FailWrite, Advance
<1>4. CASE UNCHANGED vars
  BY <1>4 DEF vars, CountOK
<1> QED
  BY <1>1, <1>2, <1>3, <1>4 DEF Next, Wipe, PublishMeta, AttachPendingReset, Attach, PrepareStore,
     CompleteStore, LoadJobFails, ResetCache, ResetBeforeAttach

\* The invariant of the files and of the manager holds until the epoch file is lost.
THEOREM DiskInvariant == Spec => [](CountOK /\ (lastLoss = 0 => DiskInv))
<1>1. Init => CountOK /\ (lastLoss = 0 => DiskInv)
  BY InitDisk DEF Init, CountOK
<1>2. CountOK /\ (lastLoss = 0 => DiskInv) /\ [Next]_vars
        => (CountOK /\ (lastLoss = 0 => DiskInv))'
  BY NextDisk, LossRemembered
<1> QED
  BY <1>1, <1>2, PTL DEF Spec

\* The running epoch is the one on disk and no file holds a later one, whatever
\* crashes, power cuts, resets and configuration changes happened, until the epoch
\* file is lost.
THEOREM EpochIsOnDisk == Spec => [](lastLoss = 0 => EpochOK)
<1>1. DiskInv => EpochOK
  <2> SUFFICES ASSUME DiskInv PROVE TypeOK /\ EpochIsCeiling
    BY DEF EpochOK
  <2>1. mgr.phase = "attached" => epochFile = mgr.epoch
    BY DEF DiskInv, ManagerFits
  <2>2. EpochIsCeiling
    BY <2>1 DEF EpochIsCeiling, DiskInv, DiskFits, Fits
  <2> QED
    BY <2>2 DEF DiskInv
<1> QED
  BY <1>1, DiskInvariant, PTL

\* Until the epoch file is lost, whatever crashes, power cuts, resets (before and after
\* the first lookup) and configuration changes happen, a read that succeeds on any rank
\* returns the content of its key, computed under the running configuration and after
\* the last reset_cache, those excepted that were pending when their engine died.
THEOREM ServedIsFresh == Spec => []NeverStale
<1>1. (lastLoss = 0 => DiskInv) => NeverStale
  <2> SUFFICES ASSUME DiskInv, mgr.phase = "attached", NEW k \in Key, NEW r \in Rank, Served(k, r)
               PROVE  /\ disk[r][mgr.index[k]].pay.key = k
                      /\ disk[r][mgr.index[k]].pay.resets >= due
                      /\ disk[r][mgr.index[k]].pay.config = config
    BY DEF NeverStale, Fresh
  <2> USE DEF DiskInv
  <2>1. epochFile = mgr.epoch /\ meta[r] = config /\ due = durable
    BY DEF ManagerFits, Started, WorkersFit
  <2> PICK s \in Slot : s = mgr.index[k]
    BY DEF Served, TypeOK, Mgr
  <2> DEFINE h == disk[r][s].hdr
  <2>2. h # Blank /\ h.key = k /\ h.epoch = epochFile /\ h.crc = disk[r][s].pay
    BY <2>1 DEF Served, Reads
  <2>3. h \in disk[r][s].hdrs /\ Fits(h, config)
    BY <2>1, <2>2 DEF DiskFits
  <2>4. h.crc.resets \in Nat /\ due \in Nat
    BY <2>2 DEF TypeOK, Cell, Header, Payload
  <2> QED
    BY <2>1, <2>2, <2>3, <2>4 DEF Fits
<1> QED
  BY <1>1, DiskInvariant, PTL

----------------------------------------------------------------------------
(* A block reported as stored is kept. *)

\* Only what a read sees can be left of the cell.
Durable(c) == c.hdrs = {c.hdr} /\ c.pays = {c.pay}

\* A scan for the running epoch that finds both headers takes g.
Loses(h, g) == h.key = g.key /\ h.epoch = epochFile => h.seq < g.seq

\* The manager counts on from the largest sequence number that rank 0 shows.
SeqsBelow ==
    mgr.phase = "attached" =>
        \A t \in Slot : disk[Rank0][t].hdr # Blank /\ disk[Rank0][t].hdr.epoch = epochFile
                           => disk[Rank0][t].hdr.seq <= mgr.seq

\* A store of the running epoch is the only one of its key, which is not indexed, and
\* newer than every copy of the key that rank 0 shows.
LiveWrites ==
    \A s \in Slot : write[s] # NoWrite =>
        /\ write[s].hdr.epoch = epochFile => write[s].live /\ write[s].hdr.seq <= mgr.seq
        /\ write[s].live => write[s].hdr.epoch = epochFile /\ mgr.index[write[s].hdr.key] = NoSlot

OnlyWrite ==
    \A s \in Slot, t \in Slot :
        s # t /\ write[s] # NoWrite /\ write[s].live =>
            /\ write[t] # NoWrite /\ write[t].live => write[t].hdr.key # write[s].hdr.key
            /\ disk[Rank0][t].hdr # Blank => Loses(disk[Rank0][t].hdr, write[s].hdr)

\* What the steps of a rank's write have left in the slot.
Written ==
    \A s \in Slot, r \in Rank : write[s] # NoWrite =>
        /\ step[r][s] \in {"seal", "sync", "done"} => disk[r][s].pay = write[s].hdr.crc
        /\ step[r][s] \in {"sync", "done"} => disk[r][s].hdr = write[s].hdr
        /\ step[r][s] = "done" => Durable(disk[r][s])

\* The fdatasync of a store works on the file: afterwards no power cut brings back
\* a copy of the key that the scan would prefer.
SyncedWins ==
    \A s \in Slot, t \in Slot :
        s # t /\ write[s] # NoWrite /\ write[s].live /\ step[Rank0][s] = "done" =>
            \A h \in disk[Rank0][t].hdrs : h # Blank => Loses(h, write[s].hdr)

\* Slot s has k on every rank, and whatever is left of rank 0's files the scan finds
\* it there.
Kept(k, s) ==
    /\ write[s] = NoWrite
    /\ \A r \in Rank : Durable(disk[r][s]) /\ Reads(disk[r][s], k, epochFile)
    /\ \A t \in Slot : t # s =>
          \A h \in disk[Rank0][t].hdrs : h # Blank => Loses(h, disk[Rank0][s].hdr)

AckedKept ==
    /\ acked # {} => /\ \A r \in Rank : meta[r] = config
                     /\ ~mgr.pending /\ mgr.phase \in {"starting", "attached"}
    /\ \A k \in acked : \E s \in Slot :
          Kept(k, s) /\ (mgr.phase = "attached" => mgr.index[k] = s)

KeepInv == SeqsBelow /\ LiveWrites /\ OnlyWrite /\ Written /\ SyncedWins /\ AckedKept

\* The header of a store is no rival of another store's, nor of an acknowledged block.
LEMMA NoRival ==
    ASSUME LiveWrites, OnlyWrite, NEW s \in Slot, NEW t \in Slot, s # t,
           write[s] # NoWrite, write[t] # NoWrite, write[s].live
    PROVE  Loses(write[t].hdr, write[s].hdr)
  BY DEF LiveWrites, OnlyWrite, Loses

LEMMA NoRivalAcked ==
    ASSUME DiskInv, LiveWrites, NEW k \in acked, NEW s \in Slot, Kept(k, s), mgr.index[k] = s,
           NEW t \in Slot, write[t] # NoWrite
    PROVE  Loses(write[t].hdr, disk[Rank0][s].hdr)
<1>1. disk[Rank0][s].hdr.key = k
  BY DiskConstants DEF Kept, Reads
<1>2. mgr.index[k] # NoSlot
  BY DiskConstants
<1> QED
  BY <1>1, <1>2 DEF LiveWrites, Loses

\* One rank's step through SlabIO.write.
LEMMA AdvanceKeeps ==
    ASSUME DiskInv, KeepInv, NEW r \in Rank, NEW s \in Slot, NEW from \in Progress \ {"idle"},
           NEW to \in Progress \ {"done"}, NEW cell \in Cell, Advance(r, s, from, to, cell),
           cell.hdr \in {Blank, disk[r][s].hdr, write[s].hdr},
           \A h \in cell.hdrs : h # Blank => h \in disk[r][s].hdrs \/ h = write[s].hdr,
           to \in {"seal", "sync"} => cell.pay = write[s].hdr.crc,
           to = "sync" => cell.hdr = write[s].hdr
    PROVE  KeepInv'
<1> USE DEF KeepInv
<1>0. /\ disk \in [Rank -> [Slot -> Cell]] /\ step \in [Rank -> [Slot -> Progress]]
      /\ Rank0 \in Rank /\ write[s] # NoWrite /\ mgr.phase = "attached"
  BY DiskConstants DEF DiskInv, TypeOK, StepsFit, WritesFit, Advance
<1>1. /\ UNCHANGED <<meta, epochFile, mgr, worker, write, config, resets, durable, due, crashes, lastLoss, acked>>
      /\ disk'[r][s] = cell /\ step'[r][s] = to
      /\ \A q \in Rank, t \in Slot : q # r \/ t # s => disk'[q][t] = disk[q][t] /\ step'[q][t] = step[q][t]
  BY <1>0 DEF Advance
<1>2. SeqsBelow'
  <2> SUFFICES ASSUME NEW t \in Slot, disk'[Rank0][t].hdr # Blank, disk'[Rank0][t].hdr.epoch = epochFile
               PROVE  disk'[Rank0][t].hdr.seq <= mgr.seq
    BY <1>1 DEF SeqsBelow
  <2>1. CASE disk'[Rank0][t].hdr = disk[Rank0][t].hdr
    BY <1>0, <2>1 DEF SeqsBelow
  <2>2. CASE disk'[Rank0][t].hdr # disk[Rank0][t].hdr
    <3>1. disk'[Rank0][t].hdr = write[s].hdr
      BY <1>0, <1>1, <2>2
    <3> QED
      BY <1>0, <3>1 DEF LiveWrites
  <2> QED
    BY <2>1, <2>2
<1>3. LiveWrites'
  BY <1>1 DEF LiveWrites
<1>4. OnlyWrite'
  <2> SUFFICES ASSUME NEW a \in Slot, NEW t \in Slot, a # t, write[a] # NoWrite, write[a].live
               PROVE  /\ write[t] # NoWrite /\ write[t].live => write[t].hdr.key # write[a].hdr.key
                      /\ disk'[Rank0][t].hdr # Blank => Loses(disk'[Rank0][t].hdr, write[a].hdr)
    BY <1>1 DEF OnlyWrite, Loses
  <2>1. CASE disk'[Rank0][t].hdr = disk[Rank0][t].hdr
    BY <2>1 DEF OnlyWrite
  <2>2. CASE disk'[Rank0][t].hdr # disk[Rank0][t].hdr
    <3>1. t = s /\ disk'[Rank0][t].hdr \in {Blank, write[t].hdr}
      BY <1>0, <1>1, <2>2
    <3>2. Loses(write[t].hdr, write[a].hdr)
      BY <1>0, <3>1, NoRival
    <3> QED
      BY <3>1, <3>2 DEF OnlyWrite
  <2> QED
    BY <2>1, <2>2
<1>5. Written'
  <2> SUFFICES ASSUME NEW a \in Slot, NEW q \in Rank, write[a] # NoWrite
               PROVE  /\ step'[q][a] \in {"seal", "sync", "done"} => disk'[q][a].pay = write[a].hdr.crc
                      /\ step'[q][a] \in {"sync", "done"} => disk'[q][a].hdr = write[a].hdr
                      /\ step'[q][a] = "done" => Durable(disk'[q][a])
    BY <1>1 DEF Written, Durable
  <2>1. CASE q = r /\ a = s
    BY <1>1, <2>1
  <2>2. CASE q # r \/ a # s
    BY <1>1, <2>2 DEF Written
  <2> QED
    BY <2>1, <2>2
<1>6. SyncedWins'
  <2> SUFFICES ASSUME NEW a \in Slot, NEW t \in Slot, a # t, write[a] # NoWrite, write[a].live,
                      step'[Rank0][a] = "done", NEW h \in disk'[Rank0][t].hdrs, h # Blank
               PROVE  Loses(h, write[a].hdr)
    BY <1>1 DEF SyncedWins, Loses
  <2>1. step[Rank0][a] = "done"
    BY <1>0, <1>1
  <2>2. CASE h \in disk[Rank0][t].hdrs
    BY <2>1, <2>2 DEF SyncedWins
  <2>3. CASE h \notin disk[Rank0][t].hdrs
    <3>1. t = s /\ h = write[t].hdr
      BY <1>0, <1>1, <2>3
    <3> QED
      BY <1>0, <3>1, NoRival
  <2> QED
    BY <2>2, <2>3
<1>7. AckedKept'
  <2> SUFFICES ASSUME NEW k \in acked, NEW a \in Slot, Kept(k, a), mgr.index[k] = a
               PROVE  Kept(k, a)'
    BY <1>0, <1>1 DEF AckedKept
  <2>1. a # s /\ write[a] = NoWrite
    BY <1>0 DEF Kept
  <2>2. \A q \in Rank : disk'[q][a] = disk[q][a]
    BY <1>1, <2>1
  <2>3. ASSUME NEW t \in Slot, t # a, NEW h \in disk'[Rank0][t].hdrs, h # Blank
        PROVE  Loses(h, disk[Rank0][a].hdr)
    <3>1. CASE h \in disk[Rank0][t].hdrs
      BY <2>3, <3>1 DEF Kept
    <3>2. CASE h \notin disk[Rank0][t].hdrs
      <4>1. t = s /\ h = write[t].hdr
        BY <1>0, <1>1, <2>3, <3>2
      <4> QED
        BY <1>0, <4>1, NoRivalAcked
    <3> QED
      BY <3>1, <3>2
  <2>4. \A q \in Rank : Durable(disk'[q][a]) /\ Reads(disk'[q][a], k, epochFile)
    BY <2>2 DEF Kept
  <2> QED
    BY <1>0, <1>1, <2>1, <2>2, <2>3, <2>4 DEF Kept, Loses
<1> QED
  BY <1>2, <1>3, <1>4, <1>5, <1>6, <1>7

LEMMA WriteStepsKeep ==
    ASSUME DiskInv, KeepInv, NEW r \in Rank, NEW s \in Slot,
           \/ BlankHeader(r, s) \/ WritePartial(r, s) \/ WritePayload(r, s)
           \/ SealHeader(r, s) \/ FailWrite(r, s)
    PROVE  KeepInv'
<1> DEFINE c == disk[r][s]
<1>1. c \in Cell /\ c.hdr \in c.hdrs /\ c.hdrs \subseteq Header \cup {Blank}
  BY DEF DiskInv, TypeOK, DiskFits, Cell
<1>2. write[s] # NoWrite => write[s].hdr \in Header /\ write[s].hdr.crc \in Payload
  BY DEF DiskInv, TypeOK, Header
<1>3. CASE BlankHeader(r, s)
  <2> DEFINE d == WithHeader(c, Blank)
  <2>1. d \in Cell /\ d.hdrs = c.hdrs \cup {Blank} /\ d.hdr = Blank
    BY <1>1, CellType
  <2> QED
    BY <1>3, <2>1, AdvanceKeeps, SMTT(30) DEF BlankHeader, Progress
<1>4. CASE WritePartial(r, s)
  <2> DEFINE d == WithPayload(c, Torn)
  <2>1. d \in Cell /\ d.hdrs = c.hdrs /\ d.hdr = c.hdr
    BY <1>1, CellType
  <2> QED
    BY <1>1, <1>4, <2>1, AdvanceKeeps, SMTT(30) DEF WritePartial, Progress
<1>5. CASE WritePayload(r, s)
  <2> DEFINE d == WithPayload(c, write[s].hdr.crc)
  <2>1. d \in Cell /\ d.hdrs = c.hdrs /\ d.hdr = c.hdr
    BY <1>1, <1>2, <1>5, CellType DEF WritePayload
  <2>2. d.pay = write[s].hdr.crc
    BY DEF WithPayload
  <2> QED
    BY <1>1, <1>5, <2>1, <2>2, AdvanceKeeps, SMTT(30) DEF WritePayload, Progress
<1>6. CASE SealHeader(r, s)
  <2> DEFINE d == WithHeader(c, write[s].hdr)
  <2>1. d \in Cell /\ d.hdrs = c.hdrs \cup {write[s].hdr} /\ d.hdr = write[s].hdr
    BY <1>1, <1>2, <1>6, CellType DEF SealHeader
  <2>2. d.pay = write[s].hdr.crc
    BY <1>6 DEF WithHeader, SealHeader, Advance, KeepInv, Written
  <2> QED
    BY <1>6, <2>1, <2>2, AdvanceKeeps DEF SealHeader, Progress
<1>7. CASE FailWrite(r, s)
  BY <1>1, <1>7, AdvanceKeeps DEF FailWrite, Progress
<1> QED
  BY <1>3, <1>4, <1>5, <1>6, <1>7

LEMMA SyncKeeps ==
    ASSUME DiskInv, KeepInv, NEW r \in Rank, NEW s \in Slot, SyncChunk(r, s)
    PROVE  KeepInv'
<1> USE DEF KeepInv
<1>0. /\ disk \in [Rank -> [Slot -> Cell]] /\ step \in [Rank -> [Slot -> Progress]]
      /\ Rank0 \in Rank /\ write[s] # NoWrite /\ mgr.phase = "attached" /\ step[r][s] = "sync"
      /\ \A q \in Rank, t \in Slot : disk[q][t].hdr \in disk[q][t].hdrs
  BY DiskConstants DEF DiskInv, TypeOK, StepsFit, WritesFit, DiskFits, SyncChunk
<1>1. /\ UNCHANGED <<meta, epochFile, mgr, worker, write, config, resets, durable, due, crashes, lastLoss, acked>>
      /\ step'[r][s] = "done"
      /\ \A q \in Rank, t \in Slot : q # r \/ t # s => step'[q][t] = step[q][t]
      /\ \A t \in Slot : disk'[r][t] = Synced(disk[r][t])
      /\ \A q \in Rank, t \in Slot : q # r => disk'[q][t] = disk[q][t]
  BY <1>0 DEF SyncChunk, SyncFile
<1>2. \A q \in Rank, t \in Slot :
        /\ disk'[q][t].hdr = disk[q][t].hdr /\ disk'[q][t].pay = disk[q][t].pay
        /\ q = r => disk'[q][t].hdrs = {disk[q][t].hdr} /\ disk'[q][t].pays = {disk[q][t].pay}
  <2>1. ASSUME NEW t \in Slot
        PROVE  /\ disk'[r][t].hdr = disk[r][t].hdr /\ disk'[r][t].pay = disk[r][t].pay
               /\ disk'[r][t].hdrs = {disk[r][t].hdr} /\ disk'[r][t].pays = {disk[r][t].pay}
    <3>1. disk'[r][t] = Synced(disk[r][t])
      BY <1>1
    <3> QED
      BY <3>1 DEF Synced
  <2> QED
    BY <1>1, <2>1
<1>3. \A q \in Rank, t \in Slot :
        /\ disk'[q][t].hdrs \subseteq disk[q][t].hdrs
        /\ Durable(disk[q][t]) => Durable(disk'[q][t])
        /\ q = r => Durable(disk'[q][t])
  BY <1>0, <1>1, <1>2 DEF Durable
<1>4. SeqsBelow' /\ LiveWrites'
  <2>1. SeqsBelow'
    BY <1>0, <1>1, <1>2 DEF SeqsBelow
  <2>2. LiveWrites'
    BY <1>0, <1>1, <1>2 DEF LiveWrites
  <2> QED
    BY <2>1, <2>2
<1>5. OnlyWrite'
  <2>1. \A t \in Slot : disk'[Rank0][t].hdr = disk[Rank0][t].hdr
    BY <1>0, <1>2
  <2>2. OnlyWrite /\ write' = write /\ epochFile' = epochFile
    BY <1>1
  <2> QED
    BY <2>1, <2>2 DEF OnlyWrite, Loses
<1>6. Written'
  <2> SUFFICES ASSUME NEW a \in Slot, NEW q \in Rank, write[a] # NoWrite
               PROVE  /\ step'[q][a] \in {"seal", "sync", "done"} => disk'[q][a].pay = write[a].hdr.crc
                      /\ step'[q][a] \in {"sync", "done"} => disk'[q][a].hdr = write[a].hdr
                      /\ step'[q][a] = "done" => Durable(disk'[q][a])
    BY <1>1 DEF Written, Durable
  <2>1. CASE q = r /\ a = s
    BY <1>0, <1>1, <1>2, <1>3, <2>1 DEF Written
  <2>2. CASE q # r \/ a # s
    BY <1>1, <1>2, <1>3, <2>2 DEF Written
  <2> QED
    BY <2>1, <2>2
<1>7. SyncedWins'
  <2> SUFFICES ASSUME NEW a \in Slot, NEW t \in Slot, a # t, write[a] # NoWrite, write[a].live,
                      step'[Rank0][a] = "done", NEW h \in disk'[Rank0][t].hdrs, h # Blank
               PROVE  Loses(h, write[a].hdr)
    BY <1>1 DEF SyncedWins, Loses
  <2>1. CASE r = Rank0
    <3>1. h = disk[Rank0][t].hdr
      BY <1>0, <1>2, <2>1
    <3> QED
      BY <3>1 DEF OnlyWrite
  <2>2. CASE r # Rank0
    BY <1>0, <1>1, <1>3, <2>2 DEF SyncedWins
  <2> QED
    BY <2>1, <2>2
<1>8. AckedKept'
  <2> SUFFICES ASSUME NEW k \in acked, NEW a \in Slot, Kept(k, a)
               PROVE  Kept(k, a)'
    BY <1>0, <1>1 DEF AckedKept
  <2>1. \A q \in Rank : Durable(disk'[q][a]) /\ Reads(disk'[q][a], k, epochFile)
    BY <1>2, <1>3 DEF Kept, Reads
  <2>2. ASSUME NEW t \in Slot, t # a, NEW h \in disk'[Rank0][t].hdrs, h # Blank
        PROVE  Loses(h, disk'[Rank0][a].hdr)
    BY <1>0, <1>2, <1>3, <2>2 DEF Kept
  <2> QED
    BY <1>1, <2>1, <2>2 DEF Kept, Loses
<1> QED
  BY <1>4, <1>5, <1>6, <1>7, <1>8

\* Steps between which nothing is written: the files only lose what they may lose.
LEMMA QuietKeeps ==
    ASSUME \A s \in Slot : write'[s] = NoWrite, mgr'.phase # "attached", AckedKept'
    PROVE  KeepInv'
  BY DEF KeepInv, SeqsBelow, LiveWrites, OnlyWrite, Written, SyncedWins

LEMMA StartKeeps ==
    ASSUME DiskInv, KeepInv,
           \/ \E r \in Rank : Wipe(r) \/ PublishMeta(r)
           \/ AttachPendingReset \/ ResetBeforeAttach
    PROVE  KeepInv'
<1> USE DEF KeepInv
<1>1. mgr.phase = "starting" /\ \A s \in Slot : write[s] = NoWrite
  <2>1. mgr.phase = "starting"
    BY DEF Wipe, PublishMeta, AttachPendingReset, ResetBeforeAttach, DiskInv, ManagerFits, Started
  <2> QED
    BY <2>1 DEF DiskInv, WritesFit
<1>2. UNCHANGED write
  BY DEF Wipe, PublishMeta, AttachPendingReset, ResetBeforeAttach
<1>3. CASE AttachPendingReset \/ ResetBeforeAttach
  <2>1. acked' = {}
    BY <1>3 DEF AttachPendingReset, ResetBeforeAttach, AckedKept
  <2>2. mgr'.phase # "attached"
    <3>1. mgr \in Mgr
      BY DEF DiskInv, TypeOK
    <3>2. CASE ResetBeforeAttach
      BY <1>1, <3>1, <3>2 DEF ResetBeforeAttach, Mgr
    <3>3. CASE AttachPendingReset
      <4> DEFINE e == PendingEpoch
                 p == IF epochFile = NoEpoch THEN "blind" ELSE "bumped"
      <4>1. mgr' = [mgr EXCEPT !.epoch = e, !.pending = FALSE, !.phase = p] /\ p # "attached"
        BY <3>3 DEF AttachPendingReset
      <4> HIDE DEF e, p
      <4> QED
        BY <3>1, <4>1 DEF Mgr
    <3> QED
      BY <1>3, <3>2, <3>3
  <2>3. AckedKept'
    BY <2>1 DEF AckedKept
  <2> QED
    BY <1>1, <1>2, <2>2, <2>3, QuietKeeps
<1>4. CASE \E r \in Rank : Wipe(r)
  <2>1. acked' = {} /\ UNCHANGED mgr
    BY <1>4 DEF Wipe, AckedKept
  <2>2. AckedKept'
    BY <2>1 DEF AckedKept
  <2> QED
    BY <1>1, <1>2, <2>1, <2>2, QuietKeeps
<1>5. CASE \E r \in Rank : PublishMeta(r)
  <2>1. /\ UNCHANGED <<disk, epochFile, mgr, write, config, acked>>
        /\ \A q \in Rank : meta[q] = config => meta'[q] = config
    BY <1>5 DEF PublishMeta, DiskInv, TypeOK
  <2>2. AckedKept'
    BY <2>1 DEF AckedKept, Kept, Loses
  <2> QED
    BY <1>1, <2>1, <2>2, QuietKeeps
<1> QED
  BY <1>3, <1>4, <1>5

LEMMA PowerCutLeaves ==
    ASSUME NEW c, NEW x \in AfterPowerCut(c)
    PROVE  x.hdr \in c.hdrs /\ x.pay \in c.pays /\ x.hdrs = {x.hdr} /\ x.pays = {x.pay}
  BY DEF AfterPowerCut

LEMMA CrashKeeps ==
    ASSUME DiskInv, KeepInv, NEW cut \in SUBSET Rank, NEW lost \in BOOLEAN,
           NEW cfg \in Config, Crash(cut, lost, cfg)
    PROVE  KeepInv'
<1>1. /\ mgr' = NewMgr /\ write' = [s \in Slot |-> NoWrite] /\ UNCHANGED <<meta, resets>>
      /\ acked' = {} \/ (acked' = acked /\ UNCHANGED <<epochFile, config>>)
  BY DEF Crash
<1>2. mgr'.phase = "starting" /\ ~mgr'.pending
  BY <1>1 DEF NewMgr
<1>3. \A s \in Slot : write'[s] = NoWrite
  BY <1>1
<1>4. CASE acked' = {}
  <2>1. AckedKept'
    BY <1>4 DEF AckedKept
  <2> QED
    BY <1>2, <1>3, <2>1, QuietKeeps
<1>5. CASE acked' = acked /\ UNCHANGED <<epochFile, config>>
  <2>1. \A r \in Rank, s \in Slot :
          disk'[r][s] = disk[r][s] \/ disk'[r][s] \in AfterPowerCut(disk[r][s])
    BY DEF Crash
  <2>2. ASSUME NEW r \in Rank, NEW s \in Slot
        PROVE  /\ disk'[r][s].hdrs \subseteq disk[r][s].hdrs
               /\ Durable(disk[r][s]) =>
                     /\ disk'[r][s].hdr = disk[r][s].hdr /\ disk'[r][s].pay = disk[r][s].pay
                     /\ Durable(disk'[r][s])
    <3>1. CASE disk'[r][s] = disk[r][s]
      BY <3>1
    <3>2. CASE disk'[r][s] \in AfterPowerCut(disk[r][s])
      <4> DEFINE c == disk[r][s]
      <4>1. PICK x \in AfterPowerCut(c) : disk'[r][s] = x
        BY <3>2
      <4> QED
        BY <4>1, PowerCutLeaves DEF Durable
    <3> QED
      BY <2>1, <3>1, <3>2
  <2>3. ASSUME NEW k \in acked, NEW a \in Slot, Kept(k, a)
        PROVE  Kept(k, a)'
    <3>1. \A q \in Rank : Durable(disk'[q][a]) /\ Reads(disk'[q][a], k, epochFile) /\ disk'[q][a].hdr = disk[q][a].hdr
      BY <2>2, <2>3 DEF Kept, Reads
    <3>2. ASSUME NEW t \in Slot, t # a, NEW h \in disk'[Rank0][t].hdrs, h # Blank
          PROVE  Loses(h, disk'[Rank0][a].hdr)
      BY <2>2, <2>3, <3>1, <3>2, DiskConstants DEF Kept
    <3> QED
      BY <1>3, <1>5, <3>1, <3>2 DEF Kept, Loses
  <2>4. AckedKept'
    <3>1. acked' # {} => \A r \in Rank : meta'[r] = config'
      BY <1>1, <1>5 DEF KeepInv, AckedKept
    <3>2. \A k \in acked' : \E s \in Slot : Kept(k, s)'
      BY <1>5, <2>3 DEF KeepInv, AckedKept
    <3> QED
      BY <1>2, <3>1, <3>2 DEF AckedKept
  <2> QED
    BY <1>2, <1>3, <2>4, QuietKeeps
<1> QED
  BY <1>1, <1>4, <1>5

LEMMA AttachKeeps ==
    ASSUME DiskInv, KeepInv, Attach
    PROVE  KeepInv'
<1> DEFINE known == mgr.phase # "blind" /\ epochFile # NoEpoch
           e == IF known THEN epochFile ELSE EpochFromHeaders
<1>1. PICK index \in Rebuilt(e) :
        /\ epochFile' = e
        /\ mgr' = [phase |-> "attached", epoch |-> e, seq |-> LastSeq(e),
                   pending |-> FALSE, index |-> index]
        /\ UNCHANGED <<disk, meta, worker, write, step, config, resets, durable, due, crashes, lastLoss, acked>>
  BY DEF Attach
<1>2. mgr'.phase = "attached" /\ mgr'.seq = LastSeq(e) /\ mgr'.index = index /\ ~mgr'.pending
  BY <1>1
<1>3. \A s \in Slot : write[s] = NoWrite
  BY DEF Attach, DiskInv, WritesFit
<1>4. known => e = epochFile
  OBVIOUS
<1> HIDE DEF known, e
<1>5. SeqsBelow'
  <2> SUFFICES ASSUME NEW t \in Slot, disk[Rank0][t].hdr # Blank, disk[Rank0][t].hdr.epoch = e
               PROVE  disk[Rank0][t].hdr.seq <= LastSeq(e)
    BY <1>1, <1>2 DEF SeqsBelow
  <2>1. disk[Rank0][t].hdr \in Headers(Rank0)
    BY DEF Headers
  <2> QED
    BY <2>1, LastSeqFacts
<1>6. LiveWrites' /\ OnlyWrite' /\ Written' /\ SyncedWins'
  BY <1>1, <1>3 DEF LiveWrites, OnlyWrite, Written, SyncedWins
<1>7. ASSUME NEW k \in acked, NEW s \in Slot, Kept(k, s)
      PROVE  e = epochFile /\ index[k] = s
  <2>0. Rank0 \in Rank /\ k \in Key
    BY DiskConstants DEF DiskInv, TypeOK
  <2>1. \A t \in Slot : disk[Rank0][t].hdr \in disk[Rank0][t].hdrs /\ disk[Rank0][t].hdr \in Header \cup {Blank}
    <3>1. \A t \in Slot : disk[Rank0][t] \in Cell
      BY <2>0 DEF DiskInv, TypeOK
    <3> QED
      BY <2>0, <3>1 DEF DiskInv, DiskFits, Cell
  <2>2. disk[Rank0][s].hdr # Blank /\ disk[Rank0][s].hdr.key = k /\ disk[Rank0][s].hdr.epoch = epochFile
    BY <1>7, <2>0 DEF Kept, Reads
  <2>3. epochFile \in Nat
    BY <2>1, <2>2 DEF Header
  <2>4. known
    BY <1>7, <2>3, DiskConstants DEF known, KeepInv, AckedKept
  <2>5. s \in Found(k, e)
    BY <1>4, <2>2, <2>4 DEF Found
  <2>6. index[k] \in Newest(k, e)
    BY <2>0, <2>5 DEF Rebuilt
  <2>7. ASSUME NEW t \in Newest(k, e), t # s PROVE FALSE
    <3>1. /\ t \in Slot /\ disk[Rank0][t].hdr # Blank
          /\ disk[Rank0][t].hdr.key = k /\ disk[Rank0][t].hdr.epoch = epochFile
      BY <1>4, <2>4, <2>7 DEF Newest, Found
    <3>2. disk[Rank0][s].hdr.seq <= disk[Rank0][t].hdr.seq
      BY <2>5, <2>7 DEF Newest
    <3>3. disk[Rank0][t].hdr.seq < disk[Rank0][s].hdr.seq
      BY <1>7, <2>1, <2>2, <2>7, <3>1 DEF Kept, Loses
    <3>4. disk[Rank0][t].hdr.seq \in Nat /\ disk[Rank0][s].hdr.seq \in Nat
      BY <2>1, <2>2, <3>1 DEF Header
    <3> QED
      BY <3>2, <3>3, <3>4
  <2> QED
    BY <1>4, <2>4, <2>6, <2>7
<1>8. AckedKept'
  <2>1. ASSUME NEW k \in acked PROVE \E s \in Slot : Kept(k, s)' /\ mgr'.index[k] = s
    <3>1. PICK s \in Slot : Kept(k, s)
      BY DEF KeepInv, AckedKept
    <3>2. e = epochFile /\ index[k] = s
      BY <1>7, <3>1
    <3>3. Kept(k, s)'
      BY <1>1, <3>1, <3>2 DEF Kept, Loses
    <3> QED
      BY <1>2, <3>2, <3>3
  <2>2. acked' # {} => \A r \in Rank : meta'[r] = config'
    BY <1>1 DEF KeepInv, AckedKept
  <2> QED
    BY <1>1, <1>2, <2>1, <2>2 DEF AckedKept
<1> QED
  BY <1>5, <1>6, <1>8 DEF KeepInv

LEMMA PrepareKeeps ==
    ASSUME DiskInv, KeepInv, NEW k \in Key, NEW s \in Slot, PrepareStore(k, s)
    PROVE  KeepInv'
<1> USE DEF KeepInv
<1> PICK w : w = [live |-> TRUE,
                  hdr  |-> [key |-> k, epoch |-> mgr.epoch, seq |-> mgr.seq + 1,
                            crc |-> [key |-> k, resets |-> resets, config |-> config]]]
  OBVIOUS
<1> PICK i : i = [x \in Key |-> IF mgr.index[x] = s THEN NoSlot ELSE mgr.index[x]]
  OBVIOUS
<1>0. /\ mgr \in Mgr /\ mgr.phase = "attached" /\ mgr.index[k] = NoSlot /\ epochFile = mgr.epoch
      /\ write \in [Slot -> [hdr : Header, live : BOOLEAN] \cup {NoWrite}] /\ write[s] = NoWrite
      /\ step \in [Rank -> [Slot -> Progress]] /\ mgr.seq \in Nat
  BY DEF DiskInv, TypeOK, ManagerFits, PrepareStore, Mgr
<1>1. w.live /\ w.hdr.key = k /\ w.hdr.epoch = mgr.epoch /\ w.hdr.seq = mgr.seq + 1
  OBVIOUS
<1>2. /\ mgr' = [mgr EXCEPT !.seq = mgr.seq + 1, !.index = i] /\ write' = [write EXCEPT ![s] = w]
      /\ acked' = acked \ {x \in Key : mgr.index[x] = s}
      /\ step' = [r \in Rank |-> [step[r] EXCEPT ![s] = "blank"]]
      /\ UNCHANGED <<disk, meta, epochFile, worker, config, resets, durable, due, crashes, lastLoss>>
  BY DEF PrepareStore
<1>3. /\ mgr'.phase = mgr.phase /\ mgr'.pending = mgr.pending /\ mgr'.seq = mgr.seq + 1 /\ mgr'.index = i
      /\ write'[s] = w /\ (\A t \in Slot : t # s => write'[t] = write[t])
      /\ \A r \in Rank, t \in Slot : step'[r][t] = IF t = s THEN "blank" ELSE step[r][t]
  BY <1>0, <1>2 DEF Mgr
<1>4. ASSUME NEW t \in Slot, write[t] # NoWrite, write[t].live PROVE write[t].hdr.key # k
  BY <1>4 DEF PrepareStore
<1>5. \A t \in Slot : write[t] # NoWrite => write[t].hdr \in Header /\ write[t].hdr.key \in Key /\ write[t].hdr.seq \in Nat
  BY <1>0 DEF Header
<1>6. \A t \in Slot : disk[Rank0][t].hdr # Blank => disk[Rank0][t].hdr.seq \in Nat
  <2>1. \A t \in Slot : disk[Rank0][t] \in Cell
    BY DiskConstants DEF DiskInv, TypeOK
  <2> QED
    BY <2>1 DEF Cell, Header
<1>7. SeqsBelow'
  BY <1>0, <1>2, <1>3, <1>6 DEF SeqsBelow
<1>8. LiveWrites'
  <2> SUFFICES ASSUME NEW a \in Slot, write'[a] # NoWrite
               PROVE  /\ write'[a].hdr.epoch = epochFile => write'[a].live /\ write'[a].hdr.seq <= mgr.seq + 1
                      /\ write'[a].live => write'[a].hdr.epoch = epochFile /\ i[write'[a].hdr.key] = NoSlot
    BY <1>2, <1>3 DEF LiveWrites
  <2>1. CASE a = s
    BY <1>0, <1>1, <1>3, <2>1
  <2>2. CASE a # s
    BY <1>0, <1>3, <1>5, <2>2 DEF LiveWrites
  <2> QED
    BY <2>1, <2>2
<1>9. OnlyWrite'
  <2> SUFFICES ASSUME NEW a \in Slot, NEW t \in Slot, a # t, write'[a] # NoWrite, write'[a].live
               PROVE  /\ write'[t] # NoWrite /\ write'[t].live => write'[t].hdr.key # write'[a].hdr.key
                      /\ disk[Rank0][t].hdr # Blank => Loses(disk[Rank0][t].hdr, write'[a].hdr)
    BY <1>2 DEF OnlyWrite, Loses
  <2>1. CASE a = s
    BY <1>0, <1>1, <1>3, <1>4, <1>6, <2>1 DEF SeqsBelow, Loses
  <2>2. CASE a # s
    BY <1>1, <1>3, <1>4, <2>2 DEF OnlyWrite
  <2> QED
    BY <2>1, <2>2
<1>10. Written'
  <2> SUFFICES ASSUME NEW a \in Slot, NEW q \in Rank, write'[a] # NoWrite
               PROVE  /\ step'[q][a] \in {"seal", "sync", "done"} => disk[q][a].pay = write'[a].hdr.crc
                      /\ step'[q][a] \in {"sync", "done"} => disk[q][a].hdr = write'[a].hdr
                      /\ step'[q][a] = "done" => Durable(disk[q][a])
    BY <1>2 DEF Written, Durable
  <2>1. CASE a = s
    BY <1>3, <2>1
  <2>2. CASE a # s
    BY <1>3, <2>2 DEF Written
  <2> QED
    BY <2>1, <2>2
<1>11. SyncedWins'
  <2> SUFFICES ASSUME NEW a \in Slot, NEW t \in Slot, a # t, write'[a] # NoWrite, write'[a].live,
                      step'[Rank0][a] = "done", NEW h \in disk[Rank0][t].hdrs, h # Blank
               PROVE  Loses(h, write'[a].hdr)
    BY <1>2 DEF SyncedWins, Loses
  <2>1. a # s
    BY <1>3, DiskConstants
  <2> QED
    BY <1>3, <2>1, DiskConstants DEF SyncedWins
<1>12. AckedKept'
  <2>1. ASSUME NEW x \in acked' PROVE \E a \in Slot : Kept(x, a)' /\ mgr'.index[x] = a
    <3>1. x \in acked /\ x \in Key /\ mgr.index[x] # s
      BY <1>2 DEF DiskInv, TypeOK
    <3>2. PICK a \in Slot : Kept(x, a) /\ mgr.index[x] = a
      BY <1>0, <3>1 DEF AckedKept
    <3>3. write'[a] = write[a] /\ i[x] = a
      BY <1>3, <3>1, <3>2
    <3>4. Kept(x, a)'
      BY <1>2, <3>2, <3>3 DEF Kept, Loses
    <3> QED
      BY <1>3, <3>3, <3>4
  <2>2. acked' # {} => acked # {}
    BY <1>2
  <2>3. acked' # {} => /\ \A r \in Rank : meta'[r] = config'
                       /\ ~mgr'.pending /\ mgr'.phase \in {"starting", "attached"}
    BY <1>2, <1>3, <2>2 DEF AckedKept
  <2> QED
    BY <2>1, <2>3 DEF AckedKept
<1> QED
  BY <1>7, <1>8, <1>9, <1>10, <1>11, <1>12

LEMMA CompleteKeeps ==
    ASSUME DiskInv, KeepInv, NEW s \in Slot, CompleteStore(s)
    PROVE  KeepInv'
<1> USE DEF KeepInv
<1> PICK k : k = write[s].hdr.key
  OBVIOUS
<1> DEFINE kept == write[s].live /\ Stored(s)
<1>0. /\ mgr \in Mgr /\ mgr.phase = "attached" /\ epochFile = mgr.epoch /\ ~mgr.pending
      /\ write \in [Slot -> [hdr : Header, live : BOOLEAN] \cup {NoWrite}]
      /\ step \in [Rank -> [Slot -> Progress]] /\ write[s] # NoWrite
      /\ mgr.index \in [Key -> Slot \cup {NoSlot}]
      /\ \A r \in Rank : meta[r] = config
  BY DEF DiskInv, TypeOK, ManagerFits, WritesFit, CompleteStore, WorkersFit, Started, Mgr
<1>1. \A t \in Slot : write[t] # NoWrite => write[t].hdr \in Header /\ write[t].hdr.key \in Key
  BY <1>0 DEF Header
<1> PICK i : i = [mgr.index EXCEPT ![k] = IF kept THEN s ELSE mgr.index[k]]
  OBVIOUS
<1>2. /\ mgr' = [mgr EXCEPT !.index = i]
      /\ acked' = IF kept THEN acked \cup {k} ELSE acked
      /\ write' = [write EXCEPT ![s] = NoWrite]
      /\ step' = [r \in Rank |-> [step[r] EXCEPT ![s] = "idle"]]
      /\ UNCHANGED <<disk, meta, epochFile, worker, config, resets, durable, due, crashes, lastLoss>>
  BY DEF CompleteStore
<1>3. k \in Key /\ (kept => i[k] = s) /\ \A x \in Key : x # k \/ ~kept => i[x] = mgr.index[x]
  BY <1>0, <1>1
<1>4. /\ mgr'.phase = mgr.phase /\ mgr'.pending = mgr.pending /\ mgr'.seq = mgr.seq /\ mgr'.index = i
      /\ write'[s] = NoWrite /\ (\A t \in Slot : t # s => write'[t] = write[t])
      /\ \A r \in Rank, t \in Slot : t # s => step'[r][t] = step[r][t]
  BY <1>0, <1>2 DEF Mgr
<1>5. kept => write[s].live /\ \A r \in Rank : step[r][s] = "done"
  BY DEF Stored
<1> HIDE DEF kept
<1>6. SeqsBelow' /\ Written' /\ SyncedWins' /\ OnlyWrite'
  <2>1. SeqsBelow' /\ Written'
    BY <1>2, <1>4 DEF SeqsBelow, Written
  <2>2. SyncedWins'
    BY <1>2, <1>4, DiskConstants DEF SyncedWins, Loses
  <2>3. OnlyWrite'
    BY <1>2, <1>4 DEF OnlyWrite, Loses
  <2> QED
    BY <2>1, <2>2, <2>3
<1>7. LiveWrites'
  <2> SUFFICES ASSUME NEW a \in Slot, write'[a] # NoWrite
               PROVE  /\ write'[a].hdr.epoch = epochFile => write'[a].live /\ write'[a].hdr.seq <= mgr.seq
                      /\ write'[a].live => write'[a].hdr.epoch = epochFile /\ i[write'[a].hdr.key] = NoSlot
    BY <1>2, <1>4 DEF LiveWrites
  <2>1. a # s /\ write'[a] = write[a]
    BY <1>4
  <2>2. write[a].live /\ kept => write[a].hdr.key # k
    BY <1>0, <1>5, <2>1 DEF OnlyWrite
  <2>3. write[a].live => i[write[a].hdr.key] = mgr.index[write[a].hdr.key]
    BY <1>1, <1>3, <2>1, <2>2
  <2> QED
    BY <2>1, <2>3 DEF LiveWrites
<1>8. AckedKept'
  <2>1. ASSUME kept PROVE Kept(k, s)' /\ i[k] = s
    <3>1. /\ write[s].live /\ (\A r \in Rank : step[r][s] = "done") /\ write[s].hdr.epoch = epochFile
          /\ write[s].hdr # Blank
      BY <1>0, <1>1, <1>5, <2>1, DiskSpecials DEF LiveWrites
    <3>2. \A r \in Rank : Durable(disk[r][s]) /\ disk[r][s].hdr = write[s].hdr /\ disk[r][s].pay = write[s].hdr.crc
      BY <1>0, <3>1 DEF Written
    <3>3. \A r \in Rank : Reads(disk[r][s], k, epochFile)
      BY <3>1, <3>2 DEF Reads
    <3>4. ASSUME NEW t \in Slot, t # s, NEW h \in disk[Rank0][t].hdrs, h # Blank
          PROVE  Loses(h, disk[Rank0][s].hdr)
      <4>1. Loses(h, write[s].hdr)
        BY <1>0, <3>1, <3>4, DiskConstants DEF SyncedWins
      <4> QED
        BY <3>2, <4>1, DiskConstants
    <3>5. /\ \A r \in Rank : Durable(disk'[r][s]) /\ Reads(disk'[r][s], k, epochFile')
          /\ write'[s] = NoWrite
      BY <1>2, <1>4, <3>2, <3>3
    <3>6. ASSUME NEW t \in Slot, t # s, NEW h \in disk'[Rank0][t].hdrs, h # Blank
          PROVE  Loses(h, disk[Rank0][s].hdr)'
      BY <1>2, <3>4, <3>6 DEF Loses
    <3> QED
      BY <1>3, <2>1, <3>5, <3>6 DEF Kept
  <2>2. ASSUME NEW x \in acked PROVE \E a \in Slot : Kept(x, a)' /\ i[x] = a
    <3>1. PICK a \in Slot : Kept(x, a) /\ mgr.index[x] = a
      BY <1>0 DEF AckedKept
    <3>2. x \in Key /\ a # NoSlot
      BY DiskConstants DEF DiskInv, TypeOK
    <3>3. x # k \/ ~kept
      BY <1>0, <1>5, <3>1, <3>2 DEF LiveWrites
    <3>4. i[x] = a /\ write'[a] = NoWrite
      BY <1>3, <1>4, <3>1, <3>2, <3>3 DEF Kept
    <3>5. Kept(x, a)'
      BY <1>2, <3>1, <3>4 DEF Kept, Loses
    <3> QED
      BY <3>4, <3>5
  <2>3. ASSUME NEW x \in acked' PROVE \E a \in Slot : Kept(x, a)' /\ i[x] = a
    <3>1. x \in acked \/ (kept /\ x = k)
      BY <1>2
    <3> QED
      BY <2>1, <2>2, <3>1
  <2>4. ~mgr'.pending /\ mgr'.phase = "attached" /\ \A r \in Rank : meta'[r] = config'
    BY <1>0, <1>2, <1>4
  <2> QED
    BY <1>4, <2>3, <2>4 DEF AckedKept
<1> QED
  BY <1>6, <1>7, <1>8

LEMMA OthersKeep ==
    ASSUME DiskInv, KeepInv, (\E K \in SUBSET Key : LoadJobFails(K)) \/ ResetCache
    PROVE  KeepInv'
<1> USE DEF KeepInv
<1>0. mgr \in Mgr /\ mgr.phase = "attached" /\ epochFile = mgr.epoch /\ ~mgr.pending
  BY DEF DiskInv, TypeOK, ManagerFits, LoadJobFails, ResetCache
<1>1. CASE \E K \in SUBSET Key : LoadJobFails(K)
  <2>1. PICK K \in SUBSET Key : LoadJobFails(K)
    BY <1>1
  <2> PICK i : i = [k \in Key |-> IF k \in K THEN NoSlot ELSE mgr.index[k]]
    OBVIOUS
  <2>2. /\ mgr' = [mgr EXCEPT !.index = i] /\ acked' = acked \ K
        /\ UNCHANGED <<disk, meta, epochFile, worker, write, step, config, resets, durable,
                       due, crashes, lastLoss>>
    BY <2>1 DEF LoadJobFails
  <2>3. /\ mgr'.phase = mgr.phase /\ mgr'.pending = mgr.pending /\ mgr'.seq = mgr.seq /\ mgr'.index = i
        /\ \A x \in Key : i[x] = IF x \in K THEN NoSlot ELSE mgr.index[x]
    BY <1>0, <2>2 DEF Mgr
  <2>5. LiveWrites'
    <3>1. \A t \in Slot : write[t] # NoWrite => write[t].hdr.key \in Key
      BY DEF DiskInv, TypeOK, Header
    <3> QED
      BY <2>2, <2>3, <3>1 DEF LiveWrites
  <2>6. SeqsBelow' /\ OnlyWrite' /\ Written' /\ SyncedWins'
    BY <2>2, <2>3 DEF SeqsBelow, OnlyWrite, Written, SyncedWins, Loses
  <2>7. AckedKept'
    <3>1. ASSUME NEW x \in acked \ K PROVE \E a \in Slot : Kept(x, a)' /\ mgr'.index[x] = a
      <4>1. PICK a \in Slot : Kept(x, a) /\ mgr.index[x] = a
        BY <1>0 DEF AckedKept
      <4>2. x \in Key /\ x \notin K
        BY DEF DiskInv, TypeOK
      <4>3. Kept(x, a)'
        BY <2>2, <4>1 DEF Kept, Loses
      <4> QED
        BY <2>3, <4>1, <4>2, <4>3
    <3> QED
      BY <1>0, <2>2, <2>3, <3>1 DEF AckedKept
  <2> QED
    BY <2>5, <2>6, <2>7
<1>2. CASE ResetCache
  <2> PICK i : i = [x \in Key |-> NoSlot]
    OBVIOUS
  <2>1. /\ mgr' = [mgr EXCEPT !.epoch = mgr.epoch + 1, !.index = i] /\ epochFile' = epochFile + 1
        /\ write' = [s \in Slot |-> Stale(write[s])] /\ acked' = {}
        /\ UNCHANGED <<disk, meta, worker, step, config, crashes, lastLoss>>
    BY <1>0, <1>2 DEF ResetCache, ResetEpochFile
  <2>2. epochFile \in Nat
    BY <1>0 DEF Mgr
  <2>3. ASSUME NEW s \in Slot, write'[s] # NoWrite
        PROVE  write[s] # NoWrite /\ ~write'[s].live /\ write'[s].hdr = write[s].hdr /\ write[s].hdr.epoch # epochFile'
    <3>1. write[s] # NoWrite /\ write'[s] = [write[s] EXCEPT !.live = FALSE]
      BY <2>1, <2>3 DEF Stale
    <3>2. write[s] \in [hdr : Header, live : BOOLEAN]
      BY <3>1 DEF DiskInv, TypeOK
    <3>3. write[s].hdr.epoch \in Nat /\ write[s].hdr.epoch <= epochFile
      BY <3>1, <3>2 DEF DiskInv, WritesFit, Fits, Header
    <3> QED
      BY <2>1, <2>2, <3>1, <3>2, <3>3
  <2>4. ASSUME NEW t \in Slot, disk[Rank0][t].hdr # Blank PROVE disk[Rank0][t].hdr.epoch # epochFile'
    <3>1. disk[Rank0][t] \in Cell /\ disk[Rank0][t].hdr \in disk[Rank0][t].hdrs
      BY DiskConstants DEF DiskInv, TypeOK, DiskFits
    <3>2. disk[Rank0][t].hdr.epoch \in Nat /\ disk[Rank0][t].hdr.epoch <= epochFile
      BY <2>4, <3>1, DiskConstants DEF DiskInv, DiskFits, Fits, Cell, Header
    <3> QED
      BY <2>1, <2>2, <3>2
  <2>5. SeqsBelow'
    BY <2>1, <2>4 DEF SeqsBelow
  <2>6. LiveWrites' /\ OnlyWrite' /\ SyncedWins'
    BY <2>3 DEF LiveWrites, OnlyWrite, SyncedWins
  <2>7. Written'
    BY <2>1, <2>3 DEF Written
  <2>8. AckedKept'
    BY <2>1 DEF AckedKept
  <2> QED
    BY <2>5, <2>6, <2>7, <2>8
<1> QED
  BY <1>1, <1>2

LEMMA InitKeep == Init => KeepInv
<1> SUFFICES ASSUME Init PROVE KeepInv
  OBVIOUS
<1>1. mgr.phase = "starting" /\ acked = {} /\ \A s \in Slot : write[s] = NoWrite
  BY DEF Init, NewMgr
<1> QED
  BY <1>1 DEF KeepInv, SeqsBelow, LiveWrites, OnlyWrite, Written, SyncedWins, AckedKept

LEMMA NextKeep ==
    ASSUME DiskInv, KeepInv, [Next]_vars
    PROVE  KeepInv'
<1>1. CASE Next
  BY <1>1, StartKeeps, WriteStepsKeep, SyncKeeps, AttachKeeps, PrepareKeeps, CompleteKeeps,
     OthersKeep, CrashKeeps DEF Next
<1>2. CASE UNCHANGED vars
  BY <1>2 DEF KeepInv, SeqsBelow, LiveWrites, OnlyWrite, Written, SyncedWins, AckedKept,
              Kept, Loses, vars
<1> QED
  BY <1>1, <1>2

\* Until the epoch file is lost, a block whose store was reported complete is indexed
\* and readable on every rank whenever the manager is attached, across any crashes and
\* power cuts of any of the nodes, until it is evicted, reset, the configuration changes
\* or a load job that has it among its keys fails.
THEOREM AckedIsKept == Spec => []AckedSurvives
<1> DEFINE Inv == CountOK /\ (lastLoss = 0 => DiskInv /\ KeepInv)
<1>1. Init => Inv
  BY InitDisk, InitKeep DEF Init, CountOK
<1>2. Inv /\ [Next]_vars => Inv'
  BY NextDisk, NextKeep, LossRemembered
<1>3. Inv => AckedSurvives
  <2> SUFFICES ASSUME DiskInv, KeepInv, mgr.phase = "attached", NEW k \in acked, NEW r \in Rank
               PROVE  Served(k, r)
    BY DEF AckedSurvives
  <2>1. PICK s \in Slot : Kept(k, s) /\ mgr.index[k] = s
    BY DEF KeepInv, AckedKept
  <2>2. epochFile = mgr.epoch
    BY DEF DiskInv, ManagerFits
  <2> QED
    BY <2>1, <2>2, DiskConstants DEF Kept, Served
<1> HIDE DEF Inv
<1> QED
  BY <1>1, <1>2, <1>3, PTL DEF Spec

=============================================================================
