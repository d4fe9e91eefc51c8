------------------------------- MODULE NvmeLoader -------------------------------
(***************************************************************************)
(* The prepared-artifact modes of the NVMe loader on one rank               *)
(* (NvmeModelLoader.load_weights/_load in loader.py, publish, inspect and   *)
(* restore in artifact.py), across workers that crash and are started       *)
(* again.  The transfer itself is DirectStream, composed here.              *)
(*                                                                          *)
(* An artifact is a directory with weights.bin and manifest.json, written   *)
(* under a temporary name, synced and renamed.  A process crash keeps what  *)
(* the page cache holds; a power failure keeps what was synced and, of the  *)
(* rest, anything.  A rejected artifact is renamed aside, not synced.       *)
(***************************************************************************)
EXTENDS Naturals, Sequences, FiniteSets

CONSTANTS
    Mode,        \* NVME_LOADER_MODE values tried
    NumExtents, Depth,   \* see DirectStream
    MaxFaults    \* bound: crashes, power failures, damages and failed renames together

ASSUME LoaderConstants ==
    /\ Mode \subseteq {"auto", "prepare", "restore"} /\ MaxFaults \in Nat
    /\ NumExtents \in Nat \ {0} /\ Depth \in Nat \ {0}

VARIABLES
    mode,
    worker,    \* where _load is; "down" between workers
    pub,       \* calls of publish() done
    art,       \* what is at the artifact's path
    aside,     \* an artifact renamed aside whose old name may come back
    loaded,    \* how this worker filled its storages
    faults,
    next, task, stage, copies, dest, main, fdOpen   \* DirectStream

streamVars == <<next, task, stage, copies, dest, main, fdOpen>>
vars == <<mode, worker, pub, art, aside, loaded, faults, streamVars>>

DS == INSTANCE DirectStream WITH damaged <- art.damaged

\* A file of the artifact: in the page cache only, synced, or lost at a power failure.
Artifact == [there : BOOLEAN, weights : {"cached", "synced", "lost"},
             manifest : {"cached", "synced", "lost"}, linked : BOOLEAN,    \* its name is synced
             rotten : BOOLEAN,    \* manifest.json is damaged, or weights.bin cut short, on disk
             damaged : SUBSET DS!Extent]
NoArtifact == [there |-> FALSE, weights |-> "lost", manifest |-> "lost", linked |-> FALSE,
               rotten |-> FALSE, damaged |-> {}]

\* What the temporary directory holds after n calls of publish(), as the artifact it becomes.
Written(n) == [there |-> TRUE, weights |-> IF n >= 2 THEN "synced" ELSE "cached",
               manifest |-> IF n >= 4 THEN "synced" ELSE "cached", linked |-> FALSE,
               rotten |-> FALSE, damaged |-> {}]

TypeOK ==
    /\ DS!TypeOK
    /\ mode \in Mode
    /\ worker \in {"down", "check", "restoring", "native", "bypass", "publishing", "loaded", "serving"}
    /\ pub \in 0..6 /\ art \in Artifact /\ aside \in Artifact
    /\ loaded \in {"no", "native", "restored"} /\ faults \in 0..MaxFaults

Init ==
    /\ mode \in Mode /\ worker = "down" /\ pub = 0
    /\ art \in {NoArtifact, [Written(6) EXCEPT !.linked = TRUE]} /\ aside = NoArtifact /\ loaded = "no" /\ faults = 0
    /\ DS!Init

----------------------------------------------------------------------------
(* load_weights() of a fresh worker.                                        *)

\* The worker ends; its receipt makes every rank's activation fail.
Exit == worker' = "down" /\ UNCHANGED loaded

\* A new worker: the model's storages are constructed anew.
Launch ==
    /\ worker = "down"
    /\ worker' = "check" /\ loaded' = "no" /\ pub' = 0
    /\ next' = 1 /\ task' = [s \in DS!Slot |-> DS!NoTask] /\ stage' = [s \in DS!Slot |-> DS!Torn]
    /\ copies' = <<>> /\ dest' = [e \in DS!Extent |-> DS!Unwritten]
    /\ main' = "start" /\ fdOpen' = FALSE
    /\ UNCHANGED <<mode, art, aside, faults>>

\* plan() fails: only auto goes on, natively and without an artifact.
PlanFails ==
    /\ worker = "check"
    /\ \/ mode = "auto" /\ worker' = "bypass" /\ UNCHANGED loaded
       \/ mode # "auto" /\ Exit
    /\ UNCHANGED <<mode, pub, art, aside, faults, streamVars>>

\* Nothing to restore, or not asked to.
NoRestore ==
    /\ worker = "check"
    /\ ~art.there \/ mode = "prepare"
    /\ \/ mode = "restore" /\ Exit
       \/ mode # "restore" /\ worker' = "native" /\ UNCHANGED loaded
    /\ UNCHANGED <<mode, pub, art, aside, faults, streamVars>>

\* Both files are there and whole.
Complete(a) == a.weights # "lost" /\ a.manifest # "lost"

\* inspect(): the manifest's digest, the length of weights.bin and the coverage.
Inspects == Complete(art) /\ ~art.rotten

\* path.rename(... ".rejected-" ...)
SetAside == aside' = art /\ art' = NoArtifact

\* inspect() refuses: auto loads natively and replaces the artifact.
Reject ==
    /\ worker = "check" /\ art.there /\ mode # "prepare" /\ ~Inspects
    /\ \/ mode = "auto" /\ worker' = "native" /\ SetAside /\ UNCHANGED loaded
       \/ mode = "restore" /\ Exit /\ UNCHANGED <<art, aside>>
    /\ UNCHANGED <<mode, pub, faults, streamVars>>

BeginRestore ==
    /\ worker = "check" /\ art.there /\ mode # "prepare" /\ Inspects
    /\ worker' = "restoring"
    /\ UNCHANGED <<mode, pub, art, aside, loaded, faults, streamVars>>

\* stream() runs.
Transfer ==
    /\ worker = "restoring"
    /\ UNCHANGED <<mode, worker, pub, art, aside, loaded, faults>>
    /\ DS!Next

\* stream() returned and the scalar state was set.
RestoreDone ==
    /\ worker = "restoring" /\ main = "returned"
    /\ worker' = "loaded" /\ loaded' = "restored"
    /\ UNCHANGED <<mode, pub, art, aside, faults, streamVars>>

\* Mutants of RestoreFails: auto loads natively in place; the artifact stays.
RestoreFallsBack ==
    /\ worker = "restoring" /\ main \in {"start", "raised", "returned"}
    /\ IF mode = "auto" THEN worker' = "native" /\ SetAside /\ UNCHANGED loaded
       ELSE Exit /\ UNCHANGED <<art, aside>>
    /\ UNCHANGED <<mode, pub, faults, streamVars>>
RestoreFailsOnly ==
    /\ worker = "restoring" /\ main \in {"start", "raised", "returned"}
    /\ Exit
    /\ UNCHANGED <<mode, pub, art, aside, faults, streamVars>>

\* stream() raised, or the steps before or after it did: the storages may be
\* changed, so the worker exits; auto takes the artifact out of the way.
RestoreFails ==
    /\ worker = "restoring" /\ main \in {"start", "raised", "returned"}
    /\ Exit
    /\ IF mode = "auto" THEN SetAside ELSE UNCHANGED <<art, aside>>
    /\ UNCHANGED <<mode, pub, faults, streamVars>>

\* The checkpoint is loaded natively; with no artifact at the path, one is published.
NativeLoad ==
    /\ worker \in {"native", "bypass"}
    /\ loaded' = "native"
    /\ worker' = IF worker = "native" /\ ~art.there THEN "publishing" ELSE "loaded"
    /\ UNCHANGED <<mode, pub, art, aside, faults, streamVars>>

NativeFails ==
    /\ worker \in {"native", "bypass"}
    /\ Exit
    /\ UNCHANGED <<mode, pub, art, aside, faults, streamVars>>

----------------------------------------------------------------------------
(* publish(): write and sync weights (1, 2), write and sync the manifest (3), *)
(* sync the directory (4), rename (5), sync the parent (6).                   *)

\* Mutant of RenameAt: the directory is renamed before the manifest is in it.
RenameEarly == 2

RenameAt == 4   \* calls done when the directory gets its final name

PublishStep ==
    /\ worker = "publishing" /\ pub < 6
    /\ pub' = pub + 1
    /\ art' = IF pub = RenameAt THEN Written(pub)
              ELSE IF pub = 5 THEN [art EXCEPT !.linked = TRUE] ELSE art
    /\ aside' = IF pub = 5 THEN NoArtifact ELSE aside
    /\ UNCHANGED <<mode, worker, loaded, faults, streamVars>>

PublishDone ==
    /\ worker = "publishing" /\ pub = 6
    /\ worker' = "loaded"
    /\ UNCHANGED <<mode, pub, art, aside, loaded, faults, streamVars>>

\* The temporary directory is removed; the native model remains valid.
PublishFails ==
    /\ worker = "publishing" /\ pub < 6
    /\ \/ mode = "prepare" /\ Exit
       \/ mode # "prepare" /\ worker' = "loaded" /\ UNCHANGED loaded
    /\ UNCHANGED <<mode, pub, art, aside, faults, streamVars>>

\* activation_gate(): every rank's receipt is free of errors and names the same
\* content ...
Serve ==
    /\ worker = "loaded"
    /\ worker' = "serving"
    /\ UNCHANGED <<mode, pub, art, aside, loaded, faults, streamVars>>

\* ... or no rank serves.
PeerFailed ==
    /\ worker = "loaded"
    /\ Exit
    /\ UNCHANGED <<mode, pub, art, aside, faults, streamVars>>

\* The service is stopped.
Stop ==
    /\ worker = "serving"
    /\ Exit
    /\ UNCHANGED <<mode, pub, art, aside, faults, streamVars>>

----------------------------------------------------------------------------
(* Faults.                                                                  *)

Fault == faults < MaxFaults /\ faults' = faults + 1

Crash ==
    /\ Fault /\ worker # "down"
    /\ worker' = "down"
    /\ UNCHANGED <<mode, pub, art, aside, loaded, streamVars>>

\* What a power failure leaves of an artifact that is at its path.
Left(a) == {[a EXCEPT !.weights = w, !.manifest = m, !.linked = TRUE] :
               w \in IF a.weights = "synced" THEN {"synced"} ELSE {"synced", "lost"},
               m \in IF a.manifest = "synced" THEN {"synced"} ELSE {"synced", "lost"}}

\* Unsynced renames may or may not be there afterwards.
PowerFailure ==
    /\ Fault
    /\ worker' = "down"
    /\ art' \in (IF art.there THEN Left(art) ELSE {})
                \cup (IF art.there /\ art.linked THEN {} ELSE {NoArtifact})
                \cup (IF aside.there THEN Left(aside) ELSE {})
    /\ aside' = NoArtifact
    /\ UNCHANGED <<mode, pub, loaded, streamVars>>

\* The rename that takes a refused or failed artifact out of the way fails itself: the
\* artifact stays where it is and the worker exits.
SetAsideFails ==
    /\ Fault /\ mode = "auto"
    /\ \/ worker = "check" /\ art.there /\ ~Inspects
       \/ worker = "restoring" /\ main \in {"start", "raised", "returned"}
    /\ Exit
    /\ UNCHANGED <<mode, pub, art, aside, streamVars>>

\* The published artifact rots on disk: an extent, or what inspect() looks at.
Damage ==
    /\ Fault /\ art.there
    /\ \/ \E e \in DS!Extent \ art.damaged : art' = [art EXCEPT !.damaged = @ \cup {e}]
       \/ ~art.rotten /\ art' = [art EXCEPT !.rotten = TRUE]
    /\ UNCHANGED <<mode, worker, pub, aside, loaded, streamVars>>

Load == Launch \/ PlanFails \/ NoRestore \/ Reject \/ BeginRestore \/ RestoreDone \/ RestoreFails
        \/ NativeLoad \/ NativeFails \/ PublishStep \/ PublishDone \/ PublishFails \/ Serve \/ PeerFailed

Next == Load \/ Transfer \/ Stop \/ Crash \/ PowerFailure \/ Damage \/ SetAsideFails

Spec == Init /\ [][Next]_vars

\* A worker that is down is started again and a running one gets on; loading
\* natively does not fail for ever, nor do the peers.
FairSpec == Spec /\ WF_vars(Load \/ Transfer) /\ SF_vars(NativeLoad) /\ SF_vars(Serve)

----------------------------------------------------------------------------
(* Properties.                                                              *)

\* A worker that is done loading has storages filled from one source: natively
\* and untouched by a restore, or with every extent of the artifact.
LoadedIsWhole ==
    worker \in {"loaded", "serving"} =>
        IF loaded = "native" THEN \A e \in DS!Extent : ~dest[e].written
        ELSE \A e \in DS!Extent : dest[e] = [bytes |-> e, written |-> TRUE]

\* What stands at the artifact's path is complete, whatever crash or power
\* failure came between the steps of publish().
PublishedIsWhole == art.there => Complete(art)

\* The loader and what it has on disk are well typed, and the latter is whole.
ArtifactOK == TypeOK /\ PublishedIsWhole

\* stream() keeps the promise _load relies on: no slot is read into while a copy
\* out of it is in flight, no damaged extent is copied, and when stream() is left,
\* by return or exception, nothing more is written.
RC == INSTANCE RestoreContract WITH
          Extent <- DS!Extent,
          arrived <- {<<e, dest[e].bytes>> : e \in {x \in DS!Extent : dest[x].written}},
          outcome <- IF main \in {"returned", "raised"} THEN main ELSE "running"
RestoreKeepsContract == RC!Spec

\* In auto mode no artifact, damaged as it may be, keeps the rank from serving
\* again and again.
AutoServes == mode = "auto" ~> worker = "serving"
=============================================================================
