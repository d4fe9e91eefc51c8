-------------------------------- MODULE Rollout --------------------------------
(***************************************************************************)
(* Replacing the serving containers of all nodes with exact-container       *)
(* rollback: main() and restore() of runtime/vllm029/rollout.py and what    *)
(* they run over ssh, launch.sh and docker.                                 *)
(*                                                                          *)
(* On each host there are at most three containers: the original, the one   *)
(* the rollout launches, and an unrelated one somebody else started.  The   *)
(* controller issues one command at a time on a host; in the parallel       *)
(* phases on all hosts at once.  A command may fail, its answer may be lost *)
(* after it took effect, or a time-out or a kill of the controller may cut  *)
(* it off, and it takes effect later: a launch that is cut off removes what *)
(* is then called NAME, which may be the original that --restore brought    *)
(* back.  The controller may be killed between any two commands and be run  *)
(* again with --restore.                                                    *)
(***************************************************************************)
EXTENDS Naturals, Sequences, FiniteSets

CONSTANTS
    HOSTS,      \* the hosts in rank order
    LateOps,    \* commands that may take effect after their time-out
    MaxFaults   \* bound on failed commands, kills and foreign containers

Host == {HOSTS[i] : i \in DOMAIN HOSTS}
Container == {"old", "new", "other"}
Name == {"NAME", "pre", "failed", "gone"}
Op == {"stop", "renamePre", "launch", "inspect", "stopNew", "renameFailed",
       "inspectOld", "renameBack", "renameBackStart", "start"}

ASSUME RolloutConstants ==
    /\ HOSTS \in Seq(STRING) /\ Len(HOSTS) > 0 /\ \A i, j \in DOMAIN HOSTS : HOSTS[i] = HOSTS[j] => i = j
    /\ LateOps \subseteq Op /\ MaxFaults \in Nat

VARIABLES
    cont,     \* host -> container -> its name and whether it runs
    ctl,      \* what the controller is doing
    th,       \* host -> the command its thread issues next, or how it ended
    at,       \* HOSTS[at]: the host of a phase that goes through them one by one
    file,     \* original.private.json
    late,     \* <<host, command>> cut off by a time-out or a kill, still to take effect
    adrift,   \* <<host, command>> ever cut off
    faults,
    world     \* what interferes in this behaviour: late commands or other people

vars == <<cont, ctl, th, at, file, late, adrift, faults, world>>

Rolling == {"stop", "rename", "launch", "health", "verify"}
Restoring == {"r_stop", "r_back", "r_health", "r_verify"}

TypeOK ==
    /\ cont \in [Host -> [Container -> [name : Name, run : BOOLEAN]]]
    /\ ctl \in {"idle", "saving", "saved", "upgraded", "restored", "failed", "dead"} \cup Rolling \cup Restoring
    /\ th \in [Host -> Op \cup {"idle", "ok", "err"}]
    /\ at \in 0..Len(HOSTS)
    /\ file \in {"none", "partial", "whole"}
    /\ late \subseteq adrift /\ adrift \subseteq Host \X Op
    /\ faults \in 0..MaxFaults /\ world \in {"late", "foreign"}
    \* docker: a name is of one container at a time
    /\ \A h \in Host, c, d \in Container : c # d /\ cont[h][c].name = cont[h][d].name => cont[h][c].name = "gone"

Gone == [name |-> "gone", run |-> FALSE]

Init ==
    /\ cont = [h \in Host |-> [c \in Container |-> IF c = "old" THEN [name |-> "NAME", run |-> TRUE] ELSE Gone]]
    /\ ctl = "idle" /\ th = [h \in Host |-> "idle"] /\ at = 0
    /\ file = "none" /\ late = {} /\ adrift = {} /\ faults = 0
    /\ world \in {"late", "foreign"}

----------------------------------------------------------------------------
(* Docker and launch.sh on one host: d is the host's containers.            *)

Named(d, n) == {c \in Container : d[c].name = n}
Taken(d, n) == Named(d, n) # {}

\* The containers after a command; a command that docker refuses changes nothing.
Stopped(d) == [c \in Container |-> IF d[c].name = "NAME" THEN [d[c] EXCEPT !.run = FALSE] ELSE d[c]]
Renamed(d, n) == IF Taken(d, n) THEN d
                 ELSE [c \in Container |-> IF d[c].name = "NAME" THEN [d[c] EXCEPT !.name = n] ELSE d[c]]
OldNamed(d) == IF Taken(d, "NAME") \/ d["old"].name = "gone" THEN d ELSE [d EXCEPT !["old"].name = "NAME"]
OldStarted(d) == IF d["old"].name = "gone" THEN d ELSE [d EXCEPT !["old"].run = TRUE]

\* launch.sh: docker rm -f NAME, then docker run --name NAME.
Removed(d) == [c \in Container |-> IF d[c].name = "NAME" THEN Gone ELSE d[c]]
Launched(d) == [Removed(d) EXCEPT !["new"] = [name |-> "NAME", run |-> TRUE]]

Effect(op, d) ==
    IF op \in {"stop", "stopNew"} THEN Stopped(d)
    ELSE IF op = "renamePre" THEN Renamed(d, "pre")
    ELSE IF op = "renameFailed" THEN Renamed(d, "failed")
    ELSE IF op = "launch" THEN Launched(d)
    ELSE IF op \in {"renameBack", "renameBackStart"} THEN OldNamed(d)
    ELSE IF op = "start" THEN OldStarted(d)
    ELSE d

\* Where a command that did not succeed may have got to.
Outcomes(op, d) == {Effect(op, d)} \cup (IF op = "launch" THEN {Removed(d)} ELSE {})

\* docker refuses the command: no such container, or the name is taken.
Refused(op, d) ==
    \/ op \in {"stop", "stopNew", "renamePre", "renameFailed"} /\ ~Taken(d, "NAME")
    \/ op = "renamePre" /\ Taken(d, "pre")
    \/ op = "renameFailed" /\ Taken(d, "failed")
    \/ op \in {"renameBack", "renameBackStart"} /\ Taken(d, "NAME")
    \/ op \in {"inspectOld", "renameBack", "renameBackStart", "start"} /\ d["old"].name = "gone"

\* Mutants of StopNew: the label, or the Id of the original, is not looked at.
StopNewUnlabelled(d) ==
    IF ~Taken(d, "NAME") \/ d["old"].name = "NAME" THEN "ok" ELSE "stopNew"
StopNewById(d) ==
    IF ~Taken(d, "NAME") THEN "ok" ELSE IF d["new"].name = "NAME" THEN "stopNew" ELSE "err"

\* stop_new, once inspected: nothing there, the original (by Id), an unrelated
\* container (by label), or the one this rollout launched.
StopNew(d) ==
    IF ~Taken(d, "NAME") \/ d["old"].name = "NAME" THEN "ok"
    ELSE IF d["other"].name = "NAME" THEN "err" ELSE "stopNew"

\* restore() of an original, once inspected: rename it, start it.
BringBack(d) ==
    IF d["old"].name # "NAME" THEN (IF d["old"].run THEN "renameBack" ELSE "renameBackStart")
    ELSE IF d["old"].run THEN "ok" ELSE "start"

\* Mutant of After: the new container is renamed without being stopped.
AfterUnstopped(op, d) ==
    IF op = "inspect" THEN (IF StopNew(d) = "stopNew" THEN "renameFailed" ELSE StopNew(d))
    ELSE IF op = "inspectOld" THEN BringBack(d)
    ELSE IF op = "renameBackStart" THEN "start"
    ELSE "ok"

\* What the thread does after the command was answered.
After(op, d) ==
    IF op = "inspect" THEN StopNew(d)
    ELSE IF op = "stopNew" THEN "renameFailed"
    ELSE IF op = "inspectOld" THEN BringBack(d)
    ELSE IF op = "renameBackStart" THEN "start"
    ELSE "ok"

----------------------------------------------------------------------------
(* The controller.                                                          *)

\* All threads of a parallel phase, or the one of HOSTS[i].
Everywhere(op) == th' = [h \in Host |-> op]
OnlyAt(i, op) == th' = [h \in Host |-> IF h = HOSTS[i] THEN op ELSE "idle"]
Ended == \A h \in Host : th[h] \in {"ok", "err", "idle"}
Succeeded == Ended /\ \A h \in Host : th[h] # "err"

\* Originals recorded, every preflight passed: the state file is created ...
BeginSave ==
    /\ ctl = "idle"
    /\ ctl' = "saving" /\ file' = "partial"
    /\ UNCHANGED <<cont, th, at, late, adrift, faults, world>>

\* ... and written.
Save ==
    /\ ctl = "saving"
    /\ ctl' = "saved" /\ file' = "whole"
    /\ UNCHANGED <<cont, th, at, late, adrift, faults, world>>

\* Smoke test, memory preflight or baseline benchmark fail: nothing was stopped.
BaselineFails ==
    /\ ctl = "saved"
    /\ ctl' = "failed"
    /\ UNCHANGED <<cont, th, at, file, late, adrift, faults, world>>

\* Mutant of BeginStop: the containers are renamed without being stopped.
BeginStopNot ==
    /\ ctl = "saved"
    /\ ctl' = "rename" /\ Everywhere("renamePre")
    /\ UNCHANGED <<cont, at, file, late, adrift, faults, world>>

BeginStop ==
    /\ ctl = "saved"
    /\ ctl' = "stop" /\ Everywhere("stop")
    /\ UNCHANGED <<cont, at, file, late, adrift, faults, world>>

BeginRename ==
    /\ ctl = "stop" /\ Succeeded
    /\ ctl' = "rename" /\ Everywhere("renamePre")
    /\ UNCHANGED <<cont, at, file, late, adrift, faults, world>>

\* Mutant of BeginLaunch: errors of parallel() are not raised.
BeginLaunchAnyway ==
    /\ ctl = "rename" /\ Ended
    /\ ctl' = "launch" /\ at' = Len(HOSTS) /\ OnlyAt(Len(HOSTS), "launch")
    /\ UNCHANGED <<cont, file, late, adrift, faults, world>>

\* Regressions passed, flushers started: ranks from the last to the first.
BeginLaunch ==
    /\ ctl = "rename" /\ Succeeded
    /\ ctl' = "launch" /\ at' = Len(HOSTS) /\ OnlyAt(Len(HOSTS), "launch")
    /\ UNCHANGED <<cont, file, late, adrift, faults, world>>

NextLaunch ==
    /\ ctl = "launch" /\ Succeeded
    /\ \/ at > 1 /\ at' = at - 1 /\ OnlyAt(at - 1, "launch") /\ UNCHANGED ctl
       \/ at = 1 /\ ctl' = "health" /\ UNCHANGED <<at, th>>
    /\ UNCHANGED <<cont, file, late, adrift, faults, world>>

\* wait_health: every container called NAME runs.
AllNamedRun == \A h \in Host : \E c \in Container : cont[h][c] = [name |-> "NAME", run |-> TRUE]

\* wait_health returned: smoke test, probe and log capture are next.
Healthy ==
    /\ ctl = "health" /\ AllNamedRun
    /\ ctl' = "verify"
    /\ UNCHANGED <<cont, th, at, file, late, adrift, faults, world>>

\* They passed, minutes later, and success is reported.
Report ==
    /\ ctl = "verify"
    /\ ctl' = "upgraded"
    /\ UNCHANGED <<cont, th, at, file, late, adrift, faults, world>>

\* restore(): first stop_new on every host.
BeginRestore == ctl' = "r_stop" /\ Everywhere("inspect")

\* A command failed, a check failed, a deadline passed or SIGTERM came.
GiveUp ==
    /\ ctl \in Rolling /\ Ended
    /\ BeginRestore
    /\ UNCHANGED <<cont, at, file, late, adrift, faults, world>>

\* Then the originals, from the last host to the first.
BeginBack ==
    /\ ctl = "r_stop" /\ Succeeded
    /\ ctl' = "r_back" /\ at' = Len(HOSTS) /\ OnlyAt(Len(HOSTS), "inspectOld")
    /\ UNCHANGED <<cont, file, late, adrift, faults, world>>

NextBack ==
    /\ ctl = "r_back" /\ Succeeded
    /\ \/ at > 1 /\ at' = at - 1 /\ OnlyAt(at - 1, "inspectOld") /\ UNCHANGED ctl
       \/ at = 1 /\ ctl' = "r_health" /\ UNCHANGED <<at, th>>
    /\ UNCHANGED <<cont, file, late, adrift, faults, world>>

\* wait_health again, then the smoke test.
RestoreHealthy ==
    /\ ctl = "r_health" /\ AllNamedRun
    /\ ctl' = "r_verify"
    /\ UNCHANGED <<cont, th, at, file, late, adrift, faults, world>>

\* It passed, and the restored service is reported.
RestoreReport ==
    /\ ctl = "r_verify"
    /\ ctl' = "restored"
    /\ UNCHANGED <<cont, th, at, file, late, adrift, faults, world>>

\* restore() raises: the controller ends.
RestoreFails ==
    /\ ctl \in Restoring /\ Ended
    /\ ctl \in {"r_health", "r_verify"} \/ ~Succeeded
    /\ ctl' = "failed"
    /\ UNCHANGED <<cont, th, at, file, late, adrift, faults, world>>

\* The operator runs --restore with this label.
Rerun ==
    /\ ctl \in {"dead", "failed", "upgraded"} /\ file = "whole"
    /\ BeginRestore
    /\ UNCHANGED <<cont, at, file, late, adrift, faults, world>>

----------------------------------------------------------------------------
(* A thread's command.                                                      *)

Answered(h) ==
    /\ th[h] \in Op
    /\ LET op == th[h] d == cont[h] IN
       IF Refused(op, d)
       THEN th' = [th EXCEPT ![h] = "err"] /\ UNCHANGED cont
       ELSE /\ th' = [th EXCEPT ![h] = After(op, d)]
            /\ cont' = [cont EXCEPT ![h] = Effect(op, d)]
    /\ UNCHANGED <<ctl, at, file, late, adrift, faults, world>>

Fault == faults < MaxFaults /\ faults' = faults + 1

\* ssh fails before or after the command took effect; stop_new takes a failed
\* inspect for "nothing there", unless it timed out.
Lost(h) ==
    /\ th[h] \in Op /\ Fault
    /\ th' \in {[th EXCEPT ![h] = x] : x \in IF th[h] = "inspect" THEN {"ok", "err"} ELSE {"err"}}
    /\ cont' \in {cont} \cup {[cont EXCEPT ![h] = d] : d \in Outcomes(th[h], cont[h])}
    /\ UNCHANGED <<ctl, at, file, late, adrift, world>>

\* The time-out kills ssh; the command goes on at the host.
CutOff(h) ==
    /\ world = "late" /\ th[h] \in LateOps /\ Fault
    /\ th' = [th EXCEPT ![h] = "err"]
    /\ late' = late \cup {<<h, th[h]>>} /\ adrift' = adrift \cup {<<h, th[h]>>}
    /\ UNCHANGED <<cont, ctl, at, file, world>>

TakesEffect(h, op) ==
    /\ <<h, op>> \in late
    /\ late' = late \ {<<h, op>>}
    /\ \E d \in Outcomes(op, cont[h]) : cont' = [cont EXCEPT ![h] = d]
    /\ UNCHANGED <<ctl, th, at, file, adrift, faults, world>>

\* The controller is killed; commands it had issued are lost or still to come.
Killed ==
    /\ ctl \in {"saving", "saved"} \cup Rolling \cup Restoring /\ Fault
    /\ ctl' = "dead" /\ th' = [h \in Host |-> "idle"]
    /\ \E S \in SUBSET {h \in Host : world = "late" /\ th[h] \in LateOps} :
          /\ late' = late \cup {<<h, th[h]>> : h \in S}
          /\ adrift' = adrift \cup {<<h, th[h]>> : h \in S}
    /\ UNCHANGED <<cont, at, file, world>>

\* A rank exits by itself.
Exits(h, c) ==
    /\ cont[h][c].run /\ Fault
    /\ cont' = [cont EXCEPT ![h][c].run = FALSE]
    /\ UNCHANGED <<ctl, th, at, file, late, adrift, world>>

\* Somebody starts a container of that name where the name is free.
Foreign(h) ==
    /\ ~Taken(cont[h], "NAME") /\ cont[h]["other"] = Gone /\ Fault /\ world = "foreign"
    /\ cont' = [cont EXCEPT ![h]["other"] = [name |-> "NAME", run |-> TRUE]]
    /\ UNCHANGED <<ctl, th, at, file, late, adrift, world>>

\* Nothing more happens by itself.
Over == (ctl \in {"restored", "upgraded"} \/ (ctl \in {"dead", "failed"} /\ file # "whole")) /\ UNCHANGED vars

Controller ==
    \/ BeginSave \/ Save \/ BaselineFails \/ BeginStop \/ BeginRename \/ BeginLaunch \/ NextLaunch
    \/ Healthy \/ Report \/ GiveUp \/ BeginBack \/ NextBack \/ RestoreHealthy \/ RestoreReport
    \/ RestoreFails

Next ==
    \/ Controller \/ Rerun \/ Killed \/ Over
    \/ \E h \in Host : Answered(h) \/ Lost(h) \/ CutOff(h) \/ Foreign(h) \/ \E c \in Container : Exits(h, c)
    \/ \E h \in Host, op \in Op : TakesEffect(h, op)

Spec == Init /\ [][Next]_vars

\* The controller and its threads get on; the operator runs --restore until it
\* succeeds; an engine that can serve does not miss its deadline for ever.
FairSpec ==
    /\ Spec
    /\ WF_vars(Controller) /\ SF_vars(RestoreHealthy) /\ WF_vars(ctl # "upgraded" /\ Rerun)
    /\ \A h \in Host : WF_vars(Answered(h))

----------------------------------------------------------------------------
(* Properties.                                                              *)

Original(h) == cont[h]["old"] = [name |-> "NAME", run |-> TRUE]

\* The original container of a host is never removed, whatever else is interrupted,
\* unless a launch was cut off on that host by its time-out or by a kill: launch.sh then
\* goes on by itself, and its docker rm -f may find the original under the name.  (main:
\* "exact containers and mounts are retained".)
OriginalsKept == \A h \in Host : <<h, "launch">> \notin adrift => cont[h]["old"].name # "gone"

\* The original and the new container never run on a host at the same time.
NeverBoth == \A h \in Host : ~(cont[h]["old"].run /\ cont[h]["new"].run)

\* While an original is not under its own name, the record --restore needs to
\* find it is complete.
RecordSaved == (\E h \in Host : cont[h]["old"].name # "NAME") => file = "whole"

\* The containers are well typed (a name has one owner), every original is kept but
\* where a launch was cut off, and can be found again.
OriginalsOK == TypeOK /\ OriginalsKept /\ RecordSaved

\* When a rollout reports success, every host has the new container under the name and
\* the original stopped beside it; when a restore does, every host on which no command
\* was cut off has the original under the name and the new container stopped.  (That
\* all of them still run is not said: a rank may exit between wait_health and the
\* report, while the smoke test, the probe and the log capture go on.)
SuccessIsUniform ==
    [][/\ ctl' = "upgraded" /\ ctl # "upgraded" =>
             \A h \in Host : /\ cont[h]["new"].name = "NAME"
                             /\ cont[h]["old"] = [name |-> "pre", run |-> FALSE]
       /\ ctl' = "restored" /\ ctl # "restored" =>
             \A h \in Host : (\A op \in Op : <<h, op>> \notin adrift) =>
                 cont[h]["old"].name = "NAME" /\ ~cont[h]["new"].run]_vars

\* restore() neither stops nor renames a container somebody else started.
OthersUntouched ==
    [][late' = late /\ faults' = faults /\ ctl \in Restoring =>
          \A h \in Host : cont[h]["other"].name = "NAME" => cont'[h]["other"] = cont[h]["other"]]_vars

\* Wherever a rollout is cut short, running --restore again brings every original
\* back, unless a foreign container holds the name or a launch that was cut off has
\* removed an original.
RestoreSucceeds ==
    ctl \in {"dead", "failed"} /\ file = "whole" ~>
        \/ \A h \in Host : Original(h)
        \/ \E h \in Host : cont[h]["other"].name = "NAME"
        \/ \E h \in Host : cont[h]["old"].name = "gone" /\ <<h, "launch">> \in adrift
=============================================================================
