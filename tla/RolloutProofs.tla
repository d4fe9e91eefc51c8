----------------------------- MODULE RolloutProofs -----------------------------
(***************************************************************************)
(* Proofs about Rollout, for any number of hosts and of faults, and         *)
(* whatever commands may take effect late.                                  *)
(***************************************************************************)
EXTENDS Rollout, TLAPS

(* The inductive invariant, host by host. *)

OldOf(h) == cont[h]["old"]
NewOf(h) == cont[h]["new"]

\* A command of host h that its thread issues next, or that is still to come.
Pending(h, op) == th[h] = op \/ <<h, op>> \in late

\* No command was ever cut off on host h.
NoAdrift(h) == \A op \in Op : <<h, op>> \notin adrift

\* The place of h in HOSTS is before, at or after the one a phase has reached.
Before(h) == \E i \in DOMAIN HOSTS : h = HOSTS[i] /\ i < at
Reached(h) == at \in DOMAIN HOSTS /\ h = HOSTS[at]
Passed(h) == \E i \in DOMAIN HOSTS : h = HOSTS[i] /\ i > at

\* A thread issues the commands of the controller's phase, and where the phase
\* goes through the hosts one by one only at the host it has reached.
Threads(h) ==
    /\ th[h] \in Op =>
          \/ ctl = "stop" /\ th[h] = "stop"
          \/ ctl = "rename" /\ th[h] = "renamePre"
          \/ ctl = "launch" /\ th[h] = "launch" /\ Reached(h)
          \/ ctl = "r_stop" /\ th[h] \in {"inspect", "stopNew", "renameFailed"}
          \/ /\ ctl = "r_back" /\ Reached(h)
             /\ th[h] \in {"inspectOld", "renameBack", "renameBackStart", "start"}
    /\ th[h] = "idle" => /\ ctl \notin {"stop", "rename", "r_stop"}
                         /\ ctl \in {"launch", "r_back"} => ~Reached(h)

\* What the containers of a host can be in any phase.
Containers(h) ==
    /\ OldOf(h).name \in {"NAME", "pre"} \/ (OldOf(h) = Gone /\ <<h, "launch">> \in adrift)
    /\ NewOf(h).name \in {"gone", "NAME", "failed"}
    /\ NewOf(h).name # "NAME" => ~NewOf(h).run
    /\ ~(OldOf(h).run /\ NewOf(h).run)
    /\ world = "late" => cont[h]["other"] = Gone
    /\ world = "foreign" => NoAdrift(h)

\* A launch still to come finds no new container, and an original that is stopped
\* or holds the name, which it then removes.
LateLaunch(h) ==
    <<h, "launch">> \in late =>
        /\ NewOf(h).name = "gone"
        /\ OldOf(h).name = "NAME" \/ (OldOf(h).name = "pre" /\ ~OldOf(h).run)
        /\ Pending(h, "start") => OldOf(h).name = "NAME"

\* What the other commands that are under way or still to come tell of their host.
Commands(h) ==
    /\ LateLaunch(h)
    /\ <<h, "stop">> \in late \/ <<h, "renamePre">> \in late =>
          NewOf(h).name = "gone" /\ <<h, "launch">> \notin adrift
    /\ Pending(h, "stopNew") \/ Pending(h, "renameFailed") => NewOf(h).name \in {"NAME", "failed"}
    /\ world = "foreign" /\ th[h] \in {"stopNew", "renameFailed"} => NewOf(h).name = "NAME"
    /\ Pending(h, "renameFailed") => ~NewOf(h).run
    /\ Pending(h, "start") => ~NewOf(h).run \/ OldOf(h).name = "gone"

\* On the way to the release: what the commands of each phase left.
RollingOut(h) ==
    /\ ctl \in {"idle", "saving", "saved", "stop", "rename"} => NewOf(h).name = "gone"
    /\ ctl \in {"idle", "saving", "saved", "stop"} => OldOf(h).name = "NAME"
    /\ ctl \in {"idle", "saving", "saved", "health", "verify", "upgraded"} => NoAdrift(h)
    /\ ctl = "stop" =>
          /\ th[h] = "ok" => ~OldOf(h).run
          /\ \A op \in Op : <<h, op>> \in adrift => th[h] = "err" /\ op = "stop"
    /\ ctl = "rename" =>
          /\ ~OldOf(h).run
          /\ th[h] = "ok" => OldOf(h).name = "pre"
          /\ th[h] = "renamePre" => OldOf(h).name = "NAME"
          /\ \A op \in Op : <<h, op>> \in adrift => th[h] = "err" /\ op = "renamePre"
    /\ ctl = "launch" => \A op \in Op :
          <<h, op>> \in adrift => th[h] = "err" /\ op = "launch" /\ Reached(h)
    /\ ctl \in {"launch", "health", "verify", "upgraded"} => OldOf(h).name = "pre" /\ ~OldOf(h).run
    /\ ctl \in {"health", "verify", "upgraded"} => NewOf(h).name = "NAME"

\* The launches go from the last host to the first.
Launching(h) ==
    ctl = "launch" =>
        /\ Before(h) \/ (Reached(h) /\ th[h] = "launch") => NewOf(h).name = "gone"
        /\ Passed(h) \/ (Reached(h) /\ th[h] = "ok") => NewOf(h).name = "NAME"

\* The original of h has been brought back, for good if nothing was cut off there.
Back(h) == NoAdrift(h) => OldOf(h).name = "NAME"

\* The originals come back from the last host to the first.
ComingBack(h) ==
    /\ ctl = "r_back" /\ (Passed(h) \/ (Reached(h) /\ th[h] \in {"ok", "start"})) => Back(h)
    /\ ctl \in {"r_health", "r_verify"} => Back(h)

\* Without a complete record nothing has been touched.
Recorded(h) ==
    file # "whole" => /\ ctl \in {"idle", "saving", "dead"}
                      /\ NoAdrift(h) /\ OldOf(h).name = "NAME"

HostInv(h) ==
    /\ Threads(h) /\ Containers(h) /\ Commands(h) /\ RollingOut(h)
    /\ Launching(h) /\ ComingBack(h) /\ Recorded(h)

RolloutInv ==
    /\ TypeOK
    /\ ctl \in {"launch", "r_back"} => at \in DOMAIN HOSTS
    /\ \A h \in Host : HostInv(h)

----------------------------------------------------------------------------
(* What a command does to the containers of its host. *)

Status == [name : Name, run : BOOLEAN]

\* docker: a name is of one container.
OneName(d) == \A a, b \in Container : a # b /\ d[a].name = d[b].name => d[a].name = "gone"

\* A command keeps the containers well typed and every name with one container.
LEMMA EffectType ==
    ASSUME NEW d \in [Container -> Status], OneName(d), NEW op \in Op, NEW e \in Outcomes(op, d)
    PROVE  e \in [Container -> Status] /\ OneName(e)
  <1> USE DEF Container, Status, Name, OneName, Taken, Named
  <1>1. Stopped(d) \in [Container -> Status] /\ OneName(Stopped(d))
    BY ZenonT(30) DEF Stopped
  <1>2. ASSUME NEW n \in {"pre", "failed"}
        PROVE  Renamed(d, n) \in [Container -> Status] /\ OneName(Renamed(d, n))
    BY <1>2 DEF Renamed
  <1>3. /\ Removed(d) \in [Container -> Status] /\ OneName(Removed(d))
        /\ Launched(d) \in [Container -> Status] /\ OneName(Launched(d))
    BY DEF Launched, Removed, Gone
  <1>4. OldNamed(d) \in [Container -> Status] /\ OneName(OldNamed(d))
    BY DEF OldNamed
  <1>5. OldStarted(d) \in [Container -> Status] /\ OneName(OldStarted(d))
    BY DEF OldStarted
  <1>6. e \in {d, Stopped(d), Renamed(d, "pre"), Renamed(d, "failed"),
              Removed(d), Launched(d), OldNamed(d), OldStarted(d)}
    BY DEF Outcomes, Effect
  <1>7. OneName(d)
    OBVIOUS
  <1> HIDE DEF OneName
  <1> QED BY <1>1, <1>2, <1>3, <1>4, <1>5, <1>6, <1>7

\* The effect on a container, command by command: docker stop ...
LEMMA StopEffect ==
    ASSUME NEW d \in [Container -> Status], NEW op \in {"stop", "stopNew"}, NEW c \in Container
    PROVE  /\ Effect(op, d)[c].name = d[c].name
           /\ Effect(op, d)[c].run => d[c].run /\ d[c].name # "NAME"
           /\ d[c].name # "NAME" => Effect(op, d)[c] = d[c]
  <1>1. Effect(op, d) = Stopped(d)
    BY DEF Effect
  <1> QED BY <1>1 DEF Stopped, Status

\* ... docker rename NAME ...
LEMMA RenameEffect ==
    ASSUME NEW d \in [Container -> Status], NEW op \in {"renamePre", "renameFailed"}, NEW n,
           n = IF op = "renamePre" THEN "pre" ELSE "failed", NEW c \in Container
    PROVE  /\ Effect(op, d)[c].run => d[c].run
           /\ d[c].name # "NAME" \/ Taken(d, n) => Effect(op, d)[c] = d[c]
           /\ d[c].name = "NAME" /\ ~Taken(d, n) => Effect(op, d)[c].name = n
  <1>1. Effect(op, d) = Renamed(d, n)
    BY DEF Effect
  <1> QED BY <1>1 DEF Renamed, Status

\* ... launch.sh ...
LEMMA LaunchEffect ==
    ASSUME NEW d \in [Container -> Status], NEW c \in Container
    PROVE  /\ Effect("launch", d)[c] = IF c = "new" THEN [name |-> "NAME", run |-> TRUE]
                                       ELSE Removed(d)[c]
           /\ Removed(d)[c] = IF d[c].name = "NAME" THEN Gone ELSE d[c]
  <1>1. Effect("launch", d) = Launched(d)
    BY DEF Effect
  <1> QED BY <1>1 DEF Launched, Removed

\* ... docker rename of the original ...
LEMMA BackEffect ==
    ASSUME NEW d \in [Container -> Status], NEW op \in {"renameBack", "renameBackStart"},
           NEW c \in Container
    PROVE  /\ c # "old" \/ Taken(d, "NAME") \/ d["old"].name = "gone" => Effect(op, d)[c] = d[c]
           /\ c = "old" /\ ~Taken(d, "NAME") /\ d["old"].name # "gone" =>
                 Effect(op, d)[c].name = "NAME" /\ (Effect(op, d)[c].run => d[c].run)
  <1>1. Effect(op, d) = OldNamed(d)
    BY DEF Effect
  <1> QED BY <1>1 DEF OldNamed, Status, Container

\* ... docker start of the original, docker inspect.
LEMMA StartEffect ==
    ASSUME NEW d \in [Container -> Status], NEW c \in Container
    PROVE  /\ c # "old" \/ d["old"].name = "gone" => Effect("start", d)[c] = d[c]
           /\ c = "old" => Effect("start", d)[c].name = d[c].name
           /\ Effect("inspect", d) = d /\ Effect("inspectOld", d) = d
  <1>1. Effect("start", d) = OldStarted(d) /\ Effect("inspect", d) = d /\ Effect("inspectOld", d) = d
    BY DEF Effect
  <1> QED BY <1>1 DEF OldStarted, Status, Container

----------------------------------------------------------------------------
(* The controller's steps *)

\* The hosts, their places, and the types of a host's state.
LEMMA HostFacts ==
    ASSUME TypeOK, NEW h \in Host
    PROVE  /\ cont[h] \in [Container -> Status] /\ OneName(cont[h])
           /\ \A c \in Container : cont[h][c].name \in Name /\ cont[h][c].run \in BOOLEAN
           /\ th[h] \in Op \cup {"idle", "ok", "err"}
           /\ Before(h) \/ Reached(h) \/ Passed(h)
  <1>1. cont[h] \in [Container -> Status] /\ OneName(cont[h])
    BY DEF TypeOK, OneName, Status
  <1>2. \A c \in Container : cont[h][c].name \in Name /\ cont[h][c].run \in BOOLEAN
    BY <1>1 DEF Status
  <1>3. Before(h) \/ Reached(h) \/ Passed(h)
    <2>1. PICK i \in DOMAIN HOSTS : h = HOSTS[i]
      BY DEF Host
    <2>2. i \in Nat /\ at \in Nat
      BY RolloutConstants DEF RolloutConstants, TypeOK
    <2>3. CASE i = at
      BY <2>1, <2>3 DEF Reached
    <2>4. CASE i < at
      BY <2>1, <2>4 DEF Before
    <2>5. CASE i > at
      BY <2>1, <2>5 DEF Passed
    <2> QED BY <2>2, <2>3, <2>4, <2>5
  <1> QED BY <1>1, <1>2, <1>3 DEF TypeOK

\* Steps that change nothing but the phase and the state file.
LEMMA PhaseInv ==
    ASSUME RolloutInv,
           \/ BeginSave \/ Save \/ BaselineFails \/ Healthy \/ Report
           \/ RestoreHealthy \/ RestoreReport \/ RestoreFails
    PROVE  RolloutInv'
  <1>1. UNCHANGED <<cont, th, at, late, adrift, faults, world>>
    BY DEF BeginSave, Save, BaselineFails, Healthy, Report, RestoreHealthy, RestoreReport, RestoreFails
  <1>2. \/ /\ ctl = "idle" /\ ctl' = "saving" /\ file' = "partial"
        \/ /\ ctl = "saving" /\ ctl' = "saved" /\ file' = "whole"
        \/ /\ ctl = "saved" /\ ctl' = "failed" /\ file' = file
        \/ /\ ctl = "health" /\ ctl' = "verify" /\ file' = file
        \/ /\ ctl = "verify" /\ ctl' = "upgraded" /\ file' = file
        \/ /\ ctl = "r_health" /\ ctl' = "r_verify" /\ file' = file
        \/ /\ ctl = "r_verify" /\ ctl' = "restored" /\ file' = file
        \/ /\ ctl \in Restoring /\ Ended /\ ctl' = "failed" /\ file' = file
    BY DEF BeginSave, Save, BaselineFails, Healthy, Report, RestoreHealthy, RestoreReport, RestoreFails
  <1>3. TypeOK'
    BY <1>1, <1>2 DEF RolloutInv, TypeOK, Rolling, Restoring
  <1>4. ctl' \notin {"launch", "r_back"}
    BY <1>2
  <1>5. ASSUME NEW h \in Host PROVE HostInv(h)'
    <2>1. HostInv(h)
      BY DEF RolloutInv
    <2>2. Threads(h)'
      BY <1>1, <1>2, <2>1 DEF HostInv, Threads, Reached, Ended, Restoring, Op
    <2>3. Containers(h)' /\ Commands(h)'
      BY <1>1, <2>1 DEF HostInv, Containers, Commands, LateLaunch, OldOf, NewOf, Pending, NoAdrift
    <2>4. RollingOut(h)'
      BY <1>1, <1>2, <2>1 DEF HostInv, RollingOut, OldOf, NewOf, NoAdrift, Restoring
    <2>5. Launching(h)' /\ ComingBack(h)' /\ Recorded(h)'
      BY <1>1, <1>2, <2>1 DEF HostInv, Launching, ComingBack, Recorded, RollingOut, Back,
         OldOf, NewOf, NoAdrift, Restoring
    <2> QED BY <2>2, <2>3, <2>4, <2>5 DEF HostInv
  <1> QED BY <1>3, <1>4, <1>5 DEF RolloutInv

\* Steps that start a phase on all hosts at once.
LEMMA EverywhereInv ==
    ASSUME RolloutInv, BeginStop \/ BeginRename \/ GiveUp \/ Rerun
    PROVE  RolloutInv'
  <1>1. UNCHANGED <<cont, at, file, late, adrift, faults, world>>
    BY DEF BeginStop, BeginRename, GiveUp, Rerun
  <1>2. \/ ctl = "saved" /\ ctl' = "stop" /\ \A h \in Host : th'[h] = "stop"
        \/ /\ ctl = "stop" /\ Succeeded /\ ctl' = "rename"
           /\ \A h \in Host : th'[h] = "renamePre"
        \/ /\ ctl \in Rolling \cup {"dead", "failed", "upgraded"}
           /\ ctl \in Rolling \/ file = "whole"
           /\ ctl' = "r_stop" /\ \A h \in Host : th'[h] = "inspect"
    BY DEF BeginStop, BeginRename, GiveUp, Rerun, Everywhere, BeginRestore
  <1>3. TypeOK'
    <2>1. th' \in [Host -> Op \cup {"idle", "ok", "err"}]
      BY DEF BeginStop, BeginRename, GiveUp, Rerun, Everywhere, BeginRestore, Op
    <2>2. ctl' \in {"stop", "rename", "r_stop"}
      BY <1>2
    <2> QED BY <1>1, <2>1, <2>2 DEF RolloutInv, TypeOK, Rolling, Restoring
  <1>4. ctl' \notin {"launch", "r_back"}
    BY <1>2
  <1>5. ASSUME NEW h \in Host PROVE HostInv(h)'
    <2>1. HostInv(h) /\ th[h] \in Op \cup {"idle", "ok", "err"}
      BY HostFacts DEF RolloutInv
    <2>2. Threads(h)'
      BY <1>2 DEF Threads, Op
    <2>3. Containers(h)' /\ Commands(h)'
      BY <1>1, <1>2, <2>1 DEF HostInv, Containers, Commands, LateLaunch, OldOf, NewOf, Pending, NoAdrift
    <2>4. RollingOut(h)'
      BY <1>1, <1>2, <2>1 DEF HostInv, RollingOut, OldOf, NewOf, NoAdrift, Rolling,
         Threads, Succeeded, Ended, Op
    <2>5. Launching(h)' /\ ComingBack(h)'
      BY <1>1, <1>2, <2>1 DEF Launching, ComingBack
    <2>6. Recorded(h)'
      BY <1>1, <1>2, <2>1 DEF HostInv, Recorded, Rolling
    <2> QED BY <2>2, <2>3, <2>4, <2>5, <2>6 DEF HostInv
  <1> QED BY <1>3, <1>4, <1>5 DEF RolloutInv

\* Where a phase that goes from the last host to the first stands after a step.
LEMMA Places ==
    ASSUME TypeOK, at \in DOMAIN HOSTS
    PROVE  /\ Len(HOSTS) \in DOMAIN HOSTS /\ HOSTS[Len(HOSTS)] \in Host /\ HOSTS[at] \in Host
           /\ \A h \in Host : at' = Len(HOSTS) =>
                 ~Passed(h)' /\ (Reached(h)' <=> h = HOSTS[Len(HOSTS)])
           /\ at > 1 => /\ at - 1 \in DOMAIN HOSTS
                        /\ at' = at - 1 => \A h \in Host :
                              /\ Reached(h)' <=> h = HOSTS[at - 1]
                              /\ Before(h)' \/ Reached(h)' => Before(h)
                              /\ Passed(h)' => Passed(h) \/ Reached(h)
           /\ at = 1 => \A h \in Host : Passed(h) \/ Reached(h)
  <1>1. /\ DOMAIN HOSTS = 1..Len(HOSTS) /\ Len(HOSTS) \in Nat /\ Len(HOSTS) > 0
        /\ \A i, j \in DOMAIN HOSTS : HOSTS[i] = HOSTS[j] => i = j
    BY RolloutConstants DEF RolloutConstants
  <1>2. Host = {HOSTS[i] : i \in DOMAIN HOSTS}
    BY DEF Host
  <1> QED BY <1>1, <1>2 DEF Passed, Reached, Before

\* A phase that goes through the hosts begins at the last one.
LEMMA LastHost ==
    ASSUME at' = Len(HOSTS)
    PROVE  /\ at' \in DOMAIN HOSTS /\ HOSTS[Len(HOSTS)] \in Host
           /\ \A h \in Host : ~Passed(h)' /\ (Reached(h)' <=> h = HOSTS[Len(HOSTS)])
  <1>1. DOMAIN HOSTS = 1..Len(HOSTS) /\ Len(HOSTS) \in Nat /\ Len(HOSTS) > 0
    BY RolloutConstants DEF RolloutConstants
  <1> QED BY <1>1 DEF Passed, Reached, Host

\* The launches and the restores begin at the last host.
LEMMA BeginInv ==
    ASSUME RolloutInv, BeginLaunch \/ BeginBack
    PROVE  RolloutInv'
  <1> DEFINE n == Len(HOSTS)
  <1>1. UNCHANGED <<cont, file, late, adrift, faults, world>> /\ at' = n /\ Succeeded
    BY DEF BeginLaunch, BeginBack
  <1>2. \/ ctl = "rename" /\ ctl' = "launch" /\ OnlyAt(n, "launch")
        \/ ctl = "r_stop" /\ ctl' = "r_back" /\ OnlyAt(n, "inspectOld")
    BY DEF BeginLaunch, BeginBack
  <1>3. /\ at' \in DOMAIN HOSTS /\ HOSTS[n] \in Host
        /\ \A h \in Host : ~Passed(h)' /\ (Reached(h)' <=> h = HOSTS[n])
    BY <1>1, LastHost
  <1>4. TypeOK'
    <2>1. th' \in [Host -> Op \cup {"idle", "ok", "err"}]
      BY <1>2 DEF OnlyAt, Op
    <2>2. at' \in 0..Len(HOSTS)
      BY <1>1, RolloutConstants DEF RolloutConstants
    <2> QED BY <1>1, <1>2, <2>1, <2>2 DEF RolloutInv, TypeOK, Rolling, Restoring
  <1>5. ASSUME NEW h \in Host PROVE HostInv(h)'
    <2>1. HostInv(h) /\ th[h] \in {"idle", "ok"}
      BY <1>1, HostFacts DEF RolloutInv, Succeeded, Ended
    <2>2. th'[h] = IF h = HOSTS[n] THEN (IF ctl' = "launch" THEN "launch" ELSE "inspectOld")
                   ELSE "idle"
      BY <1>2 DEF OnlyAt
    <2>3. Threads(h)'
      BY <1>2, <1>3, <2>2 DEF Threads, Op
    <2>4. Containers(h)' /\ Commands(h)'
      BY <1>1, <1>2, <2>1, <2>2 DEF HostInv, Containers, Commands, LateLaunch, OldOf, NewOf, Pending, NoAdrift
    <2>5. RollingOut(h)'
      BY <1>1, <1>2, <2>1 DEF HostInv, RollingOut, OldOf, NewOf, NoAdrift, Threads
    <2>6. Launching(h)'
      BY <1>1, <1>2, <1>3, <2>1, <2>2 DEF HostInv, Launching, RollingOut, NewOf
    <2>7. ComingBack(h)'
      BY <1>2, <1>3, <2>2 DEF ComingBack
    <2>8. Recorded(h)'
      BY <1>1, <1>2, <2>1 DEF HostInv, Recorded
    <2> QED BY <2>3, <2>4, <2>5, <2>6, <2>7, <2>8 DEF HostInv
  <1> QED BY <1>3, <1>4, <1>5 DEF RolloutInv

\* ... and go on host by host.
LEMMA NextHostInv ==
    ASSUME RolloutInv, NextLaunch \/ NextBack
    PROVE  RolloutInv'
  <1>1. UNCHANGED <<cont, file, late, adrift, faults, world>> /\ Succeeded /\ at \in DOMAIN HOSTS
    BY DEF NextLaunch, NextBack, RolloutInv
  <1>2. \/ /\ ctl = "launch" /\ ctl' = "launch" /\ at > 1 /\ at' = at - 1
           /\ OnlyAt(at - 1, "launch")
        \/ /\ ctl = "r_back" /\ ctl' = "r_back" /\ at > 1 /\ at' = at - 1
           /\ OnlyAt(at - 1, "inspectOld")
        \/ ctl = "launch" /\ ctl' = "health" /\ at = 1 /\ UNCHANGED <<at, th>>
        \/ ctl = "r_back" /\ ctl' = "r_health" /\ at = 1 /\ UNCHANGED <<at, th>>
    BY DEF NextLaunch, NextBack
  <1>3. /\ at > 1 => /\ at - 1 \in DOMAIN HOSTS
                     /\ at' = at - 1 => \A h \in Host :
                           /\ Reached(h)' <=> h = HOSTS[at - 1]
                           /\ Before(h)' \/ Reached(h)' => Before(h)
                           /\ Passed(h)' => Passed(h) \/ Reached(h)
        /\ at = 1 => \A h \in Host : Passed(h) \/ Reached(h)
    BY <1>1, Places DEF RolloutInv
  <1>4. TypeOK' /\ (ctl' \in {"launch", "r_back"} => at' \in DOMAIN HOSTS)
    <2>1. th' \in [Host -> Op \cup {"idle", "ok", "err"}]
      BY <1>2 DEF OnlyAt, Op, RolloutInv, TypeOK
    <2>2. at' \in DOMAIN HOSTS
      BY <1>1, <1>2, <1>3
    <2>3. at' \in 0..Len(HOSTS)
      BY <2>2, RolloutConstants DEF RolloutConstants
    <2>4. ctl' \in Rolling \cup Restoring
      BY <1>2 DEF Rolling, Restoring
    <2> QED BY <1>1, <2>1, <2>2, <2>3, <2>4 DEF RolloutInv, TypeOK
  <1>5. ASSUME NEW h \in Host PROVE HostInv(h)'
    <2>1. HostInv(h) /\ th[h] \in {"idle", "ok"} /\ (Reached(h) => th[h] = "ok")
      BY <1>1, <1>2, HostFacts DEF RolloutInv, Succeeded, Ended, HostInv, Threads
    <2>2. Containers(h)' /\ Commands(h)'
      BY <1>1, <1>2, <2>1 DEF HostInv, Containers, Commands, LateLaunch, OldOf, NewOf, Pending, NoAdrift, OnlyAt
    <2>3. Recorded(h)'
      BY <1>1, <1>2, <2>1 DEF HostInv, Recorded
    <2>4. CASE at = 1 /\ UNCHANGED <<at, th>>
      <3>1. ctl' \in {"health", "r_health"}
        BY <1>1, <1>2, <2>4
      <3>2. Threads(h)'
        BY <2>1, <2>4, <3>1 DEF Threads, Op
      <3>3. RollingOut(h)' /\ Launching(h)' /\ ComingBack(h)'
        BY <1>1, <1>2, <1>3, <2>1, <2>4 DEF HostInv, RollingOut, Launching, ComingBack, Back,
           OldOf, NewOf, NoAdrift
      <3> QED BY <2>2, <2>3, <3>2, <3>3 DEF HostInv
    <2>5. CASE at > 1 /\ at' = at - 1 /\ ctl' = ctl
      <3>1. th'[h] = IF h = HOSTS[at - 1] THEN (IF ctl = "launch" THEN "launch" ELSE "inspectOld")
                     ELSE "idle"
        BY <1>2, <2>5 DEF OnlyAt
      <3>2. ctl \in {"launch", "r_back"}
        BY <1>2
      <3>3. Threads(h)'
        BY <1>3, <2>5, <3>1, <3>2 DEF Threads, Op
      <3>4. RollingOut(h)'
        BY <1>1, <1>3, <2>1, <2>5, <3>2 DEF HostInv, RollingOut, OldOf, NewOf, NoAdrift
      <3>5. Launching(h)' /\ ComingBack(h)'
        BY <1>1, <1>3, <2>1, <2>5, <3>1, <3>2 DEF HostInv, Launching, ComingBack, Back, OldOf, NewOf, NoAdrift
      <3> QED BY <2>2, <2>3, <3>3, <3>4, <3>5 DEF HostInv
    <2> QED BY <1>2, <2>4, <2>5
  <1> QED BY <1>4, <1>5 DEF RolloutInv

\* The controller is killed: no thread goes on; of the commands under way some may
\* be still to come.
LEMMA KilledInv ==
    ASSUME RolloutInv, Killed
    PROVE  RolloutInv'
  <1>1. UNCHANGED <<cont, at, file, world>> /\ ctl' = "dead"
          /\ ctl \in {"saving", "saved"} \cup Rolling \cup Restoring
          /\ \A h \in Host : th'[h] = "idle"
    BY DEF Killed
  <1>2. /\ late \subseteq late' /\ adrift \subseteq adrift'
        /\ \A h \in Host, op \in Op : <<h, op>> \in late' /\ <<h, op>> \notin late =>
              th[h] = op /\ world = "late"
        /\ \A h \in Host, op \in Op : <<h, op>> \in adrift' /\ <<h, op>> \notin adrift =>
              th[h] = op /\ world = "late"
        /\ late' \subseteq adrift' /\ adrift' \subseteq Host \X Op
    BY RolloutConstants DEF Killed, RolloutInv, TypeOK, RolloutConstants
  <1>3. TypeOK'
    <2>1. faults' \in 0..MaxFaults
      BY RolloutConstants DEF RolloutConstants, Killed, Fault, RolloutInv, TypeOK
    <2>2. th' \in [Host -> Op \cup {"idle", "ok", "err"}]
      BY DEF Killed
    <2> QED BY <1>1, <1>2, <2>1, <2>2 DEF RolloutInv, TypeOK
  <1>4. ASSUME NEW h \in Host PROVE HostInv(h)'
    <2>1. HostInv(h) /\ late \subseteq adrift
      BY DEF RolloutInv, TypeOK
    <2>2. Threads(h)' /\ Launching(h)' /\ ComingBack(h)' /\ RollingOut(h)'
      BY <1>1 DEF Threads, Launching, ComingBack, RollingOut, Op
    <2>3. /\ \A op \in Op : <<h, op>> \in late' =>
                Pending(h, op) /\ (<<h, op>> \in late \/ world = "late")
          /\ \A op \in Op : <<h, op>> \in adrift' => <<h, op>> \in adrift \/ (th[h] = op /\ world = "late")
          /\ <<h, "launch">> \in adrift => <<h, "launch">> \in adrift'
      BY <1>2 DEF Pending
    <2>4. Containers(h)'
      BY <1>1, <2>1, <2>3 DEF HostInv, Containers, OldOf, NewOf, NoAdrift, Op
    <2>5. Commands(h)'
      <3>1. /\ th[h] \in {"stop", "renamePre"} =>
                  NewOf(h).name = "gone" /\ <<h, "launch">> \notin adrift'
            /\ th[h] = "launch" => /\ NewOf(h).name = "gone" /\ OldOf(h).name = "pre" /\ ~OldOf(h).run
                                   /\ NoAdrift(h)
        BY <2>1, <2>3 DEF HostInv, Threads, RollingOut, Launching, NoAdrift, Op
      <3>2. LateLaunch(h)'
        BY <1>1, <2>1, <2>3, <3>1 DEF HostInv, Commands, LateLaunch, NewOf, OldOf, Pending, NoAdrift, Op
      <3>3. <<h, "stop">> \in late' \/ <<h, "renamePre">> \in late' =>
               NewOf(h)'.name = "gone" /\ <<h, "launch">> \notin adrift'
        BY <1>1, <2>1, <2>3, <3>1 DEF HostInv, Commands, NewOf, Pending, NoAdrift, Op
      <3>4. \A op \in Op : Pending(h, op)' => Pending(h, op)
        BY <1>1, <2>3 DEF Pending, Op
      <3> QED BY <1>1, <2>1, <3>2, <3>3, <3>4 DEF HostInv, Commands, NewOf, OldOf, Op
    <2>6. Recorded(h)'
      <3>1. file # "whole" => th[h] \notin Op /\ NoAdrift(h)
        BY <1>1, <2>1 DEF HostInv, Recorded, Threads, Rolling, Restoring
      <3> QED BY <1>1, <2>1, <2>3, <3>1 DEF HostInv, Recorded, NoAdrift, OldOf
    <2> QED BY <2>2, <2>4, <2>5, <2>6 DEF HostInv
  <1> QED BY <1>1, <1>3, <1>4 DEF RolloutInv
----------------------------------------------------------------------------
(* The steps of one host *)

\* A step of host h: the controller and the other hosts stay as they are.
Local(h) ==
    /\ UNCHANGED <<ctl, at, file, world>>
    /\ \A g \in Host \ {h} : /\ cont'[g] = cont[g] /\ th'[g] = th[g]
                             /\ \A op \in Op : /\ <<g, op>> \in late' <=> <<g, op>> \in late
                                               /\ <<g, op>> \in adrift' <=> <<g, op>> \in adrift

\* What a step of one host leaves well typed.
LEMMA LocalType ==
    ASSUME TypeOK, NEW h \in Host,
           NEW d \in [Container -> Status], OneName(d), cont' = [cont EXCEPT ![h] = d],
           NEW x \in Op \cup {"idle", "ok", "err"}, th' = [th EXCEPT ![h] = x],
           late' \subseteq adrift', adrift' \subseteq Host \X Op, faults' \in 0..MaxFaults,
           UNCHANGED <<ctl, at, file, world>>
    PROVE  TypeOK'
  <1>1. cont' \in [Host -> [Container -> Status]]
    BY DEF TypeOK, Status
  <1>2. ASSUME NEW g \in Host PROVE OneName(cont'[g])
    <2>1. CASE g = h
      BY <2>1 DEF TypeOK
    <2>2. CASE g # h
      BY <2>2, HostFacts DEF TypeOK
    <2> QED BY <2>1, <2>2
  <1>3. th' \in [Host -> Op \cup {"idle", "ok", "err"}]
    BY DEF TypeOK
  <1>4. \A g \in Host, c, e \in Container :
           c # e /\ cont'[g][c].name = cont'[g][e].name => cont'[g][c].name = "gone"
    BY <1>2 DEF OneName
  <1> QED BY <1>1, <1>3, <1>4 DEF TypeOK, Status

\* It keeps the invariant of the other hosts.
LEMMA LocalInv ==
    ASSUME RolloutInv, NEW h \in Host, Local(h), TypeOK', HostInv(h)'
    PROVE  RolloutInv'
  <1>1. ASSUME NEW g \in Host PROVE HostInv(g)'
    <2>1. CASE g = h
      BY <2>1
    <2>2. CASE g # h
      <3>1. /\ cont'[g] = cont[g] /\ th'[g] = th[g]
            /\ \A op \in Op : /\ <<g, op>> \in late' <=> <<g, op>> \in late
                              /\ <<g, op>> \in adrift' <=> <<g, op>> \in adrift
            /\ UNCHANGED <<ctl, at, file, world>>
        BY <2>2 DEF Local
      <3>2. HostInv(g)
        BY DEF RolloutInv
      <3>3. Threads(g)'
        BY <3>1, <3>2 DEF HostInv, Threads, Reached
      <3>4. Containers(g)'
        BY <3>1, <3>2 DEF HostInv, Containers, OldOf, NewOf, NoAdrift, Op
      <3>5. Commands(g)'
        BY <3>1, <3>2 DEF HostInv, Commands, LateLaunch, OldOf, NewOf, Pending, Op
      <3>6. RollingOut(g)'
        BY <3>1, <3>2 DEF HostInv, RollingOut, Reached, OldOf, NewOf, NoAdrift, Op
      <3>7. Launching(g)' /\ ComingBack(g)' /\ Recorded(g)'
        BY <3>1, <3>2 DEF HostInv, Launching, ComingBack, Recorded, Back, OldOf, NewOf, NoAdrift,
           Before, Reached, Passed
      <3> QED BY <3>3, <3>4, <3>5, <3>6, <3>7 DEF HostInv
    <2> QED BY <2>1, <2>2
  <1> QED BY <1>1 DEF RolloutInv, Local

\* A command that did nothing and was not answered, and a failed inspect, which
\* stop_new takes for "nothing there".
LEMMA NothingDone ==
    ASSUME RolloutInv, NEW h \in Host, Local(h), th[h] \in Op, cont'[h] = cont[h],
           UNCHANGED <<late, adrift>>, th'[h] = "err" \/ (th[h] = "inspect" /\ th'[h] = "ok")
    PROVE  HostInv(h)'
  <1>1. HostInv(h) /\ UNCHANGED <<ctl, at, file, world>>
    BY DEF RolloutInv, Local
  <1>2. Threads(h)'
    BY <1>1 DEF Threads, Op
  <1>3. Containers(h)'
    BY <1>1 DEF HostInv, Containers, OldOf, NewOf, NoAdrift
  <1>4. Commands(h)'
    BY <1>1 DEF HostInv, Commands, LateLaunch, OldOf, NewOf, Pending, Op
  <1>5. RollingOut(h)'
    BY <1>1 DEF HostInv, RollingOut, OldOf, NewOf, NoAdrift, Threads, Op
  <1>6. Launching(h)' /\ ComingBack(h)'
    BY <1>1 DEF HostInv, Launching, ComingBack, Back, NoAdrift, OldOf, NewOf, Before, Reached, Passed, Threads, Op
  <1>7. Recorded(h)'
    BY <1>1 DEF HostInv, Recorded, OldOf, NoAdrift
  <1> QED BY <1>2, <1>3, <1>4, <1>5, <1>6, <1>7 DEF HostInv

\* The time-out cuts the command off: it is still to come.
LEMMA CutOffInv ==
    ASSUME RolloutInv, NEW h \in Host, CutOff(h)
    PROVE  RolloutInv'
  <1>1. /\ UNCHANGED <<cont, ctl, at, file, world>> /\ world = "late" /\ th[h] \in LateOps
        /\ th' = [th EXCEPT ![h] = "err"]
        /\ late' = late \cup {<<h, th[h]>>} /\ adrift' = adrift \cup {<<h, th[h]>>}
    BY DEF CutOff
  <1>2. th[h] \in Op /\ TypeOK /\ cont = [cont EXCEPT ![h] = cont[h]]
    BY <1>1, RolloutConstants DEF RolloutConstants, RolloutInv, TypeOK
  <1>3. faults' \in 0..MaxFaults
    BY RolloutConstants DEF RolloutConstants, CutOff, Fault, RolloutInv, TypeOK
  <1>4. TypeOK'
    <2>1. late' \subseteq adrift' /\ adrift' \subseteq Host \X Op
      BY <1>1, <1>2 DEF TypeOK
    <2> QED BY <1>1, <1>2, <1>3, <2>1, HostFacts, LocalType
  <1>5. Local(h) /\ th'[h] = "err"
    BY <1>1, <1>2 DEF Local, TypeOK
  <1>6. /\ \A op \in Op : <<h, op>> \in late' <=> Pending(h, op)
        /\ \A op \in Op : <<h, op>> \in adrift' <=> <<h, op>> \in adrift \/ op = th[h]
    BY <1>1, <1>2 DEF Pending
  <1>7. HostInv(h)'
    <2>1. HostInv(h)
      BY DEF RolloutInv
    <2>2. Threads(h)'
      BY <1>5 DEF Threads, Op
    <2>3. Containers(h)'
      BY <1>1, <1>6, <2>1 DEF HostInv, Containers, OldOf, NewOf, Op
    <2>4. Commands(h)'
      <3>1. /\ th[h] \in {"stop", "renamePre"} =>
                  NewOf(h).name = "gone" /\ <<h, "launch">> \notin adrift'
            /\ th[h] = "launch" => /\ NewOf(h).name = "gone" /\ OldOf(h).name = "pre" /\ ~OldOf(h).run
                                   /\ NoAdrift(h)
        BY <1>6, <2>1 DEF HostInv, Threads, RollingOut, Launching, NoAdrift, Op
      <3>2. NoAdrift(h) => \A op \in Op : <<h, op>> \notin late
        BY <1>2 DEF NoAdrift, TypeOK
      <3>3. \A op \in Op : Pending(h, op)' => Pending(h, op)
        BY <1>5, <1>6 DEF Pending, Op
      <3>4. LateLaunch(h)'
        <4>1. th[h] = "launch" => ~Pending(h, "start")
          BY <3>1, <3>2 DEF Pending, Op
        <4> QED BY <1>1, <1>6, <2>1, <3>1, <3>3, <4>1 DEF HostInv, Commands, LateLaunch, NewOf, OldOf,
                   Pending, Op
      <3>5. <<h, "stop">> \in late' \/ <<h, "renamePre">> \in late' =>
               NewOf(h)'.name = "gone" /\ <<h, "launch">> \notin adrift'
        BY <1>1, <1>6, <2>1, <3>1, <3>2 DEF HostInv, Commands, NewOf, Pending, NoAdrift, Op
      <3> QED BY <1>1, <2>1, <3>3, <3>4, <3>5 DEF HostInv, Commands, NewOf, OldOf, Op
    <2>5. RollingOut(h)'
      BY <1>1, <1>2, <1>5, <1>6, <2>1 DEF HostInv, RollingOut, Reached, OldOf, NewOf, NoAdrift, Threads, Op
    <2>6. Launching(h)' /\ ComingBack(h)'
      BY <1>1, <1>2, <1>5, <1>6, <2>1 DEF HostInv, Launching, ComingBack, Back, NoAdrift, OldOf, NewOf,
         Before, Reached, Passed
    <2>7. Recorded(h)'
      BY <1>1, <1>2, <2>1 DEF HostInv, Recorded, Threads
    <2> QED BY <2>2, <2>3, <2>4, <2>5, <2>6, <2>7 DEF HostInv
  <1> QED BY <1>4, <1>5, <1>7, LocalInv

\* The command of h's thread took effect; its answer was lost, or it was answered.
Done(h) ==
    /\ Local(h) /\ UNCHANGED <<late, adrift>>
    /\ th[h] \in Op /\ cont'[h] = Effect(th[h], cont[h])
    /\ \/ th'[h] = "err"
       \/ ~Refused(th[h], cont[h]) /\ th'[h] = After(th[h], cont[h])

\* launch.sh: it is answered, or it got as far as docker rm or docker run and its
\* answer was lost.
LEMMA LaunchDone ==
    ASSUME RolloutInv, NEW h \in Host, Local(h), UNCHANGED <<late, adrift>>, th[h] = "launch",
           \/ cont'[h] = Effect("launch", cont[h]) /\ th'[h] \in {"ok", "err"}
           \/ cont'[h] = Removed(cont[h]) /\ th'[h] = "err"
    PROVE  HostInv(h)'
  <1> DEFINE d == cont[h]
  <1>1. HostInv(h) /\ UNCHANGED <<ctl, at, file, late, adrift, world>> /\ TypeOK
    BY DEF RolloutInv, Local
  <1>2. d \in [Container -> Status]
    BY <1>1, HostFacts
  <1>3. /\ ctl = "launch" /\ OldOf(h).name = "pre" /\ ~OldOf(h).run /\ NoAdrift(h) /\ Reached(h)
        /\ NewOf(h).name = "gone" /\ ~NewOf(h).run
    BY <1>1 DEF HostInv, Threads, RollingOut, Launching, Containers, NoAdrift, Op
  <1>4. /\ OldOf(h)' = OldOf(h) /\ (d["other"] = Gone => cont'[h]["other"] = Gone)
        /\ \/ NewOf(h)' = [name |-> "NAME", run |-> TRUE]
           \/ NewOf(h)' = NewOf(h) /\ th'[h] = "err"
    BY <1>2, <1>3, LaunchEffect DEF OldOf, NewOf, Container
  <1>5. th'[h] \in {"ok", "err"}
    OBVIOUS
  <1>6. Threads(h)'
    BY <1>5 DEF Threads, Op
  <1>7. Containers(h)'
    BY <1>1, <1>3, <1>4 DEF HostInv, Containers, NoAdrift
  <1>8. Commands(h)'
    <2>1. NoAdrift(h)' /\ \A op \in Op : <<h, op>> \notin late'
      BY <1>1, <1>3 DEF NoAdrift, TypeOK
    <2> QED BY <1>5, <2>1 DEF Commands, LateLaunch, Pending, NoAdrift, Op
  <1>9. RollingOut(h)'
    BY <1>1, <1>3, <1>4 DEF RollingOut, NoAdrift
  <1>10. Launching(h)' /\ ComingBack(h)'
    <2>1. ~Before(h) /\ ~Passed(h)
      BY <1>3, RolloutConstants DEF Before, Passed, Reached, RolloutConstants
    <2>2. ~Before(h)' /\ ~Passed(h)'
      BY <1>1, <2>1 DEF Before, Passed
    <2> QED BY <1>1, <1>3, <1>4, <1>5, <2>2 DEF Launching, ComingBack
  <1>11. Recorded(h)'
    BY <1>1, <1>3 DEF HostInv, Recorded
  <1> QED BY <1>6, <1>7, <1>8, <1>9, <1>10, <1>11 DEF HostInv

\* The commands of the rollout: docker stop, docker rename and launch.sh.
LEMMA RolloutDone ==
    ASSUME RolloutInv, NEW h \in Host, Done(h), th[h] \in {"stop", "renamePre", "launch"}
    PROVE  HostInv(h)'
  <1> DEFINE d == cont[h]
  <1>1. HostInv(h) /\ UNCHANGED <<ctl, at, file, late, adrift, world>> /\ TypeOK
    BY DEF RolloutInv, Done, Local
  <1>2. /\ d \in [Container -> Status] /\ OneName(d)
        /\ \A c \in Container : d[c].name \in Name /\ d[c].run \in BOOLEAN
    BY <1>1, HostFacts
  <1>3. th'[h] \in {"ok", "err"}
    BY DEF Done, After
  <1>4. th'[h] = "ok" => ~Refused(th[h], d)
    BY DEF Done
  <1>5. Threads(h)'
    BY <1>3 DEF Threads, Op
  <1>6. CASE th[h] = "stop"
    <2>0. cont'[h] = Effect("stop", d)
      BY <1>6 DEF Done
    <2>1. ctl = "stop" /\ OldOf(h).name = "NAME" /\ NewOf(h).name = "gone"
      BY <1>1, <1>6 DEF HostInv, Threads, RollingOut, Op
    <2>2. /\ \A c \in Container : cont'[h][c].name = d[c].name
          /\ cont'[h]["old"].run => d["old"].run /\ d["old"].name # "NAME"
          /\ \A c \in {"new", "other"} : d[c].name # "NAME" => cont'[h][c] = d[c]
      BY <1>2, <1>6, <2>0, StopEffect DEF Container
    <2>3. NewOf(h)' = NewOf(h) /\ OldOf(h)'.name = "NAME" /\ ~OldOf(h)'.run
          /\ cont'[h]["other"] = d["other"]
      BY <1>2, <2>1, <2>2 DEF OldOf, NewOf, OneName, Container
    <2>4. Containers(h)'
      BY <1>1, <2>3 DEF HostInv, Containers, NoAdrift, OldOf, NewOf
    <2>5. Commands(h)'
      BY <1>1, <1>3, <1>6, <2>1, <2>3 DEF HostInv, Commands, LateLaunch, OldOf, NewOf, Pending, Op
    <2>6. RollingOut(h)'
      BY <1>1, <1>3, <1>6, <2>1, <2>3 DEF HostInv, RollingOut, NoAdrift
    <2>7. Launching(h)' /\ ComingBack(h)'
      BY <1>1, <2>1 DEF Launching, ComingBack
    <2>8. Recorded(h)'
      BY <1>1, <2>1, <2>3 DEF HostInv, Recorded
    <2> QED BY <1>5, <2>4, <2>5, <2>6, <2>7, <2>8 DEF HostInv
  <1>7. CASE th[h] = "renamePre"
    <2>0. cont'[h] = Effect("renamePre", d)
      BY <1>7 DEF Done
    <2>1. ctl = "rename" /\ OldOf(h).name = "NAME" /\ NewOf(h).name = "gone" /\ ~OldOf(h).run
      BY <1>1, <1>7 DEF HostInv, Threads, RollingOut, Op
    <2>2. ASSUME NEW c \in Container
          PROVE  /\ cont'[h][c].run => d[c].run
                 /\ d[c].name # "NAME" \/ Taken(d, "pre") => cont'[h][c] = d[c]
                 /\ d[c].name = "NAME" /\ ~Taken(d, "pre") => cont'[h][c].name = "pre"
      BY <1>2, <2>0, RenameEffect
    <2>3. th'[h] = "ok" => ~Taken(d, "pre")
      BY <1>4, <1>7 DEF Refused
    <2>4. /\ NewOf(h)' = NewOf(h) /\ OldOf(h)'.name \in {"NAME", "pre"} /\ ~OldOf(h)'.run
          /\ cont'[h]["other"] = d["other"]
          /\ th'[h] = "ok" => OldOf(h)'.name = "pre"
      BY <1>2, <2>1, <2>2, <2>3 DEF OldOf, NewOf, OneName, Container
    <2>5. Containers(h)'
      BY <1>1, <2>1, <2>4 DEF HostInv, Containers, NoAdrift, OldOf, NewOf
    <2>6. Commands(h)'
      <3>1. NoAdrift(h)' /\ \A op \in Op : <<h, op>> \notin late'
        BY <1>1, <1>7 DEF HostInv, RollingOut, Threads, NoAdrift, TypeOK, Op
      <3> QED BY <1>3, <3>1 DEF Commands, LateLaunch, Pending, NoAdrift, Op
    <2>7. RollingOut(h)'
      BY <1>1, <1>3, <1>7, <2>1, <2>4 DEF HostInv, RollingOut, NoAdrift
    <2>8. Launching(h)' /\ ComingBack(h)'
      BY <1>1, <2>1 DEF Launching, ComingBack
    <2>9. Recorded(h)'
      BY <1>1, <2>1 DEF HostInv, Recorded
    <2> QED BY <1>5, <2>5, <2>6, <2>7, <2>8, <2>9 DEF HostInv
  <1>8. CASE th[h] = "launch"
    BY <1>8, LaunchDone DEF Done, After
  <1> QED BY <1>6, <1>7, <1>8

\* restore(), on all hosts: stop_new's inspect, docker stop and docker rename.
LEMMA StopNewDone ==
    ASSUME RolloutInv, NEW h \in Host, Done(h), th[h] \in {"inspect", "stopNew", "renameFailed"}
    PROVE  HostInv(h)'
  <1> DEFINE d == cont[h]
  <1>1. HostInv(h) /\ UNCHANGED <<ctl, at, file, late, adrift, world>> /\ TypeOK
    BY DEF RolloutInv, Done, Local
  <1>2. /\ d \in [Container -> Status] /\ OneName(d)
        /\ \A c \in Container : d[c].name \in Name /\ d[c].run \in BOOLEAN
    BY <1>1, HostFacts
  <1>3. ctl = "r_stop"
    BY <1>1 DEF HostInv, Threads, Op
  <1>4. th'[h] \in {"ok", "err", "stopNew", "renameFailed"}
    BY DEF Done, After, StopNew
  <1>5. Threads(h)'
    BY <1>1, <1>3, <1>4 DEF Threads, Op
  <1>6. RollingOut(h)' /\ Launching(h)' /\ ComingBack(h)' /\ Recorded(h)'
    BY <1>1, <1>3 DEF HostInv, RollingOut, Launching, ComingBack, Recorded
  <1>7. CASE th[h] = "inspect"
    <2>1. cont'[h] = d
      BY <1>2, <1>7, StartEffect DEF Done, Container
    <2>2. th'[h] \in {"ok", "err"} \/ (th'[h] = "stopNew" /\ NewOf(h).name = "NAME")
      BY <1>1, <1>7 DEF Done, After, StopNew, Taken, Named, Container, NewOf
    <2>3. Containers(h)'
      BY <1>1, <2>1 DEF HostInv, Containers, NoAdrift, OldOf, NewOf
    <2>4. Commands(h)'
      BY <1>1, <1>7, <2>1, <2>2 DEF HostInv, Commands, LateLaunch, OldOf, NewOf, Pending, Op
    <2> QED BY <1>5, <1>6, <2>3, <2>4 DEF HostInv
  <1>8. CASE th[h] = "stopNew"
    <2>0. cont'[h] = Effect("stopNew", d)
      BY <1>8 DEF Done
    <2>1. /\ \A c \in Container : cont'[h][c].name = d[c].name
          /\ \A c \in Container : cont'[h][c].run => d[c].run /\ d[c].name # "NAME"
          /\ \A c \in Container : d[c].name # "NAME" => cont'[h][c] = d[c]
      BY <1>2, <2>0, StopEffect
    <2>2. th'[h] \in {"err", "renameFailed"}
      BY <1>8 DEF Done, After
    <2>3. NewOf(h)'.name = NewOf(h).name /\ (OldOf(h)'.run => OldOf(h).run)
          /\ OldOf(h)'.name = OldOf(h).name /\ (OldOf(h) = Gone => OldOf(h)' = Gone) /\ ~NewOf(h)'.run
          /\ (d["other"] = Gone => cont'[h]["other"] = Gone)
      BY <1>1, <2>1 DEF OldOf, NewOf, Container, HostInv, Containers, Gone
    <2>4. Containers(h)'
      BY <1>1, <2>3 DEF HostInv, Containers, NoAdrift, OldOf, NewOf
    <2>5. Commands(h)'
      BY <1>1, <1>8, <2>2, <2>3 DEF HostInv, Commands, LateLaunch, OldOf, NewOf, Pending, Op
    <2> QED BY <1>5, <1>6, <2>4, <2>5 DEF HostInv
  <1>9. CASE th[h] = "renameFailed"
    <2>0. cont'[h] = Effect("renameFailed", d)
      BY <1>9 DEF Done
    <2>1. ASSUME NEW c \in Container
          PROVE  /\ cont'[h][c].run => d[c].run
                 /\ d[c].name # "NAME" \/ Taken(d, "failed") => cont'[h][c] = d[c]
                 /\ d[c].name = "NAME" /\ ~Taken(d, "failed") => cont'[h][c].name = "failed"
      BY <1>2, <2>0, RenameEffect
    <2>2. th'[h] \in {"err", "ok"}
      BY <1>9 DEF Done, After
    <2>3. NewOf(h).name \in {"NAME", "failed"} /\ ~NewOf(h).run
      BY <1>1, <1>9 DEF HostInv, Commands, LateLaunch, Pending
    <2>4. /\ NewOf(h)'.name \in {"NAME", "failed"} /\ ~NewOf(h)'.run
      BY <2>1, <2>3 DEF NewOf, Container
    <2>5. OldOf(h)' = OldOf(h)
      BY <1>1, <1>2, <2>1, <2>3 DEF OldOf, NewOf, Container, Taken, Named, OneName
    <2>6. d["other"] = Gone => cont'[h]["other"] = Gone
      BY <2>1 DEF Container, Gone
    <2>7. Containers(h)'
      BY <1>1, <2>3, <2>4, <2>5, <2>6 DEF HostInv, Containers, NoAdrift, OldOf, NewOf
    <2>8. \A op \in {"stop", "renamePre", "launch"} : <<h, op>> \notin late
      BY <1>1, <2>3 DEF HostInv, Commands, LateLaunch
    <2>9. Commands(h)'
      BY <1>1, <2>2, <2>4, <2>8 DEF HostInv, Commands, LateLaunch, Pending, Op
    <2> QED BY <1>5, <1>6, <2>7, <2>9 DEF HostInv
  <1> QED BY <1>7, <1>8, <1>9
\* restore(), host by host: the original is inspected, renamed and started.
LEMMA BackDone ==
    ASSUME RolloutInv, NEW h \in Host, Done(h),
           th[h] \in {"inspectOld", "renameBack", "renameBackStart", "start"}
    PROVE  HostInv(h)'
  <1> DEFINE d == cont[h]
  <1>1. HostInv(h) /\ UNCHANGED <<ctl, at, file, late, adrift, world>> /\ TypeOK
    BY DEF RolloutInv, Done, Local
  <1>2. /\ d \in [Container -> Status] /\ OneName(d)
        /\ \A c \in Container : d[c].name \in Name /\ d[c].run \in BOOLEAN
    BY <1>1, HostFacts
  <1>3. ctl = "r_back" /\ Reached(h)
    BY <1>1 DEF HostInv, Threads, Op
  <1>4. ~Passed(h)' /\ Reached(h)'
    BY <1>1, <1>3, RolloutConstants DEF Passed, Reached, RolloutConstants
  <1>5. \/ th'[h] \in {"ok", "err"}
        \/ th[h] = "inspectOld" /\ th'[h] \in {"renameBack", "renameBackStart", "start"}
        \/ th[h] = "renameBackStart" /\ th'[h] = "start"
    BY DEF Done, After, BringBack
  <1>6. Threads(h)'
    BY <1>1, <1>3, <1>4, <1>5 DEF Threads, Op
  <1>7. RollingOut(h)' /\ Launching(h)' /\ Recorded(h)'
    BY <1>1, <1>3 DEF HostInv, RollingOut, Launching, Recorded
  <1>8. d["old"].run \in BOOLEAN /\ (d["new"].name # "NAME" => ~d["new"].run)
    BY <1>1, <1>2 DEF Container, HostInv, Containers, NewOf
  \* What the command does: nothing to the new container; the original may get its
  \* name back, or run where the new container does not.
  <1>9. SUFFICES /\ cont'[h]["new"] = d["new"] /\ cont'[h]["other"] = d["other"]
                 /\ cont'[h]["old"].name \in {d["old"].name, "NAME"}
                 /\ d["old"].name = "gone" => cont'[h]["old"] = d["old"]
                 /\ cont'[h]["old"].run => d["old"].run \/ (th[h] = "start" /\ ~d["new"].run)
                 /\ th'[h] = "ok" => th[h] = "start" \/ cont'[h]["old"].name = "NAME"
                 /\ th'[h] = "start" => cont'[h]["old"].name = "NAME" /\ ~d["new"].run
    <2>1. Containers(h)'
      BY <1>1, <1>9 DEF HostInv, Containers, OldOf, NewOf, NoAdrift, Gone
    <2>2. LateLaunch(h)'
      BY <1>1, <1>8, <1>9 DEF HostInv, Commands, LateLaunch, OldOf, NewOf, Pending
    <2>3. Commands(h)'
      BY <1>1, <1>5, <1>9, <2>2 DEF HostInv, Commands, OldOf, NewOf, Pending, Op
    <2>4. th'[h] \in {"ok", "start"} => Back(h)'
      BY <1>1, <1>3, <1>9 DEF HostInv, ComingBack, Back, NoAdrift, OldOf
    <2> QED BY <1>1, <1>3, <1>4, <1>6, <1>7, <2>1, <2>3, <2>4 DEF HostInv, ComingBack
  <1>10. CASE th[h] = "inspectOld"
    <2>1. cont'[h] = d
      BY <1>2, <1>10, StartEffect DEF Done, Container
    <2>2. th'[h] \in {"ok", "start"} => d["old"].name = "NAME"
      BY <1>10 DEF Done, After, BringBack
    <2>3. th'[h] \in {"ok", "start"} => d["new"].name # "NAME"
      BY <1>2, <2>2 DEF OneName, Container
    <2> QED BY <1>8, <1>10, <2>1, <2>2, <2>3
  <1>11. CASE th[h] \in {"renameBack", "renameBackStart"}
    <2>1. cont'[h] = Effect(th[h], d)
      BY DEF Done
    <2>2. cont'[h]["new"] = d["new"] /\ cont'[h]["other"] = d["other"]
      BY <1>2, <1>11, <2>1, BackEffect DEF Container
    <2>3. \/ (Taken(d, "NAME") \/ d["old"].name = "gone") /\ cont'[h]["old"] = d["old"]
          \/ /\ ~Taken(d, "NAME") /\ d["old"].name # "gone"
             /\ cont'[h]["old"].name = "NAME" /\ (cont'[h]["old"].run => d["old"].run)
      BY <1>2, <1>11, <2>1, BackEffect DEF Container
    <2>4. th'[h] \in {"ok", "start"} => ~Taken(d, "NAME") /\ d["old"].name # "gone"
      BY <1>11 DEF Done, Refused
    <2>5. th'[h] \in {"ok", "start"} => d["new"].name # "NAME" /\ cont'[h]["old"].name = "NAME"
      BY <2>3, <2>4 DEF Taken, Named, Container
    <2> QED BY <1>8, <2>2, <2>3, <2>5
  <1>12. CASE th[h] = "start"
    <2>1. cont'[h] = Effect("start", d) /\ th'[h] \in {"ok", "err"}
      BY <1>5, <1>12 DEF Done
    <2>2. /\ cont'[h]["new"] = d["new"] /\ cont'[h]["other"] = d["other"]
          /\ cont'[h]["old"].name = d["old"].name
          /\ d["old"].name = "gone" => cont'[h]["old"] = d["old"]
      BY <1>2, <2>1, StartEffect DEF Container
    <2>3. ~d["new"].run \/ d["old"].name = "gone"
      BY <1>1, <1>12 DEF HostInv, Commands, Pending, NewOf, OldOf
    <2> QED BY <1>12, <2>1, <2>2, <2>3
  <1> QED BY <1>10, <1>11, <1>12

\* A command of a thread, answered or lost.
LEMMA CommandInv ==
    ASSUME RolloutInv, NEW h \in Host, Answered(h) \/ Lost(h)
    PROVE  RolloutInv'
  <1>1. TypeOK /\ th[h] \in Op /\ cont[h] \in [Container -> Status] /\ OneName(cont[h])
    BY HostFacts DEF RolloutInv, Answered, Lost
  <1>2. UNCHANGED <<ctl, at, file, late, adrift, world>> /\ faults' \in 0..MaxFaults
    BY <1>1, RolloutConstants DEF Answered, Lost, Fault, TypeOK, RolloutConstants
  <1>3. PICK x \in Op \cup {"idle", "ok", "err"} : th' = [th EXCEPT ![h] = x]
    <2>1. After(th[h], cont[h]) \in Op \cup {"idle", "ok", "err"}
      BY DEF After, StopNew, BringBack, Op
    <2> QED BY <2>1 DEF Answered, Lost
  <1>4. PICK d \in {cont[h]} \cup Outcomes(th[h], cont[h]) : cont' = [cont EXCEPT ![h] = d]
    <2>1. cont = [cont EXCEPT ![h] = cont[h]]
      BY <1>1 DEF TypeOK
    <2> QED BY <2>1 DEF Answered, Lost, Outcomes
  <1>5. d \in [Container -> Status] /\ OneName(d)
    BY <1>1, <1>4, EffectType
  <1>6. TypeOK'
    BY <1>1, <1>2, <1>3, <1>4, <1>5, LocalType DEF TypeOK
  <1>7. Local(h) /\ UNCHANGED <<late, adrift>>
    BY <1>1, <1>2, <1>3, <1>4 DEF Local, TypeOK
  <1>8. cont'[h] = d /\ th'[h] = x
    BY <1>1, <1>3, <1>4 DEF TypeOK
  <1>9. \/ cont'[h] = cont[h] /\ (th'[h] = "err" \/ (th[h] = "inspect" /\ th'[h] = "ok"))
        \/ Done(h)
        \/ th[h] = "launch" /\ cont'[h] = Removed(cont[h]) /\ th'[h] = "err"
    <2>1. CASE Answered(h) /\ Refused(th[h], cont[h])
      BY <1>1, <2>1 DEF Answered, TypeOK
    <2>2. CASE Answered(h) /\ ~Refused(th[h], cont[h])
      BY <1>1, <1>7, <2>2 DEF Answered, Done, TypeOK
    <2>3. CASE Lost(h) /\ th[h] # "inspect"
      <3>1. \/ d \in {cont[h], Effect(th[h], cont[h])}
            \/ th[h] = "launch" /\ d = Removed(cont[h])
        BY <1>4 DEF Outcomes
      <3>2. th'[h] = "err"
        BY <1>1, <2>3 DEF Lost, TypeOK
      <3> QED BY <1>1, <1>7, <1>8, <3>1, <3>2 DEF Done
    <2>4. CASE Lost(h) /\ th[h] = "inspect"
      <3>1. Outcomes(th[h], cont[h]) = {cont[h]}
        BY <2>4 DEF Outcomes, Effect
      <3>2. th'[h] \in {"ok", "err"}
        BY <1>1, <2>4 DEF Lost, TypeOK
      <3> QED BY <1>4, <1>8, <2>4, <3>1, <3>2
    <2> QED BY <2>1, <2>2, <2>3, <2>4
  <1>10. HostInv(h)'
    <2>1. CASE Done(h)
      BY <1>1, <2>1, RolloutDone, StopNewDone, BackDone DEF Op
    <2>2. CASE th[h] = "launch" /\ cont'[h] = Removed(cont[h]) /\ th'[h] = "err"
      BY <1>7, <2>2, LaunchDone
    <2>3. CASE cont'[h] = cont[h] /\ (th'[h] = "err" \/ (th[h] = "inspect" /\ th'[h] = "ok"))
      BY <1>1, <1>7, <2>3, NothingDone
    <2> QED BY <1>9, <2>1, <2>2, <2>3
  <1> QED BY <1>6, <1>7, <1>10, LocalInv
\* What a late command other than a launch can do to the containers of its host.
LEMMA LateEffect ==
    ASSUME RolloutInv, NEW h \in Host, NEW op \in Op \ {"launch"}, <<h, op>> \in late,
           cont'[h] = Effect(op, cont[h])
    PROVE  /\ cont'[h]["other"] = Gone
           /\ OldOf(h).name # "gone" => OldOf(h)'.name \in {"NAME", "pre"}
           /\ OldOf(h).name = "gone" => OldOf(h)' = OldOf(h)
           /\ ~(OldOf(h)'.run /\ NewOf(h)'.run)
           /\ NewOf(h)'.run => NewOf(h).run
           /\ NewOf(h)'.name = NewOf(h).name \/ (NewOf(h).name = "NAME" /\ NewOf(h)'.name = "failed")
           /\ NewOf(h)'.name # "NAME" => ~NewOf(h)'.run
           /\ op # "renamePre" => OldOf(h)'.name = OldOf(h).name \/ OldOf(h)'.name = "NAME"
           /\ op = "stop" => OldOf(h)'.name = OldOf(h).name
           /\ op # "start" => (OldOf(h)'.run => OldOf(h).run)
  <1> DEFINE d == cont[h]
  <1>1. HostInv(h) /\ TypeOK
    BY DEF RolloutInv
  <1>2. /\ d \in [Container -> Status] /\ OneName(d)
        /\ \A c \in Container : d[c].name \in Name /\ d[c].run \in BOOLEAN
    BY <1>1, HostFacts
  <1>3. d["other"] = Gone
    BY <1>1 DEF HostInv, Containers, NoAdrift, TypeOK
  <1>4. CASE op \in {"stop", "stopNew"}
    <2>1. \A c \in Container : /\ cont'[h][c].name = d[c].name
                               /\ cont'[h][c].run => d[c].run /\ d[c].name # "NAME"
                               /\ d[c].name # "NAME" => cont'[h][c] = d[c]
      BY <1>2, <1>4, StopEffect
    <2> QED BY <1>1, <1>3, <1>4, <2>1 DEF OldOf, NewOf, Container, HostInv, Containers, Gone
  <1>5. CASE op = "renamePre"
    <2>1. ASSUME NEW c \in Container
          PROVE  /\ cont'[h][c].run => d[c].run
                 /\ d[c].name # "NAME" => cont'[h][c] = d[c]
                 /\ cont'[h][c] = d[c] \/ cont'[h][c].name = "pre"
      BY <1>2, <1>5, RenameEffect
    <2>2. NewOf(h).name = "gone"
      BY <1>1, <1>5 DEF HostInv, Commands
    <2> QED BY <1>1, <1>3, <1>5, <2>1, <2>2 DEF OldOf, NewOf, Container, HostInv, Containers, Gone
  <1>6. CASE op = "renameFailed"
    <2>1. ASSUME NEW c \in Container
          PROVE  /\ cont'[h][c].run => d[c].run
                 /\ d[c].name # "NAME" \/ Taken(d, "failed") => cont'[h][c] = d[c]
                 /\ cont'[h][c] = d[c] \/ (d[c].name = "NAME" /\ cont'[h][c].name = "failed")
      BY <1>2, <1>6, RenameEffect
    <2>2. NewOf(h).name \in {"NAME", "failed"} /\ ~NewOf(h).run
      BY <1>1, <1>6 DEF HostInv, Commands, LateLaunch, Pending
    <2>3. OldOf(h)' = OldOf(h)
      BY <1>1, <1>2, <2>1, <2>2 DEF OldOf, NewOf, Container, Taken, Named, OneName
    <2> QED BY <1>1, <1>3, <1>6, <2>1, <2>2, <2>3 DEF NewOf, Container, HostInv, Containers, Gone
  <1>7. CASE op \in {"renameBack", "renameBackStart"}
    <2>1. /\ cont'[h]["new"] = d["new"] /\ cont'[h]["other"] = d["other"]
      BY <1>2, <1>7, BackEffect DEF Container
    <2>2. \/ cont'[h]["old"] = d["old"]
          \/ d["old"].name # "gone" /\ cont'[h]["old"].name = "NAME" /\ (cont'[h]["old"].run => d["old"].run)
      BY <1>2, <1>7, BackEffect DEF Container
    <2> QED BY <1>1, <1>3, <1>7, <2>1, <2>2 DEF OldOf, NewOf, HostInv, Containers, Gone
  <1>8. CASE op = "start"
    <2>1. /\ cont'[h]["new"] = d["new"] /\ cont'[h]["other"] = d["other"]
          /\ cont'[h]["old"].name = d["old"].name
          /\ d["old"].name = "gone" => cont'[h]["old"] = d["old"]
      BY <1>2, <1>8, StartEffect DEF Container
    <2>2. ~NewOf(h).run \/ OldOf(h).name = "gone"
      BY <1>1, <1>8 DEF HostInv, Commands, Pending
    <2> QED BY <1>1, <1>3, <1>8, <2>1, <2>2 DEF OldOf, NewOf, HostInv, Containers, Gone
  <1>9. CASE op \in {"inspect", "inspectOld"}
    <2>1. cont'[h] = d
      BY <1>2, <1>9, StartEffect DEF Container
    <2> QED BY <1>1, <1>3, <1>9, <2>1 DEF OldOf, NewOf, HostInv, Containers, Gone
  <1> QED BY <1>4, <1>5, <1>6, <1>7, <1>8, <1>9 DEF Op

\* What a launch that takes effect late does to them, whether it gets to docker run
\* or only to docker rm.
LEMMA LateLaunchEffect ==
    ASSUME RolloutInv, NEW h \in Host, <<h, "launch">> \in late,
           cont'[h] \in Outcomes("launch", cont[h])
    PROVE  /\ cont'[h]["other"] = Gone
           /\ NewOf(h)' \in {[name |-> "NAME", run |-> TRUE], NewOf(h)}
           /\ OldOf(h).name = "NAME" => OldOf(h)' = Gone
           /\ OldOf(h).name # "NAME" => OldOf(h)' = OldOf(h)
  <1> DEFINE d == cont[h]
  <1>1. HostInv(h) /\ TypeOK
    BY DEF RolloutInv
  <1>2. d \in [Container -> Status] /\ d["other"] = Gone /\ d["new"].name = "gone"
    BY <1>1, HostFacts DEF HostInv, Containers, Commands, LateLaunch, NewOf, NoAdrift, Op, TypeOK
  <1>3. ASSUME NEW c \in Container
        PROVE  \/ cont'[h][c] = IF d[c].name = "NAME" THEN Gone ELSE d[c]
               \/ c = "new" /\ cont'[h][c] = [name |-> "NAME", run |-> TRUE]
    <2>1. cont'[h] \in {Effect("launch", d), Removed(d)}
      BY DEF Outcomes
    <2> QED BY <1>2, <2>1, LaunchEffect
  <1> QED BY <1>2, <1>3 DEF OldOf, NewOf, Container, Gone

\* A command that was cut off takes effect.
LEMMA TakesEffectInv ==
    ASSUME RolloutInv, NEW h \in Host, NEW op \in Op, TakesEffect(h, op)
    PROVE  RolloutInv'
  <1>1. /\ <<h, op>> \in late /\ late' = late \ {<<h, op>>}
        /\ UNCHANGED <<ctl, th, at, file, adrift, faults, world>>
    BY DEF TakesEffect
  <1>2. PICK d \in Outcomes(op, cont[h]) : cont' = [cont EXCEPT ![h] = d]
    BY DEF TakesEffect
  <1>3. HostInv(h) /\ TypeOK
    BY DEF RolloutInv
  <1>4. cont[h] \in [Container -> Status] /\ OneName(cont[h]) /\ th[h] \in Op \cup {"idle", "ok", "err"}
    BY <1>3, HostFacts
  <1>5. TypeOK'
    <2>1. d \in [Container -> Status] /\ OneName(d)
      BY <1>2, <1>4, EffectType
    <2>2. /\ th' = [th EXCEPT ![h] = th[h]] /\ faults' \in 0..MaxFaults
          /\ late' \subseteq adrift' /\ adrift' \subseteq Host \X Op
      BY <1>1, <1>3 DEF TypeOK
    <2> QED BY <1>1, <1>2, <1>3, <1>4, <2>1, <2>2, LocalType
  <1>6. Local(h) /\ cont'[h] = d
    BY <1>1, <1>2, <1>3 DEF Local, TypeOK
  <1>7. <<h, op>> \in adrift /\ ~NoAdrift(h) /\ world = "late"
    BY <1>1, <1>3 DEF NoAdrift, HostInv, Containers, TypeOK
  <1>8. /\ ctl \notin {"idle", "saving", "saved", "health", "verify", "upgraded"}
        /\ ctl = "stop" => op = "stop" /\ th[h] = "err"
        /\ ctl = "rename" => op = "renamePre" /\ th[h] = "err"
        /\ ctl = "launch" => op = "launch" /\ th[h] = "err" /\ Reached(h)
    BY <1>3, <1>7 DEF HostInv, RollingOut
  <1>9. Threads(h)'
    BY <1>1, <1>3 DEF HostInv, Threads, Reached
  <1>10. Launching(h)'
    <2>1. ctl = "launch" => ~Before(h) /\ ~Passed(h)
      BY <1>8, RolloutConstants DEF Before, Passed, Reached, RolloutConstants
    <2> QED BY <1>1, <1>8, <2>1 DEF Launching, Before, Passed, Reached
  <1>11. ComingBack(h)' /\ Recorded(h)'
    BY <1>1, <1>3, <1>7 DEF HostInv, ComingBack, Back, Recorded, NoAdrift
  <1>12. SUFFICES Containers(h)' /\ Commands(h)' /\ RollingOut(h)'
    BY <1>5, <1>6, <1>9, <1>10, <1>11, LocalInv DEF HostInv
  <1>13. CASE op = "launch"
    <2>1. /\ cont'[h]["other"] = Gone
          /\ NewOf(h)' \in {[name |-> "NAME", run |-> TRUE], NewOf(h)}
          /\ OldOf(h).name = "NAME" => OldOf(h)' = Gone
          /\ OldOf(h).name # "NAME" => OldOf(h)' = OldOf(h)
      BY <1>1, <1>2, <1>6, <1>13, LateLaunchEffect
    <2>2. /\ NewOf(h).name = "gone" /\ ~NewOf(h).run
          /\ OldOf(h).name = "NAME" \/ (OldOf(h).name = "pre" /\ ~OldOf(h).run)
          /\ Pending(h, "start") => OldOf(h).name = "NAME"
      BY <1>1, <1>3, <1>13 DEF HostInv, Commands, LateLaunch, Containers
    <2>3. Containers(h)'
      BY <1>1, <1>3, <1>7, <1>13, <2>1, <2>2 DEF HostInv, Containers, NoAdrift, Gone
    <2>4. Commands(h)'
      <3>1. \A p \in Op : Pending(h, p)' => Pending(h, p)
        BY <1>1 DEF Pending
      <3>2. <<h, "launch">> \notin late' /\ <<h, "launch">> \in adrift
        BY <1>1, <1>7, <1>13
      <3>3. <<h, "stop">> \notin late' /\ <<h, "renamePre">> \notin late'
        BY <1>1, <1>3, <3>2 DEF HostInv, Commands
      <3>4. ~Pending(h, "stopNew") /\ ~Pending(h, "renameFailed")
        BY <1>3, <2>2 DEF HostInv, Commands
      <3>5. Pending(h, "start")' => OldOf(h)'.name = "gone"
        BY <2>1, <2>2, <3>1 DEF Op, Gone
      <3>6. ~Pending(h, "stopNew")' /\ ~Pending(h, "renameFailed")'
        BY <3>1, <3>4 DEF Op
      <3> QED BY <1>7, <3>2, <3>3, <3>5, <3>6, <1>1 DEF Commands, LateLaunch
    <2>5. RollingOut(h)'
      BY <1>1, <1>3, <1>8, <1>13, <2>1 DEF HostInv, RollingOut, Reached
    <2> QED BY <2>3, <2>4, <2>5
  <1>14. CASE op # "launch"
    <2>1. cont'[h] = Effect(op, cont[h])
      BY <1>2, <1>6, <1>14 DEF Outcomes
    <2>2. /\ cont'[h]["other"] = Gone
          /\ OldOf(h).name # "gone" => OldOf(h)'.name \in {"NAME", "pre"}
          /\ OldOf(h).name = "gone" => OldOf(h)' = OldOf(h)
          /\ ~(OldOf(h)'.run /\ NewOf(h)'.run)
          /\ NewOf(h)'.run => NewOf(h).run
          /\ NewOf(h)'.name = NewOf(h).name \/ (NewOf(h).name = "NAME" /\ NewOf(h)'.name = "failed")
          /\ NewOf(h)'.name # "NAME" => ~NewOf(h)'.run
          /\ op # "renamePre" => OldOf(h)'.name = OldOf(h).name \/ OldOf(h)'.name = "NAME"
          /\ op = "stop" => OldOf(h)'.name = OldOf(h).name
          /\ op # "start" => (OldOf(h)'.run => OldOf(h).run)
      BY <1>1, <1>14, <2>1, LateEffect
    <2>3. Containers(h)'
      BY <1>1, <1>3, <1>7, <2>2 DEF HostInv, Containers, NoAdrift, Gone
    <2>4. Commands(h)'
      <3>1. \A p \in Op : Pending(h, p)' => Pending(h, p)
        BY <1>1 DEF Pending
      <3>2. LateLaunch(h)'
        <4> SUFFICES ASSUME <<h, "launch">> \in late'
                     PROVE  /\ NewOf(h)'.name = "gone"
                            /\ OldOf(h)'.name = "NAME" \/ (OldOf(h)'.name = "pre" /\ ~OldOf(h)'.run)
                            /\ Pending(h, "start")' => OldOf(h)'.name = "NAME"
          BY DEF LateLaunch
        <4>1. <<h, "launch">> \in late /\ <<h, "launch">> \in adrift
          BY <1>1, <1>3 DEF TypeOK
        <4>2. /\ NewOf(h).name = "gone"
              /\ OldOf(h).name = "NAME" \/ (OldOf(h).name = "pre" /\ ~OldOf(h).run)
              /\ Pending(h, "start") => OldOf(h).name = "NAME"
          BY <1>3, <4>1 DEF HostInv, Commands, LateLaunch
        <4>3. op # "renamePre" /\ (op = "start" => Pending(h, "start"))
          BY <1>1, <1>3, <4>1 DEF HostInv, Commands, Pending
        <4> QED BY <2>2, <3>1, <4>2, <4>3 DEF Op
      <3>3. <<h, "stop">> \in late' \/ <<h, "renamePre">> \in late' =>
               NewOf(h)'.name = "gone" /\ <<h, "launch">> \notin adrift'
        BY <1>1, <1>3, <2>2 DEF HostInv, Commands
      <3> QED BY <1>1, <1>3, <1>7, <2>2, <3>1, <3>2, <3>3 DEF HostInv, Commands, Op
    <2>5. RollingOut(h)'
      BY <1>1, <1>3, <1>8, <1>14, <2>2 DEF HostInv, RollingOut, Reached
    <2> QED BY <2>3, <2>4, <2>5
  <1> QED BY <1>13, <1>14

\* From d to e the original and the new container keep their names; they may exit.
NoneRenamed(d, e) ==
    \A c \in {"old", "new"} : e[c].name = d[c].name /\ (e[c].run => d[c].run)

\* A rank exits, or somebody starts a container where the name is free.
LEMMA ExitsForeignInv ==
    ASSUME RolloutInv, NEW h \in Host, (\E c \in Container : Exits(h, c)) \/ Foreign(h)
    PROVE  RolloutInv'
  <1> DEFINE d == cont'[h]
  <1>1. HostInv(h) /\ TypeOK
    BY DEF RolloutInv
  <1>2. cont[h] \in [Container -> Status] /\ OneName(cont[h]) /\ th[h] \in Op \cup {"idle", "ok", "err"}
    BY <1>1, HostFacts
  <1>3. UNCHANGED <<ctl, th, at, file, late, adrift, world>> /\ faults' \in 0..MaxFaults
    BY <1>1, RolloutConstants DEF Exits, Foreign, Fault, TypeOK, RolloutConstants
  <1>4. /\ cont' = [cont EXCEPT ![h] = d] /\ d \in [Container -> Status] /\ OneName(d)
        /\ NoneRenamed(cont[h], d) /\ (cont[h]["old"] = Gone => d["old"] = Gone)
        /\ world = "late" /\ cont[h]["other"] = Gone => d["other"] = Gone
    <2>1. CASE \E c \in Container : Exits(h, c)
      <3>1. PICK c \in Container :
               cont[h][c].run /\ cont' = [cont EXCEPT ![h] = [cont[h] EXCEPT ![c].run = FALSE]]
        BY <1>1, <2>1 DEF Exits, TypeOK
      <3>2. d = [cont[h] EXCEPT ![c].run = FALSE]
        BY <1>1, <3>1 DEF TypeOK
      <3>3. \A e \in Container : d[e].name = cont[h][e].name /\ (d[e].run => cont[h][e].run)
        BY <1>2, <3>2 DEF Status
      <3>4. d \in [Container -> Status]
        BY <1>2, <3>2 DEF Status
      <3>5. \A e \in {"old", "other"} : cont[h][e] = Gone => d[e] = Gone
        BY <1>2, <3>1, <3>2 DEF Gone, Container
      <3>6. OneName(d) /\ NoneRenamed(cont[h], d)
        BY <1>2, <3>3 DEF OneName, NoneRenamed, Container
      <3> QED BY <3>1, <3>2, <3>4, <3>5, <3>6
    <2>2. CASE Foreign(h)
      <3>1. /\ cont' = [cont EXCEPT ![h] = [cont[h] EXCEPT !["other"] = [name |-> "NAME", run |-> TRUE]]]
            /\ ~Taken(cont[h], "NAME") /\ world = "foreign"
        BY <1>1, <2>2 DEF Foreign, TypeOK
      <3>2. d = [cont[h] EXCEPT !["other"] = [name |-> "NAME", run |-> TRUE]]
        BY <1>1, <3>1 DEF TypeOK
      <3>3. d \in [Container -> Status] /\ NoneRenamed(cont[h], d) /\ d["old"] = cont[h]["old"]
        BY <1>2, <3>2 DEF Status, Name, NoneRenamed, Container
      <3>4. OneName(d)
        BY <1>2, <3>1, <3>2 DEF OneName, Taken, Named, Container
      <3> QED BY <3>1, <3>2, <3>3, <3>4
    <2> QED BY <2>1, <2>2
  <1>5. TypeOK'
    <2>1. th' = [th EXCEPT ![h] = th[h]] /\ late' \subseteq adrift' /\ adrift' \subseteq Host \X Op
      BY <1>1, <1>3 DEF TypeOK
    <2> HIDE DEF d
    <2> QED BY <1>1, <1>2, <1>3, <1>4, <2>1, LocalType
  <1>6. Local(h)
    BY <1>1, <1>3, <1>4 DEF Local, TypeOK
  <1>7. HostInv(h)'
    <2>1. /\ OldOf(h)'.name = OldOf(h).name /\ (OldOf(h)'.run => OldOf(h).run)
          /\ NewOf(h)'.name = NewOf(h).name /\ (NewOf(h)'.run => NewOf(h).run)
          /\ OldOf(h) = Gone => OldOf(h)' = Gone
          /\ world = "late" /\ cont[h]["other"] = Gone => cont'[h]["other"] = Gone
      BY <1>4 DEF OldOf, NewOf, NoneRenamed
    <2>2. Threads(h)'
      BY <1>1, <1>3 DEF HostInv, Threads, Reached
    <2>3. Containers(h)'
      BY <1>1, <1>3, <2>1 DEF HostInv, Containers, NoAdrift
    <2>4. Commands(h)'
      BY <1>1, <1>3, <2>1 DEF HostInv, Commands, LateLaunch, Pending
    <2>5. RollingOut(h)'
      BY <1>1, <1>3, <2>1 DEF HostInv, RollingOut, NoAdrift, Reached
    <2>6. Launching(h)' /\ ComingBack(h)' /\ Recorded(h)'
      BY <1>1, <1>3, <2>1 DEF HostInv, Launching, ComingBack, Recorded, Back, NoAdrift,
         Before, Reached, Passed
    <2> QED BY <2>2, <2>3, <2>4, <2>5, <2>6 DEF HostInv
  <1> QED BY <1>5, <1>6, <1>7, LocalInv
----------------------------------------------------------------------------
(* The theorems *)

LEMMA InitInv == Init => RolloutInv
  <1> SUFFICES ASSUME Init PROVE RolloutInv
    OBVIOUS
  <1>1. TypeOK
    BY RolloutConstants DEF Init, TypeOK, Gone, Container, Name, RolloutConstants
  <1>2. ASSUME NEW h \in Host PROVE HostInv(h)
    <2>1. /\ OldOf(h) = [name |-> "NAME", run |-> TRUE] /\ NewOf(h) = Gone
          /\ cont[h]["other"] = Gone /\ th[h] = "idle" /\ NoAdrift(h) /\ ctl = "idle"
      BY DEF Init, OldOf, NewOf, Container, NoAdrift
    <2>2. Threads(h) /\ Containers(h)
      BY <2>1 DEF Threads, Containers, Gone, Op
    <2>3. Commands(h)
      BY <2>1, <1>1 DEF Commands, LateLaunch, Pending, NoAdrift, TypeOK, Op
    <2>4. RollingOut(h) /\ Launching(h) /\ ComingBack(h) /\ Recorded(h)
      BY <2>1 DEF RollingOut, Launching, ComingBack, Recorded, Gone
    <2> QED BY <2>2, <2>3, <2>4 DEF HostInv
  <1> QED BY <1>1, <1>2 DEF RolloutInv, Init

LEMMA NextInv ==
    ASSUME RolloutInv, [Next]_vars
    PROVE  RolloutInv'
  <1>1. CASE UNCHANGED vars
    <2>1. UNCHANGED <<cont, ctl, th, at, file, late, adrift, faults, world>>
      BY <1>1 DEF vars
    <2>2. TypeOK'
      BY <2>1 DEF RolloutInv, TypeOK
    <2>3. ASSUME NEW h \in Host PROVE HostInv(h)'
      BY <2>1, ZenonT(40) DEF RolloutInv, HostInv, Threads, Containers, Commands, LateLaunch,
         RollingOut, Launching, ComingBack,
         Recorded, Back, Before, Reached, Passed, Pending, NoAdrift, OldOf, NewOf
    <2> QED BY <2>1, <2>2, <2>3 DEF RolloutInv
  <1>2. CASE Controller \/ Rerun
    BY <1>2, PhaseInv, EverywhereInv, BeginInv, NextHostInv DEF Controller
  <1>3. CASE Killed
    BY <1>3, KilledInv
  <1>4. CASE \E h \in Host : Answered(h) \/ Lost(h) \/ CutOff(h) \/ Foreign(h) \/ \E c \in Container : Exits(h, c)
    <2>1. PICK h \in Host : Answered(h) \/ Lost(h) \/ CutOff(h) \/ Foreign(h) \/ \E c \in Container : Exits(h, c)
      BY <1>4
    <2> QED BY <2>1, CommandInv, CutOffInv, ExitsForeignInv
  <1>5. CASE \E h \in Host, op \in Op : TakesEffect(h, op)
    BY <1>5, TakesEffectInv
  <1> QED BY <1>1, <1>2, <1>3, <1>4, <1>5 DEF Next, Over

\* The inductive invariant holds in every behaviour of the specification.
THEOREM RolloutInvariant == Spec => []RolloutInv
  <1>1. RolloutInv /\ [Next]_vars => RolloutInv'
    BY NextInv
  <1> QED BY <1>1, InitInv, PTL DEF Spec

\* However a rollout or a restore is interrupted, the original container of every
\* host on which no launch was cut off is kept, and while one is not under its own name
\* the record --restore needs is complete: main() and restore() of rollout.py, launch.sh.
THEOREM OriginalsAreKept == Spec => []OriginalsOK
  <1>1. RolloutInv => OriginalsOK
    <2> SUFFICES ASSUME RolloutInv PROVE OriginalsOK
      OBVIOUS
    <2>1. ASSUME NEW h \in Host
          PROVE  /\ <<h, "launch">> \notin adrift => cont[h]["old"].name # "gone"
                 /\ cont[h]["old"].name # "NAME" => file = "whole"
      BY DEF RolloutInv, HostInv, Containers, Recorded, OldOf
    <2> QED BY <2>1 DEF RolloutInv, OriginalsOK, OriginalsKept, RecordSaved
  <1> QED BY <1>1, RolloutInvariant, PTL

\* The original and the new container never run on a host at the same time.
THEOREM NeverBothRun == Spec => []NeverBoth
  <1>1. RolloutInv => NeverBoth
    BY DEF RolloutInv, HostInv, Containers, NeverBoth, OldOf, NewOf
  <1> QED BY <1>1, RolloutInvariant, PTL

\* A rollout that reports success has put the new container under the name on every
\* host and left the original stopped beside it; a restore that does, has put the
\* original under the name and left the new container stopped wherever no command was
\* cut off: parallel(), the launches and restore() raise at the first failure.
THEOREM SuccessIsTrue == Spec => SuccessIsUniform
  <1> DEFINE Uniform ==
               /\ ctl' = "upgraded" /\ ctl # "upgraded" =>
                     \A h \in Host : /\ cont[h]["new"].name = "NAME"
                                     /\ cont[h]["old"] = [name |-> "pre", run |-> FALSE]
               /\ ctl' = "restored" /\ ctl # "restored" =>
                     \A h \in Host : (\A op \in Op : <<h, op>> \notin adrift) =>
                         cont[h]["old"].name = "NAME" /\ ~cont[h]["new"].run
  <1>1. ASSUME RolloutInv, [Next]_vars PROVE [Uniform]_vars
    <2>1. ctl' \in {"upgraded", "restored"} /\ ctl' # ctl => Report \/ RestoreReport
      BY <1>1 DEF Next, vars, Controller, BeginSave, Save, BaselineFails, BeginStop, BeginRename, BeginLaunch,
         NextLaunch, Healthy, GiveUp, BeginRestore, BeginBack, NextBack, RestoreHealthy, RestoreFails, Rerun,
         Killed, Over, Answered, Lost, CutOff, Foreign, Exits, TakesEffect
    <2>2. ASSUME NEW h \in Host
          PROVE  /\ HostInv(h) /\ OneName(cont[h])
                 /\ cont[h]["old"] = [name |-> OldOf(h).name, run |-> OldOf(h).run]
                 /\ OldOf(h).run \in BOOLEAN
      BY <1>1, HostFacts DEF RolloutInv, Status, Container, OldOf
    <2>3. CASE Report
      <3>1. ASSUME NEW h \in Host
            PROVE  /\ cont[h]["new"].name = "NAME"
                   /\ cont[h]["old"] = [name |-> "pre", run |-> FALSE]
        <4>1. NewOf(h).name = "NAME" /\ OldOf(h).name = "pre" /\ ~OldOf(h).run
          BY <2>2, <2>3 DEF Report, HostInv, RollingOut
        <4> QED BY <2>2, <4>1 DEF NewOf
      <3> QED BY <2>3, <3>1 DEF Report
    <2>4. CASE RestoreReport
      <3>1. ASSUME NEW h \in Host, NoAdrift(h)
            PROVE  cont[h]["old"].name = "NAME" /\ ~cont[h]["new"].run
        <4>1. OldOf(h).name = "NAME"
          BY <2>2, <2>4, <3>1 DEF RestoreReport, HostInv, ComingBack, Back
        <4>2. NewOf(h).name # "NAME"
          BY <2>2, <4>1 DEF OneName, OldOf, NewOf, Container
        <4> QED BY <2>2, <4>1, <4>2 DEF HostInv, Containers, OldOf, NewOf
      <3> QED BY <2>4, <3>1 DEF RestoreReport, NoAdrift
    <2> QED BY <2>1, <2>3, <2>4
  <1>2. Spec => [][Uniform]_vars
    BY <1>1, RolloutInvariant, PTL DEF Spec
  <1> QED BY <1>2 DEF SuccessIsUniform

\* restore() neither stops nor renames a container somebody else started: stop_new's
\* inspect looks at the label, and nobody can take the name before its two commands.
THEOREM OthersAreUntouched == Spec => OthersUntouched
  <1> DEFINE Untouched ==
               late' = late /\ faults' = faults /\ ctl \in Restoring =>
                  \A h \in Host : cont[h]["other"].name = "NAME" => cont'[h]["other"] = cont[h]["other"]
  <1>1. ASSUME RolloutInv, [Next]_vars PROVE [Untouched]_vars
    <2> SUFFICES ASSUME late' = late, faults' = faults, ctl \in Restoring,
                        NEW g \in Host, cont[g]["other"].name = "NAME", cont' # cont
                 PROVE  cont'[g]["other"] = cont[g]["other"]
      OBVIOUS
    <2>1. faults \in Nat /\ TypeOK /\ HostInv(g)
      BY <1>1, RolloutConstants DEF RolloutInv, TypeOK, RolloutConstants
    <2>2. PICK h \in Host : Answered(h)
      <3>1. ~Controller /\ ~Rerun /\ ~Killed /\ ~Over /\ ~UNCHANGED vars
        BY DEF Controller, BeginSave, Save, BaselineFails, BeginStop, BeginRename, BeginLaunch, NextLaunch,
           Healthy, Report, GiveUp, BeginBack, NextBack, RestoreHealthy, RestoreReport, RestoreFails, Rerun,
           Killed, Over, vars
      <3>2. ASSUME NEW h \in Host PROVE ~Lost(h) /\ ~CutOff(h) /\ ~Foreign(h)
        BY <2>1 DEF Lost, CutOff, Foreign, Fault
      <3>3. ASSUME NEW h \in Host, NEW c \in Container PROVE ~Exits(h, c)
        BY <2>1 DEF Exits, Fault
      <3>4. ASSUME NEW h \in Host, NEW op \in Op PROVE ~TakesEffect(h, op)
        BY DEF TakesEffect
      <3> QED BY <1>1, <3>1, <3>2, <3>3, <3>4 DEF Next
    <2>3. CASE g # h
      BY <2>1, <2>2, <2>3 DEF Answered, TypeOK
    <2>4. CASE g = h
      <3>1. th[g] \in Op /\ cont'[g] \in {cont[g], Effect(th[g], cont[g])}
        BY <2>1, <2>2, <2>4 DEF Answered, TypeOK
      <3>2. cont[g] \in [Container -> Status] /\ OneName(cont[g])
        BY <2>1, HostFacts
      <3>3. world = "foreign" /\ NewOf(g).name # "NAME"
        BY <2>1, <3>2 DEF HostInv, Containers, Gone, TypeOK, OneName, NewOf, Container
      <3>4. th[g] \in {"inspect", "inspectOld", "renameBack", "renameBackStart", "start"}
        BY <2>1, <3>1, <3>3 DEF HostInv, Threads, Commands, Restoring, Op
      <3>5. Effect(th[g], cont[g])["other"] = cont[g]["other"]
        BY <3>2, <3>4, BackEffect, StartEffect DEF Container
      <3> QED BY <3>1, <3>5
    <2> QED BY <2>3, <2>4
  <1>2. Spec => [][Untouched]_vars
    BY <1>1, RolloutInvariant, PTL DEF Spec
  <1> QED BY <1>2 DEF OthersUntouched
============================================================================
