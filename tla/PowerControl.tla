------------------------------ MODULE PowerControl ------------------------------
(***************************************************************************)
(* spark-idle.sh: switching the ring adapters of all nodes off and on under *)
(* a serving stack.  Before --down the NCCL plugin of every node is         *)
(* quiesced in two phases (prepare everywhere, then commit everywhere); the *)
(* OFF script removes the PCIe functions and cuts power, optionally behind  *)
(* a dead-man timer; --up powers up, verifies the ring and resumes the      *)
(* plugins.  --suspend and --resume are the plugin steps alone.             *)
(*                                                                          *)
(* The script runs a command on all nodes in parallel and waits for all of  *)
(* them.  An answer may be lost after the command ran or before.  The       *)
(* script may be interrupted anywhere; the node scripts it started go on.   *)
(* The next invocation starts when those have ended.                        *)
(***************************************************************************)
EXTENDS Naturals, FiniteSets

CONSTANT HOSTS

ASSUME PowerConstants == IsFiniteSet(HOSTS) /\ HOSTS # {}

VARIABLES
    plugin,    \* host -> state of the plugin process there
    adapter,   \* host -> its functions, its power and the restore timer
    cmd,       \* "idle", or the verb being executed
    phase,     \* the step of it
    PHOSTS,    \* hosts whose plugin answered "status"
    th,        \* host -> the step its command is at, or how it ended
    timed,     \* --restore-after was given
    blind      \* the last --down had no plugin to quiesce: none answered, or --no-plugin

vars == <<plugin, adapter, cmd, phase, PHOSTS, th, timed, blind>>

PluginState == {"absent", "active", "prepared", "suspended", "failed"}
NodeStep == {"arm", "remove", "cut", "disarm", "power"}   \* steps of OFF and ON_A on a node
PluginPhase == {"prepare", "unprepare", "commit", "resume"}

TypeOK ==
    /\ plugin \in [HOSTS -> PluginState]
    /\ adapter \in [HOSTS -> [fns : BOOLEAN, power : BOOLEAN, timer : BOOLEAN]]
    /\ cmd \in {"idle", "down", "up", "suspend", "resume"}
    /\ phase \in {"none", "probe", "off", "on_a", "on_b"} \cup PluginPhase
    /\ PHOSTS \subseteq HOSTS
    /\ th \in [HOSTS -> NodeStep \cup {"idle", "ask", "ping", "ok", "err"}]
    /\ timed \in BOOLEAN /\ blind \in BOOLEAN
    \* an answer is awaited only by the step that asked
    /\ cmd = "idle" <=> phase = "none"
    /\ \A h \in HOSTS : th[h] = "ask" => phase \in PluginPhase

Adapter(f, w, t) == [fns |-> f, power |-> w, timer |-> t]
On(h) == adapter[h].power /\ adapter[h].fns

\* The stack serves, with the plugin on every node or without it.
Init ==
    /\ plugin \in {[h \in HOSTS |-> "active"], [h \in HOSTS |-> "absent"]}
    /\ adapter = [h \in HOSTS |-> Adapter(TRUE, TRUE, FALSE)]
    /\ cmd = "idle" /\ phase = "none" /\ PHOSTS = {} /\ th = [h \in HOSTS |-> "idle"]
    /\ timed = FALSE /\ blind = FALSE

----------------------------------------------------------------------------
(* The plugin's control endpoint: the state it goes to on a verb, which is   *)
(* also its answer.  A verb runs to completion before it answers.            *)

Verb == IF phase = "unprepare" THEN "resume" ELSE phase

\* prepare is refused while a collective is in flight; a suspended process can
\* only re-connect over a ring that is up.
Answers(h, verb) ==
    LET s == plugin[h] IN
    IF verb = "prepare" /\ s = "active" THEN {"active", "prepared"}
    ELSE IF verb = "commit" /\ s = "prepared" THEN {"suspended", "failed"}
    ELSE IF verb = "resume" /\ s = "prepared" THEN {"active"}
    ELSE IF verb = "resume" /\ s = "suspended"
         THEN IF \A g \in HOSTS : On(g) THEN {"active", "failed"} ELSE {"suspended", "failed"}
    ELSE {s}

\* The state(s) plugin_all expects.
Wanted ==
    IF phase = "prepare" THEN {"prepared", "suspended"}
    ELSE IF phase = "unprepare" THEN {"active", "suspended"}
    ELSE IF phase = "commit" THEN {"suspended"} ELSE {"active"}

----------------------------------------------------------------------------
(* The script.                                                              *)

Ended == \A h \in HOSTS : th[h] \in {"idle", "ok", "err"}
Succeeded == Ended /\ \A h \in HOSTS : th[h] # "err"

Start(p, H, step) == phase' = p /\ th' = [h \in HOSTS |-> IF h \in H THEN step ELSE "idle"]
Exit == cmd' = "idle" /\ phase' = "none" /\ UNCHANGED th

\* An invocation; --down and --up may be given --no-plugin.
Invoke ==
    /\ cmd = "idle" /\ Ended
    /\ \/ cmd' \in {"suspend", "resume", "down"} /\ phase' = "probe" /\ UNCHANGED th
       \/ cmd' = "down" /\ Start("off", HOSTS, "arm")
       \/ cmd' = "up" /\ Start("on_a", HOSTS, "disarm")
    /\ timed' \in (IF cmd' = "down" THEN BOOLEAN ELSE {FALSE})
    /\ blind' = IF cmd' = "down" THEN phase' = "off" ELSE blind
    /\ UNCHANGED <<plugin, adapter, PHOSTS>>

\* plugin_hosts: the nodes whose plugin answers; not every one that is there may.
Probed == PHOSTS' \in SUBSET {h \in HOSTS : plugin[h] # "absent"}

\* No plugin anywhere: --down goes on, the others have nothing to do.
ProbeNone ==
    /\ phase = "probe" /\ Probed /\ PHOSTS' = {}
    /\ IF cmd = "down" THEN Start("off", HOSTS, "arm") /\ blind' = TRUE /\ UNCHANGED cmd
       ELSE Exit /\ UNCHANGED blind
    /\ UNCHANGED <<plugin, adapter, timed>>

\* Some answered and some did not: nothing is quiesced or powered off.
ProbeSome ==
    /\ phase = "probe" /\ cmd \in {"down", "suspend"} /\ Probed /\ PHOSTS' \notin {{}, HOSTS}
    /\ Exit
    /\ UNCHANGED <<plugin, adapter, timed, blind>>

ProbeQuiesce ==
    /\ phase = "probe" /\ cmd \in {"down", "suspend"} /\ Probed /\ PHOSTS' = HOSTS
    /\ Start("prepare", HOSTS, "ask")
    /\ UNCHANGED <<plugin, adapter, cmd, timed, blind>>

\* plugin_resume asks those that answered.
ProbeResume ==
    /\ phase = "probe" /\ cmd \in {"up", "resume"} /\ Probed /\ PHOSTS' # {}
    /\ Start("resume", PHOSTS', "ask")
    /\ UNCHANGED <<plugin, adapter, cmd, timed, blind>>

\* Mutants of PrepareEnds: the result of plugin_all is not looked at; the gates
\* are dropped only where prepare was refused.
PrepareCommits ==
    /\ phase = "prepare" /\ Ended
    /\ Start("commit", PHOSTS, "ask")
    /\ UNCHANGED <<plugin, adapter, cmd, PHOSTS, timed, blind>>
PrepareBacksOut ==
    /\ phase = "prepare" /\ Ended
    /\ IF Succeeded THEN Start("commit", PHOSTS, "ask")
       ELSE Start("unprepare", {h \in PHOSTS : th[h] = "err"}, "ask")
    /\ UNCHANGED <<plugin, adapter, cmd, PHOSTS, timed, blind>>

\* prepare succeeded everywhere, or the gates are dropped again.
PrepareEnds ==
    /\ phase = "prepare" /\ Ended
    /\ IF Succeeded THEN Start("commit", PHOSTS, "ask") ELSE Start("unprepare", PHOSTS, "ask")
    /\ UNCHANGED <<plugin, adapter, cmd, PHOSTS, timed, blind>>

\* Whatever the answers, the quiesce failed.
UnprepareEnds ==
    /\ phase = "unprepare" /\ Ended
    /\ Exit
    /\ UNCHANGED <<plugin, adapter, PHOSTS, timed, blind>>

\* Mutant of CommitEnds: a failed commit does not stop --down.
CommitGoesOn ==
    /\ phase = "commit" /\ Ended
    /\ IF cmd = "down" THEN Start("off", HOSTS, "arm") /\ blind' = FALSE /\ UNCHANGED cmd
       ELSE Exit /\ UNCHANGED blind
    /\ UNCHANGED <<plugin, adapter, PHOSTS, timed>>

\* commit succeeded everywhere, or nothing is powered off.
CommitEnds ==
    /\ phase = "commit" /\ Ended
    /\ IF Succeeded /\ cmd = "down"
       THEN Start("off", HOSTS, "arm") /\ blind' = FALSE /\ UNCHANGED cmd
       ELSE Exit /\ UNCHANGED blind
    /\ UNCHANGED <<plugin, adapter, PHOSTS, timed>>

OffEnds ==
    /\ phase = "off" /\ Ended
    /\ Exit
    /\ UNCHANGED <<plugin, adapter, PHOSTS, timed, blind>>

\* Ring pings only when every node is up.
OnEnds ==
    /\ phase = "on_a" /\ Ended
    /\ IF Succeeded THEN Start("on_b", HOSTS, "ping") /\ UNCHANGED cmd ELSE Exit
    /\ UNCHANGED <<plugin, adapter, PHOSTS, timed, blind>>

\* The plugins are asked only on a verified ring, and not with --no-plugin.
PingsEnd ==
    /\ phase = "on_b" /\ Ended
    /\ \/ Succeeded /\ phase' = "probe" /\ UNCHANGED <<cmd, th>>
       \/ Exit
    /\ UNCHANGED <<plugin, adapter, PHOSTS, timed, blind>>

ResumeEnds ==
    /\ phase = "resume" /\ Ended
    /\ Exit
    /\ UNCHANGED <<plugin, adapter, PHOSTS, timed, blind>>

\* The script dies; OFF and ON_A go on where they run, a plugin's answer is lost.
Interrupt ==
    /\ cmd # "idle"
    /\ cmd' = "idle" /\ phase' = "none"
    /\ th' = [h \in HOSTS |-> IF th[h] \in NodeStep THEN th[h] ELSE "idle"]
    /\ UNCHANGED <<plugin, adapter, PHOSTS, timed, blind>>

----------------------------------------------------------------------------
(* One node.                                                                *)

\* plugin_cmd: the answer is one of those wanted, or it is not, or it is lost.
Ask(h) ==
    /\ th[h] = "ask"
    /\ \/ \E s \in Answers(h, Verb) :
             /\ plugin' = [plugin EXCEPT ![h] = s]
             /\ th' = [th EXCEPT ![h] = IF s \in Wanted THEN "ok" ELSE "err"]
       \/ /\ plugin' \in {[plugin EXCEPT ![h] = s] : s \in Answers(h, Verb) \cup {plugin[h]}}
          /\ th' = [th EXCEPT ![h] = "err"]
    /\ UNCHANGED <<adapter, cmd, phase, PHOSTS, timed, blind>>

\* The next step of a node's script and what it does to the adapter; set -e and
\* the tests end it with an error instead, the adapter then being one of bad.
Step(h, from, to, good, bad) ==
    /\ th[h] = from
    /\ \/ th' = [th EXCEPT ![h] = to] /\ adapter' \in {[adapter EXCEPT ![h] = a] : a \in good}
       \/ th' = [th EXCEPT ![h] = "err"] /\ adapter' \in {[adapter EXCEPT ![h] = a] : a \in bad}
    /\ UNCHANGED <<plugin, cmd, phase, PHOSTS, timed, blind>>

Same(h) == {adapter[h]}

\* Mutant of Arm: no timer is armed.
ArmNot(h) == Step(h, "arm", "remove", Same(h), Same(h))

\* OFF: arm the timer first, if one was asked for; an older one is stopped.
Arm(h) ==
    LET a == adapter[h]
        armed == Adapter(a.fns, a.power, TRUE)
        stopped == Adapter(a.fns, a.power, FALSE)
    IN IF timed THEN Step(h, "arm", "remove", {armed}, {a, stopped})
       ELSE Step(h, "arm", "remove", Same(h), Same(h))

\* Remove the four functions one by one; a missing one ends the script.
Remove(h) ==
    LET a == adapter[h]
        gone == Adapter(FALSE, a.power, a.timer)
    IN IF a.fns THEN Step(h, "remove", "cut", {gone}, {a, gone})
       ELSE Step(h, "remove", "err", Same(h), Same(h))

\* Cut power, which kills every connection over it; the checks after it may
\* still fail.
Cut(h) ==
    /\ th[h] = "cut"
    /\ adapter' = [adapter EXCEPT ![h].power = FALSE]
    /\ plugin' = [g \in HOSTS |-> IF plugin[g] \in {"active", "prepared"} THEN "failed" ELSE plugin[g]]
    /\ th' \in {[th EXCEPT ![h] = x] : x \in {"ok", "err"}}
    /\ UNCHANGED <<cmd, phase, PHOSTS, timed, blind>>

\* ON_A: try to stop the timer, then power up and rescan; fewer functions than
\* four, or a link that stays down, is an error.
Disarm(h) ==
    LET a == adapter[h] IN Step(h, "disarm", "power", {a, Adapter(a.fns, a.power, FALSE)}, Same(h))
PowerUp(h) ==
    LET a == adapter[h]
        up == Adapter(TRUE, TRUE, a.timer)
    IN Step(h, "power", "ok", {up}, {a, up, Adapter(a.fns, TRUE, a.timer)})

\* ON_B: a ping is answered if both ends are on.
Ping(h) ==
    /\ th[h] = "ping"
    /\ \/ (\A g \in HOSTS : On(g)) /\ th' = [th EXCEPT ![h] = "ok"]
       \/ th' = [th EXCEPT ![h] = "err"]
    /\ UNCHANGED <<plugin, adapter, cmd, phase, PHOSTS, timed, blind>>

\* The dead-man timer.  The one this OFF armed is set longer than OFF takes; one
\* left by an earlier --down fires whenever it does.
TimerFires(h) ==
    /\ adapter[h].timer /\ ~(timed /\ th[h] \in {"remove", "cut"})
    /\ adapter' = [adapter EXCEPT ![h] = Adapter(TRUE, TRUE, FALSE)]
    /\ UNCHANGED <<plugin, cmd, phase, PHOSTS, th, timed, blind>>

\* The operator relaunches the stack after a failure, on a ring that is up.
Relaunch ==
    /\ cmd = "idle" /\ Ended /\ (\E h \in HOSTS : plugin[h] = "failed") /\ \A h \in HOSTS : On(h)
    /\ plugin' = [h \in HOSTS |-> "active"]
    /\ UNCHANGED <<adapter, cmd, phase, PHOSTS, th, timed, blind>>

Script == ProbeNone \/ ProbeSome \/ ProbeQuiesce \/ ProbeResume \/ PrepareEnds \/ UnprepareEnds \/ CommitEnds \/ OffEnds \/ OnEnds
          \/ PingsEnd \/ ResumeEnds
Node(h) == Ask(h) \/ Arm(h) \/ Remove(h) \/ Cut(h) \/ Disarm(h) \/ PowerUp(h) \/ Ping(h)

Next == Invoke \/ Script \/ Interrupt \/ Relaunch \/ \E h \in HOSTS : Node(h) \/ TimerFires(h)

Spec == Init /\ [][Next]_vars

\* Node scripts run to their end, and a timer that is not stopped fires.
FairSpec == Spec /\ \A h \in HOSTS : WF_vars(Node(h)) /\ SF_vars(TimerFires(h))

----------------------------------------------------------------------------
(* Properties.                                                              *)

\* Power is cut only under a stack that is suspended on every node; otherwise no
\* plugin answered at all, or --no-plugin was given.
NeverUnderTraffic ==
    [][\A h \in HOSTS : adapter[h].power /\ ~adapter'[h].power =>
          blind \/ \A g \in HOSTS : plugin[g] = "suspended"]_vars

\* RDMA state is torn down on a node only while the data path of every node is
\* gated, also when answers were lost.
CommitWhenAllGated ==
    phase = "commit" => \A h \in HOSTS : plugin[h] \in {"prepared", "suspended", "failed"}

\* The script is well typed and tears nothing down before all nodes are gated.
GatesOK == TypeOK /\ CommitWhenAllGated

\* What the script takes for done is done: a quiesce that backs out, if its
\* answers arrive, leaves no gate behind; an --up that resumes successfully did so
\* over a whole ring, and every process it asked is active.
ReportsTrue ==
    [][/\ phase = "unprepare" /\ Succeeded /\ phase' # phase => \A h \in HOSTS : plugin[h] # "prepared"
       /\ cmd = "up" /\ phase = "resume" /\ Succeeded /\ cmd' = "idle" =>
             \A h \in HOSTS : On(h) /\ (h \in PHOSTS => plugin[h] = "active")]_vars

\* With --restore-after an adapter about to lose power comes back by itself
\* whatever becomes of the script, unless the operator starts an --up or another
\* --down, which replaces the timer.
DeadMan == \A h \in HOSTS : (timed /\ th[h] = "cut") ~> (On(h) \/ cmd = "up" \/ th[h] = "arm")
=============================================================================
