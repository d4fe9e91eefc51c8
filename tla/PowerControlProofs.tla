--------------------------- MODULE PowerControlProofs ---------------------------
(***************************************************************************)
(* Proofs about PowerControl, for any number of nodes.                      *)
(***************************************************************************)
EXTENDS PowerControl, TLAPS

OffStep == {"arm", "remove", "cut"}

\* A node's command belongs to the phase that started it, or to a script that
\* was killed; the phases of a quiesce have asked every node.
StepsInPhase ==
    /\ \A h \in HOSTS : th[h] \in OffStep => phase \in {"off", "none"}
    /\ \A h \in HOSTS : th[h] \in {"disarm", "power"} => phase \in {"on_a", "none"}
    /\ phase \in {"prepare", "commit"} => PHOSTS = HOSTS /\ \A h \in HOSTS : th[h] \in {"ask", "ok", "err"}

\* What an answer taken for good says of its node, as long as the phase lasts.
AnswersHold ==
    /\ \A h \in HOSTS : phase = "prepare" /\ th[h] = "ok" => plugin[h] \in {"prepared", "suspended"}
    /\ \A h \in HOSTS : phase = "commit" /\ th[h] = "ok" => plugin[h] = "suspended"

\* A node on its way to a power cut is under a suspended stack, or a blind --down.
CutsAreSafe ==
    \A h \in HOSTS : th[h] \in OffStep => blind \/ \A g \in HOSTS : plugin[g] = "suspended"

PowerInv == GatesOK /\ StepsInPhase /\ AnswersHold /\ CutsAreSafe

Adapters == [fns : BOOLEAN, power : BOOLEAN, timer : BOOLEAN]

USE DEF PluginPhase, NodeStep, PluginState

\* An adapter's record is made of three flags.
LEMMA AdapterType ==
    ASSUME NEW f \in BOOLEAN, NEW w \in BOOLEAN, NEW t \in BOOLEAN
    PROVE  Adapter(f, w, t) \in Adapters
  BY DEF Adapter, Adapters

\* The serving cluster satisfies the invariant.
LEMMA InitPower == Init => PowerInv
  <1> SUFFICES ASSUME Init PROVE PowerInv
    OBVIOUS
  <1>1. plugin \in [HOSTS -> PluginState]
    BY DEF Init
  <1>2. adapter \in [HOSTS -> Adapters]
    BY AdapterType DEF Init
  <1>3. TypeOK
    BY <1>1, <1>2 DEF Init, TypeOK, Adapters
  <1> QED
    BY <1>3 DEF Init, PowerInv, GatesOK, CommitWhenAllGated, StepsInPhase, AnswersHold,
                CutsAreSafe, OffStep

\* A plugin asked to commit stays gated, whatever becomes of the answer; no verb
\* leads out of the plugin's states.
LEMMA AnswersLemma ==
    ASSUME PowerInv, NEW h \in HOSTS, NEW verb, NEW s \in Answers(h, verb)
    PROVE  /\ s \in PluginState
           /\ verb = "commit" /\ plugin[h] \in {"prepared", "suspended", "failed"} =>
                 s \in {"suspended", "failed", "prepared"}
  <1>1. plugin[h] \in PluginState
    BY DEF PowerInv, GatesOK, TypeOK
  <1> QED
    BY <1>1 DEF Answers

\* The plugins of an answering node: one step of plugin_cmd keeps the invariant.
LEMMA AskPower ==
    ASSUME PowerInv, NEW h \in HOSTS, Ask(h)
    PROVE  PowerInv'
  <1> USE DEF PowerInv, GatesOK
  <1>1. phase \in PluginPhase
    BY DEF Ask, TypeOK
  <1>2. PICK s \in PluginState :
           /\ s \in Answers(h, Verb) \/ s = plugin[h]
           /\ plugin' = [plugin EXCEPT ![h] = s]
           /\ \/ th' = [th EXCEPT ![h] = "err"]
              \/ th' = [th EXCEPT ![h] = "ok"] /\ s \in Wanted
    <2>1. plugin[h] \in PluginState
      BY DEF TypeOK
    <2> QED
      BY <2>1, AnswersLemma DEF Ask
  <1>3. phase = "commit" => s \in {"suspended", "failed", "prepared"}
    BY <1>2, AnswersLemma DEF Verb, CommitWhenAllGated
  <1>4. /\ plugin \in [HOSTS -> PluginState]
        /\ th \in [HOSTS -> NodeStep \cup {"idle", "ask", "ping", "ok", "err"}]
        /\ UNCHANGED <<adapter, cmd, phase, PHOSTS, timed, blind>>
    BY DEF TypeOK, Ask
  <1>5. TypeOK'
    BY <1>1, <1>2, <1>4 DEF TypeOK
  <1>6. CommitWhenAllGated'
    BY <1>2, <1>3, <1>4 DEF CommitWhenAllGated
  <1>7. StepsInPhase'
    BY <1>1, <1>2, <1>4 DEF StepsInPhase, OffStep
  <1>8. AnswersHold'
    BY <1>1, <1>2, <1>4 DEF AnswersHold, Wanted
  <1>9. CutsAreSafe'
    BY <1>1, <1>2, <1>4 DEF CutsAreSafe, StepsInPhase, OffStep
  <1> QED
    BY <1>5, <1>6, <1>7, <1>8, <1>9

\* A step of a node's OFF or ON_A script that leaves the plugins alone keeps the
\* invariant if it stays within the script.
LEMMA StepPower ==
    ASSUME PowerInv, NEW h \in HOSTS, NEW a \in Adapters, NEW x,
           th' = [th EXCEPT ![h] = x], adapter' = [adapter EXCEPT ![h] = a],
           UNCHANGED <<plugin, cmd, phase, PHOSTS, timed, blind>>,
           \/ th[h] \in OffStep /\ x \in OffStep \cup {"ok", "err"}
           \/ th[h] \in {"disarm", "power"} /\ x \in {"disarm", "power", "ok", "err"}
    PROVE  PowerInv'
  <1> USE DEF PowerInv, GatesOK
  <1>1. /\ th \in [HOSTS -> NodeStep \cup {"idle", "ask", "ping", "ok", "err"}]
        /\ adapter \in [HOSTS -> Adapters]
    BY DEF TypeOK, Adapters
  <1>2. TypeOK'
    <2>1. adapter' \in [HOSTS -> Adapters]
      BY <1>1
    <2>2. th' \in [HOSTS -> NodeStep \cup {"idle", "ask", "ping", "ok", "err"}]
      BY <1>1 DEF OffStep
    <2>3. \A g \in HOSTS : th'[g] = "ask" => phase \in PluginPhase
      BY <1>1 DEF TypeOK, OffStep
    <2> QED
      BY <2>1, <2>2, <2>3 DEF TypeOK, Adapters
  <1>3. phase \notin {"prepare", "commit"}
    BY DEF StepsInPhase, OffStep
  <1>4. StepsInPhase'
    BY <1>1, <1>3 DEF StepsInPhase, OffStep
  <1>5. CutsAreSafe'
    BY <1>1 DEF CutsAreSafe, OffStep
  <1> QED
    BY <1>2, <1>3, <1>4, <1>5 DEF CommitWhenAllGated, AnswersHold

\* Power is cut: only unsuspended plugins notice, and those are of a blind --down.
LEMMA CutPower ==
    ASSUME PowerInv, NEW h \in HOSTS, Cut(h)
    PROVE  PowerInv'
  <1> USE DEF PowerInv, GatesOK
  <1>1. PICK x \in {"ok", "err"} : th' = [th EXCEPT ![h] = x]
    BY DEF Cut
  <1>2. /\ UNCHANGED <<cmd, phase, PHOSTS, timed, blind>> /\ th[h] = "cut"
        /\ adapter' = [adapter EXCEPT ![h].power = FALSE]
        /\ plugin' = [g \in HOSTS |-> IF plugin[g] \in {"active", "prepared"} THEN "failed" ELSE plugin[g]]
    BY DEF Cut
  <1>3. /\ th \in [HOSTS -> NodeStep \cup {"idle", "ask", "ping", "ok", "err"}]
        /\ plugin \in [HOSTS -> PluginState]
        /\ adapter \in [HOSTS -> [fns : BOOLEAN, power : BOOLEAN, timer : BOOLEAN]]
    BY DEF TypeOK
  <1>4. phase \notin {"prepare", "commit"}
    BY <1>2 DEF StepsInPhase, OffStep
  <1>5. TypeOK'
    <2>1. adapter' \in [HOSTS -> [fns : BOOLEAN, power : BOOLEAN, timer : BOOLEAN]]
      BY <1>2, <1>3
    <2> QED
      BY <1>1, <1>2, <1>3, <2>1 DEF TypeOK
  <1>6. StepsInPhase'
    BY <1>1, <1>2, <1>3, <1>4 DEF StepsInPhase, OffStep
  <1>7. CutsAreSafe'
    BY <1>1, <1>2, <1>3 DEF CutsAreSafe, OffStep
  <1> QED
    BY <1>2, <1>4, <1>5, <1>6, <1>7 DEF CommitWhenAllGated, AnswersHold

\* The node actions other than an answer, each an instance of the two lemmas above
\* or a change of the adapter alone.
LEMMA NodePower ==
    ASSUME PowerInv, NEW h \in HOSTS, Node(h) \/ TimerFires(h)
    PROVE  PowerInv'
  <1>0. /\ adapter[h] \in Adapters
        /\ adapter[h].fns \in BOOLEAN /\ adapter[h].power \in BOOLEAN /\ adapter[h].timer \in BOOLEAN
    BY DEF PowerInv, GatesOK, TypeOK, Adapters
  <1>1. CASE Ask(h)
    BY <1>1, AskPower
  <1>2. CASE Arm(h)
    <2>1. PICK b \in Adapters, x \in {"remove", "err"} :
             th' = [th EXCEPT ![h] = x] /\ adapter' = [adapter EXCEPT ![h] = b]
      BY <1>0, <1>2, AdapterType DEF Arm, Step, Same
    <2>2. th[h] = "arm" /\ UNCHANGED <<plugin, cmd, phase, PHOSTS, timed, blind>>
      BY <1>2 DEF Arm, Step
    <2> QED
      BY <2>1, <2>2, StepPower DEF OffStep
  <1>3. CASE Remove(h)
    <2>1. PICK b \in Adapters, x \in {"cut", "err"} :
             th' = [th EXCEPT ![h] = x] /\ adapter' = [adapter EXCEPT ![h] = b]
      BY <1>0, <1>3, AdapterType DEF Remove, Step, Same
    <2>2. th[h] = "remove" /\ UNCHANGED <<plugin, cmd, phase, PHOSTS, timed, blind>>
      BY <1>3 DEF Remove, Step
    <2> QED
      BY <2>1, <2>2, StepPower DEF OffStep
  <1>4. CASE Cut(h)
    BY <1>4, CutPower
  <1>5. CASE Disarm(h)
    <2>1. PICK b \in Adapters, x \in {"power", "err"} :
             th' = [th EXCEPT ![h] = x] /\ adapter' = [adapter EXCEPT ![h] = b]
      BY <1>0, <1>5, AdapterType DEF Disarm, Step, Same
    <2>2. th[h] = "disarm" /\ UNCHANGED <<plugin, cmd, phase, PHOSTS, timed, blind>>
      BY <1>5 DEF Disarm, Step
    <2> QED
      BY <2>1, <2>2, StepPower DEF OffStep
  <1>6. CASE PowerUp(h)
    <2>1. PICK b \in Adapters, x \in {"ok", "err"} :
             th' = [th EXCEPT ![h] = x] /\ adapter' = [adapter EXCEPT ![h] = b]
      BY <1>0, <1>6, AdapterType DEF PowerUp, Step
    <2>2. th[h] = "power" /\ UNCHANGED <<plugin, cmd, phase, PHOSTS, timed, blind>>
      BY <1>6 DEF PowerUp, Step
    <2> QED
      BY <2>1, <2>2, StepPower DEF OffStep
  <1>7. CASE Ping(h)
    <2> USE DEF PowerInv, GatesOK
    <2>1. PICK x \in {"ok", "err"} : th' = [th EXCEPT ![h] = x]
      BY <1>7 DEF Ping
    <2>2. UNCHANGED <<plugin, adapter, cmd, phase, PHOSTS, timed, blind>> /\ th[h] = "ping"
      BY <1>7 DEF Ping
    <2>3. th \in [HOSTS -> NodeStep \cup {"idle", "ask", "ping", "ok", "err"}]
      BY DEF TypeOK
    <2>4. phase \notin {"prepare", "commit"}
      BY <2>2 DEF StepsInPhase
    <2>5. TypeOK'
      BY <2>1, <2>2, <2>3 DEF TypeOK
    <2>6. StepsInPhase' /\ CutsAreSafe'
      BY <2>1, <2>2, <2>3, <2>4 DEF StepsInPhase, CutsAreSafe, OffStep
    <2> QED
      BY <2>2, <2>4, <2>5, <2>6 DEF CommitWhenAllGated, AnswersHold
  <1>8. CASE TimerFires(h)
    <2> USE DEF PowerInv, GatesOK
    <2>1. /\ adapter' = [adapter EXCEPT ![h] = Adapter(TRUE, TRUE, FALSE)]
          /\ UNCHANGED <<plugin, cmd, phase, PHOSTS, th, timed, blind>>
      BY <1>8 DEF TimerFires
    <2>2. adapter' \in [HOSTS -> [fns : BOOLEAN, power : BOOLEAN, timer : BOOLEAN]]
      BY <2>1 DEF TypeOK, Adapter
    <2>3. TypeOK'
      BY <2>1, <2>2 DEF TypeOK
    <2> QED
      BY <2>1, <2>3 DEF CommitWhenAllGated, StepsInPhase, AnswersHold, CutsAreSafe
  <1> QED
    BY <1>1, <1>2, <1>3, <1>4, <1>5, <1>6, <1>7, <1>8 DEF Node

----------------------------------------------------------------------------
(* The script.  Each of its steps starts commands, or ends.                  *)

\* An invocation starts where no command runs.
LEMMA InvokePower ==
    ASSUME PowerInv, Invoke
    PROVE  PowerInv'
  <1> USE DEF PowerInv, GatesOK
  <1>1. /\ plugin' = plugin /\ adapter' = adapter /\ PHOSTS' = PHOSTS
        /\ \A h \in HOSTS : th[h] \in {"idle", "ok", "err"}
    BY DEF Invoke, Ended
  <1>2. timed' \in BOOLEAN
    BY DEF Invoke
  <1>3. blind' \in BOOLEAN
    BY DEF Invoke, TypeOK
  <1>4. CASE cmd' \in {"suspend", "resume", "down"} /\ phase' = "probe" /\ UNCHANGED th
    <2>1. TypeOK'
      BY <1>1, <1>2, <1>3, <1>4 DEF TypeOK
    <2> QED
      BY <1>1, <1>4, <2>1 DEF CommitWhenAllGated, StepsInPhase, AnswersHold, CutsAreSafe, OffStep
  <1>5. CASE cmd' = "down" /\ Start("off", HOSTS, "arm")
    <2>1. TypeOK'
      BY <1>1, <1>2, <1>3, <1>5 DEF TypeOK, Start
    <2>2. blind'
      BY <1>5 DEF Invoke, Start
    <2> QED
      BY <1>1, <1>5, <2>1, <2>2 DEF CommitWhenAllGated, StepsInPhase, AnswersHold, CutsAreSafe, OffStep, Start
  <1>6. CASE cmd' = "up" /\ Start("on_a", HOSTS, "disarm")
    <2>1. TypeOK'
      BY <1>1, <1>2, <1>3, <1>6 DEF TypeOK, Start
    <2> QED
      BY <1>1, <1>6, <2>1 DEF CommitWhenAllGated, StepsInPhase, AnswersHold, CutsAreSafe, OffStep, Start
  <1> QED
    BY <1>4, <1>5, <1>6 DEF Invoke

\* The script ends, no command of a quiesce or of OFF being on its way but those
\* it had started before.
LEMMA ExitPower ==
    ASSUME PowerInv, Exit, phase = "probe" \/ Ended,
           UNCHANGED <<plugin, adapter, timed, blind>>, PHOSTS' \subseteq HOSTS
    PROVE  PowerInv'
  <1> USE DEF PowerInv, GatesOK
  <1>1. \A h \in HOSTS : th[h] # "ask"
    BY DEF TypeOK, Ended
  <1>2. TypeOK'
    BY <1>1 DEF TypeOK, Exit
  <1> QED
    BY <1>2 DEF CommitWhenAllGated, StepsInPhase, AnswersHold, CutsAreSafe, Exit

\* A phase that asks the plugins of H, or pings, begins.
LEMMA AskingPower ==
    ASSUME PowerInv, NEW p, NEW H \in SUBSET HOSTS, NEW step, Start(p, H, step),
           \/ p \in PluginPhase /\ step = "ask"
           \/ p = "on_b" /\ step = "ping",
           phase # "none", UNCHANGED <<plugin, adapter, cmd, timed, blind>>, PHOSTS' \subseteq HOSTS,
           p \in {"prepare", "commit"} => H = HOSTS /\ PHOSTS' = HOSTS,
           p = "commit" => \A h \in HOSTS : plugin[h] \in {"prepared", "suspended", "failed"}
    PROVE  PowerInv'
  <1> USE DEF PowerInv, GatesOK
  <1>1. TypeOK'
    BY DEF TypeOK, Start
  <1>2. StepsInPhase'
    BY DEF StepsInPhase, Start, OffStep
  <1>3. CommitWhenAllGated' /\ AnswersHold' /\ CutsAreSafe'
    BY DEF CommitWhenAllGated, AnswersHold, CutsAreSafe, Start, OffStep
  <1> QED
    BY <1>1, <1>2, <1>3

\* OFF begins on every node, under a suspended stack or blindly.
LEMMA OffPower ==
    ASSUME PowerInv, Start("off", HOSTS, "arm"), phase # "none",
           UNCHANGED <<plugin, adapter, cmd, timed>>, PHOSTS' \subseteq HOSTS, blind' \in BOOLEAN,
           blind' \/ \A h \in HOSTS : plugin[h] = "suspended"
    PROVE  PowerInv'
  <1> USE DEF PowerInv, GatesOK
  <1>1. TypeOK'
    BY DEF TypeOK, Start
  <1>2. StepsInPhase'
    BY DEF StepsInPhase, Start, OffStep
  <1>3. CommitWhenAllGated' /\ AnswersHold' /\ CutsAreSafe'
    BY DEF CommitWhenAllGated, AnswersHold, CutsAreSafe, Start
  <1> QED
    BY <1>1, <1>2, <1>3

\* Every step of the script keeps the invariant.
LEMMA ScriptPower ==
    ASSUME PowerInv, Script
    PROVE  PowerInv'
  <1>0. PHOSTS \subseteq HOSTS
    BY DEF PowerInv, GatesOK, TypeOK
  <1>1. CASE ProbeNone
    <2>1. PHOSTS' \subseteq HOSTS /\ phase = "probe" /\ UNCHANGED <<plugin, adapter, timed>>
      BY <1>1 DEF ProbeNone
    <2>2. CASE cmd = "down"
      BY <1>1, <2>1, <2>2, OffPower DEF ProbeNone
    <2>3. CASE cmd # "down"
      BY <1>1, <2>1, <2>3, ExitPower DEF ProbeNone
    <2> QED
      BY <2>2, <2>3
  <1>2. CASE ProbeSome
    BY <1>2, ExitPower DEF ProbeSome, Probed
  <1>3. CASE ProbeQuiesce
    BY <1>3, AskingPower DEF ProbeQuiesce
  <1>4. CASE ProbeResume
    <2>1. PHOSTS' \in SUBSET HOSTS
      BY <1>4 DEF ProbeResume, Probed
    <2> QED
      BY <1>4, <2>1, AskingPower DEF ProbeResume
  <1>5. CASE PrepareEnds
    <2>1. /\ PHOSTS = HOSTS /\ phase = "prepare" /\ Ended
          /\ UNCHANGED <<plugin, adapter, cmd, PHOSTS, timed, blind>>
      BY <1>5 DEF PrepareEnds, PowerInv, StepsInPhase
    <2>2. CASE Succeeded
      <3>1. \A h \in HOSTS : plugin[h] \in {"prepared", "suspended", "failed"}
        BY <2>1, <2>2 DEF Succeeded, Ended, PowerInv, StepsInPhase, AnswersHold
      <3> QED
        BY <1>5, <2>1, <2>2, <3>1, AskingPower DEF PrepareEnds
    <2>3. CASE ~Succeeded
      BY <1>5, <2>1, <2>3, AskingPower DEF PrepareEnds
    <2> QED
      BY <2>2, <2>3
  <1>6. CASE UnprepareEnds
    BY <1>0, <1>6, ExitPower DEF UnprepareEnds
  <1>7. CASE CommitEnds
    <2>1. phase = "commit" /\ Ended /\ UNCHANGED <<plugin, adapter, PHOSTS, timed>>
      BY <1>7 DEF CommitEnds
    <2>2. CASE Succeeded /\ cmd = "down"
      <3>1. \A h \in HOSTS : plugin[h] = "suspended"
        BY <2>1, <2>2 DEF Succeeded, Ended, PowerInv, StepsInPhase, AnswersHold
      <3>2. Start("off", HOSTS, "arm") /\ blind' = FALSE /\ UNCHANGED cmd
        BY <1>7, <2>2 DEF CommitEnds
      <3> QED
        BY <1>0, <2>1, <3>1, <3>2, OffPower
    <2>3. CASE ~(Succeeded /\ cmd = "down")
      BY <1>0, <1>7, <2>1, <2>3, ExitPower DEF CommitEnds
    <2> QED
      BY <2>2, <2>3
  <1>8. CASE OffEnds
    BY <1>0, <1>8, ExitPower DEF OffEnds
  <1>9. CASE OnEnds
    <2>1. CASE Succeeded
      BY <1>0, <1>9, <2>1, AskingPower DEF OnEnds
    <2>2. CASE ~Succeeded
      BY <1>0, <1>9, <2>2, ExitPower DEF OnEnds
    <2> QED
      BY <2>1, <2>2
  <1>10. CASE PingsEnd
    <2>1. CASE Exit
      BY <1>0, <1>10, <2>1, ExitPower DEF PingsEnd
    <2>2. CASE phase' = "probe" /\ UNCHANGED <<cmd, th>>
      <3> USE DEF PowerInv, GatesOK
      <3>1. /\ UNCHANGED <<plugin, adapter, PHOSTS, timed, blind>> /\ phase = "on_b"
            /\ \A h \in HOSTS : th[h] \in {"idle", "ok", "err"}
        BY <1>10 DEF PingsEnd, Ended
      <3>2. TypeOK'
        BY <2>2, <3>1 DEF TypeOK
      <3> QED
        BY <2>2, <3>1, <3>2 DEF CommitWhenAllGated, StepsInPhase, AnswersHold, CutsAreSafe, OffStep
    <2> QED
      BY <1>10, <2>1, <2>2 DEF PingsEnd
  <1>11. CASE ResumeEnds
    BY <1>0, <1>11, ExitPower DEF ResumeEnds
  <1> QED
    BY <1>1, <1>2, <1>3, <1>4, <1>5, <1>6, <1>7, <1>8, <1>9, <1>10, <1>11 DEF Script

\* Killing the script leaves the node scripts where they are.
LEMMA InterruptPower ==
    ASSUME PowerInv, Interrupt
    PROVE  PowerInv'
  <1> USE DEF PowerInv, GatesOK
  <1>1. TypeOK'
    BY DEF TypeOK, Interrupt
  <1> QED
    BY <1>1 DEF CommitWhenAllGated, StepsInPhase, AnswersHold, CutsAreSafe, Interrupt, OffStep

\* Relaunching happens while nothing runs.
LEMMA RelaunchPower ==
    ASSUME PowerInv, Relaunch
    PROVE  PowerInv'
  <1> USE DEF PowerInv, GatesOK
  <1>1. phase = "none" /\ phase' = "none" /\ \A h \in HOSTS : th[h] \in {"idle", "ok", "err"}
    BY DEF Relaunch, TypeOK, Ended
  <1>2. TypeOK'
    BY DEF TypeOK, Relaunch
  <1> QED
    BY <1>1, <1>2 DEF CommitWhenAllGated, StepsInPhase, AnswersHold, CutsAreSafe, Relaunch, OffStep

\* The invariant is inductive.
LEMMA NextPower == PowerInv /\ [Next]_vars => PowerInv'
  <1> SUFFICES ASSUME PowerInv, [Next]_vars PROVE PowerInv'
    OBVIOUS
  <1>1. CASE UNCHANGED vars
    BY <1>1 DEF vars, PowerInv, GatesOK, TypeOK, CommitWhenAllGated, StepsInPhase, AnswersHold, CutsAreSafe
  <1>2. CASE Next
    BY <1>2, InvokePower, ScriptPower, InterruptPower, RelaunchPower, NodePower DEF Next
  <1> QED
    BY <1>1, <1>2

\* For any number of nodes, however commands fail, answers are lost and scripts
\* are killed: plugin_quiesce commits only while every node is gated (GatesOK).
THEOREM CommitIsGated == Spec => []GatesOK
  <1>1. Spec => []PowerInv
    BY InitPower, NextPower, PTL DEF Spec
  <1>2. PowerInv => GatesOK
    BY DEF PowerInv
  <1> QED
    BY <1>1, <1>2, PTL

\* Only Cut takes the power from an adapter that has it.
LEMMA OnlyCutCuts ==
    ASSUME PowerInv, [Next]_vars, NEW h \in HOSTS, adapter[h].power, ~adapter'[h].power
    PROVE  th[h] \in OffStep
  <1>1. adapter \in [HOSTS -> [fns : BOOLEAN, power : BOOLEAN, timer : BOOLEAN]]
    BY DEF PowerInv, GatesOK, TypeOK
  <1>2. PICK g \in HOSTS : Node(g) \/ TimerFires(g)
    BY DEF Next, vars, Invoke, Script, ProbeNone, ProbeSome, ProbeQuiesce, ProbeResume, PrepareEnds, UnprepareEnds,
           CommitEnds, OffEnds, OnEnds, PingsEnd, ResumeEnds, Interrupt, Relaunch
  <1>3. g = h
    BY <1>1, <1>2 DEF Node, TimerFires, Ask, Arm, Remove, Cut, Disarm, PowerUp, Ping, Step, Same
  <1>4. Cut(h)
    BY <1>1, <1>2, <1>3 DEF Node, TimerFires, Ask, Arm, Remove, Disarm, PowerUp, Ping, Step, Same, Adapter
  <1> QED
    BY <1>4 DEF Cut, OffStep

\* For any number of nodes, power is cut only under a stack suspended on every
\* node, or by a --down that had no plugin to quiesce.
THEOREM PowerCutIsSafe == Spec => NeverUnderTraffic
  <1>1. Spec => []PowerInv
    BY InitPower, NextPower, PTL DEF Spec
  <1>2. PowerInv /\ [Next]_vars =>
           [\A h \in HOSTS : adapter[h].power /\ ~adapter'[h].power =>
                blind \/ \A g \in HOSTS : plugin[g] = "suspended"]_vars
    BY OnlyCutCuts DEF PowerInv, CutsAreSafe
  <1> QED
    BY <1>1, <1>2, PTL DEF Spec, NeverUnderTraffic

----------------------------------------------------------------------------
(* What the script reports *)

\* The two resumes: whom they have asked, and what an answer taken for good says.
ResumesHold ==
    /\ phase = "unprepare" => PHOSTS = HOSTS
    /\ phase \in {"unprepare", "resume"} => \A h \in PHOSTS : th[h] \in {"ask", "ok", "err"}
    /\ \A h \in HOSTS : phase = "unprepare" /\ th[h] = "ok" => plugin[h] \in {"active", "suspended"}
    /\ \A h \in HOSTS : phase = "resume" /\ th[h] = "ok" => plugin[h] = "active"

\* A ping is answered over a ring that is up, and it stays up while --up goes on.
RingIsUp ==
    /\ phase = "on_b" => \A h \in HOSTS : th[h] \in {"ping", "ok", "err"}
    /\ \A h \in HOSTS : th[h] = "ping" => phase = "on_b"
    /\ \A h \in HOSTS : phase = "on_b" /\ th[h] = "ok" => \A g \in HOSTS : On(g)
    /\ cmd = "up" /\ phase \in {"probe", "resume"} => \A g \in HOSTS : On(g)

ReportInv == ResumesHold /\ RingIsUp

\* An answer.
LEMMA AskReport ==
    ASSUME PowerInv, ReportInv, NEW h \in HOSTS, Ask(h)
    PROVE  ReportInv'
  <1>1. /\ plugin \in [HOSTS -> PluginState] /\ phase \in PluginPhase
        /\ th \in [HOSTS -> NodeStep \cup {"idle", "ask", "ping", "ok", "err"}]
        /\ UNCHANGED <<adapter, cmd, phase, PHOSTS, timed, blind>> /\ th[h] = "ask"
    BY DEF PowerInv, GatesOK, TypeOK, Ask
  <1>2. PICK s \in PluginState :
           /\ plugin' = [plugin EXCEPT ![h] = s]
           /\ \/ th' = [th EXCEPT ![h] = "err"]
              \/ th' = [th EXCEPT ![h] = "ok"] /\ s \in Wanted
    <2>1. plugin[h] \in PluginState
      BY <1>1
    <2> QED
      BY <2>1, AnswersLemma DEF Ask
  <1>3. ResumesHold'
    <2>1. phase = "unprepare" => Wanted = {"active", "suspended"}
      BY DEF Wanted
    <2>2. phase = "resume" => Wanted = {"active"}
      BY DEF Wanted
    <2>3. \A g \in HOSTS : g # h => th'[g] = th[g] /\ plugin'[g] = plugin[g]
      BY <1>1, <1>2
    <2>4. th'[h] \in {"ok", "err"} /\ plugin'[h] = s /\ (th'[h] = "ok" => s \in Wanted)
      BY <1>1, <1>2
    <2>5. PHOSTS \subseteq HOSTS /\ ResumesHold
      BY DEF PowerInv, GatesOK, TypeOK, ReportInv
    <2> QED
      BY <1>1, <2>1, <2>2, <2>3, <2>4, <2>5 DEF ResumesHold
  <1>4. RingIsUp'
    <2>1. \A g \in HOSTS : On(g)' <=> On(g)
      BY <1>1 DEF On
    <2> QED
      BY <1>1, <1>2, <2>1 DEF ReportInv, RingIsUp
  <1> QED
    BY <1>3, <1>4 DEF ReportInv

\* A node's step, or its timer.
LEMMA NodeReport ==
    ASSUME PowerInv, ReportInv, NEW h \in HOSTS, Node(h) \/ TimerFires(h)
    PROVE  ReportInv'
  <1>1. CASE Ask(h)
    BY <1>1, AskReport
  <1>2. CASE TimerFires(h)
    <2>1. UNCHANGED <<plugin, cmd, phase, PHOSTS, th>>
      BY <1>2 DEF TimerFires
    <2>2. ASSUME NEW g \in HOSTS, On(g) PROVE On(g)'
      BY <1>2, <2>2 DEF TimerFires, On, Adapter, PowerInv, GatesOK, TypeOK
    <2> QED
      BY <2>1, <2>2 DEF ReportInv, ResumesHold, RingIsUp
  <1>3. CASE Ping(h)
    <2>1. /\ UNCHANGED <<plugin, adapter, cmd, phase, PHOSTS>> /\ th[h] = "ping"
          /\ th \in [HOSTS -> NodeStep \cup {"idle", "ask", "ping", "ok", "err"}]
      BY <1>3 DEF Ping, PowerInv, GatesOK, TypeOK
    <2>2. \A g \in HOSTS : On(g)' <=> On(g)
      BY <2>1 DEF On
    <2>3. \/ th' = [th EXCEPT ![h] = "ok"] /\ \A g \in HOSTS : On(g)
          \/ th' = [th EXCEPT ![h] = "err"]
      BY <1>3 DEF Ping
    <2> QED
      BY <2>1, <2>2, <2>3 DEF ReportInv, ResumesHold, RingIsUp
  <1>4. CASE Arm(h) \/ Remove(h) \/ Cut(h) \/ Disarm(h) \/ PowerUp(h)
    <2>1. th[h] \in NodeStep /\ UNCHANGED <<cmd, phase>>
      BY <1>4 DEF Arm, Remove, Cut, Disarm, PowerUp, Step
    <2>2. phase \in {"off", "on_a", "none"}
      BY <2>1 DEF PowerInv, StepsInPhase, OffStep
    <2>3. th \in [HOSTS -> NodeStep \cup {"idle", "ask", "ping", "ok", "err"}]
      BY DEF PowerInv, GatesOK, TypeOK
    <2>4. \E x \in NodeStep \cup {"ok", "err"} : th' = [th EXCEPT ![h] = x]
      <3>1. CASE Arm(h)
        BY <3>1 DEF Arm, Step, NodeStep
      <3>2. CASE Remove(h)
        BY <3>2 DEF Remove, Step, NodeStep
      <3>3. CASE Cut(h)
        BY <3>3 DEF Cut, NodeStep
      <3>4. CASE Disarm(h)
        BY <3>4 DEF Disarm, Step, NodeStep
      <3>5. CASE PowerUp(h)
        BY <3>5 DEF PowerUp, Step, NodeStep
      <3> QED
        BY <1>4, <3>1, <3>2, <3>3, <3>4, <3>5
    <2>5. \A g \in HOSTS : th'[g] # "ping"
      <3>1. \A g \in HOSTS : th[g] # "ping"
        BY <2>2 DEF ReportInv, RingIsUp
      <3> QED
        BY <2>3, <2>4, <3>1 DEF NodeStep
    <2> QED
      BY <2>1, <2>2, <2>5 DEF ReportInv, ResumesHold, RingIsUp
  <1> QED
    BY <1>1, <1>2, <1>3, <1>4 DEF Node

\* The script's own steps.
LEMMA ScriptReport ==
    ASSUME PowerInv, ReportInv, Invoke \/ Script \/ Interrupt \/ Relaunch
    PROVE  ReportInv'
  <1>0. TypeOK
    BY DEF PowerInv, GatesOK
  <1>a. ASSUME NEW h \in HOSTS, th'[h] = "ping" PROVE phase' = "on_b"
    <2>1. CASE Invoke
      BY <1>a, <2>1 DEF Invoke, Ended, Start
    <2>2. CASE ProbeNone \/ ProbeSome \/ ProbeQuiesce \/ ProbeResume
      <3>1. th[h] # "ping"
        BY <2>2 DEF ReportInv, RingIsUp, ProbeNone, ProbeSome, ProbeQuiesce, ProbeResume
      <3> QED
        BY <1>a, <2>2, <3>1 DEF ProbeNone, ProbeSome, ProbeQuiesce, ProbeResume, Start, Exit
    <2>3. CASE PrepareEnds \/ UnprepareEnds \/ CommitEnds \/ OffEnds \/ OnEnds \/ PingsEnd \/ ResumeEnds
      BY <1>a, <2>3 DEF PrepareEnds, UnprepareEnds, CommitEnds, OffEnds, OnEnds, PingsEnd, ResumeEnds, Ended,
             Start, Exit
    <2>4. CASE Interrupt
      BY <1>a, <2>4 DEF Interrupt, NodeStep
    <2>5. CASE Relaunch
      BY <1>a, <2>5 DEF Relaunch, Ended
    <2> QED
      BY <2>1, <2>2, <2>3, <2>4, <2>5 DEF Script
  <1>1. CASE phase' \in {"none", "prepare", "commit", "off", "on_a"}
    BY <1>1, <1>a DEF ReportInv, ResumesHold, RingIsUp
  <1>2. CASE Invoke /\ phase' = "probe"
    <2>1. cmd' # "up"
      BY <1>2 DEF Invoke, Start
    <2> QED
      BY <1>2, <1>a, <2>1 DEF ResumesHold, ReportInv, RingIsUp
  <1>3. CASE PrepareEnds /\ phase' = "unprepare"
    <2>1. PHOSTS' = HOSTS /\ th' = [h \in HOSTS |-> "ask"]
      BY <1>3 DEF PrepareEnds, Start, PowerInv, StepsInPhase
    <2> QED
      BY <1>3, <2>1 DEF ReportInv, ResumesHold, RingIsUp
  <1>4. CASE OnEnds /\ phase' = "on_b"
    BY <1>4 DEF OnEnds, Start, Exit, ReportInv, ResumesHold, RingIsUp
  <1>5. CASE PingsEnd /\ phase' = "probe"
    <2>1. phase = "on_b" /\ Succeeded /\ UNCHANGED adapter
      BY <1>5 DEF PingsEnd, Exit
    <2>2. \A g \in HOSTS : On(g)
      BY <2>1, PowerConstants DEF Succeeded, Ended, ReportInv, RingIsUp, PowerConstants
    <2>3. \A g \in HOSTS : On(g)'
      BY <2>1, <2>2 DEF On
    <2> QED
      BY <1>5, <1>a, <2>3 DEF ReportInv, ResumesHold, RingIsUp
  <1>6. CASE ProbeResume
    <2>1. /\ phase = "probe" /\ phase' = "resume" /\ UNCHANGED <<adapter, cmd>> /\ PHOSTS' \subseteq HOSTS
          /\ th' = [h \in HOSTS |-> IF h \in PHOSTS' THEN "ask" ELSE "idle"]
      BY <1>6 DEF ProbeResume, Start, Probed
    <2>2. \A g \in HOSTS : On(g)' <=> On(g)
      BY <2>1 DEF On
    <2> QED
      BY <2>1, <2>2 DEF ReportInv, ResumesHold, RingIsUp
  <1>7. CASE Relaunch
    <2>1. phase' = "none"
      BY <1>0, <1>7 DEF Relaunch, TypeOK
    <2> QED
      BY <1>1, <2>1
  <1>8. CASE Invoke
    BY <1>1, <1>2, <1>8 DEF Invoke, Start
  <1>9. CASE ProbeNone \/ ProbeSome \/ ProbeQuiesce \/ UnprepareEnds \/ CommitEnds \/ OffEnds \/ ResumeEnds \/ Interrupt
    <2>1. phase' \in {"none", "prepare", "off"}
      BY <1>9 DEF ProbeNone, ProbeSome, ProbeQuiesce, UnprepareEnds, CommitEnds, OffEnds, ResumeEnds, Interrupt,
             Start, Exit
    <2> QED
      BY <1>1, <2>1
  <1>10. CASE PrepareEnds
    BY <1>1, <1>3, <1>10 DEF PrepareEnds, Start
  <1>11. CASE OnEnds
    BY <1>1, <1>4, <1>11 DEF OnEnds, Start, Exit
  <1>12. CASE PingsEnd
    BY <1>1, <1>5, <1>12 DEF PingsEnd, Exit
  <1> QED
    BY <1>6, <1>7, <1>8, <1>9, <1>10, <1>11, <1>12 DEF Script

LEMMA NextReport == PowerInv /\ ReportInv /\ [Next]_vars => ReportInv'
  <1> SUFFICES ASSUME PowerInv, ReportInv, [Next]_vars PROVE ReportInv'
    OBVIOUS
  <1>1. CASE UNCHANGED vars
    BY <1>1 DEF vars, ReportInv, ResumesHold, RingIsUp, On
  <1> QED
    BY <1>1, NodeReport, ScriptReport DEF Next

\* For any number of nodes, whatever fails, is lost or killed: when the answers to the
\* resume after a refused prepare have all come no node is left gated, and when an --up
\* ends with a successful resume every adapter is on and every plugin asked is active.
THEOREM ReportsAreTrue == Spec => ReportsTrue
  <1>1. Init => ReportInv
    BY DEF Init, ReportInv, ResumesHold, RingIsUp
  <1>2. Spec => [](PowerInv /\ ReportInv)
    BY <1>1, InitPower, NextPower, NextReport, PTL DEF Spec
  <1>3. ASSUME PowerInv, ReportInv
        PROVE  /\ phase = "unprepare" /\ Succeeded => \A h \in HOSTS : plugin[h] # "prepared"
               /\ cmd = "up" /\ phase = "resume" /\ Succeeded =>
                     \A h \in HOSTS : On(h) /\ (h \in PHOSTS => plugin[h] = "active")
    <2>1. Succeeded => \A h \in HOSTS : th[h] \in {"idle", "ok"}
      BY DEF Succeeded, Ended
    <2> QED
      BY <1>3, <2>1 DEF ReportInv, ResumesHold, RingIsUp
  <1>4. PowerInv /\ ReportInv =>
           [/\ phase = "unprepare" /\ Succeeded /\ phase' # phase => \A h \in HOSTS : plugin[h] # "prepared"
            /\ cmd = "up" /\ phase = "resume" /\ Succeeded /\ cmd' = "idle" =>
                  \A h \in HOSTS : On(h) /\ (h \in PHOSTS => plugin[h] = "active")]_vars
    BY <1>3
  <1> QED
    BY <1>2, <1>4, PTL DEF ReportsTrue
=============================================================================
