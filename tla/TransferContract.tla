---------------------------- MODULE TransferContract ----------------------------
(***************************************************************************)
(* What a rank's data mover promises to the connector (OffloadingWorker as  *)
(* SlabWorker and MultiNodeSlabConnectorWorker implement it): a submitted   *)
(* job is reported once, after the transfer of every one of its blocks has  *)
(* ended, and as a success exactly when all of them arrived; a report of a  *)
(* load comes no earlier than the report of the blocks it could not load.   *)
(* SlabManager is built on this promise; BounceController implements it.    *)
(***************************************************************************)
EXTENDS Naturals

CONSTANTS Job, Load, NumItems

VARIABLES
    taken,     \* jobs submitted
    ended,     \* blocks whose transfer has ended
    moved,     \* blocks that arrived
    invalid,   \* blocks reported as load errors
    reported   \* <<job, success>>

contractVars == <<taken, ended, moved, invalid, reported>>

Blocks(j) == {<<j, i>> : i \in 1..NumItems[j]}

Init == taken = {} /\ ended = {} /\ moved = {} /\ invalid = {} /\ reported = {}

Submit(j) ==
    /\ j \notin taken
    /\ taken' = taken \cup {j}
    /\ UNCHANGED <<ended, moved, invalid, reported>>

\* Transfers of blocks of submitted jobs end, some of them with success.
EndSome ==
    /\ ended \subseteq ended' /\ ended' \subseteq UNION {Blocks(j) : j \in taken}
    /\ moved \subseteq moved' /\ moved' \ moved \subseteq ended' \ ended
    /\ UNCHANGED <<taken, invalid, reported>>

\* Jobs whose transfers have all ended are reported, and failed blocks.
Report ==
    /\ reported \subseteq reported' /\ invalid \subseteq invalid'
    /\ invalid' \subseteq ended \ moved
    /\ \A r \in reported' \ reported :
          /\ r[1] \in taken /\ <<r[1], ~r[2]>> \notin reported'
          /\ Blocks(r[1]) \subseteq ended
          /\ r[2] = (Blocks(r[1]) \subseteq moved)
          /\ r[1] \in Load => Blocks(r[1]) \subseteq moved \cup invalid'
    /\ UNCHANGED <<taken, ended, moved>>

Next == (\E j \in Job : Submit(j)) \/ EndSome \/ Report

Spec == Init /\ [][Next]_contractVars
=============================================================================
