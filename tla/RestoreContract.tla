---------------------------- MODULE RestoreContract ----------------------------
(***************************************************************************)
(* What restoring an artifact into a model's storages promises its caller   *)
(* (NvmeModelLoader._load): extents arrive in any order, each with exactly  *)
(* its own bytes; it returns only when all have arrived; it may raise at    *)
(* any moment before that, and once it has nothing more is written.  A new  *)
(* worker starts with fresh storages.                                       *)
(***************************************************************************)
CONSTANT Extent
VARIABLES
    arrived,   \* <<extent, the bytes its destination holds>>
    outcome

Own(E) == {<<e, e>> : e \in E}

Init == arrived = {} /\ outcome = "running"

Arrive(E) == outcome = "running" /\ arrived' = arrived \cup Own(E) /\ UNCHANGED outcome
Return == outcome = "running" /\ arrived = Own(Extent) /\ outcome' = "returned" /\ UNCHANGED arrived
Raise == outcome = "running" /\ outcome' = "raised" /\ UNCHANGED arrived
NewWorker == arrived' = {} /\ outcome' = "running"

Next == (\E E \in SUBSET Extent : Arrive(E)) \/ Return \/ Raise \/ NewWorker

Spec == Init /\ [][Next]_<<arrived, outcome>>
=============================================================================
