----------------------------- MODULE MCControl -----------------------------
(***************************************************************************)
(* Authoring and Admission on one small instance each: a behaviour         *)
(* exercises the one that focus picks.                                     *)
(***************************************************************************)
EXTENDS Control, TLC

VARIABLES focus

Identities ==
  {[role |-> "org_admin", org |-> "own", itDept |-> FALSE, token |-> "valid"],
   [role |-> "org_admin", org |-> "other", itDept |-> FALSE, token |-> "valid"],
   [role |-> "super_admin", org |-> "own", itDept |-> FALSE, token |-> "expired"]}

Symmetry == Permutations(Requests) \cup Permutations(Calls)

MCInit == focus \in {"authoring", "admission"} /\ Init /\ Entry!Init

MCNext == \/ focus = "authoring" /\ Next /\ UNCHANGED <<focus, entry>>
          \/ focus = "admission" /\ Entry!Next /\ UNCHANGED <<focus, vars>>

MCSpec == MCInit /\ [][MCNext]_<<focus, vars, entry>>
=============================================================================
