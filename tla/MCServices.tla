----------------------------- MODULE MCServices -----------------------------
(***************************************************************************)
(* Each of the Services on its own small instance, one at a time: a        *)
(* behaviour exercises the one that focus picks.                           *)
(***************************************************************************)
EXTENDS Services, TLC

VARIABLES focus

Symmetry == Permutations(Jobs)

MCInit ==
  /\ focus \in {"slots", "breaker", "limiter", "llm", "pool", "files"}
  /\ Slots!Init /\ Breaker!Init /\ Limiter!Init /\ Llm!Init /\ Init /\ Files!Init
  /\ focus # "llm" => args = [tools |-> FALSE, cap |-> 2, input |-> 0, wanted |-> 1]

MCNext ==
  \/ /\ focus = "slots" /\ Slots!Next
     /\ UNCHANGED <<focus, breaker, limiter, llm, pool, files>>
  \/ /\ focus = "breaker" /\ Breaker!Next
     /\ UNCHANGED <<focus, slots, limiter, llm, pool, files>>
  \/ /\ focus = "limiter" /\ Limiter!Next
     /\ UNCHANGED <<focus, slots, breaker, llm, pool, files>>
  \/ /\ focus = "llm" /\ Llm!Next
     /\ UNCHANGED <<focus, slots, breaker, limiter, pool, files>>
  \/ /\ focus = "pool" /\ Next
     /\ UNCHANGED <<focus, slots, breaker, limiter, llm, files>>
  \/ /\ focus = "files" /\ Files!Next
     /\ UNCHANGED <<focus, slots, breaker, limiter, llm, pool>>

MCSpec == MCInit /\ [][MCNext]_<<focus, slots, breaker, limiter, llm, pool, files>>
=============================================================================
