------------------------------- MODULE MCDag -------------------------------
(***************************************************************************)
(* Small instances of DagExecutor for TLC.                                 *)
(***************************************************************************)
EXTENDS DagExecutor

Special == {n \in Nodes : Kind(n) # "plain"}

\* Every graph with one node that is not plain, with its resumptions; of the
\* graphs with two, those of conditions and tolerated failures, in one walk.
MCInit ==
  /\ Init
  /\ Cardinality(Special) <= 1 \/ \A n \in Special : Kind(n) \in {"cond", "soft"}

MCNext == Next /\ (restarts' # restarts => Cardinality(Special) <= 1)

MCSpec == MCInit /\ [][MCNext]_vars
====
