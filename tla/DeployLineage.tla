--------------------------- MODULE DeployLineage ---------------------------
(***************************************************************************)
(* What the deploy lineage promises its readers: a snapshot is taken under *)
(* a number that no kept snapshot has, is never rewritten while it is      *)
(* kept, and the live version is always one that was taken before.         *)
(***************************************************************************)
EXTENDS Integers

VARIABLES
  taken,   \* the numbers that were ever taken
  kept,    \* number -> snapshot
  live     \* the number that is live, 0 for none

Init == taken = {} /\ DOMAIN kept = {} /\ live = 0

Unwritten == \A m \in DOMAIN kept \cap DOMAIN kept' : kept'[m] = kept[m]

Take == \E n \in DOMAIN kept' \ DOMAIN kept :
          /\ n > 0
          /\ taken' = taken \cup {n}
          /\ DOMAIN kept' = DOMAIN kept \cup {n} /\ Unwritten
          /\ UNCHANGED live

Drop == /\ DOMAIN kept' \subseteq DOMAIN kept /\ Unwritten
        /\ UNCHANGED <<taken, live>>

GoLive == live' \in taken /\ UNCHANGED <<taken, kept>>

Next == Take \/ Drop \/ GoLive

Spec == Init /\ [][Next]_<<taken, kept, live>>
=============================================================================
