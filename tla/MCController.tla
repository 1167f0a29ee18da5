---------------------------- MODULE MCController ----------------------------
(***************************************************************************)
(* Instances of Controller for TLC: four documents over two names.         *)
(*   topo    a topology "site" with two roles and two phases               *)
(*   small   a topology "site" without the second role, one phase          *)
(*   flat    a legacy template "site" over both roles, no timeline         *)
(*   other   a legacy template under the other name                        *)
(***************************************************************************)
EXTENDS ControllerSlot, TLC

CONSTANTS topo, small, flat, other, web, db, t1, t2, r1, r2, r3

MCDocName == [d \in Docs |-> IF d = other THEN "lab" ELSE "site"]

MCDocRoles ==
  [d \in Docs |-> IF d \in {small, other} THEN <<web>> ELSE <<web, db>>]

MCPeerRoles == [d \in Docs |-> IF d = other THEN {} ELSE {web}]

MCPhaseIds ==
  [d \in Docs |-> CASE d = topo -> <<1, 2>>
                    [] d = small -> <<1>>
                    [] OTHER -> << >>]

Symmetry == Permutations(Threads) \cup Permutations(Runners)

=============================================================================
