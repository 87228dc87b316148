------------------------------ MODULE MCServer ------------------------------
(***************************************************************************)
(* Instances of Server for TLC: two connections, two devices, and the      *)
(* tables main_unit they may be registered in.                             *)
(***************************************************************************)
EXTENDS Server, TLC

CONSTANTS c1, c2, u1, u2, x1, x2

(* u1 belongs to x1 and u2 to x2; or there is one device only.             *)
TwoUnits == u1 :> x1 @@ u2 :> x2
OneUnit  == u1 :> x1

Symmetry == Permutations(Conns)
=============================================================================
