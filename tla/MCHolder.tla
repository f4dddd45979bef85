------------------------------ MODULE MCHolder ------------------------------
(***************************************************************************)
(* Two parts of the holder that share no state, on small instances: which  *)
(* sessions it admits (HolderRegistry) and who owns its socket path        *)
(* (HolderSocket).  A behaviour is one of the one part or of the other; the*)
(* ids name the holders too, so that one symmetry serves both.             *)
(***************************************************************************)
EXTENDS HolderRegistry, HolderSocket, TLC

CONSTANTS a, b, c, x1, x2, x3, l1, l2

ThreeIds      == {a, b, c}
ThreeSessions == {x1, x2, x3}
TwoLaunches   == {l1, l2}
SmallAndLarge == {1, 2}

Symmetry == Permutations(Ids) \cup Permutations(Sessions)

VARIABLE part

Parts == Init /\ SockInit /\ part \in {"registry", "socket"}

Steps ==
  /\ UNCHANGED part
  /\ \/ part = "registry" /\ Next /\ UNCHANGED sockVars
     \/ part = "socket" /\ SockNext /\ UNCHANGED vars

Holder == Parts /\ [][Steps]_<<vars, sockVars, part>>
=============================================================================
