--------------------------- MODULE MCHolderInput ---------------------------
(***************************************************************************)
(* HolderInput on small instances.  The formats the input arrives in, and  *)
(* their assumptions, come along: Framing and Wire.                        *)
(***************************************************************************)
EXTENDS HolderInput, Wire, Framing, TLC

CONSTANTS c1, c2

TwoConns      == {c1, c2}
SmallAndLarge == {1, 2}
=============================================================================
