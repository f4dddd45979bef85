-------------------------- MODULE MCSidecarStream --------------------------
(***************************************************************************)
(* SidecarStream on small instances.                                       *)
(***************************************************************************)
EXTENDS SidecarStream, TLC

(* The session runs, or is over.                                           *)
Settled == {"run", "cut"} \cup Ends
Anytime == Phases
=============================================================================
