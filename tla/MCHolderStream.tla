-------------------------- MODULE MCHolderStream --------------------------
(***************************************************************************)
(* HolderStream on small instances.                                        *)
(***************************************************************************)
EXTENDS HolderStream, TLC

CONSTANTS c1, c2, s1, s2, s3

TwoConns     == {c1, c2}
OneConn      == {c1}
OneStream    == {s1}
TwoStreams   == {s1, s2}
ThreeStreams == {s1, s2, s3}

(* Connections and streams are interchangeable in safety runs.             *)
Symmetry == Permutations(Conns) \cup Permutations(Streams)

(* What clients observed steers no action: a run that asks nothing of it   *)
(* may look at states without it.                                          *)
Unobserved == <<sessionVars, signalVars, attacher, pc, streamVars, connVars,
                chanVars, wiped>>
=============================================================================
