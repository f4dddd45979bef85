---------------------------- MODULE DurableFeed ----------------------------
(***************************************************************************)
(* What the daemon promises of a session's output while the holder's ring  *)
(* covers what it has not read: its copy grows chunk by chunk, in order,   *)
(* and when the daemon dies it comes back with everything that was made    *)
(* durable, whatever happens to connections in between.                    *)
(***************************************************************************)
EXTENDS Naturals, Sequences

VARIABLES
  written,          \* chunks the child wrote
  copy,             \* the daemon's copy of them
  durable           \* how many of them survive the daemon

vars == <<written, copy, durable>>

UpTo(n) == [i \in 1 .. n |-> i]

Init == written = 0 /\ copy = <<>> /\ durable = 0

Write == written' = written + 1 /\ UNCHANGED <<copy, durable>>

Show ==
  /\ Len(copy) < written
  /\ copy' = Append(copy, Len(copy) + 1)
  /\ UNCHANGED <<written, durable>>

(* The next chunk becomes durable; never one that was not shown.           *)
Persist ==
  /\ durable < Len(copy)
  /\ durable' = durable + 1
  /\ UNCHANGED <<written, copy>>

(* The daemon dies, its copy with it; the next one starts from what is     *)
(* durable.                                                                *)
Crash   == copy' = <<>> /\ UNCHANGED <<written, durable>>
Recover == copy = <<>> /\ copy' = UpTo(durable) /\ UNCHANGED <<written, durable>>

Next == Write \/ Show \/ Persist \/ Crash \/ Recover

Spec == Init /\ [][Next]_vars
=============================================================================
