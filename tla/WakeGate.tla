------------------------------ MODULE WakeGate ------------------------------
(***************************************************************************)
(* The coalescing wake-up gates of package workerwake: one per API process *)
(* and queue, a channel with room for one signal.  A gate lives in the     *)
(* memory of its process.                                                  *)
(***************************************************************************)
CONSTANT Instances     \* API processes

VARIABLE gate          \* gate[i]: a signal is waiting in the channel of i

EmptyGates == gate = [i \in Instances |-> FALSE]

\* A signal to a gate that holds one already is dropped.
Signal(i) == gate' = [gate EXCEPT ![i] = TRUE]

\* What Drain does, what a Wait that returns TRUE does, and what a restart does.
Empty(i) == gate' = [gate EXCEPT ![i] = FALSE]
=============================================================================
