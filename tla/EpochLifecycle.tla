---------------------------- MODULE EpochLifecycle ----------------------------
(***************************************************************************)
(* What the investor pool promises about its epochs (spec.md 4.5), with   *)
(* orders, prices and balances abstracted away: a pool is created open at *)
(* epoch 1; closing an open pool starts a new epoch and either executes   *)
(* the closed one at once or waits in Closing for a solution, whose        *)
(* execution reopens the pool.  Every closed epoch is executed exactly     *)
(* once, in order.                                                         *)
(***************************************************************************)
EXTENDS Naturals

VARIABLES
  phase,     \* "none" before creation, then "open" or "closing"
  current,   \* the epoch orders are placed in
  executed   \* how many epochs have been executed

Init ==
  /\ phase = "none"
  /\ current = 0
  /\ executed = 0

Create ==
  /\ phase = "none"
  /\ phase' = "open"
  /\ current' = 1
  /\ executed' = 0

\* The closed epoch is executed within the close.
CloseAndExecute ==
  /\ phase = "open"
  /\ current' = current + 1
  /\ executed' = executed + 1
  /\ UNCHANGED phase

\* The closed epoch awaits a solution.
CloseToClosing ==
  /\ phase = "open"
  /\ phase' = "closing"
  /\ current' = current + 1
  /\ UNCHANGED executed

\* A solution for the closed epoch is executed.
Solve ==
  /\ phase = "closing"
  /\ phase' = "open"
  /\ executed' = executed + 1
  /\ UNCHANGED current

Next == Create \/ CloseAndExecute \/ CloseToClosing \/ Solve

Spec == Init /\ [][Next]_<<phase, current, executed>>

=============================================================================
