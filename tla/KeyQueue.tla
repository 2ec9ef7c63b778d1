------------------------------ MODULE KeyQueue ------------------------------
(***************************************************************************)
(* What a reconcile worker promises to the controller that owns it: a key   *)
(* that was asked for is reconciled later, by one reconciliation at a time, *)
(* and nothing else is reconciled.  No channel, heap, delay or capacity is  *)
(* visible at this level.  ReconcileWorker is shown to implement it.        *)
(***************************************************************************)
CONSTANTS Keys, NoKey

VARIABLES
  pending,   \* the keys that were asked for and whose reconciliation has not begun
  running,   \* the key that is being reconciled, or NoKey
  open       \* FALSE once the worker was told to stop

queueVars == <<pending, running, open>>

Init ==
  /\ pending = {}
  /\ running = NoKey
  /\ open = TRUE

Ask(k) ==
  /\ pending' = pending \cup {k}
  /\ UNCHANGED <<running, open>>

\* A key may stay pending: asks of the same key are not merged once they are due.
Begin(k) ==
  /\ running = NoKey
  /\ k \in pending
  /\ running' = k
  /\ pending' \in {pending, pending \ {k}}
  /\ UNCHANGED open

\* A reconciliation that did not succeed asks for its key again.
End ==
  /\ running # NoKey
  /\ running' = NoKey
  /\ pending' \in {pending, pending \cup {running}}
  /\ UNCHANGED open

Close ==
  /\ open
  /\ open' = FALSE
  /\ UNCHANGED <<pending, running>>

\* What is pending when the worker stops need not be reconciled.
Discard ==
  /\ ~open
  /\ pending' \in SUBSET pending
  /\ UNCHANGED <<running, open>>

Next ==
  \/ \E k \in Keys : Ask(k) \/ Begin(k)
  \/ End
  \/ Close
  \/ Discard

Spec == Init /\ [][Next]_queueVars
=============================================================================
