------------------------------ MODULE WorkLedger ------------------------------
(***************************************************************************)
(* What the pending-work queue (daemon/internal/ledger/queue.go) promises  *)
(* to those who enqueue and to those who work, without its cursors, pages, *)
(* arrival numbers and statements: who may take what, how a piece of work  *)
(* ends, and what brings it back.  WorkQueue implements it.                *)
(***************************************************************************)
EXTENDS Integers

CONSTANTS Owners,      \* the stages that own work
          Targets,     \* what the work is about
          MaxAttempts  \* failures that park a piece of work

VARIABLES state,    \* how each piece of work stands
          attempts, \* the failures counted against it
          working   \* the pieces in the hands of a handler

promise == <<state, attempts, working>>

Work == Owners \X Targets

Init ==
  /\ state = [k \in Work |-> "absent"]
  /\ attempts = [k \in Work |-> 0]
  /\ working = {}

\* work that was never owed, or was finished, is owed afresh; a discovery of
\* any other changes nothing, parked work in particular
Discover(k) ==
  /\ state[k] \in {"absent", "done"}
  /\ state' = [state EXCEPT ![k] = "pending"]
  /\ attempts' = [attempts EXCEPT ![k] = 0]
  /\ UNCHANGED working

\* only the operator brings parked work back, with nothing counted against it
Revive(k) ==
  /\ state[k] = "dead"
  /\ state' = [state EXCEPT ![k] = "pending"]
  /\ attempts' = [attempts EXCEPT ![k] = 0]
  /\ UNCHANGED working

\* an owner takes owed work, one piece at a time
Take(k) ==
  /\ state[k] = "pending"
  /\ \A j \in working : j[1] # k[1]
  /\ working' = working \cup {k}
  /\ UNCHANGED <<state, attempts>>

Finish(k) ==
  /\ k \in working
  /\ working' = working \ {k}
  /\ state' = [state EXCEPT ![k] = "done"]
  /\ UNCHANGED attempts

\* one more failure, and the last one allowed parks
Fail(k) ==
  /\ k \in working
  /\ working' = working \ {k}
  /\ attempts' = [attempts EXCEPT ![k] = @ + 1]
  /\ state' = [state EXCEPT ![k] = IF attempts[k] + 1 = MaxAttempts THEN "dead" ELSE "pending"]

\* the worker dies with the work in its hands: it is still owed, and nothing
\* is counted
Drop(k) ==
  /\ k \in working
  /\ working' = working \ {k}
  /\ UNCHANGED <<state, attempts>>

Next == \E k \in Work :
  Discover(k) \/ Revive(k) \/ Take(k) \/ Finish(k) \/ Fail(k) \/ Drop(k)

Spec == Init /\ [][Next]_promise
=============================================================================
