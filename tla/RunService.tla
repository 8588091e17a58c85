----------------------------- MODULE RunService -----------------------------
(***************************************************************************)
(* What the run queue promises to those who submit runs, without storage,  *)
(* ticks, threads or crashes: seats for at most MaxRuns runs, a run that   *)
(* executes at most once and only after it has been given a seat, and a    *)
(* run withdrawn before it executed that never does. RunQueue implements   *)
(* it (Implements there).                                                  *)
(*                                                                         *)
(* Source of the promise: docs/concepts/concurrency.md and                 *)
(* docs/architecture/concurrency-flow.md; the code is mapped in RunQueue.  *)
(***************************************************************************)
EXTENDS Integers, FiniteSets

CONSTANTS Runs, MaxRuns   \* MaxRuns < 0: no limit

VARIABLES
    seat,        \* of each run: "queue", "inside" or "out"
    executions,  \* how often each run has executed
    withdrawn    \* runs taken off the queue by their users

svars == <<seat, executions, withdrawn>>

Inside == {r \in Runs : seat[r] = "inside"}

Init ==
    /\ seat = [r \in Runs |-> "queue"]
    /\ executions = [r \in Runs |-> 0]
    /\ withdrawn = {}

\* A run takes a seat. One that is out may be seated again: the queue is read
\* before it is written. One that has executed may not.
Admit(r) ==
    /\ seat[r] # "inside" /\ executions[r] = 0
    /\ seat' = [seat EXCEPT ![r] = "inside"]
    /\ MaxRuns >= 0 => Cardinality(Inside') <= MaxRuns
    /\ UNCHANGED <<executions, withdrawn>>

Execute(r) ==
    /\ seat[r] # "queue" /\ executions[r] = 0 /\ r \notin withdrawn
    /\ executions' = [executions EXCEPT ![r] = 1]
    /\ UNCHANGED <<seat, withdrawn>>

\* A run ends, fails or is canceled.
Leave(r) ==
    /\ seat[r] # "out"
    /\ seat' = [seat EXCEPT ![r] = "out"]
    /\ UNCHANGED <<executions, withdrawn>>

\* The user takes back a run that has not executed.
Withdraw(r) ==
    /\ seat[r] # "out" /\ executions[r] = 0
    /\ seat' = [seat EXCEPT ![r] = "out"]
    /\ withdrawn' = withdrawn \cup {r}
    /\ UNCHANGED executions

Next == \E r \in Runs : Admit(r) \/ Execute(r) \/ Leave(r) \/ Withdraw(r)

Spec == Init /\ [][Next]_svars
=============================================================================
