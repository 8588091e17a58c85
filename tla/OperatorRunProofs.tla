------------------------- MODULE OperatorRunProofs -------------------------
(***************************************************************************)
(* Proofs about OperatorRun, for any number of replicas, steps, restarts   *)
(* and crashes: as long as no call has failed, a run that is reported as a *)
(* success has done all its steps, and one that is reported as stopped     *)
(* starts no other.                                                        *)
(***************************************************************************)
EXTENDS OperatorRun, TLAPS

USE DEF storage, kubelet, exec, op, others, clock, faults

\* Every step is one of the operations, applied to a pod or a replica where it
\* takes one.
LEMMA NextCases ==
    ASSUME [Next]_vars
    PROVE  \/ launch
           \/ launch_retry
           \/ fail_unlaunched_run
           \/ health_check
           \/ annotate
           \/ delete_run
           \/ cancel_run
           \/ cancel_queued_run
           \/ terminate_run
           \/ collect_pods
           \/ timeout_passes
           \/ grace_passes
           \/ \E p \in Pods :
                 \/ pod_starts(p)
                 \/ try_start_run(p)
                 \/ execute_level(p)
                 \/ execute_step(p)
                 \/ finalize_status(p)
                 \/ finalize_write(p)
                 \/ report(p)
                 \/ set_run_outcome(p)
                 \/ pod_succeeds(p)
                 \/ verb_mismatch(p)
                 \/ pod_dies(p)
           \/ \E r \in Replicas :
                 \/ observe(r)
                 \/ add_finalizer(r)
                 \/ reconcile_init(r)
                 \/ reconcile_pending(r)
                 \/ start_cancelling(r)
                 \/ transition_to_timed_out(r)
                 \/ timed_out_delete(r)
                 \/ reconcile_running(r)
                 \/ succeeded_outcome(r)
                 \/ update_progress(r)
                 \/ handle_executor_failure(r)
                 \/ restart_budget(r)
                 \/ budget_exhausted(r)
                 \/ restart_delete(r)
                 \/ restart_create(r)
                 \/ reconcile_cancelling(r)
                 \/ cancelling_kill(r)
                 \/ finalize_cancelled(r)
                 \/ patch(r)
                 \/ sync_run_status_to_storage(r)
                 \/ handle_deletion(r)
                 \/ deletion_sync(r)
                 \/ deletion_pod(r)
                 \/ remove_finalizer(r)
                 \/ api_error(r)
                 \/ crash(r)
           \/ UNCHANGED vars
  BY DEF Next, Daemon, User, Executor, Reconcile

-----------------------------------------------------------------------------
(* The allowance of restarts.                                              *)

\* More steps allow for more restarts, each step for the budget once more.
LEMMA AllowanceGrows ==
    /\ \A n \in Nat : Allowance(n) \in Nat
    /\ \A m, n \in Nat : m <= n => Allowance(m) <= Allowance(n)
    /\ \A m, n \in Nat : m < n => Allowance(m) + MaxRestarts + 1 <= Allowance(n)
    /\ Allowance(Steps) + MaxRestarts + 1 = MaxTotal
<1> USE OperatorAssumption
<1>0. ASSUME NEW k \in Nat, NEW a \in Nat, NEW b \in Nat
      PROVE  k * a \in Nat /\ k * (a + b) = k * a + k * b /\ k * (a + 1) = k * a + k
  OBVIOUS
<1>1. ASSUME NEW n \in Nat PROVE Allowance(n) \in Nat
  BY <1>0 DEF Allowance
<1>2. ASSUME NEW m \in Nat, NEW n \in Nat, m <= n
      PROVE  Allowance(m) <= Allowance(n)
  <2>1. n - m \in Nat /\ n = m + (n - m) /\ MaxRestarts + 1 \in Nat
    BY <1>2
  <2>2. /\ (MaxRestarts + 1) * (m + (n - m)) = (MaxRestarts + 1) * m + (MaxRestarts + 1) * (n - m)
        /\ (MaxRestarts + 1) * (n - m) \in Nat /\ (MaxRestarts + 1) * m \in Nat
    BY <2>1, <1>0
  <2> QED BY <2>1, <2>2 DEF Allowance
<1>3. ASSUME NEW m \in Nat PROVE Allowance(m + 1) = Allowance(m) + MaxRestarts + 1
  BY <1>0 DEF Allowance
<1>4. ASSUME NEW m \in Nat, NEW n \in Nat, m < n
      PROVE  Allowance(m) + MaxRestarts + 1 <= Allowance(n)
  <2>1. m + 1 \in Nat /\ m + 1 <= n
    BY <1>4
  <2> QED BY <2>1, <1>2, <1>3
<1>5. Allowance(Steps) + MaxRestarts + 1 = MaxTotal
  BY <1>3 DEF MaxTotal, Allowance
<1> QED BY <1>1, <1>2, <1>4, <1>5

-----------------------------------------------------------------------------
(* Versions of the Run.                                                    *)

\* The Run before and when it is created.
LEMMA NoRunShape ==
    /\ NoRun \in Resource /\ NoRun.phase = "none"
    /\ Created \in Resource /\ Created.phase = "none"
    /\ \A run \in {NoRun, Created} : run.total = 0 /\ run.restarts = 0 /\ run.completed = Absent
<1>0. 0 \in 0 .. MaxRestarts + 1 /\ 0 \in 0 .. MaxTotal
  BY OperatorAssumption, AllowanceGrows
<1>1. NoRun \in Resource /\ NoRun.phase = "none"
  BY <1>0 DEF NoRun, Resource, Phases, Absent
<1>2. Created \in Resource /\ Created.phase = NoRun.phase
  BY <1>1 DEF Created, Resource
<1> QED BY <1>1, <1>2 DEF NoRun, Created

\* A phase and a number are written.
LEMMA PhaseShape ==
    ASSUME NEW run \in Resource, NEW x \in Phases
    PROVE  /\ [run EXCEPT !.phase = x] \in Resource
           /\ [run EXCEPT !.phase = x].phase = x
           /\ [run EXCEPT !.phase = x].total = run.total
           /\ [run EXCEPT !.phase = x].restarts = run.restarts
           /\ [run EXCEPT !.phase = x].completed = run.completed
  BY DEF Resource

LEMMA PodShape ==
    ASSUME NEW run \in Resource, NEW x \in Pods
    PROVE  /\ [run EXCEPT !.pod = x] \in Resource
           /\ [run EXCEPT !.pod = x].phase = run.phase
           /\ [run EXCEPT !.pod = x].total = run.total
           /\ [run EXCEPT !.pod = x].restarts = run.restarts
           /\ [run EXCEPT !.pod = x].completed = run.completed
  BY DEF Resource

LEMMA CountShape ==
    ASSUME NEW run \in Resource, NEW x \in 0 .. Steps
    PROVE  /\ [run EXCEPT !.completed = x] \in Resource
           /\ [run EXCEPT !.completed = x].phase = run.phase
           /\ [run EXCEPT !.completed = x].total = run.total
           /\ [run EXCEPT !.completed = x].restarts = run.restarts
           /\ [run EXCEPT !.completed = x].completed = x
  BY DEF Resource

LEMMA LaunchedShape ==
    ASSUME NEW run \in Resource
    PROVE  /\ [run EXCEPT !.phase = "Running", !.pod = 0] \in Resource
           /\ [run EXCEPT !.phase = "Running", !.pod = 0].phase = "Running"
           /\ [run EXCEPT !.phase = "Running", !.pod = 0].total = run.total
           /\ [run EXCEPT !.phase = "Running", !.pod = 0].restarts = run.restarts
           /\ [run EXCEPT !.phase = "Running", !.pod = 0].completed = run.completed
<1>1. 0 \in Pods /\ "Running" \in Phases
  BY OperatorAssumption, AllowanceGrows DEF Pods, Phases
<1> QED BY <1>1 DEF Resource

LEMMA FlagShape ==
    ASSUME NEW run \in Resource,
           NEW new \in {[run EXCEPT !.cancel = TRUE], [run EXCEPT !.deleting = TRUE],
                        [run EXCEPT !.finalizer = TRUE]}
    PROVE  /\ new \in Resource /\ new.phase = run.phase /\ new.total = run.total
           /\ new.restarts = run.restarts /\ new.completed = run.completed
<1>1. CASE new = [run EXCEPT !.cancel = TRUE]
  BY <1>1 DEF Resource
<1>2. CASE new = [run EXCEPT !.deleting = TRUE]
  BY <1>2 DEF Resource
<1>3. CASE new = [run EXCEPT !.finalizer = TRUE]
  BY <1>3 DEF Resource
<1> QED BY <1>1, <1>2, <1>3

-----------------------------------------------------------------------------
(* Restarts that are paid for.                                             *)

\* What Paid and Within look at.
LEMMA SamePaid ==
    ASSUME NEW run \in Resource, NEW new \in Resource, done \in Nat,
           new.total = run.total, new.restarts = run.restarts,
           new.completed = run.completed \/ (new.completed = done /\ run.completed <= done),
           Paid(run)
    PROVE  Paid(new)
<1>1. /\ run.completed \in 0 .. Steps \cup {Absent} /\ new.completed \in 0 .. Steps \cup {Absent}
      /\ run.total \in Int /\ run.restarts \in Int
  BY OperatorAssumption, AllowanceGrows DEF Resource
<1>2. Completed(run) \in Nat /\ Completed(new) \in Nat /\ Completed(run) <= Completed(new)
  BY <1>1, OperatorAssumption DEF Completed, Absent
<1>3. /\ Allowance(Completed(run)) <= Allowance(Completed(new))
      /\ Allowance(Completed(run)) \in Nat /\ Allowance(Completed(new)) \in Nat
  BY <1>2, AllowanceGrows
<1> QED BY <1>1, <1>3 DEF Paid

\* A draft of handle_executor_failure is a Run in the phase it had, whose
\* restarts are paid for.
LEMMA RestartPaid ==
    ASSUME NEW run \in Resource, done \in 0 .. Steps, Within(run), run.phase \notin Terminal,
           NEW n, NEW read \in BOOLEAN, n = IF read THEN done ELSE 0
    PROVE  /\ Restarted(run, n, read) \in Resource
           /\ Restarted(run, n, read).phase = run.phase
           /\ Paid(Restarted(run, n, read))
<1> DEFINE x == run.total + 1
           y == IF n > Completed(run) THEN 0 ELSE run.restarts + 1
           z == IF read THEN n ELSE run.completed
<1>1. /\ run.completed \in 0 .. Steps \cup {Absent} /\ run.total \in Nat /\ run.restarts \in Nat
      /\ run.restarts <= MaxRestarts /\ run.completed <= done /\ MaxRestarts \in Nat
      /\ Steps \in Nat /\ done \in Nat /\ done <= Steps /\ n \in Nat
  BY OperatorAssumption, AllowanceGrows DEF Resource, Within, Paid
<1>2. y \in 0 .. MaxRestarts + 1 /\ z \in 0 .. Steps \cup {Absent} /\ z <= done /\ y \in Nat
  BY <1>1 DEF Absent
<1>3. Restarted(run, n, read) = [run EXCEPT !.total = x, !.restarts = y, !.completed = z]
  BY DEF Restarted
<1> DEFINE c == Completed(run)
           e == IF z = Absent THEN 0 ELSE z
<1>4. c \in Nat /\ e \in Nat /\ c <= e /\ e <= Steps /\ (y = 0 => c < e)
  BY <1>1 DEF Completed, Absent
<1>5. /\ Allowance(c) \in Nat /\ Allowance(e) \in Nat /\ Allowance(c) <= Allowance(e)
      /\ c < e => Allowance(c) + MaxRestarts + 1 <= Allowance(e)
      /\ Allowance(e) <= Allowance(Steps) /\ Allowance(Steps) + MaxRestarts + 1 = MaxTotal
      /\ Allowance(Steps) \in Nat
  BY <1>1, <1>4, AllowanceGrows
<1>6. run.total <= Allowance(c) + run.restarts
  BY DEF Within, Paid
<1>7. x <= Allowance(e) + y
  <2>1. CASE y = 0
    BY <2>1, <1>1, <1>4, <1>5, <1>6
  <2>2. CASE y = run.restarts + 1
    BY <2>2, <1>1, <1>5, <1>6
  <2> QED BY <2>1, <2>2
<1>8. x \in 0 .. MaxTotal
  BY <1>1, <1>2, <1>5, <1>7
<1> HIDE DEF x, y, z
<1>9. /\ Restarted(run, n, read) \in Resource
      /\ Restarted(run, n, read).phase = run.phase
      /\ Restarted(run, n, read).total = x
      /\ Restarted(run, n, read).restarts = y
      /\ Restarted(run, n, read).completed = z
  BY <1>2, <1>3, <1>8 DEF Resource
<1> QED BY <1>2, <1>7, <1>9 DEF Paid, Completed

\* A patch leaves the Run with the phase of the draft, or as it was.
LEMMA PatchPaid ==
    ASSUME cr \in Resource, NEW d \in Resource, patch_status(d), Within(cr), Within(d),
           done \in 0 .. Steps
    PROVE  cr' \in Resource /\ cr'.phase \in {cr.phase, d.phase} /\ Within(cr')
<1>1. CASE ~cr.there
  BY <1>1 DEF patch_status
<1>2. CASE cr.there
  <2> DEFINE q == IF d.pod = Absent THEN cr.pod ELSE d.pod
             z == IF d.completed = Absent THEN cr.completed ELSE d.completed
  <2>1. q \in Pods \cup {Absent} /\ z \in 0 .. Steps \cup {Absent}
    BY DEF Resource
  <2>2. cr' = [cr EXCEPT !.phase = d.phase, !.restarts = d.restarts, !.total = d.total,
                         !.pod = q, !.completed = z]
    BY <1>2 DEF patch_status
  <2>3. z <= done
    BY DEF Within, Paid
  <2>4. /\ d.completed \in 0 .. Steps \cup {Absent} /\ d.total \in Int /\ d.restarts \in Int
        /\ Steps \in Nat
    BY OperatorAssumption, AllowanceGrows DEF Resource
  <2> DEFINE e == IF z = Absent THEN 0 ELSE z
  <2>5. e \in Nat /\ Completed(d) \in Nat /\ Completed(d) <= e
    BY <2>1, <2>4 DEF Completed, Absent
  <2>6. d.total <= Allowance(e) + d.restarts
    <3>1. d.total <= Allowance(Completed(d)) + d.restarts
      BY DEF Within, Paid
    <3>2. /\ Allowance(Completed(d)) <= Allowance(e)
          /\ Allowance(Completed(d)) \in Nat /\ Allowance(e) \in Nat
      BY <2>5, AllowanceGrows
    <3> QED BY <3>1, <3>2, <2>4
  <2> HIDE DEF q, z
  <2>7. /\ cr' \in Resource /\ cr'.phase = d.phase /\ cr'.total = d.total
        /\ cr'.restarts = d.restarts /\ cr'.completed = z
    BY <2>1, <2>2 DEF Resource
  <2>8. Paid(cr')
    BY <2>3, <2>6, <2>7 DEF Paid, Completed
  <2> QED BY <2>7, <2>8 DEF Within
<1> QED BY <1>1, <1>2

\* The phase of an outcome is one a run ends in.
LEMMA OutcomePhase ==
    ASSUME NEW o \in {"Success", "Failure", "Cancelled"}
    PROVE  /\ PhaseOf(o) \in Terminal /\ PhaseOf(o) \in Phases
           /\ PhaseOf(o) = "Succeeded" => o = "Success"
           /\ PhaseOf(o) \in {"Cancelling", "Cancelled", "TimedOut"} => o = "Cancelled"
  BY DEF PhaseOf, Terminal, Phases

-----------------------------------------------------------------------------
(* What a step does to a replica.                                          *)

\* The phase of a draft: that of the Run the reconcile started from or of its
\* last draft, a fixed one, or that of the outcome.
DraftPhase(r, x) ==
    \/ x \in {seen[r].phase, draft[r].phase, "Running", "Failed"}
    \/ x = PhaseOf(outcome) /\ outcome # "none"
    \/ x = "Succeeded" /\ pc[r] = "outcome" /\ (outcome = "none" \/ errors' # errors)
    \/ x \in {"Cancelling", "TimedOut"} /\ (flag' \/ errors' # errors)
    \/ x = "Cancelled" /\ pc[r] = "finalize"

\* The reconcile drafts a status whose restarts are paid for, and one that is
\* to be written as the end of the run has a final phase.
Drafting(r) ==
    \E d \in Resource : \E w \in {"patch", "timeout", "patch_sync", "exhausted", "delete_old"} :
        /\ Drafts(r, d) /\ Goes(r, w)
        /\ w \in {"timeout", "patch_sync"} => d.phase \in Terminal
        /\ Paid(d) /\ (w # "exhausted" => Within(d))
        /\ DraftPhase(r, d.phase)

\* It starts from what the cache says ...
Starting(r) ==
    \E w \in {"outcome", "failure", "progress", "kill", "finalize", "del_pod", "del_sync"} :
        /\ pc[r] = "idle" /\ Sees(r) /\ Goes(r, w)
        /\ w \in {"kill", "finalize"} => cache[r].phase = "Cancelling"
        /\ w = "outcome" => \E p \in Pods : pods[p] = "Succeeded"
        /\ w = "failure" => cache[r].phase = "Running"

\* ... or goes on with what it has.
Going(r) ==
    \E w \in {"budget", "create", "finalize", "sync", "del_pod", "del_final"} :
        /\ pc[r] # "exhausted" /\ Goes(r, w)
        /\ w = "budget" => pc[r] = "failure"
        /\ w = "finalize" => pc[r] = "kill"
        /\ w = "sync" => pc[r] = "patch_sync"

Replica(r) ==
    \/ Finishes(r) /\ cache' \in {cache, [cache EXCEPT ![r] = cr]}
    \/ Starting(r) /\ UNCHANGED <<cache, draft>>
    \/ Going(r) /\ UNCHANGED <<cache, seen, draft>>
    \/ Drafting(r) /\ cache' = cache /\ (seen' = seen \/ Sees(r))
    \/ cache' = [cache EXCEPT ![r] = cr] /\ UNCHANGED op

\* The reconciles that draft a status draft such a one, or are over.
LEMMA DraftCases ==
    ASSUME TypeOK, Due, BudgetInv, NEW r \in Replicas,
           \/ reconcile_pending(r) \/ start_cancelling(r) \/ transition_to_timed_out(r)
           \/ timed_out_delete(r) \/ succeeded_outcome(r) \/ update_progress(r)
           \/ handle_executor_failure(r) \/ restart_budget(r) \/ budget_exhausted(r)
           \/ restart_create(r) \/ finalize_cancelled(r)
    PROVE  \/ Drafting(r)
           \/ Finishes(r)
           \/ pc[r] = "failure" /\ Goes(r, "budget") /\ draft' = draft
<1>0. /\ cache[r] \in Resource /\ seen[r] \in Resource /\ draft[r] \in Resource
      /\ done \in 0 .. Steps /\ done \in Nat /\ errors \in Nat
      /\ outcome \in {"none", "Success", "Failure", "Cancelled"}
  BY OperatorAssumption DEF TypeOK
<1>A. /\ Within(cache[r]) /\ Within(seen[r]) /\ Paid(draft[r]) /\ Paid(cache[r]) /\ Paid(seen[r])
      /\ pc[r] # "exhausted" => Within(draft[r])
  BY DEF BudgetInv, Within
<1>B. /\ cache[r].completed <= done /\ seen[r].completed <= done /\ draft[r].completed <= done
  BY <1>A DEF Paid
<1>C. \A x : x = errors + 1 => x # errors
  BY <1>0
<1>1. CASE reconcile_pending(r)
  <2> DEFINE d == [cache[r] EXCEPT !.phase = "Running", !.pod = 0]
  <2>1. /\ d \in Resource /\ d.phase = "Running" /\ d.total = cache[r].total
        /\ d.restarts = cache[r].restarts /\ d.completed = cache[r].completed
    BY <1>0, LaunchedShape
  <2> HIDE DEF d
  <2>2. Paid(d)
    BY <1>0, <1>A, <1>B, <2>1, SamePaid
  <2>3. Within(d)
    BY <1>1, <1>A, <2>1, <2>2 DEF Within, Terminal, reconcile_pending, Begins
  <2> QED
    BY <1>0, <1>1, <1>A, <1>C, <2>1, <2>2, <2>3, Zenon
       DEF reconcile_pending, d, Works, Fails, Drafting, DraftPhase, Terminal
<1>2. CASE start_cancelling(r)
  <2> DEFINE d == [cache[r] EXCEPT !.phase = "Cancelling"]
  <2>1. /\ d \in Resource /\ d.phase = "Cancelling" /\ d.total = cache[r].total
        /\ d.restarts = cache[r].restarts /\ d.completed = cache[r].completed
    BY <1>0, PhaseShape DEF Phases, Terminal
  <2> HIDE DEF d
  <2>2. Paid(d)
    BY <1>0, <1>A, <1>B, <2>1, SamePaid
  <2>3. Within(d)
    BY <1>2, <1>A, <2>1, <2>2 DEF Within, Terminal, start_cancelling, Begins
  <2> QED
    BY <1>0, <1>2, <1>A, <1>C, <2>1, <2>2, <2>3, Zenon
       DEF start_cancelling, request_cancellation, d, Works, Fails, Drafting, DraftPhase, Terminal
<1>3. CASE transition_to_timed_out(r)
  <2> DEFINE d == [cache[r] EXCEPT !.phase = "TimedOut"]
  <2>1. /\ d \in Resource /\ d.phase = "TimedOut" /\ d.total = cache[r].total
        /\ d.restarts = cache[r].restarts /\ d.completed = cache[r].completed
    BY <1>0, PhaseShape DEF Phases, Terminal
  <2> HIDE DEF d
  <2>2. Paid(d)
    BY <1>0, <1>A, <1>B, <2>1, SamePaid
  <2>3. Within(d)
    BY <1>3, <1>A, <2>1, <2>2 DEF Within, Terminal, transition_to_timed_out, Begins
  <2> QED
    BY <1>0, <1>3, <1>A, <1>C, <2>1, <2>2, <2>3, Zenon
       DEF transition_to_timed_out, request_cancellation, d, Works, Fails, Drafting, DraftPhase, Terminal
<1>4. CASE timed_out_delete(r)
  <2> DEFINE d == [draft[r] EXCEPT !.completed = done]
  <2>1. /\ d \in Resource /\ d.phase = draft[r].phase /\ d.total = draft[r].total
        /\ d.restarts = draft[r].restarts /\ d.completed = done
    BY <1>0, CountShape
  <2> HIDE DEF d
  <2>2. Paid(d)
    BY <1>0, <1>A, <1>B, <2>1, SamePaid
  <2>3. Within(d)
    BY <1>4, <1>A, <2>1, <2>2 DEF Within, Terminal, timed_out_delete
  <2> QED
    BY <1>0, <1>4, <1>A, <1>C, <2>1, <2>2, <2>3, Zenon
       DEF timed_out_delete, reads_progress, Due, d, Works, Fails, Drafting, DraftPhase, Terminal
<1>5. CASE succeeded_outcome(r)
  <2> DEFINE d1 == [seen[r] EXCEPT !.phase = "Succeeded"]
  <2>1. /\ d1 \in Resource /\ d1.phase = "Succeeded" /\ d1.total = seen[r].total
        /\ d1.restarts = seen[r].restarts /\ d1.completed = seen[r].completed
    BY <1>0, PhaseShape DEF Phases, Terminal
  <2> HIDE DEF d1
  <2>2. Paid(d1)
    BY <1>0, <1>A, <1>B, <2>1, SamePaid
  <2> DEFINE d2 == [seen[r] EXCEPT !.phase = PhaseOf(outcome)]
  <2>3. outcome # "none" =>
           /\ d2 \in Resource /\ d2.phase = PhaseOf(outcome) /\ d2.total = seen[r].total
           /\ d2.restarts = seen[r].restarts /\ d2.completed = seen[r].completed /\ PhaseOf(outcome) \in Terminal
    BY <1>0, PhaseShape, OutcomePhase DEF Phases, Terminal
  <2> HIDE DEF d2
  <2>4. outcome # "none" => Paid(d2)
    BY <1>0, <1>A, <1>B, <2>3, SamePaid
  <2>5. Within(d1)
    BY <1>5, <1>A, <2>1, <2>2, <2>3, <2>4 DEF Within, Terminal, succeeded_outcome
  <2>6. outcome # "none" => Within(d2)
    BY <1>5, <1>A, <2>1, <2>2, <2>3, <2>4 DEF Within, Terminal, succeeded_outcome
  <2> QED
    BY <1>0, <1>5, <1>A, <1>C, <2>1, <2>2, <2>3, <2>4, <2>5, <2>6, Zenon
       DEF succeeded_outcome, apply_outcome_to_status, d1, d2, Works, Fails, Drafting, DraftPhase, Terminal
<1>6. CASE update_progress(r)
  <2> DEFINE d == [seen[r] EXCEPT !.completed = done]
  <2>1. /\ d \in Resource /\ d.phase = seen[r].phase /\ d.total = seen[r].total
        /\ d.restarts = seen[r].restarts /\ d.completed = done
    BY <1>0, CountShape
  <2> HIDE DEF d
  <2>2. Paid(d)
    BY <1>0, <1>A, <1>B, <2>1, SamePaid
  <2>3. Within(d)
    BY <1>6, <1>A, <2>1, <2>2 DEF Within, Terminal, update_progress
  <2> QED
    BY <1>0, <1>6, <1>A, <1>C, <2>1, <2>2, <2>3, Zenon
       DEF update_progress, d, Works, Fails, Drafting, DraftPhase, Terminal
<1>7. CASE handle_executor_failure(r)
  <2> DEFINE d == [seen[r] EXCEPT !.phase = PhaseOf(outcome)]
  <2>1. outcome # "none" =>
           /\ d \in Resource /\ d.phase = PhaseOf(outcome) /\ d.total = seen[r].total
           /\ d.restarts = seen[r].restarts /\ d.completed = seen[r].completed /\ PhaseOf(outcome) \in Terminal
    BY <1>0, PhaseShape, OutcomePhase DEF Phases, Terminal
  <2> HIDE DEF d
  <2>2. outcome # "none" => Paid(d)
    BY <1>0, <1>A, <1>B, <2>1, SamePaid
  <2>3. outcome # "none" => Within(d)
    BY <1>7, <1>A, <2>1, <2>2 DEF Within, Terminal, handle_executor_failure
  <2> QED
    BY <1>0, <1>7, <1>A, <1>C, <2>1, <2>2, <2>3, Zenon
       DEF handle_executor_failure, apply_outcome_to_status, d, Works, Fails, Drafting, DraftPhase, Terminal
<1>8. CASE restart_budget(r)
  <2>1. Within(seen[r]) /\ seen[r].phase \notin Terminal
    BY <1>8, <1>A DEF restart_budget, BudgetInv
  <2> DEFINE d1 == Restarted(seen[r], done, TRUE)
             d2 == Restarted(seen[r], 0, FALSE)
  <2>2. d1 \in Resource /\ d1.phase = seen[r].phase /\ Paid(d1)
    BY <1>0, <2>1, RestartPaid
  <2>3. d2 \in Resource /\ d2.phase = seen[r].phase /\ Paid(d2)
    BY <1>0, <2>1, RestartPaid
  <2> HIDE DEF d1, d2
  <2>4. PICK d \in {d1, d2} : Drafts(r, d)
    BY <1>8 DEF restart_budget, d1, d2
  <2>5. draft'[r] = d
    BY <2>4 DEF Drafts, TypeOK
  <2>6. /\ d.restarts \in Int /\ MaxRestarts \in Int
        /\ Goes(r, IF d.restarts > MaxRestarts THEN "exhausted" ELSE "delete_old")
    BY <1>8, <2>2, <2>3, <2>5, OperatorAssumption DEF restart_budget, Resource
  <2>7. CASE d.restarts > MaxRestarts
    BY <2>2, <2>3, <2>4, <2>6, <2>7 DEF Drafting, DraftPhase
  <2>8. CASE ~(d.restarts > MaxRestarts)
    <3>1. Within(d)
      BY <2>2, <2>3, <2>6, <2>8 DEF Within
    <3> QED BY <2>2, <2>3, <2>4, <2>6, <2>8, <3>1 DEF Drafting, DraftPhase
  <2> QED BY <2>7, <2>8
<1>9. CASE budget_exhausted(r)
  <2> DEFINE d1 == [draft[r] EXCEPT !.phase = "Failed"]
  <2>1. /\ d1 \in Resource /\ d1.phase = "Failed" /\ d1.total = draft[r].total
        /\ d1.restarts = draft[r].restarts /\ d1.completed = draft[r].completed
    BY <1>0, PhaseShape DEF Phases, Terminal
  <2> HIDE DEF d1
  <2>2. Paid(d1)
    BY <1>0, <1>A, <1>B, <2>1, SamePaid
  <2> DEFINE d2 == [draft[r] EXCEPT !.phase = PhaseOf(outcome)]
  <2>3. outcome # "none" =>
           /\ d2 \in Resource /\ d2.phase = PhaseOf(outcome) /\ d2.total = draft[r].total
           /\ d2.restarts = draft[r].restarts /\ d2.completed = draft[r].completed /\ PhaseOf(outcome) \in Terminal
    BY <1>0, PhaseShape, OutcomePhase DEF Phases, Terminal
  <2> HIDE DEF d2
  <2>4. outcome # "none" => Paid(d2)
    BY <1>0, <1>A, <1>B, <2>3, SamePaid
  <2>5. Within(d1)
    BY <1>9, <1>A, <2>1, <2>2, <2>3, <2>4 DEF Within, Terminal, budget_exhausted
  <2>6. outcome # "none" => Within(d2)
    BY <1>9, <1>A, <2>1, <2>2, <2>3, <2>4 DEF Within, Terminal, budget_exhausted
  <2> QED
    BY <1>0, <1>9, <1>A, <1>C, <2>1, <2>2, <2>3, <2>4, <2>5, <2>6, Zenon
       DEF budget_exhausted, apply_outcome_to_status, d1, d2, Works, Fails, Drafting, DraftPhase, Terminal
<1>10. CASE restart_create(r)
  <2> DEFINE d == [draft[r] EXCEPT !.pod = draft[r].total]
  <2>1. /\ d \in Resource /\ d.phase = draft[r].phase /\ d.total = draft[r].total
        /\ d.restarts = draft[r].restarts /\ d.completed = draft[r].completed
    <3>1. draft[r].total \in Pods
      BY <1>0 DEF Resource, Pods
    <3> QED BY <1>0, <3>1, PodShape
  <2> HIDE DEF d
  <2>2. Paid(d)
    BY <1>0, <1>A, <1>B, <2>1, SamePaid
  <2>3. Within(d)
    BY <1>10, <1>A, <2>1, <2>2 DEF Within, Terminal, restart_create
  <2> QED
    BY <1>0, <1>10, <1>A, <1>C, <2>1, <2>2, <2>3, Zenon
       DEF restart_create, d, Works, Fails, Drafting, DraftPhase, Terminal
<1>11. CASE finalize_cancelled(r)
  <2> DEFINE d1 == [seen[r] EXCEPT !.phase = "Cancelled"]
  <2>1. /\ d1 \in Resource /\ d1.phase = "Cancelled" /\ d1.total = seen[r].total
        /\ d1.restarts = seen[r].restarts /\ d1.completed = seen[r].completed
    BY <1>0, PhaseShape DEF Phases, Terminal
  <2> HIDE DEF d1
  <2>2. Paid(d1)
    BY <1>0, <1>A, <1>B, <2>1, SamePaid
  <2> DEFINE d2 == [d1 EXCEPT !.completed = done]
  <2>3. /\ d2 \in Resource /\ d2.phase = d1.phase /\ d2.total = d1.total
        /\ d2.restarts = d1.restarts /\ d2.completed = done
    BY <1>0, <2>1, CountShape
  <2> HIDE DEF d2
  <2>4. Paid(d2)
    BY <1>0, <1>A, <1>B, <2>3, <2>1, <2>2, SamePaid DEF Paid
  <2>5. Within(d1)
    BY <1>11, <1>A, <2>1, <2>2, <2>3, <2>4 DEF Within, Terminal, finalize_cancelled
  <2>6. Within(d2)
    BY <1>11, <1>A, <2>1, <2>2, <2>3, <2>4 DEF Within, Terminal, finalize_cancelled
  <2> QED
    BY <1>0, <1>11, <1>A, <1>C, <2>1, <2>2, <2>3, <2>4, <2>5, <2>6, Zenon
       DEF finalize_cancelled, reads_progress, d1, d2, Works, Fails, Drafting, DraftPhase, Terminal
<1> QED
  BY <1>1, <1>2, <1>3, <1>4, <1>5, <1>6, <1>7, <1>8, <1>9, <1>10, <1>11

\* Every step leaves the replicas alone or is one of one replica.
LEMMA ReplicaMoves ==
    ASSUME TypeOK, Due, BudgetInv, [Next]_vars
    PROVE  UNCHANGED <<cache, op>> \/ \E r \in Replicas : Replica(r)
<1> DEFINE Goal == UNCHANGED <<cache, op>> \/ \E r \in Replicas : Replica(r)
<1>1. CASE launch
  BY <1>1 DEF launch
<1>2. CASE launch_retry
  BY <1>2 DEF launch_retry
<1>3. CASE fail_unlaunched_run
  BY <1>3 DEF fail_unlaunched_run
<1>4. CASE health_check
  BY <1>4 DEF health_check
<1>5. CASE annotate
  BY <1>5 DEF annotate
<1>6. CASE delete_run
  BY <1>6 DEF delete_run
<1>7. CASE cancel_run
  BY <1>7 DEF cancel_run
<1>8. CASE cancel_queued_run
  BY <1>8 DEF cancel_queued_run
<1>9. CASE terminate_run
  BY <1>9 DEF terminate_run
<1>10. CASE collect_pods
  BY <1>10 DEF collect_pods
<1>11. CASE timeout_passes
  BY <1>11 DEF timeout_passes
<1>12. CASE grace_passes
  BY <1>12 DEF grace_passes
<1>13. ASSUME NEW p \in Pods, pod_starts(p) PROVE Goal
  BY <1>13 DEF pod_starts
<1>14. ASSUME NEW p \in Pods, try_start_run(p) PROVE Goal
  BY <1>14 DEF try_start_run
<1>15. ASSUME NEW p \in Pods, execute_level(p) PROVE Goal
  BY <1>15 DEF execute_level
<1>16. ASSUME NEW p \in Pods, execute_step(p) PROVE Goal
  BY <1>16 DEF execute_step
<1>17. ASSUME NEW p \in Pods, finalize_status(p) PROVE Goal
  BY <1>17 DEF finalize_status
<1>18. ASSUME NEW p \in Pods, finalize_write(p) PROVE Goal
  BY <1>18 DEF finalize_write
<1>19. ASSUME NEW p \in Pods, report(p) PROVE Goal
  BY <1>19 DEF report
<1>20. ASSUME NEW p \in Pods, set_run_outcome(p) PROVE Goal
  BY <1>20 DEF set_run_outcome
<1>21. ASSUME NEW p \in Pods, pod_succeeds(p) PROVE Goal
  BY <1>21 DEF pod_succeeds
<1>22. ASSUME NEW p \in Pods, verb_mismatch(p) PROVE Goal
  BY <1>22 DEF verb_mismatch
<1>23. ASSUME NEW p \in Pods, pod_dies(p) PROVE Goal
  BY <1>23 DEF pod_dies
<1>24. ASSUME NEW r \in Replicas, observe(r) PROVE Goal
  BY <1>24 DEF observe, Replica
<1>25. ASSUME NEW r \in Replicas, add_finalizer(r) PROVE Goal
  BY <1>25 DEF add_finalizer
<1>26. ASSUME NEW r \in Replicas, reconcile_init(r) PROVE Goal
  BY <1>26 DEF reconcile_init
<1>27. ASSUME NEW r \in Replicas, reconcile_pending(r) PROVE Goal
  <2>1. \/ Drafting(r)
        \/ Finishes(r)
        \/ pc[r] = "failure" /\ Goes(r, "budget") /\ draft' = draft
    BY <1>27, DraftCases
  <2>2. cache' = cache /\ (seen' = seen \/ Sees(r) \/ Finishes(r))
    BY <1>27 DEF reconcile_pending
  <2>3. pc[r] = "failure" => seen' = seen \/ Finishes(r)
    BY <1>27 DEF reconcile_pending, Begins
  <2> QED BY <2>1, <2>2, <2>3, Zenon DEF Replica, Going
<1>28. ASSUME NEW r \in Replicas, start_cancelling(r) PROVE Goal
  <2>1. \/ Drafting(r)
        \/ Finishes(r)
        \/ pc[r] = "failure" /\ Goes(r, "budget") /\ draft' = draft
    BY <1>28, DraftCases
  <2>2. cache' = cache /\ (seen' = seen \/ Sees(r) \/ Finishes(r))
    BY <1>28 DEF start_cancelling
  <2>3. pc[r] = "failure" => seen' = seen \/ Finishes(r)
    BY <1>28 DEF start_cancelling, Begins
  <2> QED BY <2>1, <2>2, <2>3, Zenon DEF Replica, Going
<1>29. ASSUME NEW r \in Replicas, transition_to_timed_out(r) PROVE Goal
  <2>1. \/ Drafting(r)
        \/ Finishes(r)
        \/ pc[r] = "failure" /\ Goes(r, "budget") /\ draft' = draft
    BY <1>29, DraftCases
  <2>2. cache' = cache /\ (seen' = seen \/ Sees(r) \/ Finishes(r))
    BY <1>29 DEF transition_to_timed_out
  <2>3. pc[r] = "failure" => seen' = seen \/ Finishes(r)
    BY <1>29 DEF transition_to_timed_out, Begins
  <2> QED BY <2>1, <2>2, <2>3, Zenon DEF Replica, Going
<1>30. ASSUME NEW r \in Replicas, timed_out_delete(r) PROVE Goal
  <2>1. \/ Drafting(r)
        \/ Finishes(r)
        \/ pc[r] = "failure" /\ Goes(r, "budget") /\ draft' = draft
    BY <1>30, DraftCases
  <2>2. cache' = cache /\ (seen' = seen \/ Sees(r) \/ Finishes(r))
    BY <1>30 DEF timed_out_delete
  <2>3. pc[r] = "failure" => seen' = seen \/ Finishes(r)
    BY <1>30 DEF timed_out_delete, Begins
  <2> QED BY <2>1, <2>2, <2>3, Zenon DEF Replica, Going
<1>31. ASSUME NEW r \in Replicas, reconcile_running(r) PROVE Goal
  <2> DEFINE q == PodOf(cache[r])
  <2>1. q \in Pods
    <3>1. cache[r] \in Resource
      BY DEF TypeOK
    <3>2. cache[r].pod \in Pods \cup {Absent} /\ 0 \in Pods
      BY <3>1, OperatorAssumption, AllowanceGrows DEF Resource, Pods
    <3> QED BY <3>2 DEF PodOf
  <2>2. pods[q] \in {"none", "Pending", "Running", "Succeeded", "Failed"}
    BY <2>1 DEF TypeOK
  <2> HIDE DEF q
  <2>3. /\ pc[r] = "idle" /\ cache[r].phase = "Running" /\ Sees(r) /\ pods[q] # "Pending"
        /\ Goes(r, CASE pods[q] = "Succeeded"          -> "outcome"
                     [] pods[q] \in {"Failed", "none"} -> "failure"
                     [] pods[q] = "Running"            -> "progress")
        /\ UNCHANGED <<cache, draft>>
    BY <1>31 DEF reconcile_running, Begins, q
  <2>4. CASE pods[q] = "Succeeded"
    <3>1. Goes(r, "outcome")
      BY <2>3, <2>4
    <3> QED BY <2>1, <2>3, <2>4, <3>1, Zenon DEF Replica, Starting
  <2>5. CASE pods[q] \in {"Failed", "none"}
    <3>1. Goes(r, "failure")
      BY <2>3, <2>5
    <3> QED BY <2>3, <3>1, Zenon DEF Replica, Starting
  <2>6. CASE pods[q] = "Running"
    <3>1. Goes(r, "progress")
      BY <2>3, <2>6
    <3> QED BY <2>3, <3>1, Zenon DEF Replica, Starting
  <2> QED BY <2>2, <2>3, <2>4, <2>5, <2>6
<1>32. ASSUME NEW r \in Replicas, succeeded_outcome(r) PROVE Goal
  <2>1. \/ Drafting(r)
        \/ Finishes(r)
        \/ pc[r] = "failure" /\ Goes(r, "budget") /\ draft' = draft
    BY <1>32, DraftCases
  <2>2. cache' = cache /\ (seen' = seen \/ Sees(r) \/ Finishes(r))
    BY <1>32 DEF succeeded_outcome
  <2>3. pc[r] = "failure" => seen' = seen \/ Finishes(r)
    BY <1>32 DEF succeeded_outcome, Begins
  <2> QED BY <2>1, <2>2, <2>3, Zenon DEF Replica, Going
<1>33. ASSUME NEW r \in Replicas, update_progress(r) PROVE Goal
  <2>1. \/ Drafting(r)
        \/ Finishes(r)
        \/ pc[r] = "failure" /\ Goes(r, "budget") /\ draft' = draft
    BY <1>33, DraftCases
  <2>2. cache' = cache /\ (seen' = seen \/ Sees(r) \/ Finishes(r))
    BY <1>33 DEF update_progress
  <2>3. pc[r] = "failure" => seen' = seen \/ Finishes(r)
    BY <1>33 DEF update_progress, Begins
  <2> QED BY <2>1, <2>2, <2>3, Zenon DEF Replica, Going
<1>34. ASSUME NEW r \in Replicas, handle_executor_failure(r) PROVE Goal
  <2>1. \/ Drafting(r)
        \/ Finishes(r)
        \/ pc[r] = "failure" /\ Goes(r, "budget") /\ draft' = draft
    BY <1>34, DraftCases
  <2>2. cache' = cache /\ (seen' = seen \/ Sees(r) \/ Finishes(r))
    BY <1>34 DEF handle_executor_failure
  <2>3. pc[r] = "failure" => seen' = seen \/ Finishes(r)
    BY <1>34 DEF handle_executor_failure, Begins
  <2> QED BY <2>1, <2>2, <2>3, Zenon DEF Replica, Going
<1>35. ASSUME NEW r \in Replicas, restart_budget(r) PROVE Goal
  <2>1. \/ Drafting(r)
        \/ Finishes(r)
        \/ pc[r] = "failure" /\ Goes(r, "budget") /\ draft' = draft
    BY <1>35, DraftCases
  <2>2. cache' = cache /\ (seen' = seen \/ Sees(r) \/ Finishes(r))
    BY <1>35 DEF restart_budget
  <2>3. pc[r] = "failure" => seen' = seen \/ Finishes(r)
    BY <1>35 DEF restart_budget, Begins
  <2> QED BY <2>1, <2>2, <2>3, Zenon DEF Replica, Going
<1>36. ASSUME NEW r \in Replicas, budget_exhausted(r) PROVE Goal
  <2>1. \/ Drafting(r)
        \/ Finishes(r)
        \/ pc[r] = "failure" /\ Goes(r, "budget") /\ draft' = draft
    BY <1>36, DraftCases
  <2>2. cache' = cache /\ (seen' = seen \/ Sees(r) \/ Finishes(r))
    BY <1>36 DEF budget_exhausted
  <2>3. pc[r] = "failure" => seen' = seen \/ Finishes(r)
    BY <1>36 DEF budget_exhausted, Begins
  <2> QED BY <2>1, <2>2, <2>3, Zenon DEF Replica, Going
<1>37. ASSUME NEW r \in Replicas, restart_delete(r) PROVE Goal
  BY <1>37, Zenon DEF restart_delete, Replica, Going
<1>38. ASSUME NEW r \in Replicas, restart_create(r) PROVE Goal
  <2>1. \/ Drafting(r)
        \/ Finishes(r)
        \/ pc[r] = "failure" /\ Goes(r, "budget") /\ draft' = draft
    BY <1>38, DraftCases
  <2>2. cache' = cache /\ (seen' = seen \/ Sees(r) \/ Finishes(r))
    BY <1>38 DEF restart_create
  <2>3. pc[r] = "failure" => seen' = seen \/ Finishes(r)
    BY <1>38 DEF restart_create, Begins
  <2> QED BY <2>1, <2>2, <2>3, Zenon DEF Replica, Going
<1>39. ASSUME NEW r \in Replicas, reconcile_cancelling(r) PROVE Goal
  BY <1>39, Zenon DEF reconcile_cancelling, Begins, Replica, Starting
<1>40. ASSUME NEW r \in Replicas, cancelling_kill(r) PROVE Goal
  BY <1>40, Zenon DEF cancelling_kill, Replica, Going
<1>41. ASSUME NEW r \in Replicas, finalize_cancelled(r) PROVE Goal
  <2>1. \/ Drafting(r)
        \/ Finishes(r)
        \/ pc[r] = "failure" /\ Goes(r, "budget") /\ draft' = draft
    BY <1>41, DraftCases
  <2>2. cache' = cache /\ (seen' = seen \/ Sees(r) \/ Finishes(r))
    BY <1>41 DEF finalize_cancelled
  <2>3. pc[r] = "failure" => seen' = seen \/ Finishes(r)
    BY <1>41 DEF finalize_cancelled, Begins
  <2> QED BY <2>1, <2>2, <2>3, Zenon DEF Replica, Going
<1>42. ASSUME NEW r \in Replicas, patch(r) PROVE Goal
  BY <1>42, Zenon DEF patch, Replica, Going
<1>43. ASSUME NEW r \in Replicas, sync_run_status_to_storage(r) PROVE Goal
  BY <1>43 DEF sync_run_status_to_storage, Replica
<1>44. ASSUME NEW r \in Replicas, handle_deletion(r) PROVE Goal
  BY <1>44, Zenon DEF handle_deletion, Replica, Starting
<1>45. ASSUME NEW r \in Replicas, deletion_sync(r) PROVE Goal
  BY <1>45, Zenon DEF deletion_sync, Replica, Going
<1>46. ASSUME NEW r \in Replicas, deletion_pod(r) PROVE Goal
  BY <1>46, Zenon DEF deletion_pod, Replica, Going
<1>47. ASSUME NEW r \in Replicas, remove_finalizer(r) PROVE Goal
  BY <1>47 DEF remove_finalizer, Replica
<1>48. ASSUME NEW r \in Replicas, api_error(r) PROVE Goal
  BY <1>48 DEF api_error, Replica
<1>49. ASSUME NEW r \in Replicas, crash(r) PROVE Goal
  BY <1>49 DEF crash, Replica
<1>50. CASE UNCHANGED vars
  BY <1>50 DEF vars
<1> QED
  BY <1>1, <1>2, <1>3, <1>4, <1>5, <1>6, <1>7, <1>8, <1>9, <1>10, 
     <1>11, <1>12, <1>13, <1>14, <1>15, <1>16, <1>17, <1>18, <1>19, 
     <1>20, <1>21, <1>22, <1>23, <1>24, <1>25, <1>26, <1>27, <1>28, 
     <1>29, <1>30, <1>31, <1>32, <1>33, <1>34, <1>35, <1>36, <1>37, 
     <1>38, <1>39, <1>40, <1>41, <1>42, <1>43, <1>44, <1>45, <1>46, 
     <1>47, <1>48, <1>49, <1>50, NextCases

-----------------------------------------------------------------------------
(* What a step does to the Run.                                            *)

\* A user or the daemon creates, marks or deletes the Run, or a replica
\* patches it.
LEMMA RunMoves ==
    ASSUME [Next]_vars
    PROVE  \/ cr' = cr
           \/ cr' \in {NoRun, Created, [cr EXCEPT !.cancel = TRUE],
                       [cr EXCEPT !.deleting = TRUE], [cr EXCEPT !.finalizer = TRUE]}
           \/ \E r \in Replicas :
                 cache[r].phase = "none" /\ patch_status([cache[r] EXCEPT !.phase = "Pending"])
           \/ \E r \in Replicas : pc[r] \in {"patch", "patch_sync"} /\ patch_status(draft[r])
<1> DEFINE Goal ==
           \/ cr' = cr
           \/ cr' \in {NoRun, Created, [cr EXCEPT !.cancel = TRUE],
                       [cr EXCEPT !.deleting = TRUE], [cr EXCEPT !.finalizer = TRUE]}
           \/ \E r \in Replicas :
                 cache[r].phase = "none" /\ patch_status([cache[r] EXCEPT !.phase = "Pending"])
           \/ \E r \in Replicas : pc[r] \in {"patch", "patch_sync"} /\ patch_status(draft[r])
<1>1. CASE launch
  BY <1>1, Zenon DEF launch
<1>2. CASE launch_retry
  BY <1>2 DEF launch_retry
<1>3. CASE fail_unlaunched_run
  BY <1>3 DEF fail_unlaunched_run
<1>4. CASE health_check
  BY <1>4 DEF health_check
<1>5. CASE annotate
  BY <1>5, Zenon DEF annotate
<1>6. CASE delete_run
  BY <1>6, Zenon DEF delete_run
<1>7. CASE cancel_run
  BY <1>7 DEF cancel_run
<1>8. CASE cancel_queued_run
  BY <1>8 DEF cancel_queued_run
<1>9. CASE terminate_run
  BY <1>9, Zenon DEF terminate_run
<1>10. CASE collect_pods
  BY <1>10 DEF collect_pods
<1>11. CASE timeout_passes
  BY <1>11 DEF timeout_passes
<1>12. CASE grace_passes
  BY <1>12 DEF grace_passes
<1>13. ASSUME NEW p \in Pods, pod_starts(p) PROVE Goal
  BY <1>13 DEF pod_starts
<1>14. ASSUME NEW p \in Pods, try_start_run(p) PROVE Goal
  BY <1>14 DEF try_start_run
<1>15. ASSUME NEW p \in Pods, execute_level(p) PROVE Goal
  BY <1>15 DEF execute_level
<1>16. ASSUME NEW p \in Pods, execute_step(p) PROVE Goal
  BY <1>16 DEF execute_step
<1>17. ASSUME NEW p \in Pods, finalize_status(p) PROVE Goal
  BY <1>17 DEF finalize_status
<1>18. ASSUME NEW p \in Pods, finalize_write(p) PROVE Goal
  BY <1>18 DEF finalize_write
<1>19. ASSUME NEW p \in Pods, report(p) PROVE Goal
  BY <1>19 DEF report
<1>20. ASSUME NEW p \in Pods, set_run_outcome(p) PROVE Goal
  BY <1>20 DEF set_run_outcome
<1>21. ASSUME NEW p \in Pods, pod_succeeds(p) PROVE Goal
  BY <1>21 DEF pod_succeeds
<1>22. ASSUME NEW p \in Pods, verb_mismatch(p) PROVE Goal
  BY <1>22 DEF verb_mismatch
<1>23. ASSUME NEW p \in Pods, pod_dies(p) PROVE Goal
  BY <1>23 DEF pod_dies
<1>24. ASSUME NEW r \in Replicas, observe(r) PROVE Goal
  BY <1>24 DEF observe
<1>25. ASSUME NEW r \in Replicas, add_finalizer(r) PROVE Goal
  BY <1>25, Zenon DEF add_finalizer
<1>26. ASSUME NEW r \in Replicas, reconcile_init(r) PROVE Goal
  BY <1>26, Zenon DEF reconcile_init, Begins
<1>27. ASSUME NEW r \in Replicas, reconcile_pending(r) PROVE Goal
  BY <1>27 DEF reconcile_pending
<1>28. ASSUME NEW r \in Replicas, start_cancelling(r) PROVE Goal
  BY <1>28 DEF start_cancelling
<1>29. ASSUME NEW r \in Replicas, transition_to_timed_out(r) PROVE Goal
  BY <1>29 DEF transition_to_timed_out
<1>30. ASSUME NEW r \in Replicas, timed_out_delete(r) PROVE Goal
  BY <1>30 DEF timed_out_delete
<1>31. ASSUME NEW r \in Replicas, reconcile_running(r) PROVE Goal
  BY <1>31 DEF reconcile_running
<1>32. ASSUME NEW r \in Replicas, succeeded_outcome(r) PROVE Goal
  BY <1>32 DEF succeeded_outcome
<1>33. ASSUME NEW r \in Replicas, update_progress(r) PROVE Goal
  BY <1>33 DEF update_progress
<1>34. ASSUME NEW r \in Replicas, handle_executor_failure(r) PROVE Goal
  BY <1>34 DEF handle_executor_failure
<1>35. ASSUME NEW r \in Replicas, restart_budget(r) PROVE Goal
  BY <1>35 DEF restart_budget
<1>36. ASSUME NEW r \in Replicas, budget_exhausted(r) PROVE Goal
  BY <1>36 DEF budget_exhausted
<1>37. ASSUME NEW r \in Replicas, restart_delete(r) PROVE Goal
  BY <1>37 DEF restart_delete
<1>38. ASSUME NEW r \in Replicas, restart_create(r) PROVE Goal
  BY <1>38 DEF restart_create
<1>39. ASSUME NEW r \in Replicas, reconcile_cancelling(r) PROVE Goal
  BY <1>39 DEF reconcile_cancelling
<1>40. ASSUME NEW r \in Replicas, cancelling_kill(r) PROVE Goal
  BY <1>40 DEF cancelling_kill
<1>41. ASSUME NEW r \in Replicas, finalize_cancelled(r) PROVE Goal
  BY <1>41 DEF finalize_cancelled
<1>42. ASSUME NEW r \in Replicas, patch(r) PROVE Goal
  BY <1>42, Zenon DEF patch
<1>43. ASSUME NEW r \in Replicas, sync_run_status_to_storage(r) PROVE Goal
  BY <1>43 DEF sync_run_status_to_storage
<1>44. ASSUME NEW r \in Replicas, handle_deletion(r) PROVE Goal
  BY <1>44 DEF handle_deletion
<1>45. ASSUME NEW r \in Replicas, deletion_sync(r) PROVE Goal
  BY <1>45 DEF deletion_sync
<1>46. ASSUME NEW r \in Replicas, deletion_pod(r) PROVE Goal
  BY <1>46 DEF deletion_pod
<1>47. ASSUME NEW r \in Replicas, remove_finalizer(r) PROVE Goal
  BY <1>47, Zenon DEF remove_finalizer
<1>48. ASSUME NEW r \in Replicas, api_error(r) PROVE Goal
  BY <1>48 DEF api_error
<1>49. ASSUME NEW r \in Replicas, crash(r) PROVE Goal
  BY <1>49 DEF crash
<1>50. CASE UNCHANGED vars
  BY <1>50 DEF vars
<1> QED
  BY <1>1, <1>2, <1>3, <1>4, <1>5, <1>6, <1>7, <1>8, <1>9, <1>10, 
     <1>11, <1>12, <1>13, <1>14, <1>15, <1>16, <1>17, <1>18, <1>19, 
     <1>20, <1>21, <1>22, <1>23, <1>24, <1>25, <1>26, <1>27, <1>28, 
     <1>29, <1>30, <1>31, <1>32, <1>33, <1>34, <1>35, <1>36, <1>37, 
     <1>38, <1>39, <1>40, <1>41, <1>42, <1>43, <1>44, <1>45, <1>46, 
     <1>47, <1>48, <1>49, <1>50, NextCases

-----------------------------------------------------------------------------
(* Types.                                                                  *)

\* TypeOK in two parts: storage, pods and executors, ...
PlainOK ==
    /\ row \in Ended \cup {"NotStarted", "Started"}
    /\ outcome \in {"none", "Success", "Failure", "Cancelled"}
    /\ flag \in BOOLEAN /\ good \in 0 .. Steps /\ done \in 0 .. Steps
    /\ pods \in [Pods -> {"none", "Pending", "Running", "Succeeded", "Failed"}]
    /\ killed \in SUBSET Pods
    /\ stage \in [Pods -> {"none", "boot", "level", "step", "finalize", "write", "report", "record", "exit"}]
    /\ result \in [Pods -> Ended \cup {"none", "Cancelled"}]
    /\ daemon \in {"launching", "retrying", "failing", "active", "released"}
    /\ user \in {"idle", "flip", "terminate"} /\ asked \in BOOLEAN
    /\ timeup \in BOOLEAN /\ drained \in BOOLEAN
    /\ crashes \in 0 .. MaxFaults /\ errors \in 0 .. MaxFaults
    /\ \A p \in Pods : /\ stage[p] \in {"finalize", "write"} => result[p] \in Ended
                       /\ stage[p] = "record" => result[p] \in {"Success", "Failure", "Cancelled"}

\* ... and the versions of the Run.
VersionsOK ==
    /\ cache \in [Replicas -> Resource] /\ seen \in [Replicas -> Resource]
    /\ draft \in [Replicas -> Resource] /\ pc \in [Replicas -> PCs]
    /\ \A r \in Replicas :
         /\ pc[r] \in {"timeout", "patch_sync", "sync"} => draft[r].phase \in Terminal
         /\ Within(cache[r]) /\ Within(seen[r]) /\ Paid(draft[r])
         /\ pc[r] # "exhausted" => Within(draft[r])
         /\ pc[r] \in {"failure", "budget"} => seen[r].phase \notin Terminal

LEMMA TwoParts ==
    /\ TypeOK /\ Due /\ BudgetInv <=> PlainOK /\ VersionsOK /\ cr \in Resource /\ Within(cr)
    /\ TypeOK' /\ Due' /\ BudgetInv' <=> PlainOK' /\ VersionsOK' /\ cr' \in Resource /\ Within(cr)'
  BY Zenon DEF TypeOK, Due, BudgetInv, PlainOK, VersionsOK

\* Every operation writes what it may to storage and to the pods, and an
\* executor is about to write a status or an outcome.
LEMMA PlainStep ==
    ASSUME PlainOK, VersionsOK, [Next]_vars
    PROVE  PlainOK'
<1> USE OperatorAssumption DEF PlainOK, Works, Fails, ExecTo, ExecAt
<1>1. CASE launch
  BY <1>1 DEF launch
<1>2. CASE launch_retry
  BY <1>2 DEF launch_retry
<1>3. CASE fail_unlaunched_run
  BY <1>3 DEF fail_unlaunched_run, Ended
<1>4. CASE health_check
  BY <1>4 DEF health_check, Ended
<1>5. CASE annotate
  BY <1>5 DEF annotate
<1>6. CASE delete_run
  BY <1>6 DEF delete_run
<1>7. CASE cancel_run
  BY <1>7 DEF cancel_run
<1>8. CASE cancel_queued_run
  BY <1>8 DEF cancel_queued_run, Ended
<1>9. CASE terminate_run
  BY <1>9 DEF terminate_run
<1>10. CASE collect_pods
  BY <1>10 DEF collect_pods, Live
<1>11. CASE timeout_passes
  BY <1>11 DEF timeout_passes
<1>12. CASE grace_passes
  BY <1>12 DEF grace_passes
<1>13. ASSUME NEW p \in Pods, pod_starts(p) PROVE PlainOK'
  BY <1>13 DEF pod_starts
<1>14. ASSUME NEW p \in Pods, try_start_run(p) PROVE PlainOK'
  BY <1>14 DEF try_start_run, Ended
<1>15. ASSUME NEW p \in Pods, execute_level(p) PROVE PlainOK'
  BY <1>15 DEF execute_level, Ended
<1>16. ASSUME NEW p \in Pods, execute_step(p) PROVE PlainOK'
  BY <1>16 DEF execute_step, Ended
<1>17. ASSUME NEW p \in Pods, finalize_status(p) PROVE PlainOK'
  BY <1>17 DEF finalize_status, Ended
<1>18. ASSUME NEW p \in Pods, finalize_write(p) PROVE PlainOK'
  BY <1>18 DEF finalize_write, Ended
<1>19. ASSUME NEW p \in Pods, report(p) PROVE PlainOK'
  BY <1>19 DEF report, Ended
<1>20. ASSUME NEW p \in Pods, set_run_outcome(p) PROVE PlainOK'
  BY <1>20 DEF set_run_outcome
<1>21. ASSUME NEW p \in Pods, pod_succeeds(p) PROVE PlainOK'
  BY <1>21 DEF pod_succeeds, PodEnds
<1>22. ASSUME NEW p \in Pods, verb_mismatch(p) PROVE PlainOK'
  BY <1>22 DEF verb_mismatch, PodEnds
<1>23. ASSUME NEW p \in Pods, pod_dies(p) PROVE PlainOK'
  BY <1>23 DEF pod_dies, PodEnds, Live
<1>24. ASSUME NEW r \in Replicas, observe(r) PROVE PlainOK'
  BY <1>24 DEF observe
<1>25. ASSUME NEW r \in Replicas, add_finalizer(r) PROVE PlainOK'
  BY <1>25 DEF add_finalizer
<1>26. ASSUME NEW r \in Replicas, reconcile_init(r) PROVE PlainOK'
  BY <1>26 DEF reconcile_init
<1>27. ASSUME NEW r \in Replicas, reconcile_pending(r) PROVE PlainOK'
  <2>0. errors' = errors \/ (crashes + errors < MaxFaults /\ errors' = errors + 1)
    BY <1>27, Zenon DEF reconcile_pending, create_pod
  <2>1. errors' \in 0 .. MaxFaults
    BY <2>0
  <2>2. flag' \in BOOLEAN
    BY <1>27, Zenon DEF reconcile_pending, create_pod
  <2>3. pods' \in [Pods -> {"none", "Pending", "Running", "Succeeded", "Failed"}]
    BY <1>27 DEF reconcile_pending, create_pod
  <2>4. UNCHANGED <<row, outcome, good, done, killed, exec, others, clock, crashes>>
    BY <1>27, Zenon DEF reconcile_pending, create_pod
  <2> QED BY <2>1, <2>2, <2>3, <2>4
<1>28. ASSUME NEW r \in Replicas, start_cancelling(r) PROVE PlainOK'
  <2>0. errors' = errors \/ (crashes + errors < MaxFaults /\ errors' = errors + 1)
    BY <1>28, Zenon DEF start_cancelling, request_cancellation
  <2>1. errors' \in 0 .. MaxFaults
    BY <2>0
  <2>2. flag' \in BOOLEAN
    BY <1>28, Zenon DEF start_cancelling, request_cancellation
  <2>3. pods' \in [Pods -> {"none", "Pending", "Running", "Succeeded", "Failed"}]
    BY <1>28 DEF start_cancelling, request_cancellation
  <2>4. UNCHANGED <<row, outcome, good, done, killed, exec, others, clock, crashes>>
    BY <1>28, Zenon DEF start_cancelling, request_cancellation
  <2> QED BY <2>1, <2>2, <2>3, <2>4
<1>29. ASSUME NEW r \in Replicas, transition_to_timed_out(r) PROVE PlainOK'
  <2>0. errors' = errors \/ (crashes + errors < MaxFaults /\ errors' = errors + 1)
    BY <1>29, Zenon DEF transition_to_timed_out, request_cancellation
  <2>1. errors' \in 0 .. MaxFaults
    BY <2>0
  <2>2. flag' \in BOOLEAN
    BY <1>29, Zenon DEF transition_to_timed_out, request_cancellation
  <2>3. pods' \in [Pods -> {"none", "Pending", "Running", "Succeeded", "Failed"}]
    BY <1>29 DEF transition_to_timed_out, request_cancellation
  <2>4. UNCHANGED <<row, outcome, good, done, killed, exec, others, clock, crashes>>
    BY <1>29, Zenon DEF transition_to_timed_out, request_cancellation
  <2> QED BY <2>1, <2>2, <2>3, <2>4
<1>30. ASSUME NEW r \in Replicas, timed_out_delete(r) PROVE PlainOK'
  BY <1>30 DEF timed_out_delete, delete_pod, reads_progress
<1>31. ASSUME NEW r \in Replicas, reconcile_running(r) PROVE PlainOK'
  BY <1>31 DEF reconcile_running
<1>32. ASSUME NEW r \in Replicas, succeeded_outcome(r) PROVE PlainOK'
  BY <1>32 DEF succeeded_outcome
<1>33. ASSUME NEW r \in Replicas, update_progress(r) PROVE PlainOK'
  BY <1>33 DEF update_progress
<1>34. ASSUME NEW r \in Replicas, handle_executor_failure(r) PROVE PlainOK'
  BY <1>34 DEF handle_executor_failure
<1>35. ASSUME NEW r \in Replicas, restart_budget(r) PROVE PlainOK'
  <2>0. errors' = errors \/ (crashes + errors < MaxFaults /\ errors' = errors + 1)
    BY <1>35, Zenon DEF restart_budget
  <2>1. errors' \in 0 .. MaxFaults
    BY <2>0
  <2>2. flag' \in BOOLEAN
    BY <1>35, Zenon DEF restart_budget
  <2>3. pods' \in [Pods -> {"none", "Pending", "Running", "Succeeded", "Failed"}]
    BY <1>35 DEF restart_budget
  <2>4. UNCHANGED <<row, outcome, good, done, killed, exec, others, clock, crashes>>
    BY <1>35, Zenon DEF restart_budget
  <2> QED BY <2>1, <2>2, <2>3, <2>4
<1>36. ASSUME NEW r \in Replicas, budget_exhausted(r) PROVE PlainOK'
  BY <1>36 DEF budget_exhausted
<1>37. ASSUME NEW r \in Replicas, restart_delete(r) PROVE PlainOK'
  BY <1>37 DEF restart_delete, delete_pod
<1>38. ASSUME NEW r \in Replicas, restart_create(r) PROVE PlainOK'
  BY <1>38, ZenonT(60) DEF restart_create, create_pod
<1>39. ASSUME NEW r \in Replicas, reconcile_cancelling(r) PROVE PlainOK'
  BY <1>39 DEF reconcile_cancelling
<1>40. ASSUME NEW r \in Replicas, cancelling_kill(r) PROVE PlainOK'
  BY <1>40 DEF cancelling_kill, delete_pod
<1>41. ASSUME NEW r \in Replicas, finalize_cancelled(r) PROVE PlainOK'
  BY <1>41 DEF finalize_cancelled, reads_progress
<1>42. ASSUME NEW r \in Replicas, patch(r) PROVE PlainOK'
  BY <1>42 DEF patch
<1>43. ASSUME NEW r \in Replicas, sync_run_status_to_storage(r) PROVE PlainOK'
  BY <1>43 DEF sync_run_status_to_storage, StatusOf, VersionsOK, Terminal, Ended
<1>44. ASSUME NEW r \in Replicas, handle_deletion(r) PROVE PlainOK'
  <2>0. errors' = errors \/ (crashes + errors < MaxFaults /\ errors' = errors + 1)
    BY <1>44, Zenon DEF handle_deletion, request_cancellation
  <2>1. errors' \in 0 .. MaxFaults
    BY <2>0
  <2>2. flag' \in BOOLEAN
    BY <1>44, Zenon DEF handle_deletion, request_cancellation
  <2>3. pods' \in [Pods -> {"none", "Pending", "Running", "Succeeded", "Failed"}]
    BY <1>44 DEF handle_deletion, request_cancellation
  <2>4. UNCHANGED <<row, outcome, good, done, killed, exec, others, clock, crashes>>
    BY <1>44, Zenon DEF handle_deletion, request_cancellation
  <2> QED BY <2>1, <2>2, <2>3, <2>4
<1>45. ASSUME NEW r \in Replicas, deletion_sync(r) PROVE PlainOK'
  BY <1>45 DEF deletion_sync, Ended
<1>46. ASSUME NEW r \in Replicas, deletion_pod(r) PROVE PlainOK'
  BY <1>46 DEF deletion_pod, delete_pod
<1>47. ASSUME NEW r \in Replicas, remove_finalizer(r) PROVE PlainOK'
  BY <1>47 DEF remove_finalizer
<1>48. ASSUME NEW r \in Replicas, api_error(r) PROVE PlainOK'
  BY <1>48 DEF api_error
<1>49. ASSUME NEW r \in Replicas, crash(r) PROVE PlainOK'
  BY <1>49 DEF crash
<1>50. CASE UNCHANGED vars
  BY <1>50 DEF vars
<1> QED
  BY <1>1, <1>2, <1>3, <1>4, <1>5, <1>6, <1>7, <1>8, <1>9, <1>10, 
     <1>11, <1>12, <1>13, <1>14, <1>15, <1>16, <1>17, <1>18, <1>19, 
     <1>20, <1>21, <1>22, <1>23, <1>24, <1>25, <1>26, <1>27, <1>28, 
     <1>29, <1>30, <1>31, <1>32, <1>33, <1>34, <1>35, <1>36, <1>37, 
     <1>38, <1>39, <1>40, <1>41, <1>42, <1>43, <1>44, <1>45, <1>46, 
     <1>47, <1>48, <1>49, <1>50, NextCases

\* Steps are never taken back.
LEMMA DoneGrows ==
    ASSUME PlainOK, [Next]_vars
    PROVE  done \in Nat /\ done' \in Nat /\ done <= done'
<1> DEFINE Goal == done' \in Nat /\ done <= done'
<1> USE OperatorAssumption DEF PlainOK
<1>1. CASE launch
  BY <1>1 DEF launch
<1>2. CASE launch_retry
  BY <1>2 DEF launch_retry
<1>3. CASE fail_unlaunched_run
  BY <1>3 DEF fail_unlaunched_run
<1>4. CASE health_check
  BY <1>4 DEF health_check
<1>5. CASE annotate
  BY <1>5 DEF annotate
<1>6. CASE delete_run
  BY <1>6 DEF delete_run
<1>7. CASE cancel_run
  BY <1>7 DEF cancel_run
<1>8. CASE cancel_queued_run
  BY <1>8 DEF cancel_queued_run
<1>9. CASE terminate_run
  BY <1>9 DEF terminate_run
<1>10. CASE collect_pods
  BY <1>10 DEF collect_pods
<1>11. CASE timeout_passes
  BY <1>11 DEF timeout_passes
<1>12. CASE grace_passes
  BY <1>12 DEF grace_passes
<1>13. ASSUME NEW p \in Pods, pod_starts(p) PROVE Goal
  BY <1>13 DEF pod_starts
<1>14. ASSUME NEW p \in Pods, try_start_run(p) PROVE Goal
  BY <1>14 DEF try_start_run
<1>15. ASSUME NEW p \in Pods, execute_level(p) PROVE Goal
  BY <1>15 DEF execute_level
<1>16. ASSUME NEW p \in Pods, execute_step(p) PROVE Goal
  BY <1>16 DEF execute_step
<1>17. ASSUME NEW p \in Pods, finalize_status(p) PROVE Goal
  BY <1>17 DEF finalize_status
<1>18. ASSUME NEW p \in Pods, finalize_write(p) PROVE Goal
  BY <1>18 DEF finalize_write
<1>19. ASSUME NEW p \in Pods, report(p) PROVE Goal
  BY <1>19 DEF report
<1>20. ASSUME NEW p \in Pods, set_run_outcome(p) PROVE Goal
  BY <1>20 DEF set_run_outcome
<1>21. ASSUME NEW p \in Pods, pod_succeeds(p) PROVE Goal
  BY <1>21 DEF pod_succeeds
<1>22. ASSUME NEW p \in Pods, verb_mismatch(p) PROVE Goal
  BY <1>22 DEF verb_mismatch
<1>23. ASSUME NEW p \in Pods, pod_dies(p) PROVE Goal
  BY <1>23 DEF pod_dies
<1>24. ASSUME NEW r \in Replicas, observe(r) PROVE Goal
  BY <1>24 DEF observe
<1>25. ASSUME NEW r \in Replicas, add_finalizer(r) PROVE Goal
  BY <1>25 DEF add_finalizer
<1>26. ASSUME NEW r \in Replicas, reconcile_init(r) PROVE Goal
  BY <1>26 DEF reconcile_init
<1>27. ASSUME NEW r \in Replicas, reconcile_pending(r) PROVE Goal
  BY <1>27 DEF reconcile_pending
<1>28. ASSUME NEW r \in Replicas, start_cancelling(r) PROVE Goal
  BY <1>28 DEF start_cancelling
<1>29. ASSUME NEW r \in Replicas, transition_to_timed_out(r) PROVE Goal
  BY <1>29 DEF transition_to_timed_out
<1>30. ASSUME NEW r \in Replicas, timed_out_delete(r) PROVE Goal
  BY <1>30 DEF timed_out_delete
<1>31. ASSUME NEW r \in Replicas, reconcile_running(r) PROVE Goal
  BY <1>31 DEF reconcile_running
<1>32. ASSUME NEW r \in Replicas, succeeded_outcome(r) PROVE Goal
  BY <1>32 DEF succeeded_outcome
<1>33. ASSUME NEW r \in Replicas, update_progress(r) PROVE Goal
  BY <1>33 DEF update_progress
<1>34. ASSUME NEW r \in Replicas, handle_executor_failure(r) PROVE Goal
  BY <1>34 DEF handle_executor_failure
<1>35. ASSUME NEW r \in Replicas, restart_budget(r) PROVE Goal
  BY <1>35 DEF restart_budget
<1>36. ASSUME NEW r \in Replicas, budget_exhausted(r) PROVE Goal
  BY <1>36 DEF budget_exhausted
<1>37. ASSUME NEW r \in Replicas, restart_delete(r) PROVE Goal
  BY <1>37 DEF restart_delete
<1>38. ASSUME NEW r \in Replicas, restart_create(r) PROVE Goal
  BY <1>38 DEF restart_create
<1>39. ASSUME NEW r \in Replicas, reconcile_cancelling(r) PROVE Goal
  BY <1>39 DEF reconcile_cancelling
<1>40. ASSUME NEW r \in Replicas, cancelling_kill(r) PROVE Goal
  BY <1>40 DEF cancelling_kill
<1>41. ASSUME NEW r \in Replicas, finalize_cancelled(r) PROVE Goal
  BY <1>41 DEF finalize_cancelled
<1>42. ASSUME NEW r \in Replicas, patch(r) PROVE Goal
  BY <1>42 DEF patch
<1>43. ASSUME NEW r \in Replicas, sync_run_status_to_storage(r) PROVE Goal
  BY <1>43 DEF sync_run_status_to_storage
<1>44. ASSUME NEW r \in Replicas, handle_deletion(r) PROVE Goal
  BY <1>44 DEF handle_deletion
<1>45. ASSUME NEW r \in Replicas, deletion_sync(r) PROVE Goal
  BY <1>45 DEF deletion_sync
<1>46. ASSUME NEW r \in Replicas, deletion_pod(r) PROVE Goal
  BY <1>46 DEF deletion_pod
<1>47. ASSUME NEW r \in Replicas, remove_finalizer(r) PROVE Goal
  BY <1>47 DEF remove_finalizer
<1>48. ASSUME NEW r \in Replicas, api_error(r) PROVE Goal
  BY <1>48 DEF api_error
<1>49. ASSUME NEW r \in Replicas, crash(r) PROVE Goal
  BY <1>49 DEF crash
<1>50. CASE UNCHANGED vars
  BY <1>50 DEF vars
<1> QED
  BY <1>1, <1>2, <1>3, <1>4, <1>5, <1>6, <1>7, <1>8, <1>9, <1>10, 
     <1>11, <1>12, <1>13, <1>14, <1>15, <1>16, <1>17, <1>18, <1>19, 
     <1>20, <1>21, <1>22, <1>23, <1>24, <1>25, <1>26, <1>27, <1>28, 
     <1>29, <1>30, <1>31, <1>32, <1>33, <1>34, <1>35, <1>36, <1>37, 
     <1>38, <1>39, <1>40, <1>41, <1>42, <1>43, <1>44, <1>45, <1>46, 
     <1>47, <1>48, <1>49, <1>50, NextCases

\* What has been paid for stays so.
LEMMA PaidStays ==
    ASSUME NEW run \in Resource, done \in Nat, done' \in Nat, done <= done'
    PROVE  (Paid(run) => Paid(run)') /\ (Within(run) => Within(run)')
<1>1. run.completed \in Int
  BY OperatorAssumption DEF Resource, Absent
<1> QED BY <1>1 DEF Within, Paid

\* The Run stays one whose restarts are paid for.
LEMMA RunStep ==
    ASSUME PlainOK, VersionsOK, cr \in Resource, Within(cr), [Next]_vars
    PROVE  cr' \in Resource /\ Within(cr)'
<1>0. done \in Nat /\ done' \in Nat /\ done <= done' /\ done \in 0 .. Steps
  BY DoneGrows DEF PlainOK
<1>1. SUFFICES cr' \in Resource /\ Within(cr')
  <2>1. cr'.completed \in Int
    BY <1>1, OperatorAssumption DEF Resource, Absent
  <2> QED BY <1>0, <1>1, <2>1 DEF Within, Paid
<1>2. CASE cr' = cr
  BY <1>2
<1>3. CASE cr' \in {NoRun, Created}
  <2>1. cr' \in Resource /\ cr'.total = 0 /\ cr'.restarts = 0 /\ cr'.completed = Absent
    BY <1>3, NoRunShape
  <2>2. Allowance(0) \in Nat /\ MaxRestarts \in Nat
    BY AllowanceGrows, OperatorAssumption
  <2> QED BY <1>0, <2>1, <2>2 DEF Within, Paid, Completed, Absent
<1>4. CASE cr' \in {[cr EXCEPT !.cancel = TRUE], [cr EXCEPT !.deleting = TRUE],
                    [cr EXCEPT !.finalizer = TRUE]}
  <2>1. /\ cr' \in Resource /\ cr'.phase = cr.phase /\ cr'.total = cr.total
        /\ cr'.restarts = cr.restarts /\ cr'.completed = cr.completed
    BY <1>4, FlagShape
  <2> QED BY <2>1 DEF Within, Paid, Completed
<1>5. ASSUME NEW r \in Replicas, cache[r].phase = "none",
             patch_status([cache[r] EXCEPT !.phase = "Pending"])
      PROVE  cr' \in Resource /\ Within(cr')
  <2> DEFINE d == [cache[r] EXCEPT !.phase = "Pending"]
  <2>1. cache[r] \in Resource /\ Within(cache[r]) /\ cache[r].phase \notin Terminal
    BY <1>5 DEF VersionsOK, Terminal
  <2>2. /\ d \in Resource /\ d.phase = "Pending" /\ d.total = cache[r].total
        /\ d.restarts = cache[r].restarts /\ d.completed = cache[r].completed
    BY <2>1, PhaseShape DEF Phases
  <2>3. patch_status(d)
    BY <1>5
  <2> HIDE DEF d
  <2>4. Within(d)
    BY <2>1, <2>2 DEF Within, Paid, Completed
  <2> QED BY <1>0, <2>2, <2>3, <2>4, PatchPaid
<1>6. ASSUME NEW r \in Replicas, pc[r] \in {"patch", "patch_sync"}, patch_status(draft[r])
      PROVE  cr' \in Resource /\ Within(cr')
  <2>1. draft[r] \in Resource /\ Within(draft[r])
    BY <1>6 DEF VersionsOK
  <2> QED BY <1>0, <1>6, <2>1, PatchPaid
<1> QED BY <1>2, <1>3, <1>4, <1>5, <1>6, RunMoves

\* NoRun has used nothing.
LEMMA NoRunWithin ==
    ASSUME done \in Nat
    PROVE  NoRun \in Resource /\ Within(NoRun) /\ NoRun.phase \notin Terminal
<1>1. /\ NoRun \in Resource /\ NoRun.total = 0 /\ NoRun.restarts = 0 /\ NoRun.completed = Absent
      /\ NoRun.phase = "none"
  BY NoRunShape
<1>2. Allowance(0) \in Nat /\ MaxRestarts \in Nat
  BY AllowanceGrows, OperatorAssumption
<1> QED BY <1>1, <1>2 DEF Within, Paid, Completed, Absent, Terminal

\* And so do the versions the replicas hold. (In the Run the cache takes up,
\* done is that of the step before, as it is in all versions here.)
LEMMA VersionsStep ==
    ASSUME PlainOK, VersionsOK, cr \in Resource, Within(cr), [Next]_vars
    PROVE  VersionsOK'
<1>0. done \in Nat /\ done' \in Nat /\ done <= done' /\ done \in 0 .. Steps
  BY DoneGrows DEF PlainOK
<1> DEFINE Held(c, w, s, d) ==
             /\ c \in Resource /\ s \in Resource /\ d \in Resource /\ w \in PCs
             /\ w \in {"timeout", "patch_sync", "sync"} => d.phase \in Terminal
             /\ Within(c) /\ Within(s) /\ Paid(d)
             /\ w # "exhausted" => Within(d)
             /\ w \in {"failure", "budget"} => s.phase \notin Terminal
<1>1. \A r \in Replicas : Held(cache[r], pc[r], seen[r], draft[r])
  BY DEF VersionsOK
<1>2. /\ cache \in [Replicas -> Resource] /\ seen \in [Replicas -> Resource]
      /\ draft \in [Replicas -> Resource] /\ pc \in [Replicas -> PCs]
  BY DEF VersionsOK
<1>3. SUFFICES /\ cache' \in [Replicas -> Resource] /\ seen' \in [Replicas -> Resource]
               /\ draft' \in [Replicas -> Resource] /\ pc' \in [Replicas -> PCs]
               /\ \A r \in Replicas : Held(cache'[r], pc'[r], seen'[r], draft'[r])
  <2>1. ASSUME NEW r \in Replicas
        PROVE  /\ (Paid(draft[r]))' /\ (Within(cache[r]))' /\ (Within(seen[r]))'
               /\ pc'[r] # "exhausted" => (Within(draft[r]))'
    <3>1. /\ Paid(draft'[r]) /\ Within(cache'[r]) /\ Within(seen'[r])
          /\ pc'[r] # "exhausted" => Within(draft'[r])
      BY <1>3
    <3>2. cache'[r].completed \in Int /\ seen'[r].completed \in Int /\ draft'[r].completed \in Int
      <4>1. cache'[r] \in Resource /\ seen'[r] \in Resource /\ draft'[r] \in Resource
        BY <1>3
      <4> QED BY <4>1, OperatorAssumption DEF Resource, Absent
    <3> QED BY <1>0, <3>1, <3>2 DEF Within, Paid
  <2> QED BY <1>3, <2>1 DEF VersionsOK
<1> DEFINE Goal == /\ cache' \in [Replicas -> Resource] /\ seen' \in [Replicas -> Resource]
                   /\ draft' \in [Replicas -> Resource] /\ pc' \in [Replicas -> PCs]
                   /\ \A r \in Replicas : Held(cache'[r], pc'[r], seen'[r], draft'[r])
<1>4. CASE UNCHANGED <<cache, op>>
  BY <1>1, <1>2, <1>4
\* One replica moves.
<1>5. ASSUME NEW r \in Replicas,
             NEW c, NEW w, NEW s, NEW d, Held(c, w, s, d),
             cache' = [cache EXCEPT ![r] = c], pc' = [pc EXCEPT ![r] = w],
             seen' = [seen EXCEPT ![r] = s], draft' = [draft EXCEPT ![r] = d]
      PROVE  Goal
  <2>1. /\ cache'[r] = c /\ pc'[r] = w /\ seen'[r] = s /\ draft'[r] = d
        /\ \A q \in Replicas \ {r} : /\ cache'[q] = cache[q] /\ pc'[q] = pc[q]
                                     /\ seen'[q] = seen[q] /\ draft'[q] = draft[q]
    BY <1>2, <1>5
  <2>2. c \in Resource /\ s \in Resource /\ d \in Resource /\ w \in PCs
    BY <1>5
  <2>3. /\ cache' \in [Replicas -> Resource] /\ seen' \in [Replicas -> Resource]
        /\ draft' \in [Replicas -> Resource] /\ pc' \in [Replicas -> PCs]
    BY <1>2, <1>5, <2>2
  <2> HIDE DEF Held
  <2> QED BY <1>1, <1>5, <2>1, <2>3
<1>6. ASSUME NEW r \in Replicas, Replica(r)
      PROVE  Goal
  <2>0. Held(cache[r], pc[r], seen[r], draft[r])
    BY <1>1
  <2>A. /\ cache = [cache EXCEPT ![r] = cache[r]] /\ pc = [pc EXCEPT ![r] = pc[r]]
        /\ seen = [seen EXCEPT ![r] = seen[r]] /\ draft = [draft EXCEPT ![r] = draft[r]]
    BY <1>2
  <2>1. CASE Finishes(r) /\ cache' \in {cache, [cache EXCEPT ![r] = cr]}
    <3>1. /\ NoRun \in Resource /\ Within(NoRun) /\ NoRun.phase \notin Terminal
      BY <1>0, NoRunWithin
    <3>2. /\ Held(cache[r], "idle", NoRun, NoRun) /\ Held(cr, "idle", NoRun, NoRun)
      BY <2>0, <3>1 DEF PCs, Within
    <3> HIDE DEF Held, Goal
    <3>3. CASE cache' = cache
      BY <1>5, <2>1, <2>A, <3>2, <3>3 DEF Finishes, Goes
    <3>4. CASE cache' = [cache EXCEPT ![r] = cr]
      BY <1>5, <2>1, <2>A, <3>2, <3>4 DEF Finishes, Goes
    <3> QED BY <2>1, <3>3, <3>4
  <2>2. CASE Starting(r) /\ UNCHANGED <<cache, draft>>
    <3>1. PICK w \in {"outcome", "failure", "progress", "kill", "finalize", "del_pod", "del_sync"} :
             pc[r] = "idle" /\ Sees(r) /\ Goes(r, w) /\ (w = "failure" => cache[r].phase = "Running")
      BY <2>2 DEF Starting
    <3>3. Held(cache[r], w, cache[r], draft[r])
      BY <2>0, <3>1 DEF PCs, Terminal
    <3> HIDE DEF Held, Goal
    <3>4. /\ cache' = [cache EXCEPT ![r] = cache[r]] /\ pc' = [pc EXCEPT ![r] = w]
          /\ seen' = [seen EXCEPT ![r] = cache[r]] /\ draft' = [draft EXCEPT ![r] = draft[r]]
      BY <2>2, <2>A, <3>1 DEF Sees, Goes
    <3> QED BY <1>5, <3>3, <3>4, Zenon
  <2>3. CASE Going(r) /\ UNCHANGED <<cache, seen, draft>>
    <3>1. PICK w \in {"budget", "create", "finalize", "sync", "del_pod", "del_final"} :
             /\ pc[r] # "exhausted" /\ Goes(r, w)
             /\ w = "budget" => pc[r] = "failure"
             /\ w = "sync" => pc[r] = "patch_sync"
      BY <2>3 DEF Going
    <3>3. Held(cache[r], w, seen[r], draft[r])
      BY <2>0, <3>1 DEF PCs
    <3> HIDE DEF Held, Goal
    <3>4. /\ cache' = [cache EXCEPT ![r] = cache[r]] /\ pc' = [pc EXCEPT ![r] = w]
          /\ seen' = [seen EXCEPT ![r] = seen[r]] /\ draft' = [draft EXCEPT ![r] = draft[r]]
      BY <2>3, <2>A, <3>1 DEF Goes
    <3> QED BY <1>5, <3>3, <3>4, Zenon
  <2>4. CASE Drafting(r) /\ cache' = cache /\ (seen' = seen \/ Sees(r))
    <3>1. PICK d \in Resource,
               w \in {"patch", "timeout", "patch_sync", "exhausted", "delete_old"} :
             /\ Drafts(r, d) /\ Goes(r, w)
             /\ w \in {"timeout", "patch_sync"} => d.phase \in Terminal
             /\ Paid(d) /\ (w # "exhausted" => Within(d))
      BY <2>4 DEF Drafting
    <3>2. Held(cache[r], w, seen[r], d) /\ Held(cache[r], w, cache[r], d)
      BY <2>0, <3>1 DEF PCs
    <3> HIDE DEF Held, Goal
    <3>3. CASE seen' = seen
      BY <1>5, <2>4, <2>A, <3>1, <3>2, <3>3 DEF Drafts, Goes
    <3>4. CASE Sees(r)
      BY <1>5, <2>4, <2>A, <3>1, <3>2, <3>4 DEF Drafts, Goes, Sees
    <3> QED BY <2>4, <3>3, <3>4
  <2>5. CASE cache' = [cache EXCEPT ![r] = cr] /\ UNCHANGED op
    <3>1. Held(cr, pc[r], seen[r], draft[r])
      BY <2>0
    <3> HIDE DEF Held, Goal
    <3>4. /\ cache' = [cache EXCEPT ![r] = cr] /\ pc' = [pc EXCEPT ![r] = pc[r]]
          /\ seen' = [seen EXCEPT ![r] = seen[r]] /\ draft' = [draft EXCEPT ![r] = draft[r]]
      BY <2>5, <2>A
    <3> QED BY <1>5, <3>1, <3>4, Zenon
  <2> QED BY <1>6, <2>1, <2>2, <2>3, <2>4, <2>5 DEF Replica
<1> QED BY <1>4, <1>6, ReplicaMoves, TwoParts

\* At the start there is no Run and nothing has been written.
LEMMA InitOK ==
    ASSUME Init
    PROVE  TypeOK /\ Due /\ BudgetInv /\ HonestInv
<1>0. /\ done = 0 /\ done \in Nat /\ NoRun \in Resource /\ Within(NoRun) /\ Paid(NoRun)
      /\ NoRun.phase = "none"
  BY NoRunWithin, NoRunShape DEF Init, Within
<1>1. /\ cr = NoRun /\ \A r \in Replicas : /\ cache[r] = NoRun /\ seen[r] = NoRun /\ draft[r] = NoRun
                                           /\ pc[r] = "idle"
      /\ \A p \in Pods : stage[p] = "none" /\ result[p] = "none" /\ pods[p] = "none"
  BY DEF Init
<1>2. PlainOK
  <2>1. /\ good \in 0 .. Steps /\ done \in 0 .. Steps
        /\ crashes \in 0 .. MaxFaults /\ errors \in 0 .. MaxFaults
    BY OperatorAssumption DEF Init
  <2>2. /\ pods \in [Pods -> {"none", "Pending", "Running", "Succeeded", "Failed"}]
        /\ stage \in [Pods -> {"none", "boot", "level", "step", "finalize", "write", "report", "record", "exit"}]
        /\ result \in [Pods -> Ended \cup {"none", "Cancelled"}]
    BY DEF Init
  <2>3. flag \in BOOLEAN /\ asked \in BOOLEAN /\ timeup \in BOOLEAN /\ drained \in BOOLEAN
    BY Zenon DEF Init
  <2> QED BY <1>1, <2>1, <2>2, <2>3 DEF Init, PlainOK
<1>3. VersionsOK
  <2>1. /\ cache \in [Replicas -> Resource] /\ seen \in [Replicas -> Resource]
        /\ draft \in [Replicas -> Resource] /\ pc \in [Replicas -> PCs]
    BY <1>0 DEF Init, PCs
  <2> QED BY <1>0, <1>1, <2>1 DEF VersionsOK
<1>4. TypeOK /\ Due /\ BudgetInv
  BY <1>0, <1>1, <1>2, <1>3, TwoParts
<1>5. HonestInv
  <2>1. Honest(NoRun)
    BY <1>0 DEF Honest
  <2>2. HonestStorage /\ Honest(cr)
    BY <2>1, <1>1 DEF Init, HonestStorage
  <2>3. \A p \in Pods : HonestExecutor(p)
    BY <1>1 DEF HonestExecutor
  <2>4. \A r \in Replicas : HonestReplica(r)
    BY <1>1, <2>1 DEF HonestReplica
  <2> QED BY <1>4, <2>2, <2>3, <2>4 DEF HonestInv
<1> QED BY <1>4, <1>5

\* Every step keeps the types, what is due and the budget.
LEMMA TypeStep ==
    ASSUME TypeOK, Due, BudgetInv, [Next]_vars
    PROVE  TypeOK' /\ Due' /\ BudgetInv'
<1>1. PlainOK /\ VersionsOK /\ cr \in Resource /\ Within(cr)
  BY TwoParts
<1>2. PlainOK' /\ VersionsOK' /\ cr' \in Resource /\ Within(cr)'
  BY <1>1, PlainStep, VersionsStep, RunStep
<1> QED BY <1>2, TwoParts

\* A reconcile only ever writes statuses of the shape TypeOK gives, from any
\* version of the Run and after any crash, and restarts the executor at most
\* MaxTotal times: the names of its pods are among Pods (handle_executor_failure,
\* restarts_without_progress and total_restarts).
THEOREM TypeCorrect == Spec => []TypeOK
<1>1. Init => TypeOK /\ Due /\ BudgetInv
  BY InitOK
<1>2. TypeOK /\ Due /\ BudgetInv /\ [Next]_vars => (TypeOK /\ Due /\ BudgetInv)'
  BY TypeStep
<1> QED BY <1>1, <1>2, PTL DEF Spec

\* The restarts of every version of the Run, those in the caches and drafts
\* included, are paid for by counted steps or out of the budget, whatever
\* replicas patch over each other (handle_executor_failure, patch_status).
THEOREM BudgetInvHolds == Spec => []BudgetInv
<1>1. Init => TypeOK /\ Due /\ BudgetInv
  BY InitOK
<1>2. TypeOK /\ Due /\ BudgetInv /\ [Next]_vars => (TypeOK /\ Due /\ BudgetInv)'
  BY TypeStep
<1> QED BY <1>1, <1>2, PTL DEF Spec

-----------------------------------------------------------------------------
(* Statuses are honest.                                                    *)

\* No step undoes a finished run, clears the flag or takes an outcome back.
LEMMA Monotone ==
    ASSUME PlainOK, [Next]_vars, errors' = 0
    PROVE  /\ errors = 0 /\ (good = Steps => good' = Steps) /\ (flag => flag')
           /\ (outcome # "none" => outcome' # "none")
<1> DEFINE Goal == /\ errors = 0 /\ (good = Steps => good' = Steps) /\ (flag => flag')
                   /\ (outcome # "none" => outcome' # "none")
<1>0. /\ errors \in Nat /\ errors' = 0 /\ good \in Int /\ Steps \in Int /\ errors + 1 # 0
      /\ \A p \in Pods : stage[p] = "record" => result[p] # "none"
  BY OperatorAssumption DEF PlainOK
<1> USE <1>0 DEF Works, Fails
<1>1. CASE launch
  BY <1>1 DEF launch
<1>2. CASE launch_retry
  BY <1>2 DEF launch_retry
<1>3. CASE fail_unlaunched_run
  BY <1>3 DEF fail_unlaunched_run
<1>4. CASE health_check
  BY <1>4 DEF health_check
<1>5. CASE annotate
  BY <1>5 DEF annotate
<1>6. CASE delete_run
  BY <1>6 DEF delete_run
<1>7. CASE cancel_run
  BY <1>7 DEF cancel_run
<1>8. CASE cancel_queued_run
  BY <1>8 DEF cancel_queued_run
<1>9. CASE terminate_run
  BY <1>9 DEF terminate_run
<1>10. CASE collect_pods
  BY <1>10 DEF collect_pods
<1>11. CASE timeout_passes
  BY <1>11 DEF timeout_passes
<1>12. CASE grace_passes
  BY <1>12 DEF grace_passes
<1>13. ASSUME NEW p \in Pods, pod_starts(p) PROVE Goal
  BY <1>13 DEF pod_starts
<1>14. ASSUME NEW p \in Pods, try_start_run(p) PROVE Goal
  BY <1>14 DEF try_start_run
<1>15. ASSUME NEW p \in Pods, execute_level(p) PROVE Goal
  BY <1>15 DEF execute_level
<1>16. ASSUME NEW p \in Pods, execute_step(p) PROVE Goal
  BY <1>16 DEF execute_step
<1>17. ASSUME NEW p \in Pods, finalize_status(p) PROVE Goal
  BY <1>17 DEF finalize_status
<1>18. ASSUME NEW p \in Pods, finalize_write(p) PROVE Goal
  BY <1>18 DEF finalize_write
<1>19. ASSUME NEW p \in Pods, report(p) PROVE Goal
  BY <1>19 DEF report
<1>20. ASSUME NEW p \in Pods, set_run_outcome(p) PROVE Goal
  BY <1>20 DEF set_run_outcome, ExecAt
<1>21. ASSUME NEW p \in Pods, pod_succeeds(p) PROVE Goal
  BY <1>21 DEF pod_succeeds
<1>22. ASSUME NEW p \in Pods, verb_mismatch(p) PROVE Goal
  BY <1>22 DEF verb_mismatch
<1>23. ASSUME NEW p \in Pods, pod_dies(p) PROVE Goal
  BY <1>23 DEF pod_dies
<1>24. ASSUME NEW r \in Replicas, observe(r) PROVE Goal
  BY <1>24, Zenon DEF observe
<1>25. ASSUME NEW r \in Replicas, add_finalizer(r) PROVE Goal
  BY <1>25, Zenon DEF add_finalizer
<1>26. ASSUME NEW r \in Replicas, reconcile_init(r) PROVE Goal
  BY <1>26, Zenon DEF reconcile_init
<1>27. ASSUME NEW r \in Replicas, reconcile_pending(r) PROVE Goal
  BY <1>27, Zenon DEF reconcile_pending
<1>28. ASSUME NEW r \in Replicas, start_cancelling(r) PROVE Goal
  BY <1>28, Zenon DEF start_cancelling, request_cancellation
<1>29. ASSUME NEW r \in Replicas, transition_to_timed_out(r) PROVE Goal
  BY <1>29, Zenon DEF transition_to_timed_out, request_cancellation
<1>30. ASSUME NEW r \in Replicas, timed_out_delete(r) PROVE Goal
  BY <1>30, Zenon DEF timed_out_delete, reads_progress
<1>31. ASSUME NEW r \in Replicas, reconcile_running(r) PROVE Goal
  BY <1>31, Zenon DEF reconcile_running
<1>32. ASSUME NEW r \in Replicas, succeeded_outcome(r) PROVE Goal
  BY <1>32, Zenon DEF succeeded_outcome
<1>33. ASSUME NEW r \in Replicas, update_progress(r) PROVE Goal
  BY <1>33, Zenon DEF update_progress
<1>34. ASSUME NEW r \in Replicas, handle_executor_failure(r) PROVE Goal
  BY <1>34, Zenon DEF handle_executor_failure
<1>35. ASSUME NEW r \in Replicas, restart_budget(r) PROVE Goal
  BY <1>35, Zenon DEF restart_budget
<1>36. ASSUME NEW r \in Replicas, budget_exhausted(r) PROVE Goal
  BY <1>36, Zenon DEF budget_exhausted
<1>37. ASSUME NEW r \in Replicas, restart_delete(r) PROVE Goal
  BY <1>37, Zenon DEF restart_delete
<1>38. ASSUME NEW r \in Replicas, restart_create(r) PROVE Goal
  BY <1>38, Zenon DEF restart_create
<1>39. ASSUME NEW r \in Replicas, reconcile_cancelling(r) PROVE Goal
  BY <1>39, Zenon DEF reconcile_cancelling
<1>40. ASSUME NEW r \in Replicas, cancelling_kill(r) PROVE Goal
  BY <1>40, Zenon DEF cancelling_kill
<1>41. ASSUME NEW r \in Replicas, finalize_cancelled(r) PROVE Goal
  BY <1>41, Zenon DEF finalize_cancelled, reads_progress
<1>42. ASSUME NEW r \in Replicas, patch(r) PROVE Goal
  BY <1>42, Zenon DEF patch
<1>43. ASSUME NEW r \in Replicas, sync_run_status_to_storage(r) PROVE Goal
  BY <1>43, Zenon DEF sync_run_status_to_storage
<1>44. ASSUME NEW r \in Replicas, handle_deletion(r) PROVE Goal
  BY <1>44, Zenon DEF handle_deletion, request_cancellation
<1>45. ASSUME NEW r \in Replicas, deletion_sync(r) PROVE Goal
  BY <1>45, Zenon DEF deletion_sync
<1>46. ASSUME NEW r \in Replicas, deletion_pod(r) PROVE Goal
  BY <1>46, Zenon DEF deletion_pod
<1>47. ASSUME NEW r \in Replicas, remove_finalizer(r) PROVE Goal
  BY <1>47, Zenon DEF remove_finalizer
<1>48. ASSUME NEW r \in Replicas, api_error(r) PROVE Goal
  BY <1>48, Zenon DEF api_error
<1>49. ASSUME NEW r \in Replicas, crash(r) PROVE Goal
  BY <1>49, Zenon DEF crash
<1>50. CASE UNCHANGED vars
  BY <1>50 DEF vars
<1> QED
  BY <1>1, <1>2, <1>3, <1>4, <1>5, <1>6, <1>7, <1>8, <1>9, <1>10, 
     <1>11, <1>12, <1>13, <1>14, <1>15, <1>16, <1>17, <1>18, <1>19, 
     <1>20, <1>21, <1>22, <1>23, <1>24, <1>25, <1>26, <1>27, <1>28, 
     <1>29, <1>30, <1>31, <1>32, <1>33, <1>34, <1>35, <1>36, <1>37, 
     <1>38, <1>39, <1>40, <1>41, <1>42, <1>43, <1>44, <1>45, <1>46, 
     <1>47, <1>48, <1>49, <1>50, NextCases

\* What is written to storage is so.
LEMMA StorageStep ==
    ASSUME PlainOK, VersionsOK, HonestInv, [Next]_vars, errors' = 0
    PROVE  HonestStorage'
<1>0. /\ errors = 0 /\ (good = Steps => good' = Steps) /\ (flag => flag')
      /\ (outcome # "none" => outcome' # "none")
  BY Monotone
<1>A. /\ HonestStorage
      /\ \A p \in Pods : HonestExecutor(p)
      /\ \A r \in Replicas : HonestReplica(r)
  BY <1>0 DEF HonestInv
<1>1. CASE launch
  BY <1>1, <1>0, <1>A DEF launch, HonestStorage
<1>2. CASE launch_retry
  BY <1>2, <1>0, <1>A DEF launch_retry, HonestStorage
<1>3. CASE fail_unlaunched_run
  BY <1>3, <1>0, <1>A DEF fail_unlaunched_run, HonestStorage
<1>4. CASE health_check
  BY <1>4, <1>0, <1>A DEF health_check, HonestStorage
<1>5. CASE annotate
  BY <1>5, <1>0, <1>A DEF annotate, HonestStorage
<1>6. CASE delete_run
  BY <1>6, <1>0, <1>A DEF delete_run, HonestStorage
<1>7. CASE cancel_run
  BY <1>7, <1>0, <1>A DEF cancel_run, HonestStorage
<1>8. CASE cancel_queued_run
  BY <1>8, <1>0, <1>A DEF cancel_queued_run, HonestStorage
<1>9. CASE terminate_run
  BY <1>9, <1>0, <1>A DEF terminate_run, HonestStorage
<1>10. CASE collect_pods
  BY <1>10, <1>0, <1>A DEF collect_pods, HonestStorage
<1>11. CASE timeout_passes
  BY <1>11, <1>0, <1>A DEF timeout_passes, HonestStorage
<1>12. CASE grace_passes
  BY <1>12, <1>0, <1>A DEF grace_passes, HonestStorage
<1>13. ASSUME NEW p \in Pods, pod_starts(p) PROVE HonestStorage'
  BY <1>13, <1>0, <1>A DEF pod_starts, HonestStorage
<1>14. ASSUME NEW p \in Pods, try_start_run(p) PROVE HonestStorage'
  BY <1>14, <1>0, <1>A DEF try_start_run, HonestStorage
<1>15. ASSUME NEW p \in Pods, execute_level(p) PROVE HonestStorage'
  BY <1>15, <1>0, <1>A DEF execute_level, HonestStorage
<1>16. ASSUME NEW p \in Pods, execute_step(p) PROVE HonestStorage'
  BY <1>16, <1>0, <1>A DEF execute_step, HonestStorage
<1>17. ASSUME NEW p \in Pods, finalize_status(p) PROVE HonestStorage'
  BY <1>17, <1>0, <1>A DEF finalize_status, HonestStorage
<1>18. ASSUME NEW p \in Pods, finalize_write(p) PROVE HonestStorage'
  BY <1>18, <1>0, <1>A DEF finalize_write, ExecAt, HonestExecutor, HonestStorage
<1>19. ASSUME NEW p \in Pods, report(p) PROVE HonestStorage'
  BY <1>19, <1>0, <1>A DEF report, HonestStorage
<1>20. ASSUME NEW p \in Pods, set_run_outcome(p) PROVE HonestStorage'
  BY <1>20, <1>0, <1>A DEF set_run_outcome, ExecAt, HonestExecutor, HonestStorage
<1>21. ASSUME NEW p \in Pods, pod_succeeds(p) PROVE HonestStorage'
  BY <1>21, <1>0, <1>A DEF pod_succeeds, HonestStorage
<1>22. ASSUME NEW p \in Pods, verb_mismatch(p) PROVE HonestStorage'
  BY <1>22, <1>0, <1>A DEF verb_mismatch, HonestStorage
<1>23. ASSUME NEW p \in Pods, pod_dies(p) PROVE HonestStorage'
  BY <1>23, <1>0, <1>A DEF pod_dies, HonestStorage
<1>24. ASSUME NEW r \in Replicas, observe(r) PROVE HonestStorage'
  BY <1>24, <1>0, <1>A, Zenon DEF observe, HonestStorage
<1>25. ASSUME NEW r \in Replicas, add_finalizer(r) PROVE HonestStorage'
  BY <1>25, <1>0, <1>A, Zenon DEF add_finalizer, HonestStorage
<1>26. ASSUME NEW r \in Replicas, reconcile_init(r) PROVE HonestStorage'
  BY <1>26, <1>0, <1>A, Zenon DEF reconcile_init, HonestStorage
<1>27. ASSUME NEW r \in Replicas, reconcile_pending(r) PROVE HonestStorage'
  BY <1>27, <1>0, <1>A, Zenon DEF reconcile_pending, HonestStorage
<1>28. ASSUME NEW r \in Replicas, start_cancelling(r) PROVE HonestStorage'
  BY <1>28, <1>0, <1>A, Zenon DEF start_cancelling, HonestStorage
<1>29. ASSUME NEW r \in Replicas, transition_to_timed_out(r) PROVE HonestStorage'
  BY <1>29, <1>0, <1>A, Zenon DEF transition_to_timed_out, HonestStorage
<1>30. ASSUME NEW r \in Replicas, timed_out_delete(r) PROVE HonestStorage'
  BY <1>30, <1>0, <1>A, Zenon DEF timed_out_delete, HonestStorage
<1>31. ASSUME NEW r \in Replicas, reconcile_running(r) PROVE HonestStorage'
  BY <1>31, <1>0, <1>A, Zenon DEF reconcile_running, HonestStorage
<1>32. ASSUME NEW r \in Replicas, succeeded_outcome(r) PROVE HonestStorage'
  BY <1>32, <1>0, <1>A, Zenon DEF succeeded_outcome, HonestStorage
<1>33. ASSUME NEW r \in Replicas, update_progress(r) PROVE HonestStorage'
  BY <1>33, <1>0, <1>A, Zenon DEF update_progress, HonestStorage
<1>34. ASSUME NEW r \in Replicas, handle_executor_failure(r) PROVE HonestStorage'
  BY <1>34, <1>0, <1>A, Zenon DEF handle_executor_failure, HonestStorage
<1>35. ASSUME NEW r \in Replicas, restart_budget(r) PROVE HonestStorage'
  BY <1>35, <1>0, <1>A, Zenon DEF restart_budget, HonestStorage
<1>36. ASSUME NEW r \in Replicas, budget_exhausted(r) PROVE HonestStorage'
  BY <1>36, <1>0, <1>A, Zenon DEF budget_exhausted, HonestStorage
<1>37. ASSUME NEW r \in Replicas, restart_delete(r) PROVE HonestStorage'
  BY <1>37, <1>0, <1>A, Zenon DEF restart_delete, HonestStorage
<1>38. ASSUME NEW r \in Replicas, restart_create(r) PROVE HonestStorage'
  BY <1>38, <1>0, <1>A, Zenon DEF restart_create, HonestStorage
<1>39. ASSUME NEW r \in Replicas, reconcile_cancelling(r) PROVE HonestStorage'
  BY <1>39, <1>0, <1>A, Zenon DEF reconcile_cancelling, HonestStorage
<1>40. ASSUME NEW r \in Replicas, cancelling_kill(r) PROVE HonestStorage'
  BY <1>40, <1>0, <1>A, Zenon DEF cancelling_kill, HonestStorage
<1>41. ASSUME NEW r \in Replicas, finalize_cancelled(r) PROVE HonestStorage'
  BY <1>41, <1>0, <1>A, Zenon DEF finalize_cancelled, HonestStorage
<1>42. ASSUME NEW r \in Replicas, patch(r) PROVE HonestStorage'
  BY <1>42, <1>0, <1>A, Zenon DEF patch, HonestStorage
<1>43. ASSUME NEW r \in Replicas, sync_run_status_to_storage(r) PROVE HonestStorage'
  <2>1. draft[r].phase \in Terminal /\ Honest(draft[r])
    BY <1>43, <1>A DEF sync_run_status_to_storage, VersionsOK, HonestReplica
  <2>2. StatusOf(draft[r].phase) = "Success" => good = Steps
    BY <2>1 DEF StatusOf, Terminal, Honest
  <2>3. row' \in {row, StatusOf(draft[r].phase)} /\ UNCHANGED <<outcome, flag, good>>
    BY <1>43 DEF sync_run_status_to_storage
  <2> QED BY <1>A, <2>2, <2>3 DEF HonestStorage
<1>44. ASSUME NEW r \in Replicas, handle_deletion(r) PROVE HonestStorage'
  BY <1>44, <1>0, <1>A, Zenon DEF handle_deletion, HonestStorage
<1>45. ASSUME NEW r \in Replicas, deletion_sync(r) PROVE HonestStorage'
  BY <1>45, <1>0, <1>A, Zenon DEF deletion_sync, HonestStorage
<1>46. ASSUME NEW r \in Replicas, deletion_pod(r) PROVE HonestStorage'
  BY <1>46, <1>0, <1>A, Zenon DEF deletion_pod, HonestStorage
<1>47. ASSUME NEW r \in Replicas, remove_finalizer(r) PROVE HonestStorage'
  BY <1>47, <1>0, <1>A, Zenon DEF remove_finalizer, HonestStorage
<1>48. ASSUME NEW r \in Replicas, api_error(r) PROVE HonestStorage'
  BY <1>48, <1>0, <1>A, Zenon DEF api_error, HonestStorage
<1>49. ASSUME NEW r \in Replicas, crash(r) PROVE HonestStorage'
  BY <1>49, <1>0, <1>A, Zenon DEF crash, HonestStorage
<1>50. CASE UNCHANGED vars
  BY <1>50, <1>A DEF vars, HonestStorage
<1> QED
  BY <1>1, <1>2, <1>3, <1>4, <1>5, <1>6, <1>7, <1>8, <1>9, <1>10, 
     <1>11, <1>12, <1>13, <1>14, <1>15, <1>16, <1>17, <1>18, <1>19, 
     <1>20, <1>21, <1>22, <1>23, <1>24, <1>25, <1>26, <1>27, <1>28, 
     <1>29, <1>30, <1>31, <1>32, <1>33, <1>34, <1>35, <1>36, <1>37, 
     <1>38, <1>39, <1>40, <1>41, <1>42, <1>43, <1>44, <1>45, <1>46, 
     <1>47, <1>48, <1>49, <1>50, NextCases

\* The Run says what is so.
LEMMA RunHonest ==
    ASSUME PlainOK, VersionsOK, cr \in Resource, Within(cr), HonestInv, [Next]_vars, errors' = 0
    PROVE  Honest(cr)'
<1>0. /\ errors = 0 /\ (good = Steps => good' = Steps) /\ (flag => flag')
  BY Monotone
<1>A. /\ Honest(cr) /\ \A r \in Replicas : HonestReplica(r)
  BY <1>0 DEF HonestInv
<1>B. done \in 0 .. Steps
  BY DEF PlainOK
<1>1. CASE cr'.phase \in {cr.phase, "none", "Pending"}
  BY <1>0, <1>1, <1>A DEF Honest
<1>2. ASSUME NEW r \in Replicas, cr'.phase = draft[r].phase
      PROVE  Honest(cr)'
  BY <1>0, <1>2, <1>A DEF Honest, HonestReplica
<1>3. CASE cr' \in {NoRun, Created}
  BY <1>1, <1>3, NoRunShape
<1>4. CASE cr' \in {[cr EXCEPT !.cancel = TRUE], [cr EXCEPT !.deleting = TRUE],
                    [cr EXCEPT !.finalizer = TRUE]}
  <2>1. cr'.phase = cr.phase
    BY <1>4, FlagShape
  <2> QED BY <1>1, <2>1
<1>5. ASSUME NEW r \in Replicas, cache[r].phase = "none",
             patch_status([cache[r] EXCEPT !.phase = "Pending"])
      PROVE  Honest(cr)'
  <2> DEFINE d == [cache[r] EXCEPT !.phase = "Pending"]
  <2>1. cache[r] \in Resource /\ Within(cache[r]) /\ cache[r].phase \notin Terminal
    BY <1>5 DEF VersionsOK, Terminal
  <2>2. /\ d \in Resource /\ d.phase = "Pending" /\ d.total = cache[r].total
        /\ d.restarts = cache[r].restarts /\ d.completed = cache[r].completed
    BY <2>1, PhaseShape DEF Phases
  <2>3. patch_status(d)
    BY <1>5
  <2> HIDE DEF d
  <2>4. Within(d)
    BY <2>1, <2>2 DEF Within, Paid, Completed
  <2>5. cr'.phase \in {cr.phase, d.phase}
    BY <1>B, <2>2, <2>3, <2>4, PatchPaid
  <2> QED BY <1>1, <2>2, <2>5
<1>6. ASSUME NEW r \in Replicas, pc[r] \in {"patch", "patch_sync"}, patch_status(draft[r])
      PROVE  Honest(cr)'
  <2>1. draft[r] \in Resource /\ Within(draft[r])
    BY <1>6 DEF VersionsOK
  <2>2. cr'.phase \in {cr.phase, draft[r].phase}
    BY <1>6, <1>B, <2>1, PatchPaid
  <2> QED BY <1>1, <1>2, <2>2
<1>7. CASE cr' = cr
  BY <1>1, <1>7
<1> QED BY <1>3, <1>4, <1>5, <1>6, <1>7, RunMoves

\* What an executor is about to write is so, and one that is over has left an
\* outcome.
LEMMA ExecutorStep ==
    ASSUME PlainOK, HonestInv, [Next]_vars, errors' = 0
    PROVE  \A q \in Pods : HonestExecutor(q)'
<1>0. /\ errors = 0 /\ (good = Steps => good' = Steps) /\ (flag => flag')
      /\ (outcome # "none" => outcome' # "none")
  BY Monotone
<1>A. \A q \in Pods : HonestExecutor(q)
  BY <1>0 DEF HonestInv
<1>B. /\ pods \in [Pods -> {"none", "Pending", "Running", "Succeeded", "Failed"}]
      /\ stage \in [Pods -> {"none", "boot", "level", "step", "finalize", "write", "report", "record", "exit"}]
      /\ result \in [Pods -> Ended \cup {"none", "Cancelled"}]
      /\ \A q \in Pods : stage[q] = "record" => result[q] # "none"
  BY DEF PlainOK
<1> DEFINE Goal == \A q \in Pods : HonestExecutor(q)'
\* A step that only creates pods or deletes finished ones.
<1>C. ASSUME UNCHANGED exec,
             \A q \in Pods : /\ pods'[q] = "Succeeded" => pods[q] = "Succeeded"
                             /\ pods[q] = "Running" => pods'[q] = "Running"
      PROVE  Goal
  BY <1>0, <1>A, <1>C DEF HonestExecutor
<1>1. CASE launch
  BY <1>1, <1>C DEF launch
<1>2. CASE launch_retry
  BY <1>2, <1>C DEF launch_retry
<1>3. CASE fail_unlaunched_run
  BY <1>3, <1>C DEF fail_unlaunched_run
<1>4. CASE health_check
  BY <1>4, <1>C DEF health_check
<1>5. CASE annotate
  BY <1>5, <1>C DEF annotate
<1>6. CASE delete_run
  BY <1>6, <1>C DEF delete_run
<1>7. CASE cancel_run
  BY <1>7, <1>C DEF cancel_run
<1>8. CASE cancel_queued_run
  BY <1>8, <1>C DEF cancel_queued_run
<1>9. CASE terminate_run
  BY <1>9, <1>C DEF terminate_run
<1>10. CASE collect_pods
  <2>1. /\ UNCHANGED exec
        /\ \A q \in Pods : /\ pods'[q] = "Succeeded" => pods[q] = "Succeeded"
                           /\ pods[q] = "Running" => pods'[q] = "Running"
    BY <1>10, <1>B DEF collect_pods, Live
  <2> QED BY <1>C, <2>1
<1>11. CASE timeout_passes
  BY <1>11, <1>C DEF timeout_passes
<1>12. CASE grace_passes
  BY <1>12, <1>C DEF grace_passes
<1>13. ASSUME NEW p \in Pods, pod_starts(p) PROVE Goal
  BY <1>13, <1>0, <1>A, <1>B DEF pod_starts, ExecTo, ExecAt, HonestExecutor, Ended
<1>14. ASSUME NEW p \in Pods, try_start_run(p) PROVE Goal
  BY <1>14, <1>0, <1>A, <1>B DEF try_start_run, ExecTo, ExecAt, HonestExecutor, Ended
<1>15. ASSUME NEW p \in Pods, execute_level(p) PROVE Goal
  BY <1>15, <1>0, <1>A, <1>B DEF execute_level, ExecTo, ExecAt, HonestExecutor, Ended
<1>16. ASSUME NEW p \in Pods, execute_step(p) PROVE Goal
  BY <1>16, <1>0, <1>A, <1>B DEF execute_step, ExecTo, ExecAt, HonestExecutor, Ended
<1>17. ASSUME NEW p \in Pods, finalize_status(p) PROVE Goal
  BY <1>17, <1>0, <1>A, <1>B DEF finalize_status, ExecTo, ExecAt, HonestExecutor, Ended
<1>18. ASSUME NEW p \in Pods, finalize_write(p) PROVE Goal
  BY <1>18, <1>0, <1>A, <1>B DEF finalize_write, ExecTo, ExecAt, HonestExecutor, Ended
<1>19. ASSUME NEW p \in Pods, report(p) PROVE Goal
  BY <1>19, <1>0, <1>A, <1>B DEF report, ExecTo, ExecAt, HonestExecutor, Ended
<1>20. ASSUME NEW p \in Pods, set_run_outcome(p) PROVE Goal
  BY <1>20, <1>0, <1>A, <1>B DEF set_run_outcome, ExecTo, ExecAt, HonestExecutor, Ended
<1>21. ASSUME NEW p \in Pods, pod_succeeds(p) PROVE Goal
  BY <1>21, <1>0, <1>A, <1>B DEF pod_succeeds, PodEnds, ExecTo, ExecAt, HonestExecutor, Ended
<1>22. ASSUME NEW p \in Pods, verb_mismatch(p) PROVE Goal
  BY <1>22, <1>0, <1>A, <1>B DEF verb_mismatch, PodEnds, ExecTo, ExecAt, HonestExecutor, Ended
<1>23. ASSUME NEW p \in Pods, pod_dies(p) PROVE Goal
  BY <1>23, <1>0, <1>A, <1>B DEF pod_dies, PodEnds, Live, ExecTo, ExecAt, HonestExecutor, Ended
<1>24. ASSUME NEW r \in Replicas, observe(r) PROVE Goal
  BY <1>24, <1>C DEF observe
<1>25. ASSUME NEW r \in Replicas, add_finalizer(r) PROVE Goal
  BY <1>25, <1>C DEF add_finalizer
<1>26. ASSUME NEW r \in Replicas, reconcile_init(r) PROVE Goal
  BY <1>26, <1>C DEF reconcile_init
<1>27. ASSUME NEW r \in Replicas, reconcile_pending(r) PROVE Goal
  <2>1. /\ UNCHANGED exec
        /\ \A q \in Pods : /\ pods'[q] = "Succeeded" => pods[q] = "Succeeded"
                           /\ pods[q] = "Running" => pods'[q] = "Running"
    BY <1>27, <1>B DEF reconcile_pending, create_pod, Live
  <2> QED BY <1>C, <2>1
<1>28. ASSUME NEW r \in Replicas, start_cancelling(r) PROVE Goal
  BY <1>28, <1>C DEF start_cancelling
<1>29. ASSUME NEW r \in Replicas, transition_to_timed_out(r) PROVE Goal
  BY <1>29, <1>C DEF transition_to_timed_out
<1>30. ASSUME NEW r \in Replicas, timed_out_delete(r) PROVE Goal
  <2>1. /\ UNCHANGED exec
        /\ \A q \in Pods : /\ pods'[q] = "Succeeded" => pods[q] = "Succeeded"
                           /\ pods[q] = "Running" => pods'[q] = "Running"
    BY <1>30, <1>B DEF timed_out_delete, delete_pod, reads_progress, Live
  <2> QED BY <1>C, <2>1
<1>31. ASSUME NEW r \in Replicas, reconcile_running(r) PROVE Goal
  BY <1>31, <1>C DEF reconcile_running
<1>32. ASSUME NEW r \in Replicas, succeeded_outcome(r) PROVE Goal
  BY <1>32, <1>C DEF succeeded_outcome
<1>33. ASSUME NEW r \in Replicas, update_progress(r) PROVE Goal
  BY <1>33, <1>C DEF update_progress
<1>34. ASSUME NEW r \in Replicas, handle_executor_failure(r) PROVE Goal
  BY <1>34, <1>C DEF handle_executor_failure
<1>35. ASSUME NEW r \in Replicas, restart_budget(r) PROVE Goal
  BY <1>35, <1>C DEF restart_budget
<1>36. ASSUME NEW r \in Replicas, budget_exhausted(r) PROVE Goal
  BY <1>36, <1>C DEF budget_exhausted
<1>37. ASSUME NEW r \in Replicas, restart_delete(r) PROVE Goal
  <2>1. /\ UNCHANGED exec
        /\ \A q \in Pods : /\ pods'[q] = "Succeeded" => pods[q] = "Succeeded"
                           /\ pods[q] = "Running" => pods'[q] = "Running"
    BY <1>37, <1>B DEF restart_delete, delete_pod, Live
  <2> QED BY <1>C, <2>1
<1>38. ASSUME NEW r \in Replicas, restart_create(r) PROVE Goal
  <2>1. /\ UNCHANGED exec
        /\ \A q \in Pods : /\ pods'[q] = "Succeeded" => pods[q] = "Succeeded"
                           /\ pods[q] = "Running" => pods'[q] = "Running"
    BY <1>38, <1>B DEF restart_create, create_pod, Live
  <2> QED BY <1>C, <2>1
<1>39. ASSUME NEW r \in Replicas, reconcile_cancelling(r) PROVE Goal
  BY <1>39, <1>C DEF reconcile_cancelling
<1>40. ASSUME NEW r \in Replicas, cancelling_kill(r) PROVE Goal
  <2>1. /\ UNCHANGED exec
        /\ \A q \in Pods : /\ pods'[q] = "Succeeded" => pods[q] = "Succeeded"
                           /\ pods[q] = "Running" => pods'[q] = "Running"
    BY <1>40, <1>B DEF cancelling_kill, delete_pod, Live
  <2> QED BY <1>C, <2>1
<1>41. ASSUME NEW r \in Replicas, finalize_cancelled(r) PROVE Goal
  BY <1>41, <1>C DEF finalize_cancelled
<1>42. ASSUME NEW r \in Replicas, patch(r) PROVE Goal
  BY <1>42, <1>C DEF patch
<1>43. ASSUME NEW r \in Replicas, sync_run_status_to_storage(r) PROVE Goal
  BY <1>43, <1>C DEF sync_run_status_to_storage
<1>44. ASSUME NEW r \in Replicas, handle_deletion(r) PROVE Goal
  BY <1>44, <1>C DEF handle_deletion
<1>45. ASSUME NEW r \in Replicas, deletion_sync(r) PROVE Goal
  BY <1>45, <1>C DEF deletion_sync
<1>46. ASSUME NEW r \in Replicas, deletion_pod(r) PROVE Goal
  <2>1. /\ UNCHANGED exec
        /\ \A q \in Pods : /\ pods'[q] = "Succeeded" => pods[q] = "Succeeded"
                           /\ pods[q] = "Running" => pods'[q] = "Running"
    BY <1>46, <1>B DEF deletion_pod, delete_pod, Live
  <2> QED BY <1>C, <2>1
<1>47. ASSUME NEW r \in Replicas, remove_finalizer(r) PROVE Goal
  BY <1>47, <1>C DEF remove_finalizer
<1>48. ASSUME NEW r \in Replicas, api_error(r) PROVE Goal
  BY <1>48, <1>C DEF api_error
<1>49. ASSUME NEW r \in Replicas, crash(r) PROVE Goal
  BY <1>49, <1>C DEF crash
<1>50. CASE UNCHANGED vars
  BY <1>50, <1>C DEF vars
<1> QED
  BY <1>1, <1>2, <1>3, <1>4, <1>5, <1>6, <1>7, <1>8, <1>9, <1>10, 
     <1>11, <1>12, <1>13, <1>14, <1>15, <1>16, <1>17, <1>18, <1>19, 
     <1>20, <1>21, <1>22, <1>23, <1>24, <1>25, <1>26, <1>27, <1>28, 
     <1>29, <1>30, <1>31, <1>32, <1>33, <1>34, <1>35, <1>36, <1>37, 
     <1>38, <1>39, <1>40, <1>41, <1>42, <1>43, <1>44, <1>45, <1>46, 
     <1>47, <1>48, <1>49, <1>50, NextCases

\* The versions the replicas hold say what is so.
LEMMA ReplicaHonest ==
    ASSUME TypeOK, Due, BudgetInv, HonestInv, [Next]_vars, errors' = 0
    PROVE  \A r \in Replicas : HonestReplica(r)'
<1>P. PlainOK /\ VersionsOK
  BY TwoParts
<1>0. /\ errors = 0 /\ (good = Steps => good' = Steps) /\ (flag => flag')
      /\ (outcome # "none" => outcome' # "none")
  BY <1>P, Monotone
<1>A. /\ HonestStorage /\ Honest(cr)
      /\ \A p \in Pods : HonestExecutor(p)
      /\ \A r \in Replicas : HonestReplica(r)
  BY <1>0 DEF HonestInv
<1>2. /\ cache \in [Replicas -> Resource] /\ seen \in [Replicas -> Resource]
      /\ draft \in [Replicas -> Resource] /\ pc \in [Replicas -> PCs]
  BY DEF TypeOK
<1> DEFINE So(run) == /\ run.phase = "Succeeded" => good' = Steps
                      /\ run.phase \in {"Cancelling", "Cancelled", "TimedOut"} => flag'
           Held(c, w, s, d) == /\ So(c) /\ So(s) /\ So(d)
                               /\ w \in {"kill", "finalize"} => flag'
                               /\ w = "outcome" => outcome' # "none"
<1>1. /\ \A r \in Replicas : Held(cache[r], pc[r], seen[r], draft[r])
      /\ So(cr) /\ So(NoRun)
  BY <1>0, <1>A, NoRunShape DEF HonestReplica, Honest
<1>3. SUFFICES \A r \in Replicas : Held(cache'[r], pc'[r], seen'[r], draft'[r])
  BY <1>3 DEF HonestReplica, Honest
<1> DEFINE Goal == \A r \in Replicas : Held(cache'[r], pc'[r], seen'[r], draft'[r])
<1>4. CASE UNCHANGED <<cache, op>>
  BY <1>1, <1>4
\* One replica moves.
<1>5. ASSUME NEW r \in Replicas,
             NEW c, NEW w, NEW s, NEW d, Held(c, w, s, d),
             cache' = [cache EXCEPT ![r] = c], pc' = [pc EXCEPT ![r] = w],
             seen' = [seen EXCEPT ![r] = s], draft' = [draft EXCEPT ![r] = d]
      PROVE  Goal
  <2>1. /\ cache'[r] = c /\ pc'[r] = w /\ seen'[r] = s /\ draft'[r] = d
        /\ \A q \in Replicas \ {r} : /\ cache'[q] = cache[q] /\ pc'[q] = pc[q]
                                     /\ seen'[q] = seen[q] /\ draft'[q] = draft[q]
    BY <1>2, <1>5
  <2> HIDE DEF Held
  <2> QED BY <1>1, <1>5, <2>1
<1>6. ASSUME NEW r \in Replicas, Replica(r)
      PROVE  Goal
  <2>0. Held(cache[r], pc[r], seen[r], draft[r]) /\ HonestReplica(r)
    BY <1>1, <1>A
  <2>A. /\ cache = [cache EXCEPT ![r] = cache[r]] /\ pc = [pc EXCEPT ![r] = pc[r]]
        /\ seen = [seen EXCEPT ![r] = seen[r]] /\ draft = [draft EXCEPT ![r] = draft[r]]
    BY <1>2
  <2>1. CASE Finishes(r) /\ cache' \in {cache, [cache EXCEPT ![r] = cr]}
    <3>1. Held(cache[r], "idle", NoRun, NoRun) /\ Held(cr, "idle", NoRun, NoRun)
      BY <1>1, <2>0
    <3> HIDE DEF Held, Goal
    <3>2. CASE cache' = cache
      BY <1>5, <2>1, <2>A, <3>1, <3>2 DEF Finishes, Goes
    <3>3. CASE cache' = [cache EXCEPT ![r] = cr]
      BY <1>5, <2>1, <2>A, <3>1, <3>3 DEF Finishes, Goes
    <3> QED BY <2>1, <3>2, <3>3
  <2>2. CASE Starting(r) /\ UNCHANGED <<cache, draft>>
    <3>1. PICK w \in {"outcome", "failure", "progress", "kill", "finalize", "del_pod", "del_sync"} :
             /\ Sees(r) /\ Goes(r, w)
             /\ w \in {"kill", "finalize"} => cache[r].phase = "Cancelling"
             /\ w = "outcome" => \E p \in Pods : pods[p] = "Succeeded"
      BY <2>2 DEF Starting
    <3>2. w = "outcome" => outcome' # "none"
      BY <1>0, <1>A, <3>1 DEF HonestExecutor
    <3>3. Held(cache[r], w, cache[r], draft[r])
      BY <2>0, <3>1, <3>2
    <3> HIDE DEF Held, Goal
    <3>4. /\ cache' = [cache EXCEPT ![r] = cache[r]] /\ pc' = [pc EXCEPT ![r] = w]
          /\ seen' = [seen EXCEPT ![r] = cache[r]] /\ draft' = [draft EXCEPT ![r] = draft[r]]
      BY <2>2, <2>A, <3>1 DEF Sees, Goes
    <3> QED BY <1>5, <3>3, <3>4, Zenon
  <2>3. CASE Going(r) /\ UNCHANGED <<cache, seen, draft>>
    <3>1. PICK w \in {"budget", "create", "finalize", "sync", "del_pod", "del_final"} :
             Goes(r, w) /\ (w = "finalize" => pc[r] = "kill")
      BY <2>3 DEF Going
    <3>3. Held(cache[r], w, seen[r], draft[r])
      BY <2>0, <3>1
    <3> HIDE DEF Held, Goal
    <3>4. /\ cache' = [cache EXCEPT ![r] = cache[r]] /\ pc' = [pc EXCEPT ![r] = w]
          /\ seen' = [seen EXCEPT ![r] = seen[r]] /\ draft' = [draft EXCEPT ![r] = draft[r]]
      BY <2>3, <2>A, <3>1 DEF Goes
    <3> QED BY <1>5, <3>3, <3>4, Zenon
  <2>4. CASE Drafting(r) /\ cache' = cache /\ (seen' = seen \/ Sees(r))
    <3>1. PICK d \in Resource,
               w \in {"patch", "timeout", "patch_sync", "exhausted", "delete_old"} :
             Drafts(r, d) /\ Goes(r, w) /\ DraftPhase(r, d.phase)
      BY <2>4 DEF Drafting
    <3>2. So(d)
      <4>0. outcome \in {"none", "Success", "Failure", "Cancelled"} /\ errors' = errors
        BY <1>0 DEF TypeOK
      <4>1. CASE d.phase \in {seen[r].phase, draft[r].phase, "Running", "Failed"}
        BY <2>0, <4>1
      <4>2. CASE d.phase = PhaseOf(outcome) /\ outcome # "none"
        <5>1. /\ d.phase = "Succeeded" => outcome = "Success"
              /\ d.phase \in {"Cancelling", "Cancelled", "TimedOut"} => outcome = "Cancelled"
          BY <4>0, <4>2, OutcomePhase
        <5> QED BY <1>0, <1>A, <5>1 DEF HonestStorage
      <4>3. CASE d.phase = "Succeeded" /\ pc[r] = "outcome" /\ (outcome = "none" \/ errors' # errors)
        BY <2>0, <4>0, <4>3 DEF HonestReplica
      <4>4. CASE d.phase \in {"Cancelling", "TimedOut"} /\ (flag' \/ errors' # errors)
        BY <4>0, <4>4
      <4>5. CASE d.phase = "Cancelled" /\ pc[r] = "finalize"
        BY <2>0, <4>5
      <4> QED BY <3>1, <4>1, <4>2, <4>3, <4>4, <4>5 DEF DraftPhase
    <3>3. Held(cache[r], w, seen[r], d) /\ Held(cache[r], w, cache[r], d)
      BY <2>0, <3>1, <3>2
    <3> HIDE DEF Held, Goal
    <3>4. CASE seen' = seen
      BY <1>5, <2>4, <2>A, <3>1, <3>3, <3>4 DEF Drafts, Goes
    <3>5. CASE Sees(r)
      BY <1>5, <2>4, <2>A, <3>1, <3>3, <3>5 DEF Drafts, Goes, Sees
    <3> QED BY <2>4, <3>4, <3>5
  <2>5. CASE cache' = [cache EXCEPT ![r] = cr] /\ UNCHANGED op
    <3>1. Held(cr, pc[r], seen[r], draft[r])
      BY <1>1, <2>0
    <3> HIDE DEF Held, Goal
    <3>2. /\ cache' = [cache EXCEPT ![r] = cr] /\ pc' = [pc EXCEPT ![r] = pc[r]]
          /\ seen' = [seen EXCEPT ![r] = seen[r]] /\ draft' = [draft EXCEPT ![r] = draft[r]]
      BY <2>5, <2>A
    <3> QED BY <1>5, <3>1, <3>2, Zenon
  <2> QED BY <1>6, <2>1, <2>2, <2>3, <2>4, <2>5 DEF Replica
<1> QED BY <1>4, <1>6, ReplicaMoves

\* Every step keeps the statuses honest.
LEMMA HonestStep ==
    ASSUME TypeOK, Due, BudgetInv, HonestInv, [Next]_vars
    PROVE  HonestInv'
<1>1. PlainOK /\ VersionsOK /\ cr \in Resource /\ Within(cr)
  BY TwoParts
<1>2. TypeOK' /\ Due'
  BY TypeStep
<1>3. ASSUME errors' = 0
      PROVE  /\ HonestStorage' /\ Honest(cr)' /\ \A p \in Pods : HonestExecutor(p)'
             /\ \A r \in Replicas : HonestReplica(r)'
  BY <1>1, <1>3, StorageStep, RunHonest, ExecutorStep, ReplicaHonest
<1> QED BY <1>2, <1>3 DEF HonestInv

-----------------------------------------------------------------------------
(* The theorems.                                                           *)

\* While no call has failed, every status there is or is about to be written,
\* in storage, in the Run, in a cache, in a draft or in an executor, is one the
\* steps and the flag bear out.
THEOREM HonestInvHolds == Spec => []HonestInv
<1>1. Init => TypeOK /\ Due /\ BudgetInv /\ HonestInv
  BY InitOK
<1>2. /\ TypeOK /\ Due /\ BudgetInv /\ HonestInv /\ [Next]_vars
      => (TypeOK /\ Due /\ BudgetInv /\ HonestInv)'
  BY TypeStep, HonestStep
<1> QED BY <1>1, <1>2, PTL DEF Spec

\* A run reported as a success has done all its steps, for any number of
\* replicas, restarts and crashes (reconcile_running, apply_outcome_to_status).
THEOREM SuccessIsRealHolds == Spec => []SuccessIsReal
<1>1. HonestInv => SuccessIsReal
  BY DEF HonestInv, HonestStorage, Honest, SuccessIsReal
<1> QED BY <1>1, HonestInvHolds, PTL

\* In a Run that is Cancelled or TimedOut only an executor that has not read
\* the flag yet could begin a step, and every one reads it before it does.
LEMMA StoppedStep ==
    ASSUME TypeOK, HonestInv, [Next]_vars, cr.phase \in {"Cancelled", "TimedOut"}, errors = 0
    PROVE  \A q \in Pods : stage'[q] = "step" => stage[q] = "step"
<1> DEFINE Goal == \A q \in Pods : stage'[q] = "step" => stage[q] = "step"
<1>0. flag
  BY DEF HonestInv, Honest
<1>A. stage \in [Pods -> {"none", "boot", "level", "step", "finalize", "write", "report", "record", "exit"}]
  BY DEF TypeOK
<1>1. CASE launch
  BY <1>1 DEF launch
<1>2. CASE launch_retry
  BY <1>2 DEF launch_retry
<1>3. CASE fail_unlaunched_run
  BY <1>3 DEF fail_unlaunched_run
<1>4. CASE health_check
  BY <1>4 DEF health_check
<1>5. CASE annotate
  BY <1>5 DEF annotate
<1>6. CASE delete_run
  BY <1>6 DEF delete_run
<1>7. CASE cancel_run
  BY <1>7 DEF cancel_run
<1>8. CASE cancel_queued_run
  BY <1>8 DEF cancel_queued_run
<1>9. CASE terminate_run
  BY <1>9 DEF terminate_run
<1>10. CASE collect_pods
  BY <1>10 DEF collect_pods
<1>11. CASE timeout_passes
  BY <1>11 DEF timeout_passes
<1>12. CASE grace_passes
  BY <1>12 DEF grace_passes
<1>13. ASSUME NEW p \in Pods, pod_starts(p) PROVE Goal
  BY <1>13, <1>0, <1>A DEF pod_starts, ExecTo
<1>14. ASSUME NEW p \in Pods, try_start_run(p) PROVE Goal
  BY <1>14, <1>0, <1>A DEF try_start_run, ExecTo
<1>15. ASSUME NEW p \in Pods, execute_level(p) PROVE Goal
  BY <1>15, <1>0, <1>A DEF execute_level, ExecTo
<1>16. ASSUME NEW p \in Pods, execute_step(p) PROVE Goal
  BY <1>16, <1>0, <1>A DEF execute_step, ExecTo
<1>17. ASSUME NEW p \in Pods, finalize_status(p) PROVE Goal
  BY <1>17, <1>0, <1>A DEF finalize_status, ExecTo
<1>18. ASSUME NEW p \in Pods, finalize_write(p) PROVE Goal
  BY <1>18, <1>0, <1>A DEF finalize_write, ExecTo
<1>19. ASSUME NEW p \in Pods, report(p) PROVE Goal
  BY <1>19, <1>0, <1>A DEF report, ExecTo
<1>20. ASSUME NEW p \in Pods, set_run_outcome(p) PROVE Goal
  BY <1>20, <1>0, <1>A DEF set_run_outcome, ExecTo
<1>21. ASSUME NEW p \in Pods, pod_succeeds(p) PROVE Goal
  BY <1>21, <1>0, <1>A DEF pod_succeeds, ExecTo, PodEnds
<1>22. ASSUME NEW p \in Pods, verb_mismatch(p) PROVE Goal
  BY <1>22, <1>0, <1>A DEF verb_mismatch, ExecTo, PodEnds
<1>23. ASSUME NEW p \in Pods, pod_dies(p) PROVE Goal
  BY <1>23, <1>0, <1>A DEF pod_dies, ExecTo, PodEnds
<1>24. ASSUME NEW r \in Replicas, observe(r) PROVE Goal
  BY <1>24 DEF observe
<1>25. ASSUME NEW r \in Replicas, add_finalizer(r) PROVE Goal
  BY <1>25 DEF add_finalizer
<1>26. ASSUME NEW r \in Replicas, reconcile_init(r) PROVE Goal
  BY <1>26 DEF reconcile_init
<1>27. ASSUME NEW r \in Replicas, reconcile_pending(r) PROVE Goal
  BY <1>27 DEF reconcile_pending, create_pod
<1>28. ASSUME NEW r \in Replicas, start_cancelling(r) PROVE Goal
  BY <1>28 DEF start_cancelling
<1>29. ASSUME NEW r \in Replicas, transition_to_timed_out(r) PROVE Goal
  BY <1>29 DEF transition_to_timed_out
<1>30. ASSUME NEW r \in Replicas, timed_out_delete(r) PROVE Goal
  BY <1>30 DEF timed_out_delete
<1>31. ASSUME NEW r \in Replicas, reconcile_running(r) PROVE Goal
  BY <1>31 DEF reconcile_running
<1>32. ASSUME NEW r \in Replicas, succeeded_outcome(r) PROVE Goal
  BY <1>32 DEF succeeded_outcome
<1>33. ASSUME NEW r \in Replicas, update_progress(r) PROVE Goal
  BY <1>33 DEF update_progress
<1>34. ASSUME NEW r \in Replicas, handle_executor_failure(r) PROVE Goal
  BY <1>34 DEF handle_executor_failure
<1>35. ASSUME NEW r \in Replicas, restart_budget(r) PROVE Goal
  BY <1>35 DEF restart_budget
<1>36. ASSUME NEW r \in Replicas, budget_exhausted(r) PROVE Goal
  BY <1>36 DEF budget_exhausted
<1>37. ASSUME NEW r \in Replicas, restart_delete(r) PROVE Goal
  BY <1>37 DEF restart_delete
<1>38. ASSUME NEW r \in Replicas, restart_create(r) PROVE Goal
  BY <1>38 DEF restart_create, create_pod
<1>39. ASSUME NEW r \in Replicas, reconcile_cancelling(r) PROVE Goal
  BY <1>39 DEF reconcile_cancelling
<1>40. ASSUME NEW r \in Replicas, cancelling_kill(r) PROVE Goal
  BY <1>40 DEF cancelling_kill
<1>41. ASSUME NEW r \in Replicas, finalize_cancelled(r) PROVE Goal
  BY <1>41 DEF finalize_cancelled
<1>42. ASSUME NEW r \in Replicas, patch(r) PROVE Goal
  BY <1>42 DEF patch
<1>43. ASSUME NEW r \in Replicas, sync_run_status_to_storage(r) PROVE Goal
  BY <1>43 DEF sync_run_status_to_storage
<1>44. ASSUME NEW r \in Replicas, handle_deletion(r) PROVE Goal
  BY <1>44 DEF handle_deletion
<1>45. ASSUME NEW r \in Replicas, deletion_sync(r) PROVE Goal
  BY <1>45 DEF deletion_sync
<1>46. ASSUME NEW r \in Replicas, deletion_pod(r) PROVE Goal
  BY <1>46 DEF deletion_pod
<1>47. ASSUME NEW r \in Replicas, remove_finalizer(r) PROVE Goal
  BY <1>47 DEF remove_finalizer
<1>48. ASSUME NEW r \in Replicas, api_error(r) PROVE Goal
  BY <1>48 DEF api_error
<1>49. ASSUME NEW r \in Replicas, crash(r) PROVE Goal
  BY <1>49 DEF crash
<1>50. CASE UNCHANGED vars
  BY <1>50 DEF vars
<1> QED
  BY <1>1, <1>2, <1>3, <1>4, <1>5, <1>6, <1>7, <1>8, <1>9, <1>10, 
     <1>11, <1>12, <1>13, <1>14, <1>15, <1>16, <1>17, <1>18, <1>19, 
     <1>20, <1>21, <1>22, <1>23, <1>24, <1>25, <1>26, <1>27, <1>28, 
     <1>29, <1>30, <1>31, <1>32, <1>33, <1>34, <1>35, <1>36, <1>37, 
     <1>38, <1>39, <1>40, <1>41, <1>42, <1>43, <1>44, <1>45, <1>46, 
     <1>47, <1>48, <1>49, <1>50, NextCases

\* Nothing starts in a run that was stopped, in a pod that outlives its
\* deletion either (start_cancelling, transition_to_timed_out).
THEOREM StoppedStartsNothingHolds == Spec => StoppedStartsNothing
<1> DEFINE Quiet == cr.phase \in {"Cancelled", "TimedOut"} /\ errors = 0 =>
                        \A p \in Pods : stage'[p] = "step" => stage[p] = "step"
<1>1. TypeOK /\ HonestInv /\ [Next]_vars => [Quiet]_vars
  BY StoppedStep
<1>2. Spec => [][Quiet]_vars
  BY <1>1, TypeCorrect, HonestInvHolds, PTL DEF Spec
<1> QED BY <1>2 DEF StoppedStartsNothing

=============================================================================
