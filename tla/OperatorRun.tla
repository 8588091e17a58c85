----------------------------- MODULE OperatorRun -----------------------------
(***************************************************************************)
(* One run on Kubernetes: the daemon's run backend creates a Run resource, *)
(* the replicas of the operator reconcile it into executor pods, the       *)
(* executor in a pod works on the steps, and they meet in the Run          *)
(* resource and in storage.                                                *)
(*                                                                         *)
(* Sources: rust/rivers-operator/src/run/{reconcile,restart,cancel,        *)
(* timeout,progress}.rs, rust/rivers-k8s/src/run_backend.rs,               *)
(* python/rivers/cli/run.py, python/src/executor/{mod,run_lifecycle}.rs,   *)
(* python/src/daemon/subdaemons.rs, python/src/repository/handle.rs.       *)
(*                                                                         *)
(* Every call of the Kubernetes API and of storage is one action. A        *)
(* reconcile starts from the replica's watch cache, which may be behind    *)
(* the Run resource by any number of versions, its own writes included.    *)
(***************************************************************************)
EXTENDS Integers, FiniteSets

CONSTANTS
    Replicas,     \* replicas of the operator; each reconciles every Run
    Steps,        \* steps of the run, one after the other
    MaxRestarts,  \* spec.max_restarts
    Timed,        \* TRUE: spec.timeout_seconds is set
    Cancels,      \* ways to end the run, of which one is taken: "annotate",
                  \* "cancel_run" or "delete"
    Unreliable,   \* TRUE: calls of the API and of storage may fail
    MaxFaults     \* bound: crashes of an operator replica and failing calls

ASSUME OperatorAssumption ==
    /\ IsFiniteSet(Replicas) /\ Replicas # {}
    /\ Steps \in Nat \ {0} /\ MaxRestarts \in Nat
    /\ Timed \in BOOLEAN /\ Unreliable \in BOOLEAN
    /\ Cancels \subseteq {"annotate", "cancel_run", "delete"}
    /\ MaxFaults \in Nat

\* The restarts there can be: the budget, once more after every step.
MaxTotal == (MaxRestarts + 1) * (Steps + 1)
\* <run>-executor is pod 0, <run>-executor-<n> is pod n.
Pods == 0 .. MaxTotal
Absent == -1

VARIABLES
    row,       \* runs.status of the run
    outcome,   \* kv run_outcome:<run_id>
    flag,      \* kv cancel:<run_id>
    good,      \* steps with a StepSuccess event
    done,      \* steps with a StepSuccess or StepFailure event
    cr,        \* the Run resource
    pods,      \* phase of each pod, "none" when there is none
    killed,    \* pods with a deletion timestamp
    stage,     \* where the executor of each pod stands
    result,    \* what it is about to write
    cache,     \* what a replica's watch has delivered
    pc,        \* where a replica's reconcile stands
    seen,      \* the Run it started from
    draft,     \* its new_status
    daemon,    \* where the daemon stands with the run
    user,      \* where cancel_run stands
    asked,     \* somebody has asked to end the run
    timeup,    \* spec.timeout_seconds have passed since started_at
    drained,   \* cancel_grace_period_seconds have passed since the Cancelling condition
    crashes, errors

storage == <<row, outcome, flag, good, done>>
kubelet == <<pods, killed>>
exec    == <<stage, result>>
op      == <<pc, seen, draft>>
others  == <<daemon, user, asked>>
clock   == <<timeup, drained>>
faults  == <<crashes, errors>>
vars    == <<row, outcome, flag, good, done, cr, pods, killed, stage, result, cache, pc,
             seen, draft, daemon, user, asked, timeup, drained, crashes, errors>>

Ended    == {"Success", "Failure", "Canceled"}
Terminal == {"Succeeded", "Failed", "Cancelled", "TimedOut"}
Phases   == Terminal \cup {"none", "Pending", "Running", "Cancelling"}
Resource == [there : BOOLEAN, deleting : BOOLEAN, finalizer : BOOLEAN, cancel : BOOLEAN,
             phase : Phases, pod : Pods \cup {Absent}, restarts : 0 .. MaxRestarts + 1,
             total : 0 .. MaxTotal, completed : 0 .. Steps \cup {Absent}]
NoRun == [there |-> FALSE, deleting |-> FALSE, finalizer |-> FALSE, cancel |-> FALSE,
          phase |-> "none", pod |-> Absent, restarts |-> 0, total |-> 0, completed |-> Absent]
PCs == {"idle", "patch", "patch_sync", "sync", "outcome", "progress", "failure", "budget",
        "exhausted", "delete_old", "create", "timeout", "kill", "finalize",
        "del_sync", "del_pod", "del_final"}

\* Types. Besides, a run is restarted at most MaxTotal times: the budget of
\* restarts bounds the executors of a run.
TypeOK ==
    /\ row \in Ended \cup {"NotStarted", "Started"}
    /\ outcome \in {"none", "Success", "Failure", "Cancelled"}
    /\ flag \in BOOLEAN /\ good \in 0 .. Steps /\ done \in 0 .. Steps
    /\ cr \in Resource
    /\ pods \in [Pods -> {"none", "Pending", "Running", "Succeeded", "Failed"}]
    /\ killed \in SUBSET Pods
    /\ stage \in [Pods -> {"none", "boot", "level", "step", "finalize", "write", "report", "record", "exit"}]
    /\ result \in [Pods -> Ended \cup {"none", "Cancelled"}]
    /\ cache \in [Replicas -> Resource] /\ seen \in [Replicas -> Resource]
    /\ draft \in [Replicas -> Resource] /\ pc \in [Replicas -> PCs]
    /\ daemon \in {"launching", "retrying", "failing", "active", "released"}
    /\ user \in {"idle", "flip", "terminate"} /\ asked \in BOOLEAN
    /\ timeup \in BOOLEAN /\ drained \in BOOLEAN
    /\ crashes \in 0 .. MaxFaults /\ errors \in 0 .. MaxFaults

Live(p) == pods[p] \in {"Pending", "Running"}

\* A call that may fail: it works, or it fails and counts as an error.
Works == errors' = errors
Fails == Unreliable /\ crashes + errors < MaxFaults /\ errors' = errors + 1

-----------------------------------------------------------------------------
(* The daemon: K8sRunBackend::launch, terminate_run, check_run_health.     *)

Created == [NoRun EXCEPT !.there = TRUE]

\* The first create of the Run. The answer may be lost after the server has
\* acted on it, and every attempt may fail.
launch ==
    /\ daemon = "launching"
    /\ \/ cr' = Created /\ daemon' = "active" /\ Works
       \/ cr' = Created /\ daemon' = "retrying" /\ Fails
       \/ cr' = cr /\ daemon' = "failing" /\ Fails
    /\ UNCHANGED <<storage, kubelet, exec, cache, op, user, asked, clock, crashes>>

\* retry_transient: the second create answers 409, which is not transient.
launch_retry ==
    /\ daemon = "retrying"
    /\ daemon' = "failing"
    /\ UNCHANGED <<storage, cr, kubelet, exec, cache, op, user, asked, clock, faults>>

fail_unlaunched_run ==
    /\ daemon = "failing"
    /\ daemon' = "released"
    /\ row' = IF row \in Ended THEN row ELSE "Failure"
    /\ UNCHANGED <<outcome, flag, good, done, cr, kubelet, exec, cache, op, user, asked, clock,
                   faults>>

\* health_check_active_runs: a terminal Run is forgotten, a missing one with
\* no outcome is marked Canceled.
health_check ==
    /\ daemon = "active"
    /\ \/ cr.there /\ cr.phase \in Terminal /\ row' = row
       \/ ~cr.there /\ row' = IF outcome = "none" THEN "Canceled" ELSE row
    /\ daemon' = "released"
    /\ UNCHANGED <<outcome, flag, good, done, cr, kubelet, exec, cache, op, user, asked, clock,
                   faults>>

\* kubectl annotate run ... rivers.io/cancel-requested=true
annotate ==
    /\ "annotate" \in Cancels /\ ~asked /\ cr.there
    /\ asked' = TRUE
    /\ cr' = [cr EXCEPT !.cancel = TRUE]
    /\ UNCHANGED <<storage, kubelet, exec, cache, op, daemon, user, clock, faults>>

\* kubectl delete run: with a finalizer the Run stays until it is removed.
delete_run ==
    /\ "delete" \in Cancels /\ ~asked /\ cr.there
    /\ asked' = TRUE
    /\ cr' = IF cr.finalizer THEN [cr EXCEPT !.deleting = TRUE] ELSE NoRun
    /\ UNCHANGED <<storage, kubelet, exec, cache, op, daemon, user, clock, faults>>

\* cancel_run: the flag first, then cancel_queued_run, then terminate_run.
cancel_run ==
    /\ "cancel_run" \in Cancels /\ ~asked
    /\ asked' = TRUE
    /\ flag' = TRUE /\ user' = "flip"
    /\ UNCHANGED <<row, outcome, good, done, cr, kubelet, exec, cache, op, daemon, clock,
                   faults>>

cancel_queued_run ==
    /\ user = "flip"
    /\ row' = IF row = "NotStarted" THEN "Canceled" ELSE row
    /\ user' = IF row' = "Canceled" THEN "idle" ELSE "terminate"
    /\ UNCHANGED <<outcome, flag, good, done, cr, kubelet, exec, cache, op, daemon, asked, clock,
                   faults>>

terminate_run ==
    /\ user = "terminate"
    /\ cr' = IF cr.there THEN [cr EXCEPT !.cancel = TRUE] ELSE cr
    /\ user' = "idle"
    /\ UNCHANGED <<storage, kubelet, exec, cache, op, daemon, asked, clock, faults>>

-----------------------------------------------------------------------------
(* The executor in a pod: `rivers execute`, run_plan and execute_plan.     *)

pod_starts(p) ==
    /\ pods[p] = "Pending" /\ p \notin killed
    /\ pods' = [pods EXCEPT ![p] = "Running"]
    /\ stage' = [stage EXCEPT ![p] = "boot"]
    /\ UNCHANGED <<storage, cr, killed, result, cache, op, others, clock, faults>>

ExecTo(p, where) == stage' = [stage EXCEPT ![p] = where]
ExecAt(p, where) == pods[p] = "Running" /\ stage[p] = where

\* try_start_run: any status but Canceled becomes Started. A refused run
\* returns Canceled, which is no success, to the command.
try_start_run(p) ==
    /\ ExecAt(p, "boot")
    /\ \/ row # "Canceled" /\ row' = "Started" /\ ExecTo(p, "level") /\ result' = result
       \/ row = "Canceled" /\ row' = row /\ ExecTo(p, "report")
          /\ result' = [result EXCEPT ![p] = "Canceled"]
    /\ UNCHANGED <<outcome, flag, good, done, cr, kubelet, cache, op, others, clock, faults>>

\* The top of a level: a set flag ends the run, and so does the last level.
execute_level(p) ==
    /\ ExecAt(p, "level")
    /\ \/ ~flag /\ good < Steps /\ ExecTo(p, "step") /\ result' = result
       \/ (flag \/ good = Steps) /\ ExecTo(p, "finalize")
          /\ result' = [result EXCEPT ![p] = "Success"]
    /\ UNCHANGED <<storage, cr, kubelet, cache, op, others, clock, faults>>

\* A step succeeds, or fails and with it the run. A resumed run does not
\* repeat the steps that succeeded.
execute_step(p) ==
    /\ ExecAt(p, "step")
    /\ good < Steps
    /\ done' = IF done = good THEN good + 1 ELSE done
    /\ \/ good' = good + 1 /\ ExecTo(p, "level") /\ result' = result
       \/ good' = good /\ ExecTo(p, "finalize")
          /\ result' = [result EXCEPT ![p] = "Failure"]
    /\ UNCHANGED <<row, outcome, flag, cr, kubelet, cache, op, others, clock, faults>>

\* finalize_status reads the flag ...
finalize_status(p) ==
    /\ ExecAt(p, "finalize")
    /\ result' = [result EXCEPT ![p] = IF flag THEN "Canceled" ELSE @]
    /\ ExecTo(p, "write")
    /\ UNCHANGED <<storage, cr, kubelet, cache, op, others, clock, faults>>

\* ... and writes the status.
finalize_write(p) ==
    /\ ExecAt(p, "write")
    /\ row' = result[p]
    /\ ExecTo(p, "report")
    /\ UNCHANGED <<outcome, flag, good, done, cr, kubelet, result, cache, op, others, clock,
                   faults>>

\* `rivers execute` reads the flag once more ...
report(p) ==
    /\ ExecAt(p, "report")
    /\ result' = [result EXCEPT ![p] = CASE flag             -> "Cancelled"
                                         [] ~flag /\ @ = "Success" -> "Success"
                                         [] OTHER            -> "Failure"]
    /\ ExecTo(p, "record")
    /\ UNCHANGED <<storage, cr, kubelet, cache, op, others, clock, faults>>

\* ... and records the outcome.
set_run_outcome(p) ==
    /\ ExecAt(p, "record")
    /\ outcome' = result[p]
    /\ ExecTo(p, "exit")
    /\ UNCHANGED <<row, flag, good, done, cr, kubelet, result, cache, op, others, clock, faults>>

\* The container is over: a pod that is being deleted goes with it.
PodEnds(p, phase) ==
    /\ pods' = [pods EXCEPT ![p] = IF p \in killed THEN "none" ELSE phase]
    /\ killed' = killed \ {p}
    /\ ExecTo(p, "none")
    /\ result' = [result EXCEPT ![p] = "none"]

\* A run that completed exits with 0, whatever its outcome.
pod_succeeds(p) ==
    /\ ExecAt(p, "exit")
    /\ PodEnds(p, "Succeeded")
    /\ UNCHANGED <<storage, cr, cache, op, others, clock, faults>>

\* The job of the image has another verb: an outcome, and exit 1.
verb_mismatch(p) ==
    /\ ExecAt(p, "boot")
    /\ outcome' = "Failure"
    /\ PodEnds(p, "Failed")
    /\ UNCHANGED <<row, flag, good, done, cr, cache, op, others, clock, faults>>

\* A pod crashes or is evicted, or its deletion takes effect. A finished pod
\* stays until somebody deletes it.
pod_dies(p) ==
    /\ Live(p)
    /\ PodEnds(p, "Failed") \/ PodEnds(p, "none")
    /\ UNCHANGED <<storage, cr, cache, op, others, clock, faults>>

\* The garbage collector: pods whose owner, the Run, is gone are deleted.
collect_pods ==
    /\ ~cr.there /\ daemon # "launching"
    /\ \E p \in Pods : pods[p] # "none" /\ p \notin killed
    /\ killed' = {p \in Pods : Live(p)}
    /\ pods' = [p \in Pods |-> IF Live(p) THEN pods[p] ELSE "none"]
    /\ UNCHANGED <<storage, cr, exec, cache, op, others, clock, faults>>

timeout_passes ==
    /\ Timed /\ ~timeup /\ cr.phase # "none"
    /\ timeup' = TRUE
    /\ UNCHANGED <<storage, cr, kubelet, exec, cache, op, others, drained, faults>>

grace_passes ==
    /\ ~drained /\ cr.phase = "Cancelling"
    /\ drained' = TRUE
    /\ UNCHANGED <<storage, cr, kubelet, exec, cache, op, others, timeup, faults>>

-----------------------------------------------------------------------------
(* The operator.                                                           *)

\* The watch delivers the current version of the Run.
observe(r) ==
    /\ cache[r] # cr
    /\ cache' = [cache EXCEPT ![r] = cr]
    /\ UNCHANGED <<storage, cr, kubelet, exec, op, others, clock, faults>>

\* A reconcile of r begins at phases P; R is the Run of its cache.
Begins(r, P) ==
    /\ pc[r] = "idle" /\ cache[r].there /\ ~cache[r].deleting /\ cache[r].finalizer
    /\ cache[r].phase \in P
Sees(r) == seen' = [seen EXCEPT ![r] = cache[r]]
Goes(r, where) == pc' = [pc EXCEPT ![r] = where]
Finishes(r) ==
    /\ Goes(r, "idle")
    /\ seen' = [seen EXCEPT ![r] = NoRun] /\ draft' = [draft EXCEPT ![r] = NoRun]
Drafts(r, status) == draft' = [draft EXCEPT ![r] = status]

\* pods_api.create: 409 is taken for success.
create_pod(p) ==
    /\ pods' = [pods EXCEPT ![p] = IF @ = "none" THEN "Pending" ELSE @]
    /\ UNCHANGED <<killed, exec>>

\* delete_pod_if_exists: a finished pod goes at once, a live one gets a
\* deletion timestamp and goes in pod_dies.
delete_pod(p) ==
    IF p \in Pods /\ pods[p] # "none"
    THEN IF Live(p) THEN killed' = killed \cup {p} /\ pods' = pods
                    ELSE pods' = [pods EXCEPT ![p] = "none"] /\ killed' = killed
    ELSE UNCHANGED kubelet

\* patch_status: a merge patch by name, with no resource version. What is
\* absent is not serialized.
patch_status(d) ==
    cr' = IF ~cr.there THEN cr
          ELSE [cr EXCEPT !.phase = d.phase, !.restarts = d.restarts, !.total = d.total,
                          !.pod = IF d.pod = Absent THEN @ ELSE d.pod,
                          !.completed = IF d.completed = Absent THEN @ ELSE d.completed]

PhaseOf(o) == CASE o = "Success"   -> "Succeeded"
                [] o = "Failure"   -> "Failed"
                [] o = "Cancelled" -> "Cancelled"

\* apply_outcome_to_status: the phase of the outcome; its counts, which are
\* shown and never read again, are left out.
apply_outcome_to_status(r, run) == Drafts(r, [run EXCEPT !.phase = PhaseOf(outcome)])

\* get_run_progress into the draft; a count that cannot be read is not there.
reads_progress(r, run) ==
    \/ Works /\ Drafts(r, [run EXCEPT !.completed = done])
    \/ Fails /\ Drafts(r, run)

add_finalizer(r) ==
    /\ pc[r] = "idle" /\ cache[r].there /\ ~cache[r].deleting /\ ~cache[r].finalizer
    /\ ~cr.finalizer
    /\ cr' = IF cr.there /\ ~cr.deleting THEN [cr EXCEPT !.finalizer = TRUE] ELSE cr
    /\ UNCHANGED <<storage, kubelet, exec, cache, op, others, clock, faults>>

reconcile_init(r) ==
    /\ Begins(r, {"none"})
    /\ patch_status([cache[r] EXCEPT !.phase = "Pending"])
    /\ UNCHANGED <<storage, kubelet, exec, cache, op, others, clock, faults>>

reconcile_pending(r) ==
    /\ Begins(r, {"Pending"})
    /\ Sees(r)
    /\ create_pod(0)
    /\ Drafts(r, [cache[r] EXCEPT !.phase = "Running", !.pod = 0])
    /\ Goes(r, "patch")
    /\ UNCHANGED <<storage, cr, cache, others, clock, faults>>

\* request_cancellation; a failure is only logged.
request_cancellation ==
    \/ flag' = TRUE /\ Works
    \/ flag' = flag /\ Fails

start_cancelling(r) ==
    /\ Begins(r, {"Running"}) /\ cache[r].cancel
    /\ Sees(r)
    /\ request_cancellation
    /\ Drafts(r, [cache[r] EXCEPT !.phase = "Cancelling"])
    /\ Goes(r, "patch")
    /\ UNCHANGED <<row, outcome, good, done, cr, kubelet, exec, cache, others, clock, crashes>>

transition_to_timed_out_Unflagged(r) ==
    /\ Begins(r, {"Running"}) /\ ~cache[r].cancel /\ timeup
    /\ Sees(r)
    /\ Drafts(r, [cache[r] EXCEPT !.phase = "TimedOut"])
    /\ Goes(r, "timeout")
    /\ UNCHANGED <<storage, cr, kubelet, exec, cache, others, clock, faults>>

transition_to_timed_out(r) ==
    /\ Begins(r, {"Running"}) /\ ~cache[r].cancel /\ timeup
    /\ Sees(r)
    /\ request_cancellation
    /\ Drafts(r, [cache[r] EXCEPT !.phase = "TimedOut"])
    /\ Goes(r, "timeout")
    /\ UNCHANGED <<row, outcome, good, done, cr, kubelet, exec, cache, others, clock, crashes>>

timed_out_delete(r) ==
    /\ pc[r] = "timeout"
    /\ delete_pod(seen[r].pod)
    /\ reads_progress(r, draft[r])
    /\ Goes(r, "patch_sync")
    /\ UNCHANGED <<storage, cr, exec, cache, seen, others, clock, crashes>>

\* The pod of a Running run: status.executor_pod, or pod 0.
PodOf(run) == IF run.pod = Absent THEN 0 ELSE run.pod

reconcile_running_Hasty(r) ==
    /\ Begins(r, {"Running"}) /\ ~cache[r].cancel /\ ~timeup
    /\ Sees(r)
    /\ LET p == PodOf(cache[r]) IN
         /\ Goes(r, CASE pods[p] = "Succeeded"          -> "outcome"
                      [] pods[p] \in {"Failed", "none", "Pending"} -> "failure"
                      [] pods[p] = "Running"            -> "progress")
    /\ UNCHANGED <<storage, cr, kubelet, exec, cache, draft, others, clock, faults>>

\* reconcile_running asks for the pod.
reconcile_running(r) ==
    /\ Begins(r, {"Running"}) /\ ~cache[r].cancel /\ ~timeup
    /\ Sees(r)
    /\ LET p == PodOf(cache[r]) IN
         /\ pods[p] # "Pending"
         /\ Goes(r, CASE pods[p] = "Succeeded"          -> "outcome"
                      [] pods[p] \in {"Failed", "none"} -> "failure"
                      [] pods[p] = "Running"            -> "progress")
    /\ UNCHANGED <<storage, cr, kubelet, exec, cache, draft, others, clock, faults>>

succeeded_outcome_ByPhase(r) ==
    /\ pc[r] = "outcome"
    /\ \/ outcome # "none" /\ Works
          /\ Drafts(r, [seen[r] EXCEPT !.phase = "Succeeded"]) /\ Goes(r, "patch")
       \/ ((outcome = "none" /\ Works) \/ Fails)
          /\ Drafts(r, [seen[r] EXCEPT !.phase = "Succeeded"]) /\ Goes(r, "patch_sync")
    /\ UNCHANGED <<storage, cr, kubelet, exec, cache, seen, others, clock, crashes>>

\* The pod succeeded: the outcome the executor recorded, and Succeeded when
\* there is none or it cannot be read.
succeeded_outcome(r) ==
    /\ pc[r] = "outcome"
    /\ \/ outcome # "none" /\ Works
          /\ apply_outcome_to_status(r, seen[r]) /\ Goes(r, "patch")
       \/ ((outcome = "none" /\ Works) \/ Fails)
          /\ Drafts(r, [seen[r] EXCEPT !.phase = "Succeeded"]) /\ Goes(r, "patch_sync")
    /\ UNCHANGED <<storage, cr, kubelet, exec, cache, seen, others, clock, crashes>>

\* A patch when the count has changed, or a step has started since; none
\* when the count cannot be read.
update_progress(r) ==
    /\ pc[r] = "progress"
    /\ \/ Works /\ Drafts(r, [seen[r] EXCEPT !.completed = done]) /\ Goes(r, "patch")
          /\ seen' = seen
       \/ Works /\ done = seen[r].completed /\ Finishes(r)
       \/ Fails /\ Finishes(r)
    /\ UNCHANGED <<storage, cr, kubelet, exec, cache, others, clock, crashes>>

\* handle_executor_failure: a stored outcome is honored ...
handle_executor_failure(r) ==
    /\ pc[r] = "failure"
    /\ \/ outcome # "none" /\ Works
          /\ apply_outcome_to_status(r, seen[r]) /\ Goes(r, "patch_sync")
       \/ ((outcome = "none" /\ Works) \/ Fails) /\ Goes(r, "budget") /\ draft' = draft
    /\ UNCHANGED <<storage, cr, kubelet, exec, cache, seen, others, clock, crashes>>

Completed(run) == IF run.completed = Absent THEN 0 ELSE run.completed

Restarted_Unbounded(run, completed, read) ==
    [run EXCEPT !.total = @ + 1,
                !.restarts = IF completed >= Completed(run) THEN 0 ELSE @ + 1,
                !.completed = IF read THEN completed ELSE @]

\* ... else the progress since the last known count decides on the budget.
\* A count that cannot be read is no progress.
Restarted(run, completed, read) ==
    [run EXCEPT !.total = @ + 1,
                !.restarts = IF completed > Completed(run) THEN 0 ELSE @ + 1,
                !.completed = IF read THEN completed ELSE @]

restart_budget(r) ==
    /\ pc[r] = "budget"
    /\ \/ Works /\ Drafts(r, Restarted(seen[r], done, TRUE))
       \/ Fails /\ Drafts(r, Restarted(seen[r], 0, FALSE))
    /\ Goes(r, IF draft'[r].restarts > MaxRestarts THEN "exhausted" ELSE "delete_old")
    /\ UNCHANGED <<storage, cr, kubelet, exec, cache, seen, others, clock, crashes>>

budget_exhausted(r) ==
    /\ pc[r] = "exhausted"
    /\ \/ outcome # "none" /\ Works
          /\ apply_outcome_to_status(r, draft[r])
       \/ ((outcome = "none" /\ Works) \/ Fails)
          /\ Drafts(r, [draft[r] EXCEPT !.phase = "Failed"])
    /\ Goes(r, "patch_sync")
    /\ UNCHANGED <<storage, cr, kubelet, exec, cache, seen, others, clock, crashes>>

\* A delete that fails is ignored.
restart_delete(r) ==
    /\ pc[r] = "delete_old"
    /\ \/ Works /\ delete_pod(seen[r].pod)
       \/ Fails /\ UNCHANGED kubelet
    /\ Goes(r, "create")
    /\ UNCHANGED <<storage, cr, exec, cache, seen, draft, others, clock, crashes>>

restart_create(r) ==
    /\ pc[r] = "create"
    /\ create_pod(draft[r].total)
    /\ Drafts(r, [draft[r] EXCEPT !.pod = draft[r].total])
    /\ Goes(r, "patch")
    /\ UNCHANGED <<storage, cr, cache, seen, others, clock, faults>>

reconcile_cancelling_Patient(r) ==
    /\ Begins(r, {"Cancelling"})
    /\ Sees(r)
    /\ LET p == cache[r].pod IN
         (p = Absent \/ ~Live(p)) /\ Goes(r, "finalize")
    /\ UNCHANGED <<storage, cr, kubelet, exec, cache, draft, others, clock, faults>>

\* reconcile_cancelling: the run is over once its pod is, or the grace period.
reconcile_cancelling(r) ==
    /\ Begins(r, {"Cancelling"})
    /\ Sees(r)
    /\ LET p == cache[r].pod IN
         \/ (p = Absent \/ ~Live(p)) /\ Goes(r, "finalize")
         \/ p # Absent /\ Live(p) /\ drained /\ Goes(r, "kill")
    /\ UNCHANGED <<storage, cr, kubelet, exec, cache, draft, others, clock, faults>>

cancelling_kill(r) ==
    /\ pc[r] = "kill"
    /\ delete_pod(seen[r].pod)
    /\ Goes(r, "finalize")
    /\ UNCHANGED <<storage, cr, exec, cache, seen, draft, others, clock, faults>>

finalize_cancelled(r) ==
    /\ pc[r] = "finalize"
    /\ reads_progress(r, [seen[r] EXCEPT !.phase = "Cancelled"])
    /\ Goes(r, "patch_sync")
    /\ UNCHANGED <<storage, cr, kubelet, exec, cache, seen, others, clock, crashes>>

\* The patch of a reconcile.
patch(r) ==
    /\ pc[r] \in {"patch", "patch_sync"}
    /\ patch_status(draft[r])
    /\ IF pc[r] = "patch_sync" /\ cr.there THEN Goes(r, "sync") /\ UNCHANGED <<seen, draft>>
                                           ELSE Finishes(r)
    /\ UNCHANGED <<storage, kubelet, exec, cache, others, clock, faults>>

StatusOf(phase) == CASE phase = "Succeeded"            -> "Success"
                     [] phase \in {"Failed", "TimedOut"} -> "Failure"
                     [] phase = "Cancelled"            -> "Canceled"

\* sync_run_status_to_storage; a failure is only logged.
sync_run_status_to_storage(r) ==
    /\ pc[r] = "sync"
    /\ \/ row' = StatusOf(draft[r].phase) /\ Works
       \/ row' = row /\ Fails
    /\ Finishes(r)
    /\ UNCHANGED <<outcome, flag, good, done, cr, kubelet, exec, cache, others, clock,
                   crashes>>

\* handle_deletion: a run that has not ended is canceled ...
handle_deletion(r) ==
    /\ pc[r] = "idle" /\ cache[r].there /\ cache[r].deleting /\ cache[r].finalizer
    /\ Sees(r)
    /\ IF cache[r].phase \in Terminal \cup {"none"}
       THEN Goes(r, "del_pod") /\ flag' = flag /\ Works
       ELSE Goes(r, "del_sync") /\ request_cancellation
    /\ UNCHANGED <<row, outcome, good, done, cr, kubelet, exec, cache, draft, others, clock,
                   crashes>>

deletion_sync(r) ==
    /\ pc[r] = "del_sync"
    /\ \/ row' = "Canceled" /\ Works
       \/ row' = row /\ Fails
    /\ Goes(r, "del_pod")
    /\ UNCHANGED <<outcome, flag, good, done, cr, kubelet, exec, cache, seen, draft, others, clock,
                   crashes>>

\* ... its pod deleted ...
deletion_pod(r) ==
    /\ pc[r] = "del_pod"
    /\ delete_pod(seen[r].pod)
    /\ Goes(r, "del_final")
    /\ UNCHANGED <<storage, cr, exec, cache, seen, draft, others, clock, faults>>

\* ... and the finalizer removed, with which the Run is gone.
remove_finalizer(r) ==
    /\ pc[r] = "del_final"
    /\ cr' = NoRun
    /\ Finishes(r)
    /\ UNCHANGED <<storage, kubelet, exec, cache, others, clock, faults>>

\* A call that changes a pod or the Run fails, which ends the reconcile:
\* error_policy requeues it. (One whose answer is lost is a crash after it.)
api_error(r) ==
    /\ pc[r] \in {"patch", "patch_sync", "create", "timeout", "kill", "del_pod", "del_final"}
    /\ Fails
    /\ Finishes(r)
    /\ UNCHANGED <<storage, cr, kubelet, exec, cache, others, clock, crashes>>

\* A replica restarts anywhere in a reconcile and lists the Runs anew.
crash(r) ==
    /\ crashes + errors < MaxFaults /\ crashes' = crashes + 1
    /\ pc[r] # "idle"
    /\ Finishes(r)
    /\ cache' = [cache EXCEPT ![r] = cr]
    /\ UNCHANGED <<storage, cr, kubelet, exec, others, clock, errors>>

-----------------------------------------------------------------------------

Init ==
    /\ row = "NotStarted" /\ outcome = "none" /\ flag = FALSE /\ good = 0 /\ done = 0
    /\ cr = NoRun
    /\ pods = [p \in Pods |-> "none"] /\ killed = {}
    /\ stage = [p \in Pods |-> "none"] /\ result = [p \in Pods |-> "none"]
    /\ cache = [r \in Replicas |-> NoRun] /\ pc = [r \in Replicas |-> "idle"]
    /\ seen = [r \in Replicas |-> NoRun] /\ draft = [r \in Replicas |-> NoRun]
    /\ daemon = "launching" /\ user = "idle" /\ asked = FALSE
    /\ timeup = FALSE /\ drained = FALSE
    /\ crashes = 0 /\ errors = 0

Daemon == launch \/ launch_retry \/ fail_unlaunched_run \/ health_check
User == annotate \/ delete_run \/ cancel_run \/ cancel_queued_run \/ terminate_run
Executor(p) ==
    \/ pod_starts(p) \/ try_start_run(p) \/ execute_level(p) \/ execute_step(p)
    \/ finalize_status(p) \/ finalize_write(p) \/ report(p) \/ set_run_outcome(p)
    \/ pod_succeeds(p) \/ verb_mismatch(p)
Reconcile(r) ==
    \/ add_finalizer(r) \/ reconcile_init(r) \/ reconcile_pending(r) \/ start_cancelling(r)
    \/ transition_to_timed_out(r) \/ timed_out_delete(r) \/ reconcile_running(r)
    \/ succeeded_outcome(r) \/ update_progress(r) \/ handle_executor_failure(r)
    \/ restart_budget(r) \/ budget_exhausted(r) \/ restart_delete(r) \/ restart_create(r)
    \/ reconcile_cancelling(r) \/ cancelling_kill(r) \/ finalize_cancelled(r) \/ patch(r)
    \/ sync_run_status_to_storage(r) \/ handle_deletion(r) \/ deletion_sync(r)
    \/ deletion_pod(r) \/ remove_finalizer(r)

Next ==
    \/ Daemon \/ User \/ collect_pods \/ timeout_passes \/ grace_passes
    \/ \E p \in Pods : Executor(p) \/ pod_dies(p)
    \/ \E r \in Replicas : observe(r) \/ Reconcile(r) \/ api_error(r) \/ crash(r)

Spec == Init /\ [][Next]_vars

\* The watch delivers, the controller requeues every Run it has not given up
\* (Action::requeue and error_policy), and the grace period passes. Nothing is
\* assumed of the executors, whose steps may hang, nor of pods that are told
\* to stop.
Fairness ==
    /\ WF_vars(grace_passes)
    /\ \A r \in Replicas : WF_vars(observe(r)) /\ WF_vars(Reconcile(r))

FairSpec == Spec /\ Fairness

-----------------------------------------------------------------------------
(* Properties.                                                             *)

\* A run never has two executors: the pod that replaces a dead one is created
\* only when no other pod of the run is there or on its way, although the
\* operator acts on an old Run, forgets in a crash what it was about to patch
\* and deletes without waiting (reconcile_running, handle_executor_failure).
\* As long as one replica acts on the Run: see README, "Operator replicas".
OneExecutor == Cardinality({p \in Pods : Live(p)}) <= 1

\* A run that is Success in storage or Succeeded in Kubernetes has done all
\* its steps, whoever wrote the status: the executor, or the operator from the
\* recorded outcome or the phase of a pod, in whatever order, as long as no
\* read of the outcome has failed (reconcile_running, apply_outcome_to_status).
SuccessIsReal == errors = 0 => ((row = "Success" \/ cr.phase = "Succeeded") => good = Steps)

\* Once a Run is Cancelled or TimedOut no executor begins a step of it, in a
\* pod that outlives its deletion either: the flag is set before the phase
\* (start_cancelling, transition_to_timed_out: request_cancellation first).
StoppedStartsNothing ==
    [][cr.phase \in {"Cancelled", "TimedOut"} /\ errors = 0 =>
         \A p \in Pods : stage'[p] = "step" => stage[p] = "step"]_vars

\* A Run that is to be cancelled comes to an end, though its executor hangs in
\* a step, its pods die and are restarted and the operator crashes
\* (start_cancelling, reconcile_cancelling with its grace period).
StopEnds == cr.cancel ~> (~cr.there \/ cr.phase \in Terminal)

-----------------------------------------------------------------------------
(* The inductive invariants behind TypeOK, SuccessIsReal and               *)
(* StoppedStartsNothing.                                                   *)

\* The restarts in which n steps have been completed and no more.
Allowance(n) == (MaxRestarts + 1) * n

\* The restarts of a version of the Run are paid for: with the steps it has
\* counted, or out of the budget.
Paid(run) ==
    /\ run.total <= Allowance(Completed(run)) + run.restarts
    /\ run.completed <= done
Within(run) == Paid(run) /\ (run.phase \in Terminal \/ run.restarts <= MaxRestarts)

\* So it is for the version in Kubernetes and for those a replica has cached,
\* has started from and is about to patch.
BudgetInv ==
    /\ Within(cr)
    /\ \A r \in Replicas :
         /\ Within(cache[r]) /\ Within(seen[r]) /\ Paid(draft[r])
         /\ pc[r] # "exhausted" => Within(draft[r])
         /\ pc[r] \in {"failure", "budget"} => seen[r].phase \notin Terminal

\* What is about to be written is a status, an outcome, or a phase a run ends in.
Due ==
    /\ \A p \in Pods : /\ stage[p] \in {"finalize", "write"} => result[p] \in Ended
                       /\ stage[p] = "record" => result[p] \in {"Success", "Failure", "Cancelled"}
    /\ \A r \in Replicas : pc[r] \in {"timeout", "patch_sync", "sync"} => draft[r].phase \in Terminal

\* What a version of the Run says is so: Succeeded when all steps are done, and
\* to be stopped only once the flag tells the executors.
Honest(run) ==
    /\ run.phase = "Succeeded" => good = Steps
    /\ run.phase \in {"Cancelling", "Cancelled", "TimedOut"} => flag

\* Again for every version there is.
HonestReplica(r) ==
    /\ Honest(cache[r]) /\ Honest(seen[r]) /\ Honest(draft[r])
    /\ pc[r] \in {"kill", "finalize"} => flag
    /\ pc[r] = "outcome" => outcome # "none"

\* An executor is about to write a success only when all steps are done, unless
\* it has still to read the flag that stopped it.
HonestExecutor(p) ==
    /\ result[p] = "Success" => good = Steps \/ (flag /\ stage[p] = "finalize")
    /\ result[p] = "Cancelled" => flag
    /\ pods[p] # "Running" => result[p] = "none"
    /\ stage[p] = "exit" \/ pods[p] = "Succeeded" => outcome # "none"

HonestStorage ==
    /\ row = "Success" \/ outcome = "Success" => good = Steps
    /\ outcome = "Cancelled" => flag

\* As long as no call has failed, no stale cache, crash or late executor makes
\* a status that is not so.
HonestInv ==
    /\ Due
    /\ errors = 0 => /\ HonestStorage /\ Honest(cr)
                     /\ \A p \in Pods : HonestExecutor(p)
                     /\ \A r \in Replicas : HonestReplica(r)

-----------------------------------------------------------------------------
(* The inductive invariant behind OneExecutor, while one replica acts.     *)

Early == {"none", "Pending"}

\* The pods a reconcile that starts from this version may meet: none, then pod
\* 0, then the pod of the version or the one that is to replace it, never both.
Fits(run) == run.there =>
    /\ run.phase = "none" => \A p \in Pods : pods[p] = "none"
    /\ run.phase \in Early => run.total = 0 /\ \A p \in Pods : p > 0 => pods[p] = "none"
    /\ run.phase = "Running" =>
          /\ run.pod = run.total
          /\ \A p \in Pods : /\ p < run.total => ~Live(p)
                             /\ p > run.total + 1 => pods[p] = "none"
                             /\ p = run.total + 1 /\ Live(run.total) => pods[p] = "none"

\* A later version is ahead of an earlier one by at most one executor: the replica
\* takes no step from a version it has not seen.
Follows(new, old) == new.there /\ old.there =>
    /\ old.phase = "none" => new.phase \in Early
    /\ old.phase = "Pending" =>
          new.phase = "Pending" \/ (new.phase = "Running" /\ new.total = 0)
    /\ old.phase \notin Early => new.phase \notin Early
    /\ old.phase = "Running" /\ new.phase = "Running" =>
          new.total = old.total \/ new.total = old.total + 1

\* Where a reconcile stands: what it has found out of its pod still holds.
Knows(r) ==
    /\ pc[r] # "idle" <=> seen[r].there
    /\ pc[r] \notin {"idle", "patch", "del_sync", "del_pod", "del_final"} =>
          seen[r].phase \notin Early
    /\ pc[r] \in {"failure", "budget", "delete_old", "create", "progress"} =>
          seen[r].phase = "Running"
    /\ pc[r] \in {"failure", "budget", "delete_old", "create"} => ~Live(seen[r].total)
    /\ pc[r] \in {"timeout", "exhausted", "delete_old", "create"} => draft[r].there
    /\ pc[r] \in {"delete_old", "create"} =>
          draft[r].phase = "Running" /\ draft[r].total = seen[r].total + 1
    /\ pc[r] = "progress" => Follows(seen[r], cr) /\ Follows(seen[r], cache[r])
    /\ pc[r] \in {"patch", "patch_sync"} =>
          draft[r].there /\ Fits(draft[r]) /\ Follows(draft[r], cr) /\ Follows(draft[r], cache[r])

\* At most one executor is live, wherever replica r stands in a reconcile and
\* however old its cache: what it will create or patch fits the pods there
\* are, so a restart decided twice (handle_executor_failure) makes one executor.
OneActs(r) ==
    /\ \A p, q \in Pods : Live(p) /\ Live(q) => p = q
    /\ daemon = "launching" =>
          /\ ~cr.there /\ \A p \in Pods : pods[p] = "none"
          /\ pc[r] = "idle" /\ ~cache[r].there
    /\ Fits(cr) /\ Fits(cache[r]) /\ Fits(seen[r])
    /\ Follows(cr, cache[r]) /\ Follows(cache[r], seen[r]) /\ Follows(cr, seen[r])
    /\ Knows(r)

\* It is so of the replica, when there is one.  Of several it is so of the one that
\* acts on the Run, as long as the others do not (Alone in ExecutorProofs).
ExecutorInv == \A r \in Replicas : OneActs(r)

-----------------------------------------------------------------------------
(* What the repository says and the code does not do.                      *)

\* restart.rs, handle_executor_failure: "resetting to 0 if storage shows new
\* completed steps since the last restart": a run whose executors completed a
\* step has not used up the budget with its first MaxRestarts + 1 failures.
BudgetResets == (cr.phase = "Failed" /\ outcome = "none" /\ done > 0) => cr.restarts < cr.total

\* rivers-crd/src/crd/run.rs, RunCrdStatus.total_restarts: "Lifetime restart count
\* -- never reset, so every restart pod gets a fresh `-executor-<n>` name".
NeverReset == [][cr.there /\ cr'.there => cr'.total >= cr.total]_vars

=============================================================================
