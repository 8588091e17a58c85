------------------------------ MODULE Backfill ------------------------------
(***************************************************************************)
(* One backfill: a record in storage, the child runs linked to it and the  *)
(* outcome of each partition, worked on by four actors that share nothing  *)
(* but the storage:                                                        *)
(*   - the pickup loop and its execution thread, which queues the children *)
(*     (run queue enabled) or runs them one after the other (disabled);    *)
(*   - the backfill monitor, which settles it or picks it up again;        *)
(*   - a cancel request and its cascade over the children;                 *)
(*   - the children themselves, which RunQueue models in full.             *)
(*                                                                         *)
(* Sources: python/src/repository/{backfill,handle}.rs,                    *)
(* python/src/daemon/subdaemons.rs, rust/rivers-core/src/storage/          *)
(* surrealdb_backend/{backend,run_queue,rows}.rs.                          *)
(*                                                                         *)
(* Every storage call is one action.                                       *)
(***************************************************************************)
EXTENDS Naturals, FiniteSets

CONSTANTS
    Groups,       \* run groups, group_into_runs of the requested partitions
    Members,      \* the partition keys of each group
    MaxCancels,   \* bound: calls of cancel_backfill
    MaxSlow,      \* bound: submissions slower than two ticks of the monitor
    MaxFaults     \* bound: crashes of the daemon process and stretches in which the
                  \* calls of one actor (thread, child, request) fail

ASSUME BackfillAssumption ==
    /\ IsFiniteSet(Groups) /\ Groups # {}
    /\ \A g \in Groups : Members[g] # {}
    /\ \A g, h \in Groups : g # h => Members[g] \cap Members[h] = {}
    /\ MaxCancels \in Nat /\ MaxSlow \in Nat /\ MaxFaults \in Nat

Keys == UNION {Members[g] : g \in Groups}

\* Every execution of the backfill mints new run ids.
MaxAttempts == 1 + MaxSlow + MaxFaults
Attempts == 1 .. MaxAttempts
Children == Groups \X Attempts
KeysOf(c) == Members[c[1]]

VARIABLES
    queued,       \* run_queue_enabled
    policy,       \* BackfillRecord.failure_policy
    bstatus,      \* backfills.status, "none" before create_backfill
    links,        \* backfill_runs
    outcome,      \* backfill_outcomes
    row,          \* runs.status of each child
    step_failed,  \* the keys each child recorded a StepFailure for
    flagged,      \* children with a cancel:<run_id> flag
    phase,        \* where the run queue and the executor stand with a child
    result,       \* the status its own thread ended a child with
    missing,      \* children terminate_run has made the local backend forget
    exec,         \* where the execution thread stands
    attempt,      \* executions begun
    rest,         \* groups the in-process loop has still to run
    current,      \* the group it is at
    stop,         \* its stop flag
    signal,       \* backfill_cancel_flags: "absent", "off" or "on"
    canceled_keys,\* its canceled_keys
    batch,        \* children enqueue_backfill_runs has still to sweep
    settling,     \* try_complete_backfill under way, by caller
    monitor,      \* where the backfill monitor stands
    sighted,      \* stalled_last_tick
    request,      \* where the cancel request stands
    cascade,      \* children it has still to cancel
    target,       \* the child it is canceling
    missed,       \* children the last request has given up before flagging (history)
    cancels, slow, faults

record  == <<bstatus, links, outcome>>
runs    == <<row, step_failed, flagged, phase, result, missing>>
loop    == <<attempt, rest, current, stop, signal, canceled_keys>>
mon     == <<monitor, sighted>>
user    == <<request, cascade, target, missed, cancels>>
config  == <<queued, policy>>
vars    == <<queued, policy, bstatus, links, outcome, row, step_failed, flagged, phase,
             result, missing, exec, attempt, rest, current, stop, signal, canceled_keys,
             batch, settling, monitor, sighted, request, cascade, target, missed,
             cancels, slow, faults>>

Ended    == {"CompletedSuccess", "CompletedFailed", "Canceled"}
Terminal == {"Success", "Failure", "Canceled"}
Outcomes == {"none", "Completed", "Failed", "Canceled"}
Unsettled == [k \in Keys |-> "none"]
Callers  == {"exec", "monitor", "request"}
Settling == [pc : {"idle", "runs", "write"}, links : SUBSET Children,
             old : [Keys -> Outcomes], status : Ended \cup {"none"}, new : [Keys -> Outcomes]]
NotSettling == [pc |-> "idle", links |-> {}, old |-> Unsettled, status |-> "none",
                new |-> Unsettled]

TypeOK ==
    /\ queued \in BOOLEAN /\ policy \in {"Continue", "StopOnFailure"}
    /\ bstatus \in Ended \cup {"none", "Requested", "InProgress"}
    /\ links \in SUBSET Children /\ outcome \in [Keys -> Outcomes]
    /\ row \in [Children -> Terminal \cup {"none", "Queued", "NotStarted", "Started"}]
    /\ step_failed \in [Children -> SUBSET Keys] /\ flagged \in SUBSET Children
    /\ phase \in [Children -> {"none", "picked", "launched", "started",
                               "recording", "over", "dead"}]
    /\ result \in [Children -> Terminal \cup {"none"}] /\ missing \in SUBSET Children
    /\ exec \in {"idle", "picked", "read", "registered", "groups", "linking", "check_link",
                 "linked", "running", "final", "submit", "check", "sweep", "failing"}
    /\ attempt \in 0 .. MaxAttempts
    /\ rest \in SUBSET Groups /\ current \in SUBSET Groups
    /\ stop \in BOOLEAN /\ signal \in {"absent", "off", "on"}
    /\ canceled_keys \in SUBSET Keys
    /\ batch \in SUBSET Children
    /\ settling \in [Callers -> Settling]
    /\ monitor \in {"idle", "settle", "resume"} /\ sighted \in BOOLEAN
    /\ request \in {"idle", "settle", "write", "read", "links", "cascade", "flip"}
    /\ cascade \in SUBSET Children /\ target \in SUBSET Children /\ missed \in SUBSET Children
    /\ cancels \in 0 .. MaxCancels
    /\ slow \in 0 .. MaxSlow /\ faults \in 0 .. MaxFaults

Fault == faults < MaxFaults /\ faults' = faults + 1

-----------------------------------------------------------------------------
(* Storage.                                                                *)

create_backfill ==
    /\ bstatus = "none"
    /\ bstatus' = "Requested"
    /\ UNCHANGED <<config, links, outcome, runs, exec, loop, batch, settling, mon, user,
                   slow, faults>>

\* SettledRunKeys::of, for the rows R: the keys that are completed, failed and
\* canceled.
Completed(R) == UNION {KeysOf(c) \ step_failed[c] : c \in {d \in R : row[d] = "Success"}}
Failed(R)    == (UNION {KeysOf(c) : c \in {d \in R : row[d] = "Failure"}})
                  \cup (UNION {step_failed[c] : c \in {d \in R : row[d] = "Success"}})
Canceled(R)  == UNION {KeysOf(c) : c \in {d \in R : row[d] = "Canceled"}}

\* BackfillOutcomeRow::settled over what is there: Failed over Canceled over
\* Completed.
Settled(old, completed, failed, canceled) ==
    [k \in Keys |-> CASE k \in failed    -> "Failed"
                      [] k \in canceled  -> "Canceled"
                      [] k \in completed -> "Completed"
                      [] OTHER           -> old[k]]

\* record_backfill_run_outcome of child c, for the status its thread has written:
\* the row may have another by now.
record_outcome(c) ==
    outcome' = CASE result[c] = "Success" ->
                       Settled(outcome, KeysOf(c) \ step_failed[c], step_failed[c], {})
                 [] result[c] = "Failure" -> Settled(outcome, {}, KeysOf(c), {})
                 [] OTHER                 -> Settled(outcome, {}, {}, KeysOf(c))

\* update_backfill_progress(.., failed = group, ..)
fail_group(g) == outcome' = Settled(outcome, {}, Members[g], {})

-----------------------------------------------------------------------------
(* try_complete_backfill, called by the execution thread, the monitor and  *)
(* the cancel request: the record is read, the rows are read, the record   *)
(* is written, whatever its status is by then.                             *)

SettleTo(a, r) == settling' = [settling EXCEPT ![a] = r] /\ UNCHANGED <<exec, monitor, request>>

\* What the caller does next, given the status that was written, or "none".
SettleReturns(a, status) ==
    /\ settling' = [settling EXCEPT ![a] = NotSettling]
    /\ exec' = IF a = "exec" THEN "final" ELSE exec
    /\ monitor' = IF a = "monitor" THEN "idle" ELSE monitor
    /\ request' = IF a # "request" THEN request
                  ELSE CASE status = "none"     -> "write"
                         [] status = "Canceled" -> "links"
                         [] OTHER               -> "idle"

\* Of the outcomes there are, those of a success are never looked at.
NotCompleted == [k \in Keys |-> IF outcome[k] = "Completed" THEN "none" ELSE outcome[k]]

settle_read(a) ==
    IF bstatus = "InProgress"
    THEN SettleTo(a, [NotSettling EXCEPT !.pc = "runs", !.links = links, !.old = NotCompleted])
    ELSE SettleReturns(a, "none")

\* Keys settled without a run that exists.
WithoutRun(old, o, ran, extra) == {k \in Keys : old[k] = o} \ (ran \cup extra)

DerivedStatus(failed, canceled) ==
    IF failed # {} THEN "CompletedFailed"
    ELSE IF canceled # {} THEN "Canceled" ELSE "CompletedSuccess"

\* Here and below, a definition X_Y just before X is X with a plausible bug,
\* used only to show that the properties notice it.
settle_runs_Unaccounted(a) ==
    /\ settling[a].pc = "runs"
    /\ LET s        == settling[a]
           R        == {c \in s.links : row[c] # "none"}
           ran      == UNION {KeysOf(c) : c \in R}
           extra    == IF a = "exec" THEN canceled_keys ELSE {}
           failed   == Failed(R) \cup WithoutRun(s.old, "Failed", ran, extra)
           canceled == Canceled(R) \cup extra \cup WithoutRun(s.old, "Canceled", ran, extra)
       IN IF (\A c \in R : row[c] \in Terminal) /\ R \cup extra # {}
          THEN SettleTo(a, [NotSettling EXCEPT !.pc = "write",
                               !.status = DerivedStatus(failed, canceled),
                               !.new = Settled(Unsettled, Completed(R), failed, canceled)])
          ELSE SettleReturns(a, "none")
    /\ UNCHANGED <<config, record, runs, loop, batch, sighted, cascade, target, missed, cancels,
                   slow, faults>>

settle_runs(a) ==
    /\ settling[a].pc = "runs"
    /\ LET s        == settling[a]
           R        == {c \in s.links : row[c] # "none"}
           ran      == UNION {KeysOf(c) : c \in R}
           extra    == IF a = "exec" THEN canceled_keys ELSE {}
           failed   == Failed(R) \cup WithoutRun(s.old, "Failed", ran, extra)
           canceled == Canceled(R) \cup extra \cup WithoutRun(s.old, "Canceled", ran, extra)
       IN IF /\ \A c \in R : row[c] \in Terminal
             /\ R \cup extra # {}
             /\ Keys \subseteq ran \cup failed \cup canceled
          THEN SettleTo(a, [NotSettling EXCEPT !.pc = "write",
                               !.status = DerivedStatus(failed, canceled),
                               !.new = Settled(Unsettled, Completed(R), failed, canceled)])
          ELSE SettleReturns(a, "none")
    /\ UNCHANGED <<config, record, runs, loop, batch, sighted, cascade, target, missed, cancels,
                   slow, faults>>

settle_write(a) ==
    /\ settling[a].pc = "write"
    /\ bstatus' = settling[a].status /\ outcome' = settling[a].new
    /\ SettleReturns(a, settling[a].status)
    /\ UNCHANGED <<config, links, runs, loop, batch, sighted, cascade, target, missed, cancels,
                   slow, faults>>

-----------------------------------------------------------------------------
(* The pickup loop and its execution thread.                               *)

ExecTo(label) == exec' = label

\* spawn_backfill_pickup_loop: one thread at a time (in_flight).
pickup ==
    /\ exec = "idle" /\ bstatus = "Requested" /\ attempt < MaxAttempts
    /\ ExecTo("picked")
    /\ UNCHANGED <<config, record, runs, loop, batch, settling, mon, user, slow, faults>>

\* execute_backfill_{with,queued_inner}: the record is read; it is failed when
\* the job's verb has changed (fail_backfill_if_job_verb_changed).
exec_read ==
    /\ exec = "picked"
    /\ IF bstatus # "Requested"
       THEN ExecTo("idle")
       ELSE ExecTo("read") \/ ExecTo("failing")
    /\ UNCHANGED <<config, record, runs, loop, batch, settling, mon, user, slow, faults>>

\* In-process: the cancel flag is put into backfill_cancel_flags.
exec_register ==
    /\ exec = "read" /\ ~ queued
    /\ signal' = "off" /\ ExecTo("registered")
    /\ UNCHANGED <<config, record, runs, attempt, rest, current, stop, canceled_keys, batch,
                   settling, mon, user, slow, faults>>

\* update_backfill_status(InProgress), whatever the status is by now; if it
\* fails, the thread ends.
exec_flip ==
    /\ exec = IF queued THEN "read" ELSE "registered"
    /\ \/ /\ bstatus' = "InProgress"
          /\ attempt' = attempt + 1
          /\ rest' = Groups /\ stop' = FALSE /\ canceled_keys' = {}
          /\ ExecTo(IF queued THEN "submit" ELSE "groups")
          /\ UNCHANGED faults
       \/ /\ Fault
          /\ ExecTo("idle")
          /\ UNCHANGED <<bstatus, attempt, rest, stop, canceled_keys>>
    /\ UNCHANGED <<config, links, outcome, runs, current, signal, batch, settling, mon, user,
                   slow>>

-----------------------------------------------------------------------------
(* Run queue enabled: enqueue_backfill_runs.                               *)

enqueue_backfill_runs_LinksLater ==
    /\ exec = "submit"
    /\ \/ /\ row' = [c \in Children |-> IF c[2] = attempt THEN "Queued" ELSE row[c]]
          /\ ExecTo("check")
          /\ UNCHANGED <<links, faults>>
       \/ /\ Fault
          /\ ExecTo("failing")
          /\ UNCHANGED <<links, row>>
    /\ UNCHANGED <<config, bstatus, outcome, step_failed, flagged, phase, result, missing,
                   loop, batch, settling, mon, user, slow>>

\* One transaction: the rows and their links; or it fails.
enqueue_backfill_runs ==
    /\ exec = "submit"
    /\ \/ /\ row' = [c \in Children |-> IF c[2] = attempt THEN "Queued" ELSE row[c]]
          /\ links' = links \cup (Groups \X {attempt})
          /\ ExecTo("check")
          /\ UNCHANGED faults
       \/ /\ Fault
          /\ ExecTo("failing")
          /\ UNCHANGED <<links, row>>
    /\ UNCHANGED <<config, bstatus, outcome, step_failed, flagged, phase, result, missing,
                   loop, batch, settling, mon, user, slow>>

\* The race repair reads the status again ...
enqueue_check ==
    /\ exec = "check"
    /\ \/ /\ IF bstatus = "InProgress"
             THEN ExecTo("idle") /\ UNCHANGED batch
             ELSE ExecTo("sweep") /\ batch' = Groups \X {attempt}
          /\ UNCHANGED faults
       \/ /\ Fault
          /\ ExecTo("failing") /\ UNCHANGED batch
    /\ UNCHANGED <<config, record, runs, loop, settling, mon, user, slow>>

\* cancel_queued_run of a child: a child not under way leaves the queue.
cancel_queued_run(c) ==
    /\ row' = IF row[c] \in {"Queued", "NotStarted"} THEN [row EXCEPT ![c] = "Canceled"] ELSE row
    /\ outcome' = IF row[c] \in {"Queued", "NotStarted", "Canceled"}
                  THEN Settled(outcome, {}, {}, KeysOf(c)) ELSE outcome

\* The call fails: before it changes the row, or before it records the outcome.
cancel_queued_run_fails(c) ==
    /\ \/ row[c] \in {"Queued", "NotStarted"} /\ row' = [row EXCEPT ![c] = "Canceled"]
       \/ UNCHANGED row
    /\ UNCHANGED outcome

\* ... and sweeps the batch, without a flag, until a cancel fails.
enqueue_sweep(c) ==
    /\ exec = "sweep" /\ c \in batch
    /\ \/ /\ cancel_queued_run(c)
          /\ batch' = batch \ {c}
          /\ ExecTo(IF batch = {c} THEN "idle" ELSE "sweep")
          /\ UNCHANGED faults
       \/ /\ Fault /\ cancel_queued_run_fails(c)
          /\ batch' = {} /\ ExecTo("failing")
    /\ UNCHANGED <<config, bstatus, links, step_failed, flagged, phase, result, missing, loop,
                   settling, mon, user, slow>>

exec_fail_Failed ==
    /\ exec = "failing"
    /\ bstatus' = "Failed"
    /\ ExecTo("idle")
    /\ UNCHANGED <<config, links, outcome, runs, loop, batch, settling, mon, user, slow, faults>>

\* fail_backfill, unless that write fails too.
exec_fail ==
    /\ exec = "failing"
    /\ \/ bstatus' = "CompletedFailed" /\ UNCHANGED faults
       \/ Fault /\ UNCHANGED bstatus
    /\ ExecTo("idle")
    /\ UNCHANGED <<config, links, outcome, runs, loop, batch, settling, mon, user, slow>>

-----------------------------------------------------------------------------
(* Run queue disabled: the loop of execute_backfill_with over the groups.  *)

ChildOf(g) == <<g, attempt>>

\* Canceled or stopped: the group is skipped.
group_skip(g) ==
    /\ exec = "groups" /\ g \in rest
    /\ signal = "on" \/ stop
    /\ rest' = rest \ {g} /\ canceled_keys' = canceled_keys \cup Members[g]
    /\ UNCHANGED <<config, record, runs, exec, attempt, current, stop, signal, batch, settling,
                   mon, user, slow, faults>>

\* link_backfill_run: in a transaction that reads the status first, the run id
\* is linked while the backfill is InProgress, before the run exists; or the
\* call fails and the group is failed, unless that call fails with it.
link_backfill_run(g) ==
    /\ exec = "groups" /\ g \in rest
    /\ signal # "on" /\ ~ stop
    /\ rest' = rest \ {g}
    /\ \/ /\ current' = {g}
          /\ ExecTo(IF bstatus = "InProgress" THEN "linking" ELSE "check_link")
          /\ UNCHANGED <<outcome, faults>>
       \/ /\ Fault
          /\ fail_group(g) \/ UNCHANGED outcome
          /\ UNCHANGED <<current, exec>>
    /\ UNCHANGED <<config, bstatus, links, runs, attempt, stop, signal, canceled_keys, batch,
                   settling, mon, user, slow>>

link_commit(g) ==
    /\ exec = "linking" /\ current = {g}
    /\ links' = links \cup {ChildOf(g)}
    /\ ExecTo("check_link")
    /\ UNCHANGED <<config, bstatus, outcome, runs, loop, batch, settling, mon, user,
                   slow, faults>>

link_check_Trusting(g) ==
    /\ exec = "check_link" /\ current = {g}
    /\ IF ChildOf(g) \in links
       THEN ExecTo("linked") /\ UNCHANGED <<current, signal, canceled_keys>>
       ELSE /\ signal' = "on" /\ canceled_keys' = canceled_keys \cup Members[g]
            /\ current' = {} /\ ExecTo("groups")
    /\ UNCHANGED <<config, record, runs, attempt, rest, stop, batch, settling, mon, user,
                   slow, faults>>

\* The status is read again after the commit; a refused link is a cancel.
link_check(g) ==
    /\ exec = "check_link" /\ current = {g}
    /\ IF bstatus = "InProgress" /\ ChildOf(g) \in links
       THEN ExecTo("linked") /\ UNCHANGED <<current, signal, canceled_keys>>
       ELSE /\ signal' = "on" /\ canceled_keys' = canceled_keys \cup Members[g]
            /\ current' = {} /\ ExecTo("groups")
    /\ UNCHANGED <<config, record, runs, attempt, rest, stop, batch, settling, mon, user,
                   slow, faults>>

\* The child is created Started and run by this thread, or fails before it has a
\* row; for what fails later see run_child_error.
run_child(g) ==
    /\ exec = "linked" /\ current = {g}
    /\ \/ /\ row' = [row EXCEPT ![ChildOf(g)] = "Started"]
          /\ phase' = [phase EXCEPT ![ChildOf(g)] = "started"]
          /\ ExecTo("running")
          /\ UNCHANGED <<outcome, current, stop, faults>>
       \/ /\ \/ fail_group(g) /\ UNCHANGED faults
             \/ Fault /\ UNCHANGED outcome
          /\ stop' = (policy = "StopOnFailure")
          /\ current' = {} /\ ExecTo("groups")
          /\ UNCHANGED <<row, phase>>
    /\ UNCHANGED <<config, bstatus, links, step_failed, flagged, result, missing, attempt, rest,
                   signal, canceled_keys, batch, settling, mon, user, slow>>

\* An error after that (the run's resources, try_start_run, the flag or the status
\* in finalize_status): the group is failed, unless that call fails with it, and
\* the loop goes on.  Nobody writes the row again, which stays Started.
run_child_error(g) ==
    /\ exec = "running" /\ current = {g} /\ phase[ChildOf(g)] = "started"
    /\ Fault
    /\ fail_group(g) \/ UNCHANGED outcome
    /\ phase' = [phase EXCEPT ![ChildOf(g)] = "dead"]
    /\ stop' = (stop \/ policy = "StopOnFailure")
    /\ current' = {} /\ ExecTo("groups")
    /\ UNCHANGED <<config, bstatus, links, row, step_failed, flagged, result, missing, attempt,
                   rest, signal, canceled_keys, batch, settling, mon, user, slow>>

child_done(g) ==
    /\ exec = "running" /\ current = {g} /\ phase[ChildOf(g)] = "over"
    /\ stop' = (stop \/ (policy = "StopOnFailure" /\ row[ChildOf(g)] # "Success"))
    /\ current' = {} /\ ExecTo("groups")
    /\ UNCHANGED <<config, record, runs, attempt, rest, signal, canceled_keys, batch, settling,
                   mon, user, slow, faults>>

\* All groups are through: try_complete_backfill(canceled_keys), its error
\* only logged, ...
exec_settle ==
    /\ exec = "groups" /\ rest = {} /\ settling["exec"].pc = "idle"
    /\ \/ settle_read("exec") /\ UNCHANGED faults
       \/ Fault /\ ExecTo("final") /\ UNCHANGED <<settling, monitor, request>>
    /\ UNCHANGED <<config, record, runs, loop, batch, sighted, cascade, target, missed, cancels,
                   slow>>

\* ... and a cancel that prevented work overrides the derived status, unless
\* that write fails; the loop's variables are gone with it.
exec_final ==
    /\ exec = "final"
    /\ IF signal = "on" /\ canceled_keys # {}
       THEN \/ bstatus' = "Canceled" /\ UNCHANGED faults
            \/ Fault /\ UNCHANGED bstatus
       ELSE UNCHANGED <<bstatus, faults>>
    /\ signal' = "absent" /\ stop' = FALSE /\ canceled_keys' = {} /\ ExecTo("idle")
    /\ UNCHANGED <<config, links, outcome, runs, attempt, rest, current, batch, settling, mon,
                   user, slow>>

-----------------------------------------------------------------------------
(* The children: the run queue's dequeue and the run's thread, reduced to  *)
(* the reads and writes of the row, the flag and the outcomes.             *)

PhaseTo(c, p) == phase' = [phase EXCEPT ![c] = p]

\* The coordinator's tick reads the row, and later writes it, whatever it is
\* by then, and launches the run.
child_picked(c) ==
    /\ row[c] = "Queued" /\ phase[c] = "none"
    /\ PhaseTo(c, "picked")
    /\ UNCHANGED <<config, record, row, step_failed, flagged, result, missing, exec, loop, batch,
                   settling, mon, user, slow, faults>>

child_dequeued(c) ==
    /\ phase[c] = "picked"
    /\ row' = [row EXCEPT ![c] = "NotStarted"] /\ PhaseTo(c, "launched")
    /\ UNCHANGED <<config, record, step_failed, flagged, result, missing, exec, loop, batch,
                   settling, mon, user, slow, faults>>

\* try_start_run
child_started(c) ==
    /\ phase[c] = "launched"
    /\ \/ row[c] = "Canceled" /\ PhaseTo(c, "over") /\ UNCHANGED row
       \/ row[c] # "Canceled" /\ row' = [row EXCEPT ![c] = "Started"] /\ PhaseTo(c, "started")
    /\ UNCHANGED <<config, record, step_failed, flagged, result, missing, exec, loop, batch,
                   settling, mon, user, slow, faults>>

\* finalize_status: Canceled when the flag is set, or the run's own result; a
\* run may succeed with some of its keys failed.  (The probes between the steps
\* bring a flagged run to its end, but leave the row to finalize_status.)  For
\* its errors see run_child_error and child_error.
child_ends(c) ==
    /\ phase[c] = "started"
    /\ \E st \in Terminal, F \in SUBSET KeysOf(c) :
          /\ st = "Canceled" <=> c \in flagged
          /\ st # "Success" => F = {}
          /\ row' = [row EXCEPT ![c] = st] /\ result' = [result EXCEPT ![c] = st]
          /\ step_failed' = [step_failed EXCEPT ![c] = F]
    /\ PhaseTo(c, "recording")
    /\ UNCHANGED <<config, record, flagged, missing, exec, loop, batch, settling, mon, user,
                   slow, faults>>

\* record_backfill_run_outcome, after the status; its error is only logged.
child_recorded(c) ==
    /\ phase[c] = "recording" /\ PhaseTo(c, "over")
    /\ (record_outcome(c) /\ UNCHANGED faults) \/ (Fault /\ UNCHANGED outcome)
    /\ UNCHANGED <<config, bstatus, links, row, step_failed, flagged, result, missing, exec, loop,
                   batch, settling, mon, user, slow>>

\* fail_run_if_active
fail_run_if_active(c) ==
    LET hit == row[c] \in {"NotStarted", "Queued", "Started"} IN
    /\ row' = IF hit THEN [row EXCEPT ![c] = "Failure"] ELSE row
    /\ outcome' = IF hit THEN Settled(outcome, {}, KeysOf(c), {}) ELSE outcome

\* A queued child errs, from its launch to finalize_status: mark_run_launch_failed,
\* unless that fails with it and leaves the row as it is.
child_error(c) ==
    /\ queued /\ phase[c] \in {"launched", "started"}
    /\ Fault
    /\ \/ fail_run_if_active(c) /\ PhaseTo(c, "over")
       \/ UNCHANGED <<row, outcome>> /\ PhaseTo(c, "dead")
    /\ UNCHANGED <<config, bstatus, links, step_failed, flagged, result, missing, exec, loop, batch,
                   settling, mon, user, slow>>

\* health_check_active_runs: a child the local backend has forgotten is Missing
\* and marked Canceled, whatever its row is, unless that call fails.
mark_missing(c) ==
    /\ c \in missing /\ missing' = missing \ {c}
    /\ \/ /\ row' = IF row[c] = "none" THEN row ELSE [row EXCEPT ![c] = "Canceled"]
          /\ outcome' = IF row[c] = "none" THEN outcome
                        ELSE Settled(outcome, {}, {}, KeysOf(c))
          /\ UNCHANGED faults
       \/ Fault /\ UNCHANGED <<row, outcome>>
    /\ UNCHANGED <<config, bstatus, links, step_failed, flagged, phase, result, exec, loop, batch,
                   settling, mon, user, slow>>

\* The stalled-run sweep fails a run that died before it started.
child_swept(c) ==
    /\ phase[c] = "dead" /\ row[c] = "NotStarted"
    /\ fail_run_if_active(c)
    /\ UNCHANGED <<config, bstatus, links, step_failed, flagged, phase, result, missing, exec, loop,
                   batch, settling, mon, user, slow, faults>>

-----------------------------------------------------------------------------
(* spawn_backfill_monitor.                                                 *)

\* One tick: with links the backfill is settled if it can be; without, it is
\* resumed when the last tick saw it so too.  (A tick before the grace period
\* is over does nothing.)
monitor_tick ==
    /\ monitor = "idle" /\ bstatus = "InProgress"
    /\ IF links # {}
       THEN monitor' = "settle" /\ sighted' = FALSE /\ UNCHANGED slow
       ELSE IF sighted
       THEN /\ exec # "idle" => slow < MaxSlow
            /\ slow' = IF exec # "idle" THEN slow + 1 ELSE slow
            /\ monitor' = "resume" /\ sighted' = FALSE
       ELSE sighted' = TRUE /\ UNCHANGED <<monitor, slow>>
    /\ UNCHANGED <<config, record, runs, exec, loop, batch, settling, user, faults>>

\* A tick that finds no InProgress backfill forgets the sighting.
monitor_idle_tick ==
    /\ monitor = "idle" /\ bstatus # "InProgress" /\ sighted
    /\ sighted' = FALSE
    /\ UNCHANGED <<config, record, runs, exec, loop, batch, settling, monitor, user,
                   slow, faults>>

resume_stalled_backfill_WithRuns ==
    /\ monitor = "resume"
    /\ bstatus' = IF bstatus = "InProgress" /\ links # {} THEN "Requested" ELSE bstatus
    /\ monitor' = "idle"
    /\ UNCHANGED <<config, links, outcome, runs, exec, loop, batch, settling, sighted,
                   user, slow, faults>>

\* resume_stalled_backfill
resume_stalled_backfill ==
    /\ monitor = "resume"
    /\ bstatus' = IF bstatus = "InProgress" /\ links = {} THEN "Requested" ELSE bstatus
    /\ monitor' = "idle"
    /\ UNCHANGED <<config, links, outcome, runs, exec, loop, batch, settling, sighted,
                   user, slow, faults>>

monitor_settle ==
    /\ monitor = "settle" /\ settling["monitor"].pc = "idle"
    /\ settle_read("monitor")
    /\ UNCHANGED <<config, record, runs, loop, batch, sighted, cascade, target, missed, cancels,
                   slow, faults>>

-----------------------------------------------------------------------------
(* RepoHandle::cancel_backfill.                                            *)

\* The in-process coordinator, if any, is signalled.
cancel_backfill ==
    /\ request = "idle" /\ bstatus # "none" /\ cancels < MaxCancels
    /\ cancels' = cancels + 1
    /\ signal' = IF signal = "absent" THEN signal ELSE "on"
    /\ request' = "settle"
    /\ UNCHANGED <<config, record, runs, exec, attempt, rest, current, stop, canceled_keys,
                   batch, settling, mon, cascade, target, missed, slow, faults>>

\* Storage::cancel_backfill: settle what is over anyway, ...  Here and below a call
\* that fails ends the request with an error, and its user may try again.
cancel_settle ==
    /\ request = "settle" /\ settling["request"].pc = "idle"
    /\ \/ settle_read("request") /\ UNCHANGED faults
       \/ Fault /\ request' = "idle" /\ UNCHANGED <<settling, exec, monitor>>
    /\ UNCHANGED <<config, record, runs, loop, batch, sighted, cascade, target, missed, cancels,
                   slow>>

\* ... or cancel it, if it is live, ...
cancel_write ==
    /\ request = "write"
    /\ \/ /\ bstatus' = IF bstatus \in {"Requested", "InProgress"} THEN "Canceled" ELSE bstatus
          /\ request' = "read" /\ UNCHANGED faults
       \/ Fault /\ request' = "idle" /\ UNCHANGED bstatus
    /\ UNCHANGED <<config, links, outcome, runs, exec, loop, batch, settling, mon, cascade,
                   target, missed, cancels, slow>>

\* The request ends with an error before it has come to any child.
GivesUp == Fault /\ request' = "idle" /\ missed' = Children

\* ... and read the status back.
cancel_read ==
    /\ request = "read"
    /\ \/ /\ request' = IF bstatus = "Canceled" THEN "links" ELSE "idle"
          /\ UNCHANGED <<missed, faults>>
       \/ GivesUp
    /\ UNCHANGED <<config, record, runs, exec, loop, batch, settling, mon, cascade, target, cancels,
                   slow>>

\* Of a Canceled backfill the links and their rows are read, and the children that
\* are not over are canceled, the ones without a row too.
cancel_links ==
    /\ request = "links"
    /\ \/ /\ cascade' = {c \in links : row[c] \notin Terminal}
          /\ request' = "cascade" /\ missed' = {}
          /\ UNCHANGED faults
       \/ GivesUp /\ UNCHANGED cascade
    /\ UNCHANGED <<config, record, runs, exec, loop, batch, settling, mon, target, cancels,
                   slow>>

\* RepoHandle::cancel_run of a child: first the flag; an error is only logged, and
\* the next child is canceled, ...
cascade_flag(c) ==
    /\ request = "cascade" /\ c \in cascade
    /\ cascade' = cascade \ {c}
    /\ \/ /\ flagged' = flagged \cup {c} /\ target' = {c} /\ request' = "flip"
          /\ UNCHANGED <<missed, faults>>
       \/ /\ Fault /\ missed' = missed \cup {c}
          /\ UNCHANGED <<flagged, target, request>>
    /\ UNCHANGED <<config, record, row, step_failed, phase, result, missing, exec, loop, batch,
                   settling, mon, cancels, slow>>

\* LocalRunBackend::terminate_run: a queued child that was launched is forgotten,
\* though its thread goes on; one that is over may have been before.
terminate_run(c) ==
    \/ /\ queued /\ phase[c] \in {"launched", "started", "recording", "over"}
       /\ missing' = missing \cup {c}
    \/ /\ ~ queued \/ phase[c] \notin {"launched", "started", "recording"}
       /\ UNCHANGED missing

\* ... then cancel_queued_run, and terminate_run if the child was under way.
cascade_flip(c) ==
    /\ request = "flip" /\ target = {c}
    /\ \/ /\ cancel_queued_run(c) /\ UNCHANGED faults
          /\ IF row[c] \in {"Queued", "NotStarted", "Canceled"} THEN UNCHANGED missing
             ELSE terminate_run(c)
       \/ Fault /\ cancel_queued_run_fails(c) /\ UNCHANGED missing
    /\ target' = {} /\ request' = "cascade"
    /\ UNCHANGED <<config, bstatus, links, step_failed, flagged, phase, result, exec, loop, batch,
                   settling, mon, cascade, missed, cancels, slow>>

\* The request returns Ok, the children missed or not.
cascade_done ==
    /\ request = "cascade" /\ cascade = {}
    /\ request' = "idle"
    /\ UNCHANGED <<config, record, runs, exec, loop, batch, settling, mon, cascade, target, missed,
                   cancels, slow, faults>>

-----------------------------------------------------------------------------
(* The daemon process, which serves the request too, dies and with it what *)
(* the local backend knows; started again, its loops find what is in       *)
(* storage.                                                                *)

crash ==
    /\ Fault
    /\ exec' = "idle" /\ rest' = {} /\ current' = {} /\ stop' = FALSE
    /\ signal' = "absent" /\ canceled_keys' = {} /\ batch' = {}
    /\ settling' = [a \in Callers |-> NotSettling]
    /\ monitor' = "idle" /\ sighted' = FALSE
    /\ request' = "idle" /\ cascade' = {} /\ target' = {}
    /\ phase' = [c \in Children |->
          IF phase[c] = "none" \/ row[c] = "Queued" THEN "none" ELSE "dead"]
    /\ missing' = {}
    /\ UNCHANGED <<config, record, row, step_failed, flagged, result, attempt, missed,
                   cancels, slow>>

Init ==
    /\ queued \in BOOLEAN
    /\ policy \in IF queued THEN {"Continue"} ELSE {"Continue", "StopOnFailure"}
    /\ bstatus = "none" /\ links = {} /\ outcome = Unsettled
    /\ row = [c \in Children |-> "none"] /\ step_failed = [c \in Children |-> {}]
    /\ flagged = {} /\ phase = [c \in Children |-> "none"]
    /\ result = [c \in Children |-> "none"] /\ missing = {}
    /\ exec = "idle" /\ attempt = 0 /\ rest = {} /\ current = {} /\ stop = FALSE
    /\ signal = "absent" /\ canceled_keys = {} /\ batch = {}
    /\ settling = [a \in Callers |-> NotSettling]
    /\ monitor = "idle" /\ sighted = FALSE
    /\ request = "idle" /\ cascade = {} /\ target = {} /\ missed = {}
    /\ cancels = 0 /\ slow = 0 /\ faults = 0

ExecNext ==
    \/ exec_read \/ exec_register \/ exec_flip
    \/ enqueue_backfill_runs \/ enqueue_check \/ exec_fail
    \/ \E c \in Children : enqueue_sweep(c)
    \/ \E g \in Groups : group_skip(g) \/ link_backfill_run(g) \/ link_commit(g) \/ link_check(g)
                         \/ run_child(g) \/ run_child_error(g) \/ child_done(g)
    \/ exec_settle \/ exec_final
    \/ settle_runs("exec") \/ settle_write("exec")

MonitorNext ==
    \/ monitor_tick \/ monitor_idle_tick \/ resume_stalled_backfill
    \/ monitor_settle \/ settle_runs("monitor") \/ settle_write("monitor")

RequestNext ==
    \/ cancel_settle \/ cancel_write \/ cancel_read \/ cancel_links
    \/ \E c \in Children : cascade_flag(c) \/ cascade_flip(c)
    \/ cascade_done \/ settle_runs("request") \/ settle_write("request")

ChildNext(c) ==
    \/ child_picked(c) \/ child_dequeued(c) \/ child_started(c)
    \/ child_ends(c) \/ child_recorded(c) \/ child_error(c) \/ child_swept(c)
    \/ mark_missing(c)

Next ==
    \/ create_backfill \/ cancel_backfill
    \/ pickup \/ ExecNext \/ MonitorNext \/ RequestNext
    \/ \E c \in Children : ChildNext(c)
    \/ crash

Spec == Init /\ [][Next]_vars

\* The daemon's loops and threads keep running and time passes; nothing is
\* assumed of the user.
Fairness ==
    /\ WF_vars(pickup) /\ WF_vars(ExecNext) /\ WF_vars(MonitorNext) /\ WF_vars(RequestNext)
    /\ \A c \in Children : WF_vars(ChildNext(c))

FairSpec == Spec /\ Fairness

-----------------------------------------------------------------------------
(* Properties.                                                             *)

\* A key that some child has materialized, whatever has become of its row since.
Materialized(k) == \E c \in Children : result[c] = "Success" /\ k \in KeysOf(c) \ step_failed[c]

\* CompletedSuccess means that every requested key has been materialized, and
\* the outcome "Completed" of a key that this key has: reads of the record and
\* of the rows made before a cancel, a resume, a crash or a late child do not
\* change that (try_complete_backfill).  A child that the health check marks
\* Canceled over its Success has materialized its keys all the same.
SuccessIsReal ==
    /\ bstatus = "CompletedSuccess" => \A k \in Keys : Materialized(k)
    /\ \A k \in Keys : outcome[k] = "Completed" => Materialized(k)

\* A backfill run in process is canceled with its child: whichever of the
\* link and the cancel is first, when the request is through no child runs on
\* without a flag ("Linked before the run exists, so a cancel cascade can
\* always reach every child that will ever exist"), unless a call of the request
\* for that child failed.  That is the only way, and a second request mends it.
CancelReachesChild ==
    ~ queued /\ bstatus = "Canceled" /\ request = "idle" =>
        \A c \in Children : phase[c] = "started" => c \in flagged \cup missed

\* No group is run by two children, whatever dies between the flip to
\* InProgress, the submission and the link: a backfill is only picked up again
\* while it has no run, unless a submission outlives two ticks of the monitor.
GroupRunsOnce ==
    slow = 0 => \A g \in Groups :
        Cardinality({a \in Attempts : row[<<g, a>>] # "none"}) <= 1

Orphan(c) == row[c] = "Started" /\ phase[c] = "dead"

\* A key no run of the backfill covers and nobody has settled.
Unaccounted(k) ==
    /\ outcome[k] \notin {"Failed", "Canceled"}
    /\ \A c \in links : row[c] = "none" \/ k \notin KeysOf(c)

\* What keeps a backfill InProgress for ever: a child whose thread died with
\* the daemon or ended in an error and left its row Started; or, in process, a
\* loop that is gone and has left links, but no run at all or none for some key.
Stranded ==
    \/ \E c \in links : Orphan(c)
    \/ /\ ~ queued /\ exec = "idle" /\ links # {}
       /\ (\A c \in links : row[c] = "none") \/ (\E k \in Keys : Unaccounted(k))

\* Every backfill ends, crashes between the flip and the submission and lost
\* writes included: the monitor resumes or settles what the execution thread
\* leaves InProgress, but for the cases Stranded names.
BackfillEnds == bstatus = "Requested" ~> (bstatus \in Ended \/ Stranded)

-----------------------------------------------------------------------------
(* The inductive invariant behind SuccessIsReal.                           *)

\* The execution thread has minted the run ids of its attempt, or has not yet.
Unminted == {"picked", "read", "registered"}
Minted   == {"groups", "linking", "check_link", "linked", "running", "submit", "check", "sweep"}
Linking  == {"linking", "check_link", "linked"}

AttemptFits ==
    /\ exec \in Unminted => attempt < MaxAttempts
    /\ exec \in Minted => attempt > 0

\* The loop, through with its groups, and the request wait while they settle.
CallersWait ==
    /\ settling["exec"].pc # "idle" => exec = "groups" /\ rest = {}
    /\ settling["request"].pc # "idle" => request = "settle"

\* A row that says Success was written by the child's own thread, which then
\* stops for good; a child in the queue or without a row has not begun.
StoppedRows ==
    \A c \in Children :
        /\ row[c] = "Success" => result[c] = "Success"
        /\ result[c] # "none" => phase[c] \in {"recording", "over", "dead"}
        /\ row[c] = "Queued" => phase[c] \in {"none", "picked"}
        /\ row[c] = "none" => phase[c] = "none"

\* What the execution thread has still to create or queue has no row yet.
Unborn(c) ==
    \/ c[2] > attempt
    \/ c[2] = attempt /\ \/ exec = "submit"
                         \/ exec \in Linking \cup {"groups", "running"} /\ c[1] \in rest
                         \/ exec \in Linking /\ c[1] \in current

UnbornRows ==
    /\ \A c \in Children : Unborn(c) => row[c] = "none"
    /\ exec \in Linking => current \cap rest = {}

\* What try_complete_backfill is about to write was true when it read the rows
\* and still is.
SettlesReal ==
    \A a \in Callers : settling[a].pc = "write" =>
        /\ settling[a].status = "CompletedSuccess" => \A k \in Keys : Materialized(k)
        /\ \A k \in Keys : settling[a].new[k] = "Completed" => Materialized(k)

\* All together: what a caller of try_complete_backfill has counted as a
\* success was materialized and is never run again, however long it waits before
\* it writes, and though the row itself may be marked Canceled meanwhile.
\* Inductive with TypeOK and SuccessIsReal.
SettleInv == AttemptFits /\ CallersWait /\ StoppedRows /\ UnbornRows /\ SettlesReal

-----------------------------------------------------------------------------
(* The inductive invariant behind GroupRunsOnce.                           *)

\* A backfill that is, or is about to be, Requested has no child, and its
\* execution thread none under way.
RequestedUnlinked ==
    /\ bstatus = "none" => exec = "idle" /\ links = {}
    /\ bstatus = "Requested" => exec \in Unminted \cup {"idle", "failing"} /\ links = {}
    /\ exec \in Unminted => links = {}
    /\ monitor = "resume" => exec = "idle" /\ links = {} /\ bstatus \notin {"none", "Requested"}

\* Every child is linked, and belongs to the last attempt.
LinkedOnce ==
    /\ \A c \in Children : row[c] # "none" => c \in links
    /\ \A c \in links : c[2] = attempt
    /\ exec = "linked" => \A g \in current : <<g, attempt>> \in links

\* Unless a submission outlives two ticks of the monitor, no step begins a
\* second attempt once the first has linked a child: neither a crash between
\* the flip to InProgress and the submission, nor a resume that races it.
OnceInv ==
    /\ \A a \in Callers : settling[a].pc = "write" => settling[a].status \in Ended
    /\ slow = 0 => RequestedUnlinked /\ LinkedOnce

-----------------------------------------------------------------------------
(* The inductive invariant behind CancelReachesChild, of a backfill that   *)
(* runs in process.                                                        *)

\* A child that is under way is the one the loop is at, and nobody else writes
\* its row.
RunningIsCurrent ==
    \A c \in Children :
        /\ row[c] \notin {"Queued", "NotStarted"} /\ phase[c] \notin {"picked", "launched"}
        /\ phase[c] = "started" =>
              exec = "running" /\ current = {c[1]} /\ c[2] = attempt /\ row[c] = "Started"
        /\ phase[c] = "recording" => row[c] \in Terminal /\ row[c] = result[c]

\* Once there is a child the backfill is never picked up again, and until then
\* the child the loop is about to run is linked.
BornForGood ==
    /\ \A c \in Children : row[c] # "none" =>
          /\ c \in links /\ c[2] = attempt
          /\ bstatus \notin {"none", "Requested"} /\ exec \notin Unminted
    /\ exec \in {"linked", "running"} => \A g \in current :
          <<g, attempt>> \in links /\ bstatus \notin {"none", "Requested"}

CanceledRow(k, R) == \E c \in R : row[c] = "Canceled" /\ k \in KeysOf(c)

\* While the backfill can still run a child, a key is Canceled only by a child
\* that was.
CanceledByRun ==
    /\ bstatus \notin Ended \/ exec \in Unminted =>
          \A k \in Keys : outcome[k] = "Canceled" => CanceledRow(k, Children)
    /\ \A a \in Callers : settling[a].pc = "runs" =>
          \A k \in Keys : settling[a].old[k] = "Canceled" => CanceledRow(k, settling[a].links)

\* The monitor and the request settle a backfill as Canceled only when every
\* group has run.
SettlesOver ==
    \A a \in Callers : settling[a].pc = "write" =>
        /\ settling[a].status \in Ended
        /\ a # "exec" =>
              /\ \E c \in Children : row[c] # "none"
              /\ settling[a].status = "Canceled" =>
                    \A g \in Groups : row[<<g, attempt>>] \in Terminal

\* The request has flagged the child the loop is at, is still going to, or has
\* failed to.
CascadeReaches ==
    bstatus = "Canceled" /\ exec \in {"linked", "running"} => \A g \in current :
        \/ <<g, attempt>> \in flagged \/ row[<<g, attempt>>] \in Terminal
        \/ <<g, attempt>> \in missed
        \/ request \in {"read", "links"}
        \/ request \in {"cascade", "flip"} /\ <<g, attempt>> \in cascade

\* A link is committed only while the backfill is InProgress, and checked after
\* the commit: the cancel finds the child among the links, or the loop finds the
\* cancel.  Nothing else makes the backfill Canceled with a child under way, a
\* settlement that read the record and the rows long before included.  It is
\* inductive together with SettleInv.
ReachInv ==
    ~ queued => /\ exec \notin {"submit", "check", "sweep"}
                /\ missing = {} /\ RunningIsCurrent /\ BornForGood /\ CanceledByRun /\ SettlesOver
                /\ CascadeReaches

-----------------------------------------------------------------------------
(* What the repository says and the code does not do.                      *)

\* run_queue.rs, enqueue_backfill_runs: "the runs are committed but
\* immediately swept back out of the queue, so no child outlives the cancel
\* regardless of which side of the race committed first".
NoChildOutlivesCancel ==
    bstatus = "Canceled" /\ request = "idle" /\ exec = "idle" =>
        \A c \in Children : phase[c] = "started" => c \in flagged

=============================================================================
