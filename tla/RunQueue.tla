------------------------------ MODULE RunQueue ------------------------------
(***************************************************************************)
(* The run queue of one code location: runs are enqueued, dequeued by the  *)
(* daemon's coordinator, launched on threads of the local run backend,     *)
(* executed, canceled, health-checked, swept and deleted.                  *)
(*                                                                         *)
(* Sources: rust/rivers-core/src/concurrency/{coordinator,tag_counter}.rs, *)
(* storage/surrealdb_backend/{backend,run_queue,per_code_location}.rs,     *)
(* python/src/daemon/subdaemons.rs, python/src/backends/local.rs,          *)
(* python/src/executor/run_lifecycle.rs, python/src/repository/{handle,    *)
(* launch,results}.rs.                                                     *)
(*                                                                         *)
(* Every storage call is one action: each is an await between which the    *)
(* coordinator, the run threads and the users' requests interleave.        *)
(***************************************************************************)
EXTENDS Integers, FiniteSets

CONSTANTS
    Runs,         \* run ids
    MaxRuns,      \* RunQueueConfig.max_concurrent_runs, negative = unlimited
    Priority,     \* RunRecord.priority
    QueuedAt,     \* RunRecord.start_time of a queued run
    AllTags,      \* (key, value) tags
    Tags,         \* the tags of each run
    TagLimits,    \* RunQueueConfig.tag_concurrency_limits
    NoValue,      \* TagConcurrencyLimit.value = None
    CancelRuns,   \* bound: runs RepoHandle::cancel_run is called for
    HandleRuns,   \* bound: runs RunHandle.cancel is called for
    DeleteRuns,   \* bound: runs delete_run is called for
    MaxCrashes,   \* bound: crashes of the daemon process
    MaxErrors     \* bound: storage writes of a tick, or launches, that fail

ASSUME QueueAssumption ==
    /\ IsFiniteSet(Runs) /\ IsFiniteSet(AllTags)
    /\ MaxRuns \in Int
    /\ Priority \in [Runs -> Int] /\ QueuedAt \in [Runs -> Int]
    /\ Tags \in [Runs -> SUBSET AllTags]
    /\ \A l \in TagLimits : l.limit \in Nat /\ l.per_unique_value \in BOOLEAN
    /\ CancelRuns \subseteq Runs /\ HandleRuns \subseteq Runs /\ DeleteRuns \subseteq Runs
    /\ MaxCrashes \in Nat /\ MaxErrors \in Nat

VARIABLES
    status,      \* runs.status, "none" before the row exists, "gone" after
    cancelled,   \* runs with a cancel:<run_id> flag
    reason,      \* runs whose block_reason is set
    overdue,     \* runs dequeued more than start_timeout ago
    cpc,         \* where the coordinator's loop stands
    seen,        \* in_progress_runs of the tick under way
    scan,        \* queued runs the tick has still to look at
    picked,      \* to_launch, not yet written NotStarted
    launching,   \* to_launch, written and not yet launched
    todo,        \* runs the health check or the sweep has still to look at
    missing,     \* runs the health check found Missing
    active,      \* the coordinator's active_runs
    entry,       \* LocalRunBackend.active_runs
    thread,      \* the run's thread
    verdict,     \* the status finalize_status is about to write
    works,       \* times the run began to execute steps (history)
    cancelling,  \* RepoHandle::cancel_run under way
    handling,    \* RunHandle.cancel past its read
    deleting,    \* delete_run past its check
    stopped,     \* runs cancel_queued_run took off the queue (history)
    crashes, errors

rows   == <<status, cancelled, reason, overdue>>
sweeps == <<todo, missing, active>>
tickv  == <<seen, scan, picked, launching>>
runv   == <<entry, thread, verdict, works>>
users  == <<cancelling, handling, deleting, stopped>>
faults == <<crashes, errors>>
vars   == <<status, cancelled, reason, overdue, cpc, seen, scan, picked, launching,
            todo, missing, active, entry, thread, verdict, works,
            cancelling, handling, deleting, stopped, crashes, errors>>

Terminal == {"Success", "Failure", "Canceled"}
Active   == {"Queued", "NotStarted", "Started"}
Statuses == Terminal \cup Active \cup {"none", "gone"}
Threads  == {"none", "starting", "found", "started", "working", "finishing",
             "writing", "failing", "done"}
CoordPCs == {"sleep", "health", "sweep", "tick", "full", "select", "write", "launch", "down"}

TypeOK ==
    /\ status \in [Runs -> Statuses]
    /\ cancelled \in SUBSET Runs /\ reason \in SUBSET Runs /\ overdue \in SUBSET Runs
    /\ cpc \in CoordPCs
    /\ seen \in SUBSET Runs /\ scan \in SUBSET Runs
    /\ picked \in SUBSET Runs /\ launching \in SUBSET Runs
    /\ todo \in SUBSET Runs /\ missing \in SUBSET Runs /\ active \in SUBSET Runs
    /\ entry \in SUBSET Runs
    /\ thread \in [Runs -> Threads]
    /\ verdict \in [Runs -> Terminal \cup {"none"}]
    /\ works \in [Runs -> 0 .. 2]
    /\ cancelling \in [Runs -> {"no", "flagged", "backend"}]
    /\ handling \in SUBSET Runs /\ deleting \in SUBSET Runs /\ stopped \in SUBSET Runs
    /\ crashes \in 0 .. MaxCrashes /\ errors \in 0 .. MaxErrors

-----------------------------------------------------------------------------
(* Storage: the run row.                                                   *)

HasRow(r) == status[r] \notin {"none", "gone"}

\* UPDATE runs SET status = .. WHERE run_id = ..: no row, no effect.
update_run_status(r, st) ==
    status' = IF HasRow(r) THEN [status EXCEPT ![r] = st] ELSE status

\* Here and below, a definition X_Y just before X is X with a plausible bug,
\* used only to show that the properties notice it.
fail_run_if_active_Requeue(r) ==
    status' = IF status[r] \in Active THEN [status EXCEPT ![r] = "Queued"] ELSE status

fail_run_if_active(r) ==
    status' = IF status[r] \in Active THEN [status EXCEPT ![r] = "Failure"] ELSE status

enqueue_run(r) ==
    /\ status[r] = "none"
    /\ status' = [status EXCEPT ![r] = "Queued"]
    /\ UNCHANGED <<cancelled, reason, overdue, cpc, sweeps, tickv, runv, users, faults>>

-----------------------------------------------------------------------------
(* RunQueueCoordinator::tick.                                              *)

\* priority DESC, start_time ASC
Before(q, r) == \/ Priority[q] > Priority[r]
                \/ Priority[q] = Priority[r] /\ QueuedAt[q] < QueuedAt[r]
First(r, S) == r \in S /\ \A q \in S : ~ Before(q, r)

\* Tags counted together with t under limit l: its own value, the limit's
\* value, or every value of the key.
Group(l, t) ==
    {u \in AllTags : /\ u[1] = l.key
                     /\ l.per_unique_value => u = t
                     /\ ~ l.per_unique_value /\ l.value # NoValue => u[2] = l.value}

\* The tags of the runs T in that group: key_counts, key_value_counts and
\* unique_value_counts of the counter.
TagCount(T, l, t) == Cardinality({e \in T \X Group(l, t) : e[2] \in Tags[e[1]]})

\* from_runs(in_progress) and record_launch of every run picked so far.
counted_SeenOnly == seen
counted == seen \cup picked

is_blocked(r) ==
    \E l \in TagLimits : \E t \in Tags[r] : t \in Group(l, t) /\ TagCount(counted, l, t) >= l.limit

AtCapacity(n) == MaxRuns >= 0 /\ n >= MaxRuns

slots_available == MaxRuns - Cardinality(seen)
NoSlotLeft == MaxRuns >= 0 /\ Cardinality(picked) >= slots_available

\* coordinator_tick_query: the two selections of its one query
in_progress_runs_StartedOnly == {r \in Runs : status[r] = "Started"}
in_progress_runs == {r \in Runs : status[r] \in {"NotStarted", "Started"}}
queued_runs_Redequeue == {r \in Runs : status[r] \in {"Queued", "NotStarted"}}
queued_runs == {r \in Runs : status[r] = "Queued"}

tick_query ==
    /\ cpc = "tick"
    /\ seen' = in_progress_runs /\ scan' = queued_runs
    /\ picked' = {} /\ launching' = {}
    /\ cpc' = IF AtCapacity(Cardinality(in_progress_runs)) THEN "full" ELSE "select"
    /\ UNCHANGED <<rows, sweeps, runv, users, faults>>

\* At capacity: set_block_reason_by_status on the whole queue.
mark_full ==
    /\ cpc = "full"
    /\ reason' = reason \cup {r \in Runs : status[r] = "Queued"}
    /\ cpc' = "sleep"
    /\ seen' = {} /\ scan' = {}
    /\ UNCHANGED <<status, cancelled, overdue, picked, launching, sweeps, runv, users, faults>>

\* One queued run: skipped with its block_reason written, or picked.
select(r) ==
    /\ cpc = "select" /\ First(r, scan) /\ ~ NoSlotLeft
    /\ scan' = scan \ {r}
    /\ IF is_blocked(r)
       THEN /\ reason' = IF HasRow(r) THEN reason \cup {r} ELSE reason
            /\ UNCHANGED picked
       ELSE /\ picked' = picked \cup {r}
            /\ UNCHANGED reason
    /\ UNCHANGED <<status, cancelled, overdue, cpc, seen, launching, sweeps, runv, users, faults>>

select_done ==
    /\ cpc = "select" /\ (scan = {} \/ NoSlotLeft)
    /\ cpc' = "write" /\ scan' = {}
    /\ UNCHANGED <<rows, seen, picked, launching, sweeps, runv, users, faults>>

\* update_run_status(NotStarted), whatever the run's status is by now, and
\* the RunDequeued event the start timeout counts from.
write_not_started(r) ==
    /\ cpc = "write" /\ First(r, picked)
    /\ update_run_status(r, "NotStarted")
    /\ overdue' = overdue \ {r}
    /\ picked' = picked \ {r} /\ launching' = launching \cup {r}
    /\ UNCHANGED <<cancelled, reason, cpc, seen, scan, sweeps, runv, users, faults>>

\* A failed write ends the tick: the runs already written are not launched.
write_error ==
    /\ cpc = "write" /\ picked # {} /\ errors < MaxErrors
    /\ errors' = errors + 1
    /\ picked' = {} /\ launching' = {} /\ seen' = {} /\ cpc' = "sleep"
    /\ UNCHANGED <<rows, scan, sweeps, runv, users, crashes>>

tick_done ==
    /\ cpc = "write" /\ picked = {}
    /\ cpc' = "launch" /\ seen' = {}
    /\ UNCHANGED <<rows, scan, picked, launching, sweeps, runv, users, faults>>

-----------------------------------------------------------------------------
(* spawn_run_queue_coordinator: launches, health checks and the sweep.     *)

\* LocalRunBackend::launch spawns the run's thread; a launch that fails marks
\* the run failed.
launch(r) ==
    /\ cpc = "launch" /\ First(r, launching)
    /\ launching' = launching \ {r}
    /\ \/ /\ thread' = [thread EXCEPT ![r] = "starting"]
          /\ entry' = entry \cup {r} /\ active' = active \cup {r}
          /\ UNCHANGED <<status, errors>>
       \/ /\ errors < MaxErrors /\ errors' = errors + 1
          /\ fail_run_if_active(r)
          /\ UNCHANGED <<thread, entry, active>>
    /\ UNCHANGED <<cancelled, reason, overdue, cpc, seen, scan, picked, todo, missing,
                   verdict, works, users, crashes>>

launch_done ==
    /\ cpc = "launch" /\ launching = {}
    /\ cpc' = "sleep"
    /\ UNCHANGED <<rows, tickv, sweeps, runv, users, faults>>

\* The loop wakes up; every health_interval it looks after its runs first.
wake ==
    /\ cpc = "sleep" /\ cpc' = "tick"
    /\ UNCHANGED <<rows, tickv, sweeps, runv, users, faults>>

health_begin ==
    /\ cpc = "sleep" /\ cpc' = "health"
    /\ todo' = active
    /\ UNCHANGED <<rows, tickv, missing, active, runv, users, faults>>

\* LocalRunBackend::check_run_health: Exited forgets the run, Missing is
\* handled when the check's result is joined.
check_run_health(r) ==
    /\ cpc = "health" /\ r \in todo
    /\ todo' = todo \ {r}
    /\ LET exited == r \in entry /\ thread[r] = "done" IN
       /\ entry' = IF exited THEN entry \ {r} ELSE entry
       /\ active' = IF exited THEN active \ {r} ELSE active
       /\ missing' = IF r \in entry THEN missing ELSE missing \cup {r}
    /\ UNCHANGED <<rows, cpc, tickv, thread, verdict, works, users, faults>>

mark_missing_Verbatim(r) ==
    /\ cpc = "health" /\ r \in missing
    /\ update_run_status(r, "Missing")
    /\ missing' = missing \ {r} /\ active' = active \ {r}
    /\ UNCHANGED <<cancelled, reason, overdue, cpc, tickv, todo, runv, users, faults>>

\* A Missing run without a recorded outcome is marked Canceled; the local
\* backend records none.
mark_missing(r) ==
    /\ cpc = "health" /\ r \in missing
    /\ update_run_status(r, "Canceled")
    /\ missing' = missing \ {r} /\ active' = active \ {r}
    /\ UNCHANGED <<cancelled, reason, overdue, cpc, tickv, todo, runv, users, faults>>

\* get_stalled_not_started_runs
sweep_begin ==
    /\ cpc = "health" /\ todo = {} /\ missing = {}
    /\ todo' = {r \in Runs : status[r] = "NotStarted" /\ r \in overdue}
    /\ cpc' = "sweep"
    /\ UNCHANGED <<rows, tickv, missing, active, runv, users, faults>>

Unowned_Exited(r) == r \notin active /\ r \in entry /\ thread[r] = "done"
Unowned(r) == r \notin active /\ r \notin entry

\* sweep_stalled_not_started, one stalled run: nothing launched by this daemon
\* is touched, and the backend forgets what it finds Exited.
sweep_stalled(r) ==
    /\ cpc = "sweep" /\ r \in todo
    /\ todo' = todo \ {r}
    /\ IF Unowned(r) THEN fail_run_if_active(r) ELSE UNCHANGED status
    /\ entry' = IF r \notin active /\ thread[r] = "done" THEN entry \ {r} ELSE entry
    /\ UNCHANGED <<cancelled, reason, overdue, cpc, tickv, missing, active,
                   thread, verdict, works, users, faults>>

sweep_done ==
    /\ cpc = "sweep" /\ todo = {}
    /\ cpc' = "tick"
    /\ UNCHANGED <<rows, tickv, sweeps, runv, users, faults>>

start_timeout_passes(r) ==
    /\ status[r] = "NotStarted" /\ r \notin overdue
    /\ overdue' = overdue \cup {r}
    /\ UNCHANGED <<status, cancelled, reason, cpc, tickv, sweeps, runv, users, faults>>

-----------------------------------------------------------------------------
(* The thread of a launched run.                                           *)

ThreadTo(r, label) == thread' = [thread EXCEPT ![r] = label]

\* launch_prepared_job: look the record up and create it when it is not there,
\* or fail on the way (configuration, plan, storage).
launch_prepared_job(r) ==
    /\ thread[r] = "starting"
    /\ \/ /\ status' = IF HasRow(r) THEN status ELSE [status EXCEPT ![r] = "Started"]
          /\ ThreadTo(r, "found")
       \/ ThreadTo(r, "failing") /\ UNCHANGED status
    /\ UNCHANGED <<cancelled, reason, overdue, cpc, tickv, sweeps, entry, verdict, works,
                   users, faults>>

\* A canceled run is skipped; anything else becomes Started.
try_start_run(r) ==
    /\ thread[r] = "found"
    /\ \/ status[r] = "Canceled" /\ ThreadTo(r, "done") /\ UNCHANGED status
       \/ status[r] = "gone" /\ ThreadTo(r, "failing") /\ UNCHANGED status
       \/ /\ status[r] \notin {"Canceled", "gone"}
          /\ update_run_status(r, "Started") /\ ThreadTo(r, "started")
    /\ UNCHANGED <<cancelled, reason, overdue, cpc, tickv, sweeps, entry, verdict, works,
                   users, faults>>

\* The cancellation probe before the first step of the plan.
begin_work(r) ==
    /\ thread[r] = "started"
    /\ \/ /\ r \in cancelled /\ ThreadTo(r, "finishing") /\ UNCHANGED works
       \/ /\ r \notin cancelled /\ ThreadTo(r, "working")
          /\ works' = [works EXCEPT ![r] = IF @ < 2 THEN @ + 1 ELSE @]
    /\ UNCHANGED <<rows, cpc, tickv, sweeps, entry, verdict, users, faults>>

end_work(r) ==
    /\ thread[r] = "working"
    /\ ThreadTo(r, "finishing")
    /\ UNCHANGED <<rows, cpc, tickv, sweeps, entry, verdict, works, users, faults>>

\* finalize_status: the flag is read ...
finalize_read(r) ==
    /\ thread[r] = "finishing"
    /\ \/ /\ \E v \in Terminal :
                /\ v = "Canceled" <=> r \in cancelled
                /\ verdict' = [verdict EXCEPT ![r] = v]
          /\ ThreadTo(r, "writing")
       \/ ThreadTo(r, "failing") /\ UNCHANGED verdict
    /\ UNCHANGED <<rows, cpc, tickv, sweeps, entry, works, users, faults>>

\* ... and the status written, whatever it is by now.  An error of either
\* call is handled as a launch failure.
finalize_write(r) ==
    /\ thread[r] = "writing"
    /\ \/ update_run_status(r, verdict[r]) /\ ThreadTo(r, "done")
       \/ UNCHANGED status /\ ThreadTo(r, "failing")
    /\ verdict' = [verdict EXCEPT ![r] = "none"]
    /\ UNCHANGED <<cancelled, reason, overdue, cpc, tickv, sweeps, entry, works, users, faults>>

mark_run_launch_failed(r) ==
    /\ thread[r] = "failing"
    /\ fail_run_if_active(r)
    /\ ThreadTo(r, "done")
    /\ UNCHANGED <<cancelled, reason, overdue, cpc, tickv, sweeps, entry, verdict, works,
                   users, faults>>

-----------------------------------------------------------------------------
(* Users.                                                                  *)

request_cancellation_Unflagged(r) ==
    /\ cancelling[r] = "no" /\ status[r] # "none"
    /\ cancelling' = [cancelling EXCEPT ![r] = "flagged"]
    /\ UNCHANGED <<rows, cpc, tickv, sweeps, runv, handling, deleting, stopped, faults>>

\* RepoHandle::cancel_run: first the flag, ...
request_cancellation(r) ==
    /\ cancelling[r] = "no" /\ status[r] # "none"
    /\ cancelled' = cancelled \cup {r}
    /\ cancelling' = [cancelling EXCEPT ![r] = "flagged"]
    /\ UNCHANGED <<status, reason, overdue, cpc, tickv, sweeps, runv,
                   handling, deleting, stopped, faults>>

cancel_queued_run_Started(r) ==
    /\ cancelling[r] = "flagged"
    /\ LET hit == status[r] \in Active IN
       /\ status' = IF hit THEN [status EXCEPT ![r] = "Canceled"] ELSE status
       /\ stopped' = IF hit THEN stopped \cup {r} ELSE stopped
       /\ cancelling' = [cancelling EXCEPT ![r] =
             IF hit \/ status[r] = "Canceled" THEN "no" ELSE "backend"]
    /\ UNCHANGED <<cancelled, reason, overdue, cpc, tickv, sweeps, runv,
                   handling, deleting, faults>>

\* ... then a run that is not under way leaves the queue, ...
cancel_queued_run(r) ==
    /\ cancelling[r] = "flagged"
    /\ LET hit == status[r] \in {"Queued", "NotStarted"} IN
       /\ status' = IF hit THEN [status EXCEPT ![r] = "Canceled"] ELSE status
       /\ stopped' = IF hit THEN stopped \cup {r} ELSE stopped
       /\ cancelling' = [cancelling EXCEPT ![r] =
             IF hit \/ status[r] = "Canceled" THEN "no" ELSE "backend"]
    /\ UNCHANGED <<cancelled, reason, overdue, cpc, tickv, sweeps, runv,
                   handling, deleting, faults>>

\* ... and the backend forgets a run that is: its thread goes on.
terminate_run(r) ==
    /\ cancelling[r] = "backend"
    /\ entry' = entry \ {r}
    /\ cancelling' = [cancelling EXCEPT ![r] = "no"]
    /\ UNCHANGED <<rows, cpc, tickv, sweeps, thread, verdict, works,
                   handling, deleting, stopped, faults>>

\* RunHandle.cancel: read the status, then write Canceled.
handle_cancel_read(r) ==
    /\ status[r] \in Active /\ r \notin handling
    /\ handling' = handling \cup {r}
    /\ UNCHANGED <<rows, cpc, tickv, sweeps, runv, cancelling, deleting, stopped, faults>>

handle_cancel_write(r) ==
    /\ r \in handling
    /\ update_run_status(r, "Canceled")
    /\ handling' = handling \ {r}
    /\ UNCHANGED <<cancelled, reason, overdue, cpc, tickv, sweeps, runv,
                   cancelling, deleting, stopped, faults>>

\* delete_run: check that the run is over, then delete its rows and its flag.
delete_run_check(r) ==
    /\ status[r] \in Terminal /\ r \notin deleting
    /\ deleting' = deleting \cup {r}
    /\ UNCHANGED <<rows, cpc, tickv, sweeps, runv, cancelling, handling, stopped, faults>>

delete_run_rows(r) ==
    /\ r \in deleting
    /\ status' = IF HasRow(r) THEN [status EXCEPT ![r] = "gone"] ELSE status
    /\ cancelled' = cancelled \ {r} /\ reason' = reason \ {r}
    /\ deleting' = deleting \ {r}
    /\ UNCHANGED <<overdue, cpc, tickv, sweeps, runv, cancelling, handling, stopped, faults>>

-----------------------------------------------------------------------------
(* The daemon process, with the coordinator, the run threads and the       *)
(* requests it serves, dies and is started again.                          *)

crash ==
    /\ cpc # "down" /\ crashes < MaxCrashes
    /\ crashes' = crashes + 1
    /\ cpc' = "down"
    /\ seen' = {} /\ scan' = {} /\ picked' = {} /\ launching' = {}
    /\ todo' = {} /\ missing' = {} /\ active' = {} /\ entry' = {}
    /\ thread' = [r \in Runs |-> "none"]
    /\ verdict' = [r \in Runs |-> "none"]
    /\ cancelling' = [r \in Runs |-> "no"] /\ deleting' = {}
    /\ UNCHANGED <<rows, works, handling, stopped, errors>>

restart ==
    /\ cpc = "down" /\ cpc' = "sleep"
    /\ UNCHANGED <<rows, tickv, sweeps, runv, users, faults>>

Init ==
    /\ status = [r \in Runs |-> "none"]
    /\ cancelled = {} /\ reason = {} /\ overdue = {}
    /\ cpc = "sleep"
    /\ seen = {} /\ scan = {} /\ picked = {} /\ launching = {}
    /\ todo = {} /\ missing = {} /\ active = {} /\ entry = {}
    /\ thread = [r \in Runs |-> "none"] /\ verdict = [r \in Runs |-> "none"]
    /\ works = [r \in Runs |-> 0]
    /\ cancelling = [r \in Runs |-> "no"]
    /\ handling = {} /\ deleting = {} /\ stopped = {}
    /\ crashes = 0 /\ errors = 0

CoordNext ==
    \/ wake \/ tick_query \/ mark_full \/ select_done \/ tick_done \/ launch_done
    \/ write_error \/ sweep_begin \/ sweep_done \/ restart
    \/ \E r \in Runs : \/ select(r) \/ write_not_started(r) \/ launch(r)
                       \/ check_run_health(r) \/ mark_missing(r) \/ sweep_stalled(r)

ThreadNext(r) ==
    \/ launch_prepared_job(r) \/ try_start_run(r) \/ begin_work(r) \/ end_work(r)
    \/ finalize_read(r) \/ finalize_write(r) \/ mark_run_launch_failed(r)

UserNext ==
    \/ \E r \in Runs : enqueue_run(r)
    \/ \E r \in CancelRuns : request_cancellation(r)
    \/ \E r \in Runs : cancel_queued_run(r) \/ terminate_run(r)
    \/ \E r \in HandleRuns : handle_cancel_read(r)
    \/ \E r \in Runs : handle_cancel_write(r)
    \/ \E r \in DeleteRuns : delete_run_check(r)
    \/ \E r \in Runs : delete_run_rows(r)

Next ==
    \/ CoordNext \/ health_begin
    \/ \E r \in Runs : ThreadNext(r) \/ start_timeout_passes(r)
    \/ UserNext
    \/ crash

Spec == Init /\ [][Next]_vars

\* The daemon's loop and the run threads keep running (steps of a run end),
\* the loop's health interval comes round again and again, and time passes.
\* Nothing is assumed of the users.
Fairness ==
    /\ WF_vars(CoordNext) /\ SF_vars(health_begin)
    /\ \A r \in Runs : WF_vars(ThreadNext(r)) /\ WF_vars(start_timeout_passes(r))

FairSpec == Spec /\ Fairness

-----------------------------------------------------------------------------
(* Properties.                                                             *)

InProgress == {r \in Runs : status[r] \in {"NotStarted", "Started"}}

\* The coordinator never has more runs in progress than max_concurrent_runs:
\* stale reads of the queue, runs canceled or failed during the tick, late
\* thread starts and restarts of the daemon included (tick).
MaxConcurrent == MaxRuns >= 0 => Cardinality(InProgress) <= MaxRuns

Carriers(T, G) == {r \in T : Tags[r] \cap G # {}}

\* Nor more runs with a tag than a tag limit allows (is_blocked,
\* record_launch), for each of the three kinds of limit.
TagLimitsHold ==
    \A l \in TagLimits, t \in AllTags :
        t \in Group(l, t) => Cardinality(Carriers(InProgress, Group(l, t))) <= l.limit

\* A run that cancel_run took off the queue never executes a step, even when
\* the tick's stale write puts it back to NotStarted and it is launched: the
\* flag is set before the flip (cancel_run, "Flag first so a run dispatched
\* concurrently still sees the cancel at executor startup").
StoppedNeverWorks == \A r \in stopped : works[r] = 0

\* No run is executed twice, whatever crashes between dequeue, launch, start
\* and the final write (coordinator_tick_query reads Queued runs only).
WorksAtMostOnce == \A r \in Runs : works[r] <= 1

\* A crash has killed the thread of a started run.
Orphaned(r) == status[r] = "Started" /\ thread[r] = "none"

\* Every queued run is over eventually, or a run orphaned by a crash sits in
\* its seat: nothing that dies between dequeue, launch and start keeps a slot
\* for ever, the stalled-run sweep finds it (docs/concepts/concurrency.md,
\* "Launch failures and the start timeout").
EveryRunEnds ==
    \A r \in Runs : status[r] = "Queued" ~>
        \/ status[r] \in Terminal \cup {"gone"}
        \/ \E q \in Runs : Orphaned(q)

-----------------------------------------------------------------------------
(* What the queue promises.                                                *)

\* Where RunService sees a run.
SeatOf(r) ==
    CASE status[r] \in {"none", "Queued"}         -> "queue"
      [] status[r] \in {"NotStarted", "Started"}  -> "inside"
      [] status[r] \in Terminal \cup {"gone"}     -> "out"

Service == INSTANCE RunService WITH
    seat <- [r \in Runs |-> SeatOf(r)], executions <- works, withdrawn <- stopped

\* Without delete_run the queue, its threads, users, crashes and failing
\* writes implement RunService: every step of the code is a step of the
\* service or invisible to it. In particular a run is seated only while there
\* is room at that very moment and only before it has executed (tick), and it
\* is taken off the queue only before it has executed (cancel_queued_run).
Implements == Service!Spec

-----------------------------------------------------------------------------
(* The inductive strengthenings behind the safety properties.              *)

Selected == scan \cup picked \cup launching

ListsFollowLoop ==
    /\ scan # {} => cpc \in {"select", "full"}
    /\ picked # {} => cpc \in {"select", "write"}
    /\ launching # {} => cpc \in {"write", "launch"}

\* A run the queue still may start has not been started: no thread, no work.
Fresh(r) ==
    /\ status[r] \in {"none", "Queued"} \/ r \in Selected => works[r] = 0 /\ thread[r] = "none"
    /\ r \in Selected => status[r] # "none"
    /\ r \in launching => status[r] # "Queued"
    /\ status[r] = "NotStarted" => works[r] = 0 /\ thread[r] # "started"
    /\ thread[r] \in {"starting", "found", "started"} => works[r] = 0
    /\ thread[r] = "writing" => verdict[r] \in Terminal
    /\ works[r] <= 1

OnceInv == TypeOK /\ ListsFollowLoop /\ \A r \in Runs : Fresh(r)

\* The flag is there before the flip, and stays.
Flagged(r) ==
    /\ status[r] # "gone"
    /\ cancelling[r] = "flagged" => r \in cancelled
    /\ r \in stopped => r \in cancelled /\ works[r] = 0

CancelInv == OnceInv /\ deleting = {} /\ \A r \in Runs : Flagged(r)

\* A run about to start is in progress already, or canceled.
Admitted(r) ==
    /\ thread[r] \in {"starting", "found"} => status[r] \in {"NotStarted", "Canceled"} /\ r \in entry
    /\ cancelling[r] = "flagged" => status[r] # "none"
    /\ cancelling[r] = "backend" =>
          /\ status[r] \notin {"none", "Queued", "NotStarted"}
          /\ r \notin Selected /\ thread[r] \notin {"starting", "found"}
    /\ r \in scan \cup picked => status[r] \in {"Queued", "Canceled"}
    /\ r \in launching => status[r] \in {"NotStarted", "Canceled"}

\* What the tick has seen, picked and written bounds what is in progress.
Seats ==
    MaxRuns >= 0 =>
        /\ Cardinality(InProgress) <= MaxRuns
        /\ cpc \in {"select", "write"} =>
              /\ InProgress \subseteq seen \cup launching
              /\ Cardinality(seen \cup picked \cup launching) <= MaxRuns

QueueInv == CancelInv /\ (\A r \in Runs : Admitted(r)) /\ Seats

\* And so it does for the runs with the tags of each limit: a run is picked
\* against the runs seen and picked before it, and nothing else comes into
\* progress before the tick has written it.
TagSeats ==
    /\ TagLimitsHold
    /\ cpc \in {"select", "write"} =>
          /\ InProgress \subseteq seen \cup launching
          /\ \A l \in TagLimits, t \in AllTags : t \in Group(l, t) =>
                Cardinality(Carriers(seen \cup picked \cup launching, Group(l, t))) <= l.limit

-----------------------------------------------------------------------------
(* What the repository says and the code does not do.                      *)

\* backend.rs, delete_run: "Check-then-delete is race-free here": only a run
\* that is over is deleted.
DeletesOnlyTerminal ==
    [][\A r \in Runs : status'[r] = "gone" => status[r] \in Terminal \cup {"gone"}]_vars

=============================================================================
