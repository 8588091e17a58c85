--------------------------- MODULE RunQueueProofs ---------------------------
(***************************************************************************)
(* Proofs about RunQueue, for every set of runs, tags, limits and          *)
(* priorities: its type invariant, that no run executes twice and, as long *)
(* as no run is deleted, that a run taken off the queue never executes,    *)
(* that max_concurrent_runs and the tag limits hold and that it implements *)
(* RunService.                                                             *)
(***************************************************************************)
EXTENDS RunQueue, FiniteSetTheorems, TLAPS

USE DEF rows, sweeps, tickv, runv, users, faults, ThreadTo


\* Every step is one of the operations, applied to a run where it takes one.
LEMMA NextCases ==
    ASSUME [Next]_vars
    PROVE  \/ wake
           \/ tick_query
           \/ mark_full
           \/ select_done
           \/ tick_done
           \/ launch_done
           \/ write_error
           \/ sweep_begin
           \/ sweep_done
           \/ restart
           \/ health_begin
           \/ crash
           \/ \E r \in Runs :
                 \/ select(r)
                 \/ write_not_started(r)
                 \/ launch(r)
                 \/ check_run_health(r)
                 \/ mark_missing(r)
                 \/ sweep_stalled(r)
                 \/ launch_prepared_job(r)
                 \/ try_start_run(r)
                 \/ begin_work(r)
                 \/ end_work(r)
                 \/ finalize_read(r)
                 \/ finalize_write(r)
                 \/ mark_run_launch_failed(r)
                 \/ start_timeout_passes(r)
                 \/ enqueue_run(r)
                 \/ request_cancellation(r)
                 \/ cancel_queued_run(r)
                 \/ terminate_run(r)
                 \/ handle_cancel_read(r)
                 \/ handle_cancel_write(r)
                 \/ r \in DeleteRuns /\ delete_run_check(r)
                 \/ delete_run_rows(r)
           \/ UNCHANGED vars
  BY QueueAssumption DEF Next, CoordNext, ThreadNext, UserNext

-----------------------------------------------------------------------------
(* Types.                                                                  *)

\* Every operation keeps every table and local in its range.
LEMMA TypeStep ==
    ASSUME TypeOK, [Next]_vars
    PROVE  TypeOK'
<1> USE QueueAssumption DEF TypeOK, Terminal, Active, Statuses, Threads, CoordPCs
<1>1. CASE wake
  BY <1>1 DEF wake
<1>2. CASE tick_query
  BY <1>2 DEF tick_query, in_progress_runs, queued_runs
<1>3. CASE mark_full
  BY <1>3 DEF mark_full
<1>4. CASE select_done
  BY <1>4 DEF select_done
<1>5. CASE tick_done
  BY <1>5 DEF tick_done
<1>6. CASE launch_done
  BY <1>6 DEF launch_done
<1>7. CASE write_error
  BY <1>7 DEF write_error
<1>8. CASE sweep_begin
  BY <1>8 DEF sweep_begin
<1>9. CASE sweep_done
  BY <1>9 DEF sweep_done
<1>10. CASE restart
  BY <1>10 DEF restart
<1>11. CASE health_begin
  BY <1>11 DEF health_begin
<1>12. CASE crash
  BY <1>12 DEF crash
<1>13. ASSUME NEW r \in Runs, select(r) PROVE TypeOK'
  BY <1>13 DEF select
<1>14. ASSUME NEW r \in Runs, write_not_started(r) PROVE TypeOK'
  BY <1>14 DEF write_not_started, First, update_run_status, HasRow
<1>15. ASSUME NEW r \in Runs, launch(r) PROVE TypeOK'
  BY <1>15 DEF launch, First, fail_run_if_active
<1>16. ASSUME NEW r \in Runs, check_run_health(r) PROVE TypeOK'
  BY <1>16 DEF check_run_health
<1>17. ASSUME NEW r \in Runs, mark_missing(r) PROVE TypeOK'
  BY <1>17 DEF mark_missing, update_run_status, HasRow
<1>18. ASSUME NEW r \in Runs, sweep_stalled(r) PROVE TypeOK'
  BY <1>18 DEF sweep_stalled, fail_run_if_active
<1>19. ASSUME NEW r \in Runs, launch_prepared_job(r) PROVE TypeOK'
  BY <1>19 DEF launch_prepared_job, HasRow
<1>20. ASSUME NEW r \in Runs, try_start_run(r) PROVE TypeOK'
  BY <1>20 DEF try_start_run, update_run_status, HasRow
<1>21. ASSUME NEW r \in Runs, begin_work(r) PROVE TypeOK'
  BY <1>21 DEF begin_work
<1>22. ASSUME NEW r \in Runs, end_work(r) PROVE TypeOK'
  BY <1>22 DEF end_work
<1>23. ASSUME NEW r \in Runs, finalize_read(r) PROVE TypeOK'
  BY <1>23 DEF finalize_read
<1>24. ASSUME NEW r \in Runs, finalize_write(r) PROVE TypeOK'
  BY <1>24 DEF finalize_write, update_run_status, HasRow
<1>25. ASSUME NEW r \in Runs, mark_run_launch_failed(r) PROVE TypeOK'
  BY <1>25 DEF mark_run_launch_failed, fail_run_if_active
<1>26. ASSUME NEW r \in Runs, start_timeout_passes(r) PROVE TypeOK'
  BY <1>26 DEF start_timeout_passes
<1>27. ASSUME NEW r \in Runs, enqueue_run(r) PROVE TypeOK'
  BY <1>27 DEF enqueue_run
<1>28. ASSUME NEW r \in Runs, request_cancellation(r) PROVE TypeOK'
  BY <1>28 DEF request_cancellation
<1>29. ASSUME NEW r \in Runs, cancel_queued_run(r) PROVE TypeOK'
  BY <1>29 DEF cancel_queued_run
<1>30. ASSUME NEW r \in Runs, terminate_run(r) PROVE TypeOK'
  BY <1>30 DEF terminate_run
<1>31. ASSUME NEW r \in Runs, handle_cancel_read(r) PROVE TypeOK'
  BY <1>31 DEF handle_cancel_read
<1>32. ASSUME NEW r \in Runs, handle_cancel_write(r) PROVE TypeOK'
  BY <1>32 DEF handle_cancel_write, update_run_status, HasRow
<1>33. ASSUME NEW r \in Runs, r \in DeleteRuns, delete_run_check(r) PROVE TypeOK'
  BY <1>33 DEF delete_run_check
<1>34. ASSUME NEW r \in Runs, delete_run_rows(r) PROVE TypeOK'
  BY <1>34 DEF delete_run_rows, HasRow
<1>35. CASE UNCHANGED vars
  BY <1>35 DEF vars
<1> QED
  BY <1>1, <1>2, <1>3, <1>4, <1>5, <1>6, <1>7, <1>8, <1>9, <1>10, <1>11,
     <1>12, <1>13, <1>14, <1>15, <1>16, <1>17, <1>18, <1>19, <1>20, <1>21,
     <1>22, <1>23, <1>24, <1>25, <1>26, <1>27, <1>28, <1>29, <1>30, <1>31,
     <1>32, <1>33, <1>34, <1>35, NextCases

\* The run table, the coordinator's locals, the run threads and the users'
\* requests stay in their ranges, crashes and failed writes included.
THEOREM TypeCorrect == Spec => []TypeOK
<1>1. Init => TypeOK
  BY QueueAssumption DEF Init, TypeOK, Terminal, Active, Statuses, Threads, CoordPCs
<1> QED BY <1>1, TypeStep, PTL DEF Spec

-----------------------------------------------------------------------------
(* No run executes twice.                                                  *)

\* The tick's lists are empty except where its loop uses them.
LEMMA ListsStep ==
    ASSUME TypeOK, ListsFollowLoop, [Next]_vars
    PROVE  ListsFollowLoop'
<1> USE DEF ListsFollowLoop
<1>1. CASE wake
  BY <1>1 DEF wake
<1>2. CASE tick_query
  BY <1>2 DEF tick_query, in_progress_runs, queued_runs
<1>3. CASE mark_full
  BY <1>3 DEF mark_full
<1>4. CASE select_done
  BY <1>4 DEF select_done
<1>5. CASE tick_done
  BY <1>5 DEF tick_done
<1>6. CASE launch_done
  BY <1>6 DEF launch_done
<1>7. CASE write_error
  BY <1>7 DEF write_error
<1>8. CASE sweep_begin
  BY <1>8 DEF sweep_begin
<1>9. CASE sweep_done
  BY <1>9 DEF sweep_done
<1>10. CASE restart
  BY <1>10 DEF restart
<1>11. CASE health_begin
  BY <1>11 DEF health_begin
<1>12. CASE crash
  BY <1>12 DEF crash
<1>13. ASSUME NEW r \in Runs, select(r) PROVE ListsFollowLoop'
  BY <1>13 DEF select
<1>14. ASSUME NEW r \in Runs, write_not_started(r) PROVE ListsFollowLoop'
  BY <1>14 DEF write_not_started, First, update_run_status, HasRow
<1>15. ASSUME NEW r \in Runs, launch(r) PROVE ListsFollowLoop'
  BY <1>15 DEF launch, First, fail_run_if_active
<1>16. ASSUME NEW r \in Runs, check_run_health(r) PROVE ListsFollowLoop'
  BY <1>16 DEF check_run_health
<1>17. ASSUME NEW r \in Runs, mark_missing(r) PROVE ListsFollowLoop'
  BY <1>17 DEF mark_missing, update_run_status, HasRow
<1>18. ASSUME NEW r \in Runs, sweep_stalled(r) PROVE ListsFollowLoop'
  BY <1>18 DEF sweep_stalled, fail_run_if_active
<1>19. ASSUME NEW r \in Runs, launch_prepared_job(r) PROVE ListsFollowLoop'
  BY <1>19 DEF launch_prepared_job, HasRow
<1>20. ASSUME NEW r \in Runs, try_start_run(r) PROVE ListsFollowLoop'
  BY <1>20 DEF try_start_run, update_run_status, HasRow
<1>21. ASSUME NEW r \in Runs, begin_work(r) PROVE ListsFollowLoop'
  BY <1>21 DEF begin_work
<1>22. ASSUME NEW r \in Runs, end_work(r) PROVE ListsFollowLoop'
  BY <1>22 DEF end_work
<1>23. ASSUME NEW r \in Runs, finalize_read(r) PROVE ListsFollowLoop'
  BY <1>23 DEF finalize_read
<1>24. ASSUME NEW r \in Runs, finalize_write(r) PROVE ListsFollowLoop'
  BY <1>24 DEF finalize_write, update_run_status, HasRow
<1>25. ASSUME NEW r \in Runs, mark_run_launch_failed(r) PROVE ListsFollowLoop'
  BY <1>25 DEF mark_run_launch_failed, fail_run_if_active
<1>26. ASSUME NEW r \in Runs, start_timeout_passes(r) PROVE ListsFollowLoop'
  BY <1>26 DEF start_timeout_passes
<1>27. ASSUME NEW r \in Runs, enqueue_run(r) PROVE ListsFollowLoop'
  BY <1>27 DEF enqueue_run
<1>28. ASSUME NEW r \in Runs, request_cancellation(r) PROVE ListsFollowLoop'
  BY <1>28 DEF request_cancellation
<1>29. ASSUME NEW r \in Runs, cancel_queued_run(r) PROVE ListsFollowLoop'
  BY <1>29 DEF cancel_queued_run
<1>30. ASSUME NEW r \in Runs, terminate_run(r) PROVE ListsFollowLoop'
  BY <1>30 DEF terminate_run
<1>31. ASSUME NEW r \in Runs, handle_cancel_read(r) PROVE ListsFollowLoop'
  BY <1>31 DEF handle_cancel_read
<1>32. ASSUME NEW r \in Runs, handle_cancel_write(r) PROVE ListsFollowLoop'
  BY <1>32 DEF handle_cancel_write, update_run_status, HasRow
<1>33. ASSUME NEW r \in Runs, r \in DeleteRuns, delete_run_check(r) PROVE ListsFollowLoop'
  BY <1>33 DEF delete_run_check
<1>34. ASSUME NEW r \in Runs, delete_run_rows(r) PROVE ListsFollowLoop'
  BY <1>34 DEF delete_run_rows, HasRow
<1>35. CASE UNCHANGED vars
  BY <1>35 DEF vars
<1> QED
  BY <1>1, <1>2, <1>3, <1>4, <1>5, <1>6, <1>7, <1>8, <1>9, <1>10, <1>11,
     <1>12, <1>13, <1>14, <1>15, <1>16, <1>17, <1>18, <1>19, <1>20, <1>21,
     <1>22, <1>23, <1>24, <1>25, <1>26, <1>27, <1>28, <1>29, <1>30, <1>31,
     <1>32, <1>33, <1>34, <1>35, NextCases

\* A run the queue may still start has neither thread nor work behind it.
LEMMA FreshStep ==
    ASSUME OnceInv, [Next]_vars, NEW q \in Runs
    PROVE  Fresh(q)'
<1> USE DEF OnceInv, TypeOK, ListsFollowLoop, Fresh, Selected, Terminal, Active, Statuses, Threads
<1>1. CASE wake
  BY <1>1 DEF wake
<1>2. CASE tick_query
  BY <1>2 DEF tick_query, in_progress_runs, queued_runs
<1>3. CASE mark_full
  BY <1>3 DEF mark_full
<1>4. CASE select_done
  BY <1>4 DEF select_done
<1>5. CASE tick_done
  BY <1>5 DEF tick_done
<1>6. CASE launch_done
  BY <1>6 DEF launch_done
<1>7. CASE write_error
  BY <1>7 DEF write_error
<1>8. CASE sweep_begin
  BY <1>8 DEF sweep_begin
<1>9. CASE sweep_done
  BY <1>9 DEF sweep_done
<1>10. CASE restart
  BY <1>10 DEF restart
<1>11. CASE health_begin
  BY <1>11 DEF health_begin
<1>12. CASE crash
  BY <1>12 DEF crash
<1>13. ASSUME NEW r \in Runs, select(r) PROVE Fresh(q)'
  <2>1. /\ r \in scan /\ scan' = scan \ {r} /\ picked' \in {picked, picked \cup {r}}
        /\ UNCHANGED <<status, launching, works, thread, verdict>>
    BY <1>13 DEF select, First
  <2>2. Selected' \subseteq Selected
    BY <2>1
  <2> HIDE DEF Selected
  <2> QED BY <2>1, <2>2
<1>14. ASSUME NEW r \in Runs, write_not_started(r) PROVE Fresh(q)'
  BY <1>14 DEF write_not_started, First, update_run_status, HasRow
<1>15. ASSUME NEW r \in Runs, launch(r) PROVE Fresh(q)'
  BY <1>15 DEF launch, First, fail_run_if_active
<1>16. ASSUME NEW r \in Runs, check_run_health(r) PROVE Fresh(q)'
  BY <1>16 DEF check_run_health
<1>17. ASSUME NEW r \in Runs, mark_missing(r) PROVE Fresh(q)'
  BY <1>17 DEF mark_missing, update_run_status, HasRow
<1>18. ASSUME NEW r \in Runs, sweep_stalled(r) PROVE Fresh(q)'
  BY <1>18 DEF sweep_stalled, fail_run_if_active
<1>19. ASSUME NEW r \in Runs, launch_prepared_job(r) PROVE Fresh(q)'
  BY <1>19 DEF launch_prepared_job, HasRow
<1>20. ASSUME NEW r \in Runs, try_start_run(r) PROVE Fresh(q)'
  BY <1>20 DEF try_start_run, update_run_status, HasRow
<1>21. ASSUME NEW r \in Runs, begin_work(r) PROVE Fresh(q)'
  BY <1>21 DEF begin_work
<1>22. ASSUME NEW r \in Runs, end_work(r) PROVE Fresh(q)'
  BY <1>22 DEF end_work
<1>23. ASSUME NEW r \in Runs, finalize_read(r) PROVE Fresh(q)'
  BY <1>23 DEF finalize_read
<1>24. ASSUME NEW r \in Runs, finalize_write(r) PROVE Fresh(q)'
  BY <1>24 DEF finalize_write, update_run_status, HasRow
<1>25. ASSUME NEW r \in Runs, mark_run_launch_failed(r) PROVE Fresh(q)'
  BY <1>25 DEF mark_run_launch_failed, fail_run_if_active
<1>26. ASSUME NEW r \in Runs, start_timeout_passes(r) PROVE Fresh(q)'
  BY <1>26 DEF start_timeout_passes
<1>27. ASSUME NEW r \in Runs, enqueue_run(r) PROVE Fresh(q)'
  BY <1>27 DEF enqueue_run
<1>28. ASSUME NEW r \in Runs, request_cancellation(r) PROVE Fresh(q)'
  BY <1>28 DEF request_cancellation
<1>29. ASSUME NEW r \in Runs, cancel_queued_run(r) PROVE Fresh(q)'
  BY <1>29 DEF cancel_queued_run
<1>30. ASSUME NEW r \in Runs, terminate_run(r) PROVE Fresh(q)'
  BY <1>30 DEF terminate_run
<1>31. ASSUME NEW r \in Runs, handle_cancel_read(r) PROVE Fresh(q)'
  BY <1>31 DEF handle_cancel_read
<1>32. ASSUME NEW r \in Runs, handle_cancel_write(r) PROVE Fresh(q)'
  BY <1>32 DEF handle_cancel_write, update_run_status, HasRow
<1>33. ASSUME NEW r \in Runs, r \in DeleteRuns, delete_run_check(r) PROVE Fresh(q)'
  BY <1>33 DEF delete_run_check
<1>34. ASSUME NEW r \in Runs, delete_run_rows(r) PROVE Fresh(q)'
  BY <1>34 DEF delete_run_rows, HasRow
<1>35. CASE UNCHANGED vars
  BY <1>35 DEF vars
<1> QED
  BY <1>1, <1>2, <1>3, <1>4, <1>5, <1>6, <1>7, <1>8, <1>9, <1>10, <1>11,
     <1>12, <1>13, <1>14, <1>15, <1>16, <1>17, <1>18, <1>19, <1>20, <1>21,
     <1>22, <1>23, <1>24, <1>25, <1>26, <1>27, <1>28, <1>29, <1>30, <1>31,
     <1>32, <1>33, <1>34, <1>35, NextCases

LEMMA OnceInvHolds == Spec => []OnceInv
<1>1. Init => OnceInv
  <2> SUFFICES ASSUME Init PROVE OnceInv
    OBVIOUS
  <2>1. TypeOK
    BY QueueAssumption DEF Init, TypeOK, Terminal, Active, Statuses, Threads, CoordPCs
  <2> QED BY <2>1 DEF Init, OnceInv, ListsFollowLoop, Fresh, Selected, Terminal
<1>2. OnceInv /\ [Next]_vars => OnceInv'
  BY TypeStep, ListsStep, FreshStep DEF OnceInv
<1> QED BY <1>1, <1>2, PTL DEF Spec

\* No run begins to execute twice, whatever crashes between dequeue, launch,
\* start and the final write, and whoever cancels or deletes it meanwhile
\* (coordinator_tick_query, launch, try_start_run).
THEOREM WorksAtMostOnceHolds == Spec => []WorksAtMostOnce
<1>1. OnceInv => WorksAtMostOnce
  BY DEF OnceInv, Fresh, WorksAtMostOnce
<1> QED BY <1>1, OnceInvHolds, PTL

-----------------------------------------------------------------------------
(* Canceled runs, as long as no run is deleted.                            *)

\* Without deletions no row disappears.
LEMMA DeletingStep ==
    ASSUME DeleteRuns = {}, CancelInv, [Next]_vars
    PROVE  deleting' = {}
<1> USE DEF CancelInv
<1>1. CASE wake
  BY <1>1 DEF wake
<1>2. CASE tick_query
  BY <1>2 DEF tick_query, in_progress_runs, queued_runs
<1>3. CASE mark_full
  BY <1>3 DEF mark_full
<1>4. CASE select_done
  BY <1>4 DEF select_done
<1>5. CASE tick_done
  BY <1>5 DEF tick_done
<1>6. CASE launch_done
  BY <1>6 DEF launch_done
<1>7. CASE write_error
  BY <1>7 DEF write_error
<1>8. CASE sweep_begin
  BY <1>8 DEF sweep_begin
<1>9. CASE sweep_done
  BY <1>9 DEF sweep_done
<1>10. CASE restart
  BY <1>10 DEF restart
<1>11. CASE health_begin
  BY <1>11 DEF health_begin
<1>12. CASE crash
  BY <1>12 DEF crash
<1>13. ASSUME NEW r \in Runs, select(r) PROVE deleting' = {}
  BY <1>13 DEF select
<1>14. ASSUME NEW r \in Runs, write_not_started(r) PROVE deleting' = {}
  BY <1>14 DEF write_not_started, First, update_run_status, HasRow
<1>15. ASSUME NEW r \in Runs, launch(r) PROVE deleting' = {}
  BY <1>15 DEF launch, First, fail_run_if_active
<1>16. ASSUME NEW r \in Runs, check_run_health(r) PROVE deleting' = {}
  BY <1>16 DEF check_run_health
<1>17. ASSUME NEW r \in Runs, mark_missing(r) PROVE deleting' = {}
  BY <1>17 DEF mark_missing, update_run_status, HasRow
<1>18. ASSUME NEW r \in Runs, sweep_stalled(r) PROVE deleting' = {}
  BY <1>18 DEF sweep_stalled, fail_run_if_active
<1>19. ASSUME NEW r \in Runs, launch_prepared_job(r) PROVE deleting' = {}
  BY <1>19 DEF launch_prepared_job, HasRow
<1>20. ASSUME NEW r \in Runs, try_start_run(r) PROVE deleting' = {}
  BY <1>20 DEF try_start_run, update_run_status, HasRow
<1>21. ASSUME NEW r \in Runs, begin_work(r) PROVE deleting' = {}
  BY <1>21 DEF begin_work
<1>22. ASSUME NEW r \in Runs, end_work(r) PROVE deleting' = {}
  BY <1>22 DEF end_work
<1>23. ASSUME NEW r \in Runs, finalize_read(r) PROVE deleting' = {}
  BY <1>23 DEF finalize_read
<1>24. ASSUME NEW r \in Runs, finalize_write(r) PROVE deleting' = {}
  BY <1>24 DEF finalize_write, update_run_status, HasRow
<1>25. ASSUME NEW r \in Runs, mark_run_launch_failed(r) PROVE deleting' = {}
  BY <1>25 DEF mark_run_launch_failed, fail_run_if_active
<1>26. ASSUME NEW r \in Runs, start_timeout_passes(r) PROVE deleting' = {}
  BY <1>26 DEF start_timeout_passes
<1>27. ASSUME NEW r \in Runs, enqueue_run(r) PROVE deleting' = {}
  BY <1>27 DEF enqueue_run
<1>28. ASSUME NEW r \in Runs, request_cancellation(r) PROVE deleting' = {}
  BY <1>28 DEF request_cancellation
<1>29. ASSUME NEW r \in Runs, cancel_queued_run(r) PROVE deleting' = {}
  BY <1>29 DEF cancel_queued_run
<1>30. ASSUME NEW r \in Runs, terminate_run(r) PROVE deleting' = {}
  BY <1>30 DEF terminate_run
<1>31. ASSUME NEW r \in Runs, handle_cancel_read(r) PROVE deleting' = {}
  BY <1>31 DEF handle_cancel_read
<1>32. ASSUME NEW r \in Runs, handle_cancel_write(r) PROVE deleting' = {}
  BY <1>32 DEF handle_cancel_write, update_run_status, HasRow
<1>33. ASSUME NEW r \in Runs, r \in DeleteRuns, delete_run_check(r) PROVE deleting' = {}
  BY <1>33
<1>34. ASSUME NEW r \in Runs, delete_run_rows(r) PROVE deleting' = {}
  BY <1>34 DEF delete_run_rows, HasRow
<1>35. CASE UNCHANGED vars
  BY <1>35 DEF vars
<1> QED
  BY <1>1, <1>2, <1>3, <1>4, <1>5, <1>6, <1>7, <1>8, <1>9, <1>10, <1>11,
     <1>12, <1>13, <1>14, <1>15, <1>16, <1>17, <1>18, <1>19, <1>20, <1>21,
     <1>22, <1>23, <1>24, <1>25, <1>26, <1>27, <1>28, <1>29, <1>30, <1>31,
     <1>32, <1>33, <1>34, <1>35, NextCases

\* The flag is written before a run is taken off the queue, and stays.
LEMMA FlaggedStep ==
    ASSUME DeleteRuns = {}, CancelInv, [Next]_vars, NEW q \in Runs
    PROVE  Flagged(q)'
<1> USE DEF CancelInv, OnceInv, Fresh, Flagged, TypeOK, Terminal, Active, Statuses
<1>1. CASE wake
  BY <1>1 DEF wake
<1>2. CASE tick_query
  BY <1>2 DEF tick_query, in_progress_runs, queued_runs
<1>3. CASE mark_full
  BY <1>3 DEF mark_full
<1>4. CASE select_done
  BY <1>4 DEF select_done
<1>5. CASE tick_done
  BY <1>5 DEF tick_done
<1>6. CASE launch_done
  BY <1>6 DEF launch_done
<1>7. CASE write_error
  BY <1>7 DEF write_error
<1>8. CASE sweep_begin
  BY <1>8 DEF sweep_begin
<1>9. CASE sweep_done
  BY <1>9 DEF sweep_done
<1>10. CASE restart
  BY <1>10 DEF restart
<1>11. CASE health_begin
  BY <1>11 DEF health_begin
<1>12. CASE crash
  BY <1>12 DEF crash
<1>13. ASSUME NEW r \in Runs, select(r) PROVE Flagged(q)'
  BY <1>13 DEF select
<1>14. ASSUME NEW r \in Runs, write_not_started(r) PROVE Flagged(q)'
  BY <1>14 DEF write_not_started, First, update_run_status, HasRow
<1>15. ASSUME NEW r \in Runs, launch(r) PROVE Flagged(q)'
  BY <1>15 DEF launch, First, fail_run_if_active
<1>16. ASSUME NEW r \in Runs, check_run_health(r) PROVE Flagged(q)'
  BY <1>16 DEF check_run_health
<1>17. ASSUME NEW r \in Runs, mark_missing(r) PROVE Flagged(q)'
  BY <1>17 DEF mark_missing, update_run_status, HasRow
<1>18. ASSUME NEW r \in Runs, sweep_stalled(r) PROVE Flagged(q)'
  BY <1>18 DEF sweep_stalled, fail_run_if_active
<1>19. ASSUME NEW r \in Runs, launch_prepared_job(r) PROVE Flagged(q)'
  BY <1>19 DEF launch_prepared_job, HasRow
<1>20. ASSUME NEW r \in Runs, try_start_run(r) PROVE Flagged(q)'
  BY <1>20 DEF try_start_run, update_run_status, HasRow
<1>21. ASSUME NEW r \in Runs, begin_work(r) PROVE Flagged(q)'
  BY <1>21 DEF begin_work
<1>22. ASSUME NEW r \in Runs, end_work(r) PROVE Flagged(q)'
  BY <1>22 DEF end_work
<1>23. ASSUME NEW r \in Runs, finalize_read(r) PROVE Flagged(q)'
  BY <1>23 DEF finalize_read
<1>24. ASSUME NEW r \in Runs, finalize_write(r) PROVE Flagged(q)'
  BY <1>24 DEF finalize_write, update_run_status, HasRow
<1>25. ASSUME NEW r \in Runs, mark_run_launch_failed(r) PROVE Flagged(q)'
  BY <1>25 DEF mark_run_launch_failed, fail_run_if_active
<1>26. ASSUME NEW r \in Runs, start_timeout_passes(r) PROVE Flagged(q)'
  BY <1>26 DEF start_timeout_passes
<1>27. ASSUME NEW r \in Runs, enqueue_run(r) PROVE Flagged(q)'
  BY <1>27 DEF enqueue_run
<1>28. ASSUME NEW r \in Runs, request_cancellation(r) PROVE Flagged(q)'
  BY <1>28 DEF request_cancellation
<1>29. ASSUME NEW r \in Runs, cancel_queued_run(r) PROVE Flagged(q)'
  BY <1>29 DEF cancel_queued_run
<1>30. ASSUME NEW r \in Runs, terminate_run(r) PROVE Flagged(q)'
  BY <1>30 DEF terminate_run
<1>31. ASSUME NEW r \in Runs, handle_cancel_read(r) PROVE Flagged(q)'
  BY <1>31 DEF handle_cancel_read
<1>32. ASSUME NEW r \in Runs, handle_cancel_write(r) PROVE Flagged(q)'
  BY <1>32 DEF handle_cancel_write, update_run_status, HasRow
<1>33. ASSUME NEW r \in Runs, r \in DeleteRuns, delete_run_check(r) PROVE Flagged(q)'
  BY <1>33
<1>34. ASSUME NEW r \in Runs, delete_run_rows(r) PROVE Flagged(q)'
  BY <1>34 DEF delete_run_rows
<1>35. CASE UNCHANGED vars
  BY <1>35 DEF vars
<1> QED
  BY <1>1, <1>2, <1>3, <1>4, <1>5, <1>6, <1>7, <1>8, <1>9, <1>10, <1>11,
     <1>12, <1>13, <1>14, <1>15, <1>16, <1>17, <1>18, <1>19, <1>20, <1>21,
     <1>22, <1>23, <1>24, <1>25, <1>26, <1>27, <1>28, <1>29, <1>30, <1>31,
     <1>32, <1>33, <1>34, <1>35, NextCases

LEMMA CancelInvHolds == DeleteRuns = {} => (Spec => []CancelInv)
<1> SUFFICES ASSUME DeleteRuns = {} PROVE Spec => []CancelInv
  OBVIOUS
<1>1. Init /\ OnceInv => CancelInv
  BY DEF Init, CancelInv, Flagged
<1>2. CancelInv /\ OnceInv' /\ [Next]_vars => CancelInv'
  <2> SUFFICES ASSUME CancelInv, OnceInv', [Next]_vars PROVE CancelInv'
    OBVIOUS
  <2>1. deleting' = {}
    BY DeletingStep
  <2>2. \A q \in Runs : Flagged(q)'
    BY FlaggedStep
  <2> QED BY <2>1, <2>2 DEF CancelInv
<1> QED BY <1>1, <1>2, OnceInvHolds, PTL DEF Spec

\* A run that cancel_run took off the queue never executes a step, although
\* the tick's stale write may put it back to NotStarted and launch it.
THEOREM StoppedNeverWorksHolds == DeleteRuns = {} => (Spec => []StoppedNeverWorks)
<1> SUFFICES ASSUME DeleteRuns = {} PROVE Spec => []StoppedNeverWorks
  OBVIOUS
<1>1. CancelInv => StoppedNeverWorks
  BY DEF CancelInv, OnceInv, TypeOK, Flagged, StoppedNeverWorks
<1> QED BY <1>1, CancelInvHolds, PTL

-----------------------------------------------------------------------------
(* max_concurrent_runs, as long as no run is deleted.                      *)

\* A run about to start is in progress already, or canceled; nothing fails it
\* or forgets it before its thread has looked at its row.
LEMMA AdmittedStep ==
    ASSUME DeleteRuns = {}, QueueInv, [Next]_vars, NEW q \in Runs
    PROVE  Admitted(q)'
<1> USE DEF QueueInv, CancelInv, OnceInv, TypeOK, ListsFollowLoop, Fresh, Flagged, Admitted,
            Selected, Terminal, Active, Statuses, Threads
<1>1. CASE wake
  BY <1>1 DEF wake
<1>2. CASE tick_query
  BY <1>2 DEF tick_query, in_progress_runs, queued_runs
<1>3. CASE mark_full
  BY <1>3 DEF mark_full
<1>4. CASE select_done
  BY <1>4 DEF select_done
<1>5. CASE tick_done
  BY <1>5 DEF tick_done
<1>6. CASE launch_done
  BY <1>6 DEF launch_done
<1>7. CASE write_error
  BY <1>7 DEF write_error
<1>8. CASE sweep_begin
  BY <1>8 DEF sweep_begin
<1>9. CASE sweep_done
  BY <1>9 DEF sweep_done
<1>10. CASE restart
  BY <1>10 DEF restart
<1>11. CASE health_begin
  BY <1>11 DEF health_begin
<1>12. CASE crash
  BY <1>12 DEF crash
<1>13. ASSUME NEW r \in Runs, select(r) PROVE Admitted(q)'
  <2>1. /\ r \in scan /\ scan' = scan \ {r} /\ picked' \in {picked, picked \cup {r}}
        /\ UNCHANGED <<status, launching, thread, entry, cancelling>>
    BY <1>13 DEF select, First
  <2>2. Selected' \subseteq Selected /\ (scan \cup picked)' \subseteq scan \cup picked
    BY <2>1
  <2> HIDE DEF Selected
  <2> QED BY <2>1, <2>2
<1>14. ASSUME NEW r \in Runs, write_not_started(r) PROVE Admitted(q)'
  BY <1>14 DEF write_not_started, First, update_run_status, HasRow
<1>15. ASSUME NEW r \in Runs, launch(r) PROVE Admitted(q)'
  BY <1>15 DEF launch, First, fail_run_if_active
<1>16. ASSUME NEW r \in Runs, check_run_health(r) PROVE Admitted(q)'
  BY <1>16 DEF check_run_health
<1>17. ASSUME NEW r \in Runs, mark_missing(r) PROVE Admitted(q)'
  BY <1>17 DEF mark_missing, update_run_status, HasRow
<1>18. ASSUME NEW r \in Runs, sweep_stalled(r) PROVE Admitted(q)'
  BY <1>18 DEF sweep_stalled, Unowned, fail_run_if_active
<1>19. ASSUME NEW r \in Runs, launch_prepared_job(r) PROVE Admitted(q)'
  BY <1>19 DEF launch_prepared_job, HasRow
<1>20. ASSUME NEW r \in Runs, try_start_run(r) PROVE Admitted(q)'
  BY <1>20 DEF try_start_run, update_run_status, HasRow
<1>21. ASSUME NEW r \in Runs, begin_work(r) PROVE Admitted(q)'
  BY <1>21 DEF begin_work
<1>22. ASSUME NEW r \in Runs, end_work(r) PROVE Admitted(q)'
  BY <1>22 DEF end_work
<1>23. ASSUME NEW r \in Runs, finalize_read(r) PROVE Admitted(q)'
  BY <1>23 DEF finalize_read
<1>24. ASSUME NEW r \in Runs, finalize_write(r) PROVE Admitted(q)'
  BY <1>24 DEF finalize_write, update_run_status, HasRow
<1>25. ASSUME NEW r \in Runs, mark_run_launch_failed(r) PROVE Admitted(q)'
  BY <1>25 DEF mark_run_launch_failed, fail_run_if_active
<1>26. ASSUME NEW r \in Runs, start_timeout_passes(r) PROVE Admitted(q)'
  BY <1>26 DEF start_timeout_passes
<1>27. ASSUME NEW r \in Runs, enqueue_run(r) PROVE Admitted(q)'
  BY <1>27 DEF enqueue_run
<1>28. ASSUME NEW r \in Runs, request_cancellation(r) PROVE Admitted(q)'
  BY <1>28 DEF request_cancellation
<1>29. ASSUME NEW r \in Runs, cancel_queued_run(r) PROVE Admitted(q)'
  BY <1>29 DEF cancel_queued_run
<1>30. ASSUME NEW r \in Runs, terminate_run(r) PROVE Admitted(q)'
  BY <1>30 DEF terminate_run
<1>31. ASSUME NEW r \in Runs, handle_cancel_read(r) PROVE Admitted(q)'
  BY <1>31 DEF handle_cancel_read
<1>32. ASSUME NEW r \in Runs, handle_cancel_write(r) PROVE Admitted(q)'
  BY <1>32 DEF handle_cancel_write, update_run_status, HasRow
<1>33. ASSUME NEW r \in Runs, r \in DeleteRuns, delete_run_check(r) PROVE Admitted(q)'
  BY <1>33
<1>34. ASSUME NEW r \in Runs, delete_run_rows(r) PROVE Admitted(q)'
  BY <1>34 DEF delete_run_rows
<1>35. CASE UNCHANGED vars
  BY <1>35 DEF vars
<1> QED
  BY <1>1, <1>2, <1>3, <1>4, <1>5, <1>6, <1>7, <1>8, <1>9, <1>10, <1>11,
     <1>12, <1>13, <1>14, <1>15, <1>16, <1>17, <1>18, <1>19, <1>20, <1>21,
     <1>22, <1>23, <1>24, <1>25, <1>26, <1>27, <1>28, <1>29, <1>30, <1>31,
     <1>32, <1>33, <1>34, <1>35, NextCases


\* Only the tick's write adds a run to the runs in progress.
LEMMA ProgressStep ==
    ASSUME DeleteRuns = {}, QueueInv, [Next]_vars,
           ~ \E r \in Runs : write_not_started(r)
    PROVE  InProgress' \subseteq InProgress
<1> SUFFICES ASSUME NEW q \in Runs, q \in InProgress'
             PROVE  q \in InProgress
  BY DEF InProgress
<1> USE DEF QueueInv, CancelInv, OnceInv, TypeOK, Fresh, Flagged, Admitted, InProgress,
            Terminal, Active, Statuses, Threads
<1>1. CASE wake
  BY <1>1 DEF wake
<1>2. CASE tick_query
  BY <1>2 DEF tick_query, in_progress_runs, queued_runs
<1>3. CASE mark_full
  BY <1>3 DEF mark_full
<1>4. CASE select_done
  BY <1>4 DEF select_done
<1>5. CASE tick_done
  BY <1>5 DEF tick_done
<1>6. CASE launch_done
  BY <1>6 DEF launch_done
<1>7. CASE write_error
  BY <1>7 DEF write_error
<1>8. CASE sweep_begin
  BY <1>8 DEF sweep_begin
<1>9. CASE sweep_done
  BY <1>9 DEF sweep_done
<1>10. CASE restart
  BY <1>10 DEF restart
<1>11. CASE health_begin
  BY <1>11 DEF health_begin
<1>12. CASE crash
  BY <1>12 DEF crash
<1>13. ASSUME NEW r \in Runs, select(r) PROVE q \in InProgress
  BY <1>13 DEF select
<1>14. ASSUME NEW r \in Runs, write_not_started(r) PROVE q \in InProgress
  BY <1>14
<1>15. ASSUME NEW r \in Runs, launch(r) PROVE q \in InProgress
  BY <1>15 DEF launch, First, fail_run_if_active
<1>16. ASSUME NEW r \in Runs, check_run_health(r) PROVE q \in InProgress
  BY <1>16 DEF check_run_health
<1>17. ASSUME NEW r \in Runs, mark_missing(r) PROVE q \in InProgress
  BY <1>17 DEF mark_missing, update_run_status, HasRow
<1>18. ASSUME NEW r \in Runs, sweep_stalled(r) PROVE q \in InProgress
  BY <1>18 DEF sweep_stalled, fail_run_if_active
<1>19. ASSUME NEW r \in Runs, launch_prepared_job(r) PROVE q \in InProgress
  BY <1>19 DEF launch_prepared_job, HasRow
<1>20. ASSUME NEW r \in Runs, try_start_run(r) PROVE q \in InProgress
  BY <1>20 DEF try_start_run, update_run_status, HasRow
<1>21. ASSUME NEW r \in Runs, begin_work(r) PROVE q \in InProgress
  BY <1>21 DEF begin_work
<1>22. ASSUME NEW r \in Runs, end_work(r) PROVE q \in InProgress
  BY <1>22 DEF end_work
<1>23. ASSUME NEW r \in Runs, finalize_read(r) PROVE q \in InProgress
  BY <1>23 DEF finalize_read
<1>24. ASSUME NEW r \in Runs, finalize_write(r) PROVE q \in InProgress
  BY <1>24 DEF finalize_write, update_run_status, HasRow
<1>25. ASSUME NEW r \in Runs, mark_run_launch_failed(r) PROVE q \in InProgress
  BY <1>25 DEF mark_run_launch_failed, fail_run_if_active
<1>26. ASSUME NEW r \in Runs, start_timeout_passes(r) PROVE q \in InProgress
  BY <1>26 DEF start_timeout_passes
<1>27. ASSUME NEW r \in Runs, enqueue_run(r) PROVE q \in InProgress
  BY <1>27 DEF enqueue_run
<1>28. ASSUME NEW r \in Runs, request_cancellation(r) PROVE q \in InProgress
  BY <1>28 DEF request_cancellation
<1>29. ASSUME NEW r \in Runs, cancel_queued_run(r) PROVE q \in InProgress
  BY <1>29 DEF cancel_queued_run
<1>30. ASSUME NEW r \in Runs, terminate_run(r) PROVE q \in InProgress
  BY <1>30 DEF terminate_run
<1>31. ASSUME NEW r \in Runs, handle_cancel_read(r) PROVE q \in InProgress
  BY <1>31 DEF handle_cancel_read
<1>32. ASSUME NEW r \in Runs, handle_cancel_write(r) PROVE q \in InProgress
  BY <1>32 DEF handle_cancel_write, update_run_status, HasRow
<1>33. ASSUME NEW r \in Runs, r \in DeleteRuns, delete_run_check(r) PROVE q \in InProgress
  BY <1>33
<1>34. ASSUME NEW r \in Runs, delete_run_rows(r) PROVE q \in InProgress
  BY <1>34 DEF delete_run_rows
<1>35. CASE UNCHANGED vars
  BY <1>35 DEF vars
<1> QED
  BY <1>1, <1>2, <1>3, <1>4, <1>5, <1>6, <1>7, <1>8, <1>9, <1>10, <1>11,
     <1>12, <1>13, <1>14, <1>15, <1>16, <1>17, <1>18, <1>19, <1>20, <1>21,
     <1>22, <1>23, <1>24, <1>25, <1>26, <1>27, <1>28, <1>29, <1>30, <1>31,
     <1>32, <1>33, <1>34, <1>35, NextCases

\* The tick's lists change only in the tick.
LEMMA TickStep ==
    ASSUME QueueInv, [Next]_vars, cpc' \in {"select", "write"}, ~ tick_query,
           ~ \E r \in Runs : select(r) \/ write_not_started(r)
    PROVE  cpc \in {"select", "write"} /\ UNCHANGED <<seen, picked, launching>>
<1> DEFINE Goal == cpc \in {"select", "write"} /\ UNCHANGED <<seen, picked, launching>>
<1>1. CASE wake
  BY <1>1 DEF wake
<1>2. CASE tick_query
  BY <1>2
<1>3. CASE mark_full
  BY <1>3 DEF mark_full
<1>4. CASE select_done
  BY <1>4 DEF select_done
<1>5. CASE tick_done
  BY <1>5 DEF tick_done
<1>6. CASE launch_done
  BY <1>6 DEF launch_done
<1>7. CASE write_error
  BY <1>7 DEF write_error
<1>8. CASE sweep_begin
  BY <1>8 DEF sweep_begin
<1>9. CASE sweep_done
  BY <1>9 DEF sweep_done
<1>10. CASE restart
  BY <1>10 DEF restart
<1>11. CASE health_begin
  BY <1>11 DEF health_begin
<1>12. CASE crash
  BY <1>12 DEF crash
<1>13. ASSUME NEW r \in Runs, select(r) PROVE Goal
  BY <1>13
<1>14. ASSUME NEW r \in Runs, write_not_started(r) PROVE Goal
  BY <1>14
<1>15. ASSUME NEW r \in Runs, launch(r) PROVE Goal
  BY <1>15 DEF launch, First, fail_run_if_active
<1>16. ASSUME NEW r \in Runs, check_run_health(r) PROVE Goal
  BY <1>16 DEF check_run_health
<1>17. ASSUME NEW r \in Runs, mark_missing(r) PROVE Goal
  BY <1>17 DEF mark_missing, update_run_status, HasRow
<1>18. ASSUME NEW r \in Runs, sweep_stalled(r) PROVE Goal
  BY <1>18 DEF sweep_stalled, fail_run_if_active
<1>19. ASSUME NEW r \in Runs, launch_prepared_job(r) PROVE Goal
  BY <1>19 DEF launch_prepared_job, HasRow
<1>20. ASSUME NEW r \in Runs, try_start_run(r) PROVE Goal
  BY <1>20 DEF try_start_run, update_run_status, HasRow
<1>21. ASSUME NEW r \in Runs, begin_work(r) PROVE Goal
  BY <1>21 DEF begin_work
<1>22. ASSUME NEW r \in Runs, end_work(r) PROVE Goal
  BY <1>22 DEF end_work
<1>23. ASSUME NEW r \in Runs, finalize_read(r) PROVE Goal
  BY <1>23 DEF finalize_read
<1>24. ASSUME NEW r \in Runs, finalize_write(r) PROVE Goal
  BY <1>24 DEF finalize_write, update_run_status, HasRow
<1>25. ASSUME NEW r \in Runs, mark_run_launch_failed(r) PROVE Goal
  BY <1>25 DEF mark_run_launch_failed, fail_run_if_active
<1>26. ASSUME NEW r \in Runs, start_timeout_passes(r) PROVE Goal
  BY <1>26 DEF start_timeout_passes
<1>27. ASSUME NEW r \in Runs, enqueue_run(r) PROVE Goal
  BY <1>27 DEF enqueue_run
<1>28. ASSUME NEW r \in Runs, request_cancellation(r) PROVE Goal
  BY <1>28 DEF request_cancellation
<1>29. ASSUME NEW r \in Runs, cancel_queued_run(r) PROVE Goal
  BY <1>29 DEF cancel_queued_run
<1>30. ASSUME NEW r \in Runs, terminate_run(r) PROVE Goal
  BY <1>30 DEF terminate_run
<1>31. ASSUME NEW r \in Runs, handle_cancel_read(r) PROVE Goal
  BY <1>31 DEF handle_cancel_read
<1>32. ASSUME NEW r \in Runs, handle_cancel_write(r) PROVE Goal
  BY <1>32 DEF handle_cancel_write, update_run_status, HasRow
<1>33. ASSUME NEW r \in Runs, r \in DeleteRuns, delete_run_check(r) PROVE Goal
  BY <1>33 DEF delete_run_check
<1>34. ASSUME NEW r \in Runs, delete_run_rows(r) PROVE Goal
  BY <1>34 DEF delete_run_rows, HasRow
<1>35. CASE UNCHANGED vars
  BY <1>35 DEF vars
<1> QED
  BY <1>1, <1>2, <1>3, <1>4, <1>5, <1>6, <1>7, <1>8, <1>9, <1>10, <1>11,
     <1>12, <1>13, <1>14, <1>15, <1>16, <1>17, <1>18, <1>19, <1>20, <1>21,
     <1>22, <1>23, <1>24, <1>25, <1>26, <1>27, <1>28, <1>29, <1>30, <1>31,
     <1>32, <1>33, <1>34, <1>35, NextCases

\* Subsets of Runs are finite.
LEMMA RunsFinite ==
    ASSUME NEW S \in SUBSET Runs, NEW T \in SUBSET S
    PROVE  /\ IsFiniteSet(S) /\ Cardinality(S) \in Nat /\ Cardinality(T) \in Nat
           /\ Cardinality(T) <= Cardinality(S)
<1>1. IsFiniteSet(Runs)
  BY QueueAssumption
<1>2. IsFiniteSet(S)
  BY <1>1, FS_Subset
<1> QED BY <1>2, FS_Subset, FS_CardinalityType

\* One more run picked: a slot was left for it.
LEMMA SelectSeats ==
    ASSUME QueueInv, MaxRuns >= 0, NEW r \in Runs, select(r)
    PROVE  Cardinality((seen \cup picked \cup launching)') <= MaxRuns
<1>1. /\ cpc = "select" /\ picked' \in {picked, picked \cup {r}}
      /\ UNCHANGED <<seen, launching>> /\ ~ NoSlotLeft
  BY DEF select
<1>2. launching = {} /\ MaxRuns \in Int
  BY <1>1, QueueAssumption DEF QueueInv, CancelInv, OnceInv, ListsFollowLoop
<1>3. seen \in SUBSET Runs /\ picked \in SUBSET Runs
  BY DEF QueueInv, CancelInv, OnceInv, TypeOK
<1>4. CASE picked' = picked
  <2>1. Cardinality(seen \cup picked \cup launching) <= MaxRuns
    BY <1>1 DEF QueueInv, Seats
  <2> QED BY <1>1, <1>4, <2>1
<1>5. CASE picked' = picked \cup {r}
  <2>1. Cardinality(picked) < MaxRuns - Cardinality(seen)
    <3>1. /\ IsFiniteSet(picked) /\ IsFiniteSet(seen)
          /\ Cardinality(picked) \in Nat /\ Cardinality(seen) \in Nat
      BY <1>3, RunsFinite
    <3> QED BY <1>1, <1>2, <3>1 DEF NoSlotLeft, slots_available
  <2>2. IsFiniteSet(picked) /\ IsFiniteSet(seen)
    BY <1>3, RunsFinite
  <2>3. /\ IsFiniteSet(picked \cup {r})
        /\ Cardinality(picked \cup {r}) <= Cardinality(picked) + 1
        /\ Cardinality(picked \cup {r}) \in Nat /\ Cardinality(picked) \in Nat
    <3>1. IsFiniteSet(picked \cup {r})
      BY <2>2, FS_AddElement
    <3>2. Cardinality(picked \cup {r}) =
             IF r \in picked THEN Cardinality(picked) ELSE Cardinality(picked) + 1
      BY <2>2, FS_AddElement
    <3>3. Cardinality(picked \cup {r}) \in Nat /\ Cardinality(picked) \in Nat
      BY <3>1, <2>2, FS_CardinalityType
    <3> QED BY <3>1, <3>2, <3>3
  <2>4. Cardinality(seen \cup (picked \cup {r})) <=
           Cardinality(seen) + Cardinality(picked \cup {r})
    <3>1. Cardinality(seen \cup (picked \cup {r})) =
             Cardinality(seen) + Cardinality(picked \cup {r})
             - Cardinality(seen \cap (picked \cup {r}))
      BY <2>2, <2>3, FS_Union
    <3>2. Cardinality(seen \cap (picked \cup {r})) \in Nat
      <4>1. IsFiniteSet(seen \cap (picked \cup {r}))
        BY <2>2, FS_Intersection
      <4> QED BY <4>1, FS_CardinalityType
    <3>3. Cardinality(seen) \in Nat
      BY <2>2, FS_CardinalityType
    <3> QED BY <2>3, <3>1, <3>2, <3>3
  <2>5. (seen \cup picked \cup launching)' = seen \cup (picked \cup {r})
    BY <1>1, <1>2, <1>5
  <2>6. /\ Cardinality(seen) \in Nat
        /\ Cardinality(seen \cup (picked \cup {r})) \in Nat
    <3>1. seen \cup (picked \cup {r}) \in SUBSET Runs
      BY <1>3
    <3> QED BY <1>3, <3>1, RunsFinite
  <2>7. Cardinality(seen \cup (picked \cup {r})) <= MaxRuns
    BY <1>2, <2>1, <2>3, <2>4, <2>6
  <2> QED BY <2>5, <2>7
<1> QED BY <1>1, <1>4, <1>5

\* The tick never hands out more than it has.
LEMMA SeatsStep ==
    ASSUME DeleteRuns = {}, QueueInv, TypeOK', [Next]_vars
    PROVE  Seats'
<1> SUFFICES ASSUME MaxRuns >= 0
             PROVE  /\ Cardinality(InProgress') <= MaxRuns
                    /\ cpc' \in {"select", "write"} =>
                          /\ InProgress' \subseteq (seen \cup launching)'
                          /\ Cardinality((seen \cup picked \cup launching)') <= MaxRuns
  BY DEF Seats
<1>0. MaxRuns \in Int
  BY QueueAssumption
<1>1. /\ InProgress \in SUBSET Runs
      /\ seen \in SUBSET Runs /\ picked \in SUBSET Runs /\ launching \in SUBSET Runs
  BY DEF InProgress, QueueInv, CancelInv, OnceInv, TypeOK
<1>2. Cardinality(InProgress) <= MaxRuns
  BY DEF QueueInv, Seats
<1>3. ASSUME NEW r \in Runs, write_not_started(r)
      PROVE  /\ Cardinality(InProgress') <= MaxRuns
             /\ InProgress' \subseteq (seen \cup launching)'
             /\ Cardinality((seen \cup picked \cup launching)') <= MaxRuns
  <2>1. /\ cpc = "write" /\ r \in picked /\ seen' = seen
        /\ picked' = picked \ {r} /\ launching' = launching \cup {r}
    BY <1>3 DEF write_not_started, First
  <2>2. InProgress' \subseteq InProgress \cup {r}
    BY <1>3 DEF write_not_started, update_run_status, HasRow, InProgress, QueueInv,
                CancelInv, OnceInv, TypeOK
  <2>3. /\ InProgress \subseteq seen \cup launching
        /\ Cardinality(seen \cup picked \cup launching) <= MaxRuns
    BY <2>1 DEF QueueInv, Seats
  <2>4. (seen \cup picked \cup launching)' = seen \cup picked \cup launching
    BY <2>1
  <2>5. InProgress' \subseteq (seen \cup launching)'
    BY <2>1, <2>2, <2>3
  <2>6. Cardinality(InProgress') <= Cardinality(seen \cup picked \cup launching)
    <3>1. InProgress' \subseteq seen \cup picked \cup launching
      BY <2>4, <2>5
    <3>2. seen \cup picked \cup launching \in SUBSET Runs
      BY <1>1
    <3> QED BY <3>1, <3>2, RunsFinite
  <2>7. /\ Cardinality(InProgress') \in Nat
        /\ Cardinality(seen \cup picked \cup launching) \in Nat
    <3>1. InProgress' \in SUBSET Runs /\ seen \cup picked \cup launching \in SUBSET Runs
      BY <1>1 DEF InProgress
    <3> QED BY <3>1, RunsFinite
  <2>8. Cardinality(InProgress') <= MaxRuns
    BY <1>0, <2>3, <2>6, <2>7
  <2> QED BY <2>3, <2>4, <2>5, <2>8
<1>4. CASE ~ \E r \in Runs : write_not_started(r)
  <2>1. InProgress' \subseteq InProgress
    BY <1>4, ProgressStep
  <2>2. Cardinality(InProgress') <= MaxRuns
    <3>1. /\ Cardinality(InProgress') <= Cardinality(InProgress)
          /\ Cardinality(InProgress') \in Nat /\ Cardinality(InProgress) \in Nat
      BY <1>1, <2>1, RunsFinite
    <3> QED BY <1>0, <1>2, <3>1
  <2>3. CASE tick_query
    <3>1. seen' = InProgress /\ picked' = {} /\ launching' = {}
      BY <2>3 DEF tick_query, in_progress_runs, InProgress
    <3>2. (seen \cup picked \cup launching)' = InProgress
      BY <3>1
    <3> QED BY <1>2, <2>1, <2>2, <3>1, <3>2
  <2>4. ASSUME NEW r \in Runs, select(r)
        PROVE  /\ InProgress' \subseteq (seen \cup launching)'
               /\ Cardinality((seen \cup picked \cup launching)') <= MaxRuns
    <3>1. cpc = "select" /\ UNCHANGED <<seen, launching>>
      BY <2>4 DEF select
    <3>2. InProgress \subseteq seen \cup launching
      BY <3>1 DEF QueueInv, Seats
    <3> QED BY <2>1, <2>4, <3>1, <3>2, SelectSeats
  <2>5. ASSUME cpc' \in {"select", "write"}, ~ tick_query, ~ \E r \in Runs : select(r)
        PROVE  /\ InProgress' \subseteq (seen \cup launching)'
               /\ Cardinality((seen \cup picked \cup launching)') <= MaxRuns
    <3>1. cpc \in {"select", "write"} /\ UNCHANGED <<seen, picked, launching>>
      BY <1>4, <2>5, TickStep
    <3>2. /\ InProgress \subseteq seen \cup launching
          /\ Cardinality(seen \cup picked \cup launching) <= MaxRuns
      BY <3>1 DEF QueueInv, Seats
    <3> QED BY <2>1, <3>1, <3>2
  <2> QED BY <2>2, <2>3, <2>4, <2>5
<1> QED BY <1>3, <1>4

\* The inductive invariant of the queue.
THEOREM QueueInvHolds == DeleteRuns = {} => (Spec => []QueueInv)
<1> SUFFICES ASSUME DeleteRuns = {} PROVE Spec => []QueueInv
  OBVIOUS
<1>1. Init /\ CancelInv => QueueInv
  <2> SUFFICES ASSUME Init, CancelInv PROVE QueueInv
    OBVIOUS
  <2>1. \A r \in Runs : Admitted(r)
    BY DEF Init, Admitted, Selected
  <2>2. Seats
    <3>1. InProgress = {} /\ cpc = "sleep"
      BY DEF Init, InProgress
    <3>2. Cardinality({}) = 0
      BY FS_EmptySet
    <3> QED BY <3>1, <3>2, QueueAssumption DEF Seats
  <2> QED BY <2>1, <2>2 DEF QueueInv
<1>2. QueueInv /\ CancelInv' /\ [Next]_vars => QueueInv'
  <2> SUFFICES ASSUME QueueInv, CancelInv', [Next]_vars PROVE QueueInv'
    OBVIOUS
  <2>1. \A q \in Runs : Admitted(q)'
    BY AdmittedStep
  <2>2. TypeOK'
    BY DEF CancelInv, OnceInv
  <2>3. Seats'
    BY <2>2, SeatsStep
  <2> QED BY <2>1, <2>3 DEF QueueInv
<1> QED BY <1>1, <1>2, CancelInvHolds, PTL DEF Spec

\* The coordinator never has more runs in progress than max_concurrent_runs
\* allows, for every number of runs, priorities, tag limits, cancellations,
\* crashes and failed writes (tick).
THEOREM MaxConcurrentHolds == DeleteRuns = {} => (Spec => []MaxConcurrent)
<1> SUFFICES ASSUME DeleteRuns = {} PROVE Spec => []MaxConcurrent
  OBVIOUS
<1>1. QueueInv => MaxConcurrent
  BY DEF QueueInv, Seats, MaxConcurrent
<1> QED BY <1>1, QueueInvHolds, PTL

-----------------------------------------------------------------------------
(* Tag limits.                                                             *)

\* Fewer runs, fewer of them with the tags.
LEMMA CarriersBound ==
    ASSUME NEW S \in SUBSET Runs, NEW T \in SUBSET S, NEW G
    PROVE  /\ Cardinality(Carriers(T, G)) \in Nat /\ Cardinality(Carriers(S, G)) \in Nat
           /\ Cardinality(Carriers(T, G)) <= Cardinality(Carriers(S, G))
<1>1. Carriers(S, G) \in SUBSET Runs /\ Carriers(T, G) \in SUBSET Carriers(S, G)
  BY DEF Carriers
<1> QED BY <1>1, RunsFinite

\* The tags counted under a limit are at least as many as the runs that have
\* one.
LEMMA CountBounds ==
    ASSUME NEW T \in SUBSET Runs, NEW l \in TagLimits, NEW t \in AllTags
    PROVE  /\ TagCount(T, l, t) \in Nat
           /\ Cardinality(Carriers(T, Group(l, t))) <= TagCount(T, l, t)
<1> DEFINE G == Group(l, t)
           E == {e \in T \X G : e[2] \in Tags[e[1]]}
           f == [e \in E |-> e[1]]
<1>1. IsFiniteSet(E)
  <2>1. IsFiniteSet(T) /\ IsFiniteSet(AllTags)
    BY RunsFinite, QueueAssumption
  <2>2. IsFiniteSet(T \X AllTags)
    BY <2>1, FS_Product
  <2>3. E \subseteq T \X AllTags
    BY DEF Group
  <2> QED BY <2>2, <2>3, FS_Subset
<1>2. f \in Surjection(E, Carriers(T, G))
  <2>1. ASSUME NEW e \in E PROVE f[e] \in Carriers(T, G)
    <3>1. e[1] \in T /\ e[2] \in G /\ e[2] \in Tags[e[1]]
      OBVIOUS
    <3> QED BY <3>1 DEF Carriers
  <2>2. ASSUME NEW r \in Carriers(T, G) PROVE \E e \in E : f[e] = r
    <3>1. PICK u \in Tags[r] \cap G : TRUE
      BY DEF Carriers
    <3>2. <<r, u>> \in E /\ f[<<r, u>>] = r
      BY <3>1 DEF Carriers
    <3> QED BY <3>2
  <2> QED BY <2>1, <2>2 DEF Surjection
<1>3. Cardinality(Carriers(T, G)) <= Cardinality(E)
  BY <1>1, <1>2, FS_Surjection
<1>4. Cardinality(E) \in Nat
  BY <1>1, FS_CardinalityType
<1> QED BY <1>3, <1>4 DEF TagCount

\* One more run picked: every limit on its tags had room for it.
LEMMA SelectTags ==
    ASSUME QueueInv, TagSeats, NEW r \in Runs, select(r),
           NEW l \in TagLimits, NEW t \in AllTags, t \in Group(l, t)
    PROVE  Cardinality(Carriers((seen \cup picked \cup launching)', Group(l, t))) <= l.limit
<1> DEFINE G == Group(l, t)
<1>1. /\ cpc = "select" /\ UNCHANGED <<seen, launching>>
      /\ \/ picked' = picked
         \/ picked' = picked \cup {r} /\ ~ is_blocked(r)
  BY DEF select
<1>2. launching = {} /\ seen \in SUBSET Runs /\ picked \in SUBSET Runs /\ l.limit \in Nat
  BY <1>1, QueueAssumption DEF QueueInv, CancelInv, OnceInv, ListsFollowLoop, TypeOK
<1>3. Cardinality(Carriers(seen \cup picked \cup launching, G)) <= l.limit
  BY <1>1 DEF TagSeats
<1>4. CASE picked' = picked
  BY <1>1, <1>3, <1>4
<1>5. CASE picked' = picked \cup {r} /\ ~ is_blocked(r)
  <2>1. (seen \cup picked \cup launching)' = counted \cup {r}
    BY <1>1, <1>2, <1>5 DEF counted
  <2>2. CASE Tags[r] \cap G = {}
    <3>1. Carriers(counted \cup {r}, G) = Carriers(seen \cup picked \cup launching, G)
      BY <1>2, <2>2 DEF Carriers, counted
    <3> QED BY <1>3, <2>1, <3>1
  <2>3. CASE Tags[r] \cap G # {}
    <3>1. PICK u \in Tags[r] \cap G : TRUE
      BY <2>3
    <3>2. u \in AllTags /\ u \in Tags[r]
      BY <3>1, QueueAssumption
    <3>3. Group(l, u) = G /\ u \in Group(l, u)
      BY <3>1 DEF Group
    <3>4. counted \in SUBSET Runs
      BY <1>2 DEF counted
    <3>5. /\ TagCount(counted, l, u) \in Nat
          /\ Cardinality(Carriers(counted, G)) <= TagCount(counted, l, u)
      BY <3>2, <3>3, <3>4, CountBounds
    <3>6. ~ (TagCount(counted, l, u) >= l.limit)
      BY <1>5, <3>2, <3>3 DEF is_blocked
    <3>7. /\ IsFiniteSet(Carriers(counted, G)) /\ Cardinality(Carriers(counted, G)) \in Nat
      <4>1. Carriers(counted, G) \in SUBSET Runs
        BY <3>4 DEF Carriers
      <4> QED BY <4>1, RunsFinite
    <3>8. Cardinality(Carriers(counted, G) \cup {r}) <= Cardinality(Carriers(counted, G)) + 1
      <4>1. Cardinality(Carriers(counted, G) \cup {r}) =
               IF r \in Carriers(counted, G) THEN Cardinality(Carriers(counted, G))
               ELSE Cardinality(Carriers(counted, G)) + 1
        BY <3>7, FS_AddElement
      <4> QED BY <3>7, <4>1
    <3>9. Carriers(counted \cup {r}, G) = Carriers(counted, G) \cup {r}
      BY <2>3 DEF Carriers
    <3>10. Cardinality(Carriers(counted, G) \cup {r}) \in Nat
      <4>1. Carriers(counted, G) \cup {r} \in SUBSET Runs
        BY <3>4 DEF Carriers
      <4> QED BY <4>1, RunsFinite
    <3>11. Cardinality(Carriers(counted, G) \cup {r}) <= l.limit
      BY <1>2, <3>5, <3>6, <3>7, <3>8, <3>10
    <3> QED BY <2>1, <3>9, <3>11
  <2> QED BY <2>2, <2>3
<1> QED BY <1>1, <1>4, <1>5

\* The tick never hands out more than a tag limit has.
LEMMA TagSeatsStep ==
    ASSUME DeleteRuns = {}, QueueInv, TagSeats, TypeOK', [Next]_vars
    PROVE  TagSeats'
<1> DEFINE Tick == seen \cup picked \cup launching
           Room(S) == \A l \in TagLimits, t \in AllTags : t \in Group(l, t) =>
                         Cardinality(Carriers(S, Group(l, t))) <= l.limit
<1>0. \A l \in TagLimits : l.limit \in Nat
  BY QueueAssumption
<1>1. InProgress \in SUBSET Runs /\ InProgress' \in SUBSET Runs /\ Tick \in SUBSET Runs
  BY DEF InProgress, QueueInv, CancelInv, OnceInv, TypeOK
<1>2. ASSUME NEW S \in SUBSET Runs, NEW T \in SUBSET S, Room(S) PROVE Room(T)
  <2> SUFFICES ASSUME NEW l \in TagLimits, NEW t \in AllTags, t \in Group(l, t)
               PROVE  Cardinality(Carriers(T, Group(l, t))) <= l.limit
    OBVIOUS
  <2>1. Cardinality(Carriers(S, Group(l, t))) <= l.limit
    BY <1>2
  <2> QED BY <1>0, <1>2, <2>1, CarriersBound
<1>3. Room(InProgress)
  BY DEF TagSeats, TagLimitsHold
<1>4. cpc \in {"select", "write"} => InProgress \subseteq seen \cup launching /\ Room(Tick)
  BY DEF TagSeats
<1> SUFFICES /\ Room(InProgress')
             /\ cpc' \in {"select", "write"} =>
                   InProgress' \subseteq (seen \cup launching)' /\ Room(Tick')
  BY DEF TagSeats, TagLimitsHold, Group, Carriers
<1> HIDE DEF Room
<1>5. ASSUME NEW r \in Runs, write_not_started(r)
      PROVE  /\ Room(InProgress') /\ InProgress' \subseteq (seen \cup launching)'
             /\ Room(Tick')
  <2>1. /\ cpc = "write" /\ r \in picked /\ seen' = seen
        /\ picked' = picked \ {r} /\ launching' = launching \cup {r}
    BY <1>5 DEF write_not_started, First
  <2>2. InProgress' \subseteq InProgress \cup {r}
    BY <1>5 DEF write_not_started, update_run_status, HasRow, InProgress, QueueInv,
                CancelInv, OnceInv, TypeOK
  <2>3. Tick' = Tick
    BY <2>1
  <2>4. InProgress' \subseteq (seen \cup launching)'
    BY <1>4, <2>1, <2>2
  <2>5. Room(InProgress')
    <3>1. InProgress' \in SUBSET Tick
      BY <2>3, <2>4
    <3> QED BY <1>1, <1>2, <1>4, <2>1, <3>1
  <2> QED BY <1>4, <2>1, <2>3, <2>4, <2>5
<1>6. CASE ~ \E r \in Runs : write_not_started(r)
  <2>1. InProgress' \subseteq InProgress
    BY <1>6, ProgressStep
  <2>2. Room(InProgress')
    BY <1>1, <1>2, <1>3, <2>1
  <2>3. CASE tick_query
    <3>1. seen' = InProgress /\ picked' = {} /\ launching' = {}
      BY <2>3 DEF tick_query, in_progress_runs, InProgress
    <3>2. Tick' = InProgress
      BY <3>1
    <3> QED BY <1>3, <2>1, <2>2, <3>1, <3>2
  <2>4. ASSUME NEW r \in Runs, select(r)
        PROVE  InProgress' \subseteq (seen \cup launching)' /\ Room(Tick')
    <3>1. cpc = "select" /\ UNCHANGED <<seen, launching>>
      BY <2>4 DEF select
    <3>2. Room(Tick')
      BY <2>4, SelectTags DEF Room
    <3> QED BY <1>4, <2>1, <3>1, <3>2
  <2>5. ASSUME cpc' \in {"select", "write"}, ~ tick_query, ~ \E r \in Runs : select(r)
        PROVE  InProgress' \subseteq (seen \cup launching)' /\ Room(Tick')
    <3>1. cpc \in {"select", "write"} /\ UNCHANGED <<seen, picked, launching>>
      BY <1>6, <2>5, TickStep
    <3> QED BY <1>4, <2>1, <3>1
  <2> QED BY <2>2, <2>3, <2>4, <2>5
<1> QED BY <1>5, <1>6

\* Without delete_run, what a tick has read, picked and launched together
\* leaves every tag limit unexceeded, and covers every run in progress: no run
\* enters NotStarted or Started behind the back of a tick that is still
\* handing out seats (is_blocked, record_launch).
THEOREM TagSeatsHolds == DeleteRuns = {} => (Spec => []TagSeats)
<1> SUFFICES ASSUME DeleteRuns = {} PROVE Spec => []TagSeats
  OBVIOUS
<1>1. Init => TagSeats
  <2> SUFFICES ASSUME Init PROVE TagSeats
    OBVIOUS
  <2>1. InProgress = {} /\ cpc = "sleep"
    BY DEF Init, InProgress
  <2>2. ASSUME NEW l \in TagLimits, NEW t \in AllTags
        PROVE  Cardinality(Carriers(InProgress, Group(l, t))) <= l.limit
    <3>1. Carriers(InProgress, Group(l, t)) = {}
      BY <2>1 DEF Carriers
    <3>2. Cardinality({}) = 0 /\ l.limit \in Nat
      BY FS_EmptySet, QueueAssumption
    <3> QED BY <3>1, <3>2
  <2> QED BY <2>1, <2>2 DEF TagSeats, TagLimitsHold
<1>2. QueueInv /\ QueueInv' /\ TagSeats /\ [Next]_vars => TagSeats'
  BY TagSeatsStep DEF QueueInv, CancelInv, OnceInv
<1> QED BY <1>1, <1>2, QueueInvHolds, PTL DEF Spec

\* Without delete_run, a tag limit of any of the three kinds is never exceeded,
\* for every number of runs, tags and limits, cancellations, crashes and failed
\* writes (is_blocked, record_launch).
THEOREM TagLimitsHolds == DeleteRuns = {} => (Spec => []TagLimitsHold)
<1> SUFFICES ASSUME DeleteRuns = {} PROVE Spec => []TagLimitsHold
  OBVIOUS
<1>1. TagSeats => TagLimitsHold
  BY DEF TagSeats
<1> QED BY <1>1, TagSeatsHolds, PTL

-----------------------------------------------------------------------------
(* The queue implements RunService.                                        *)

\* A step that moves no run to another seat is invisible.
LEMMA Invisible ==
    ASSUME UNCHANGED <<works, stopped>>, \A q \in Runs : SeatOf(q)' = SeatOf(q)
    PROVE  UNCHANGED Service!svars
<1>1. [q \in Runs |-> SeatOf(q)'] = [q \in Runs |-> SeatOf(q)]
  OBVIOUS
<1> QED BY <1>1 DEF Service!svars

\* Only r may move: what RunService sees of the others.
LEMMA MovesOne ==
    ASSUME NEW r \in Runs, \A q \in Runs \ {r} : SeatOf(q)' = SeatOf(q)
    PROVE  [q \in Runs |-> SeatOf(q)]' = [[q \in Runs |-> SeatOf(q)] EXCEPT ![r] = SeatOf(r)']
  OBVIOUS

\* A run that goes out, or stays where it is.
LEMMA Leaves ==
    ASSUME NEW r \in Runs, UNCHANGED <<works, stopped>>,
           SeatOf(r)' \in {"out", SeatOf(r)},
           \A q \in Runs \ {r} : SeatOf(q)' = SeatOf(q)
    PROVE  Service!Next \/ UNCHANGED Service!svars
<1>1. CASE SeatOf(r)' = SeatOf(r)
  BY <1>1, Invisible
<1>2. CASE SeatOf(r)' = "out" /\ SeatOf(r) # "out"
  BY <1>2, MovesOne DEF Service!Next, Service!Leave
<1> QED BY <1>1, <1>2

\* Every step of the queue is a step of RunService or invisible to it.
LEMMA ServiceStep ==
    ASSUME DeleteRuns = {}, QueueInv, QueueInv', [Next]_vars
    PROVE  Service!Next \/ UNCHANGED Service!svars
<1> DEFINE Goal == Service!Next \/ UNCHANGED Service!svars
<1> SUFFICES Goal
  OBVIOUS
<1>0. /\ status \in [Runs -> Statuses] /\ works \in [Runs -> 0 .. 2]
      /\ \A r \in Runs : Fresh(r) /\ Flagged(r) /\ Admitted(r)
  BY DEF QueueInv, CancelInv, OnceInv, TypeOK
<1> HIDE DEF Goal
<1>1. CASE wake
  BY <1>1, Invisible DEF Goal, wake, SeatOf
<1>2. CASE tick_query
  BY <1>2, Invisible DEF Goal, tick_query, SeatOf
<1>3. CASE mark_full
  BY <1>3, Invisible DEF Goal, mark_full, SeatOf
<1>4. CASE select_done
  BY <1>4, Invisible DEF Goal, select_done, SeatOf
<1>5. CASE tick_done
  BY <1>5, Invisible DEF Goal, tick_done, SeatOf
<1>6. CASE launch_done
  BY <1>6, Invisible DEF Goal, launch_done, SeatOf
<1>7. CASE write_error
  BY <1>7, Invisible DEF Goal, write_error, SeatOf
<1>8. CASE sweep_begin
  BY <1>8, Invisible DEF Goal, sweep_begin, SeatOf
<1>9. CASE sweep_done
  BY <1>9, Invisible DEF Goal, sweep_done, SeatOf
<1>10. CASE restart
  BY <1>10, Invisible DEF Goal, restart, SeatOf
<1>11. CASE health_begin
  BY <1>11, Invisible DEF Goal, health_begin, SeatOf
<1>12. CASE crash
  BY <1>12, Invisible DEF Goal, crash, SeatOf
<1>13. ASSUME NEW r \in Runs, select(r) PROVE Goal
  BY <1>13, Invisible DEF Goal, select, SeatOf
<1>14. ASSUME NEW r \in Runs, write_not_started(r) PROVE Goal
  <2>1. /\ UNCHANGED <<works, stopped>> /\ SeatOf(r) # "inside" /\ SeatOf(r)' = "inside"
        /\ \A q \in Runs \ {r} : SeatOf(q)' = SeatOf(q)
    BY <1>0, <1>14 DEF write_not_started, First, update_run_status, HasRow, Admitted, SeatOf, Terminal, Active, Statuses
  <2>2. works[r] = 0
    BY <1>0, <1>14 DEF write_not_started, First, Fresh, Selected
  <2>3. Service!Inside' = InProgress'
    <3>1. status' \in [Runs -> Statuses]
      BY DEF QueueInv, CancelInv, OnceInv, TypeOK
    <3>2. \A q \in Runs : SeatOf(q)' = "inside" <=> status'[q] \in {"NotStarted", "Started"}
      BY <3>1 DEF SeatOf, Terminal, Active, Statuses
    <3> QED BY <3>2 DEF Service!Inside, InProgress
  <2>4. MaxRuns >= 0 => Service!Cardinality(Service!Inside') <= MaxRuns
    <3>1. MaxRuns >= 0 => Cardinality(InProgress') <= MaxRuns
      BY DEF QueueInv, Seats
    <3>2. Service!Cardinality(InProgress') = Cardinality(InProgress')
      BY DEF Service!Cardinality, Cardinality
    <3> QED BY <2>3, <3>1, <3>2
  <2>5. Service!Admit(r)
    BY <2>1, <2>2, <2>4, MovesOne DEF Service!Admit
  <2> QED BY <2>5 DEF Goal, Service!Next
<1>15. ASSUME NEW r \in Runs, launch(r) PROVE Goal
  <2>1. /\ UNCHANGED <<works, stopped>> /\ SeatOf(r)' \in {"out", SeatOf(r)}
        /\ \A q \in Runs \ {r} : SeatOf(q)' = SeatOf(q)
    BY <1>0, <1>15 DEF launch, First, fail_run_if_active, SeatOf, Terminal, Active, Statuses
  <2> QED BY <2>1, Leaves DEF Goal
<1>16. ASSUME NEW r \in Runs, check_run_health(r) PROVE Goal
  BY <1>16, Invisible DEF Goal, check_run_health, SeatOf
<1>17. ASSUME NEW r \in Runs, mark_missing(r) PROVE Goal
  <2>1. /\ UNCHANGED <<works, stopped>> /\ SeatOf(r)' \in {"out", SeatOf(r)}
        /\ \A q \in Runs \ {r} : SeatOf(q)' = SeatOf(q)
    BY <1>0, <1>17 DEF mark_missing, update_run_status, HasRow, SeatOf, Terminal, Active, Statuses
  <2> QED BY <2>1, Leaves DEF Goal
<1>18. ASSUME NEW r \in Runs, sweep_stalled(r) PROVE Goal
  <2>1. /\ UNCHANGED <<works, stopped>> /\ SeatOf(r)' \in {"out", SeatOf(r)}
        /\ \A q \in Runs \ {r} : SeatOf(q)' = SeatOf(q)
    BY <1>0, <1>18 DEF sweep_stalled, fail_run_if_active, SeatOf, Terminal, Active, Statuses
  <2> QED BY <2>1, Leaves DEF Goal
<1>19. ASSUME NEW r \in Runs, launch_prepared_job(r) PROVE Goal
  <2>1. UNCHANGED <<works, stopped>> /\ \A q \in Runs : SeatOf(q)' = SeatOf(q)
    BY <1>0, <1>19 DEF launch_prepared_job, HasRow, Admitted, SeatOf, Terminal, Active, Statuses
  <2> QED BY <2>1, Invisible DEF Goal
<1>20. ASSUME NEW r \in Runs, try_start_run(r) PROVE Goal
  <2>1. UNCHANGED <<works, stopped>> /\ \A q \in Runs : SeatOf(q)' = SeatOf(q)
    BY <1>0, <1>20 DEF try_start_run, update_run_status, HasRow, Admitted, SeatOf, Terminal, Active, Statuses
  <2> QED BY <2>1, Invisible DEF Goal
<1>21. ASSUME NEW r \in Runs, begin_work(r) PROVE Goal
  <2>1. \A q \in Runs : SeatOf(q)' = SeatOf(q)
    BY <1>21 DEF begin_work, SeatOf
  <2>2. CASE UNCHANGED works
    BY <1>21, <2>1, <2>2, Invisible DEF begin_work, Goal
  <2>3. CASE r \notin cancelled /\ works' = [works EXCEPT ![r] = IF @ < 2 THEN @ + 1 ELSE @]
    <3>1. works[r] = 0 /\ SeatOf(r) # "queue"
      BY <1>0, <1>21 DEF begin_work, Fresh, SeatOf, Terminal, Active, Statuses
    <3>2. r \notin stopped
      BY <1>0, <2>3 DEF Flagged
    <3>3. works' = [works EXCEPT ![r] = 1]
      BY <1>0, <2>3, <3>1
    <3>4. stopped' = stopped /\ [q \in Runs |-> SeatOf(q)]' = [q \in Runs |-> SeatOf(q)]
      BY <1>21, <2>1 DEF begin_work
    <3>5. Service!Execute(r)
      BY <3>1, <3>2, <3>3, <3>4 DEF Service!Execute
    <3> QED BY <3>5 DEF Goal, Service!Next
  <2> QED BY <1>21, <2>2, <2>3 DEF begin_work
<1>22. ASSUME NEW r \in Runs, end_work(r) PROVE Goal
  BY <1>22, Invisible DEF Goal, end_work, SeatOf
<1>23. ASSUME NEW r \in Runs, finalize_read(r) PROVE Goal
  BY <1>23, Invisible DEF Goal, finalize_read, SeatOf
<1>24. ASSUME NEW r \in Runs, finalize_write(r) PROVE Goal
  <2>1. /\ UNCHANGED <<works, stopped>> /\ SeatOf(r)' \in {"out", SeatOf(r)}
        /\ \A q \in Runs \ {r} : SeatOf(q)' = SeatOf(q)
    BY <1>0, <1>24 DEF finalize_write, update_run_status, HasRow, Fresh, SeatOf, Terminal, Active, Statuses
  <2> QED BY <2>1, Leaves DEF Goal
<1>25. ASSUME NEW r \in Runs, mark_run_launch_failed(r) PROVE Goal
  <2>1. /\ UNCHANGED <<works, stopped>> /\ SeatOf(r)' \in {"out", SeatOf(r)}
        /\ \A q \in Runs \ {r} : SeatOf(q)' = SeatOf(q)
    BY <1>0, <1>25 DEF mark_run_launch_failed, fail_run_if_active, SeatOf, Terminal, Active, Statuses
  <2> QED BY <2>1, Leaves DEF Goal
<1>26. ASSUME NEW r \in Runs, start_timeout_passes(r) PROVE Goal
  BY <1>26, Invisible DEF Goal, start_timeout_passes, SeatOf
<1>27. ASSUME NEW r \in Runs, enqueue_run(r) PROVE Goal
  <2>1. UNCHANGED <<works, stopped>> /\ \A q \in Runs : SeatOf(q)' = SeatOf(q)
    BY <1>0, <1>27 DEF enqueue_run, SeatOf, Terminal, Active, Statuses
  <2> QED BY <2>1, Invisible DEF Goal
<1>28. ASSUME NEW r \in Runs, request_cancellation(r) PROVE Goal
  BY <1>28, Invisible DEF Goal, request_cancellation, SeatOf
<1>29. ASSUME NEW r \in Runs, cancel_queued_run(r) PROVE Goal
  <2>1. CASE status[r] \in {"Queued", "NotStarted"}
    <3>1. /\ works' = works /\ stopped' = stopped \cup {r} /\ works[r] = 0
          /\ SeatOf(r) # "out" /\ SeatOf(r)' = "out"
          /\ \A q \in Runs \ {r} : SeatOf(q)' = SeatOf(q)
      BY <1>0, <1>29, <2>1 DEF cancel_queued_run, Fresh, SeatOf, Terminal, Active, Statuses
    <3>2. Service!Withdraw(r)
      BY <3>1, MovesOne DEF Service!Withdraw
    <3> QED BY <3>2 DEF Goal, Service!Next
  <2>2. CASE status[r] \notin {"Queued", "NotStarted"}
    <3>1. UNCHANGED <<works, stopped>> /\ \A q \in Runs : SeatOf(q)' = SeatOf(q)
      BY <1>29, <2>2 DEF cancel_queued_run, SeatOf
    <3> QED BY <3>1, Invisible DEF Goal
  <2> QED BY <2>1, <2>2
<1>30. ASSUME NEW r \in Runs, terminate_run(r) PROVE Goal
  BY <1>30, Invisible DEF Goal, terminate_run, SeatOf
<1>31. ASSUME NEW r \in Runs, handle_cancel_read(r) PROVE Goal
  BY <1>31, Invisible DEF Goal, handle_cancel_read, SeatOf
<1>32. ASSUME NEW r \in Runs, handle_cancel_write(r) PROVE Goal
  <2>1. /\ UNCHANGED <<works, stopped>> /\ SeatOf(r)' \in {"out", SeatOf(r)}
        /\ \A q \in Runs \ {r} : SeatOf(q)' = SeatOf(q)
    BY <1>0, <1>32 DEF handle_cancel_write, update_run_status, HasRow, SeatOf, Terminal, Active, Statuses
  <2> QED BY <2>1, Leaves DEF Goal
<1>33. ASSUME NEW r \in Runs, r \in DeleteRuns, delete_run_check(r) PROVE Goal
  BY <1>33
<1>34. ASSUME NEW r \in Runs, delete_run_rows(r) PROVE Goal
  BY <1>34 DEF delete_run_rows, QueueInv, CancelInv
<1>35. CASE UNCHANGED vars
  BY <1>35, Invisible DEF Goal, vars, SeatOf
<1> QED
  BY <1>1, <1>2, <1>3, <1>4, <1>5, <1>6, <1>7, <1>8, <1>9, <1>10, <1>11,
     <1>12, <1>13, <1>14, <1>15, <1>16, <1>17, <1>18, <1>19, <1>20, <1>21,
     <1>22, <1>23, <1>24, <1>25, <1>26, <1>27, <1>28, <1>29, <1>30, <1>31,
     <1>32, <1>33, <1>34, <1>35, NextCases

\* Without delete_run, and for any runs, limit, cancels, crashes and errors,
\* the queue implements RunService: the tick's stale writes, the threads and
\* the cancels of handle.rs never show as anything but seats given within
\* max_concurrent_runs, one execution per run and withdrawals that stick.
THEOREM ImplementsHolds == DeleteRuns = {} => (Spec => Implements)
<1> SUFFICES ASSUME DeleteRuns = {} PROVE Spec => Implements
  OBVIOUS
<1>1. Init => Service!Init
  <2> SUFFICES ASSUME Init PROVE Service!Init
    OBVIOUS
  <2>1. \A r \in Runs : SeatOf(r) = "queue"
    BY DEF Init, SeatOf, Terminal
  <2> QED BY <2>1 DEF Init, Service!Init
<1>2. QueueInv /\ QueueInv' /\ [Next]_vars => [Service!Next]_(Service!svars)
  BY ServiceStep
<1>3. Spec => []QueueInv
  BY QueueInvHolds
<1> QED BY <1>1, <1>2, <1>3, PTL DEF Spec, Implements, Service!Spec
=============================================================================
