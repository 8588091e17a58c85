---------------------------- MODULE CancelProofs ----------------------------
(***************************************************************************)
(* A backfill that runs in process is canceled with its child, for every   *)
(* set of groups and keys and any number of cancels, resumes, crashes and  *)
(* failing storage calls: the proofs of ReachInv and CancelReachesChild.   *)
(***************************************************************************)
EXTENDS BackfillProofs

USE DEF record, runs, loop, mon, user, config, ExecTo, PhaseTo, Fault

\* What ReachInv says of a backfill that runs in process.
InProcess ==
    /\ ~ queued /\ exec \notin {"submit", "check", "sweep"} /\ missing = {}
    /\ RunningIsCurrent /\ BornForGood /\ CanceledByRun /\ SettlesOver /\ CascadeReaches

\* The run queue's steps are not taken in process.
LEMMA NoQueue ==
    ASSUME TypeOK, InProcess
    PROVE  /\ ~ enqueue_backfill_runs /\ ~ enqueue_check
           /\ \A c \in Children : ~ (enqueue_sweep(c) \/ child_picked(c) \/ child_dequeued(c)
                                      \/ child_started(c) \/ child_swept(c)
                                      \/ child_error(c) \/ mark_missing(c))
  BY DEF InProcess, RunningIsCurrent, enqueue_backfill_runs, enqueue_check, enqueue_sweep,
         child_picked, child_dequeued, child_started, child_swept, child_error, mark_missing

\* Settling moves on neither a loop that has a child under way nor a request on
\* its way to the children.
LEMMA SettleUndisturbed ==
    ASSUME Sound, NEW a \in Callers, settle_runs(a) \/ settle_write(a)
    PROVE  /\ exec' = exec \/ (exec = "groups" /\ exec' = "final")
           /\ request' = request \/ request = "settle"
<1>1. settling[a].pc # "idle"
  BY DEF settle_runs, settle_write
<1> QED BY <1>1, SettleMoves DEF Moved, Sound, SettleInv, CallersWait

\* A child that is over keeps its row, and no row goes away: the loop only runs
\* a child that has none.
LEMMA RowsKept ==
    ASSUME Sound, InProcess, [Next]_vars
    PROVE  \A d \in Children : /\ row[d] \in Terminal => row'[d] = row[d]
                               /\ row[d] # "none" => row'[d] # "none"
<1> DEFINE Kept == \A d \in Children : /\ row[d] \in Terminal => row'[d] = row[d]
                                       /\ row[d] # "none" => row'[d] # "none"
<1>0. /\ row \in [Children -> Terminal \cup {"none", "Queued", "NotStarted", "Started"}]
      /\ RunningIsCurrent /\ UnbornRows /\ AttemptFits
      /\ attempt \in 0 .. MaxAttempts
  BY DEF Sound, SettleInv, TypeOK, InProcess
<1>N. TypeOK
  BY DEF Sound, SettleInv
<1> USE <1>0, ChildFacts DEF Terminal
<1>1. CASE create_backfill
  BY <1>1 DEF create_backfill
<1>2. CASE cancel_backfill
  BY <1>2 DEF cancel_backfill
<1>3. CASE pickup
  BY <1>3 DEF pickup
<1>4. CASE exec_read
  BY <1>4 DEF exec_read
<1>5. CASE exec_register
  BY <1>5 DEF exec_register
<1>6. CASE exec_flip
  BY <1>6 DEF exec_flip
<1>7. CASE enqueue_backfill_runs
  BY <1>7, <1>N, NoQueue
<1>8. CASE enqueue_check
  BY <1>8, <1>N, NoQueue
<1>9. CASE exec_fail
  BY <1>9 DEF exec_fail
<1>10. CASE exec_settle
  BY <1>10 DEF exec_settle, settle_read, SettleTo, SettleReturns
<1>11. CASE exec_final
  BY <1>11 DEF exec_final
<1>12. CASE monitor_tick
  BY <1>12 DEF monitor_tick
<1>13. CASE monitor_idle_tick
  BY <1>13 DEF monitor_idle_tick
<1>14. CASE resume_stalled_backfill
  BY <1>14 DEF resume_stalled_backfill
<1>15. CASE monitor_settle
  BY <1>15 DEF monitor_settle, settle_read, SettleTo, SettleReturns
<1>16. CASE cancel_settle
  BY <1>16 DEF cancel_settle, settle_read, SettleTo, SettleReturns
<1>17. CASE cancel_write
  BY <1>17 DEF cancel_write
<1>18. CASE cancel_read
  BY <1>18 DEF cancel_read, GivesUp
<1>19. CASE cancel_links
  BY <1>19 DEF cancel_links, GivesUp
<1>20. CASE cascade_done
  BY <1>20 DEF cascade_done
<1>21. CASE crash
  BY <1>21 DEF crash
<1>22. ASSUME NEW a \in Callers, settle_runs(a) PROVE Kept
  BY <1>22 DEF settle_runs, SettleTo, SettleReturns
<1>23. ASSUME NEW a \in Callers, settle_write(a) PROVE Kept
  BY <1>23 DEF settle_write, SettleReturns
<1>24. ASSUME NEW g \in Groups, group_skip(g) PROVE Kept
  BY <1>24 DEF group_skip
<1>25. ASSUME NEW g \in Groups, link_backfill_run(g) PROVE Kept
  BY <1>25 DEF link_backfill_run
<1>26. ASSUME NEW g \in Groups, link_commit(g) PROVE Kept
  BY <1>26 DEF link_commit
<1>27. ASSUME NEW g \in Groups, link_check(g) PROVE Kept
  BY <1>27 DEF link_check
<1>28. ASSUME NEW g \in Groups, run_child(g) PROVE Kept
<2>1. ChildOf(g) \in Children /\ Unborn(ChildOf(g))
  BY <1>28 DEF run_child, ChildOf, Unborn, Linking, AttemptFits, Minted, Attempts
<2>2. row[ChildOf(g)] = "none"
  BY <2>1 DEF UnbornRows
<2> QED BY <1>28, <2>1, <2>2 DEF run_child
<1>29. ASSUME NEW g \in Groups, run_child_error(g) PROVE Kept
  BY <1>29 DEF run_child_error
<1>30. ASSUME NEW g \in Groups, child_done(g) PROVE Kept
  BY <1>30 DEF child_done
<1>31. ASSUME NEW c \in Children, enqueue_sweep(c) PROVE Kept
  BY <1>31, <1>N, NoQueue
<1>32. ASSUME NEW c \in Children, cascade_flag(c) PROVE Kept
  BY <1>32 DEF cascade_flag
<1>33. ASSUME NEW c \in Children, cascade_flip(c) PROVE Kept
  BY <1>33 DEF cascade_flip, cancel_queued_run, cancel_queued_run_fails
<1>34. ASSUME NEW c \in Children, child_picked(c) PROVE Kept
  BY <1>34, <1>N, NoQueue
<1>35. ASSUME NEW c \in Children, child_dequeued(c) PROVE Kept
  BY <1>35, <1>N, NoQueue
<1>36. ASSUME NEW c \in Children, child_started(c) PROVE Kept
  BY <1>36, <1>N, NoQueue
<1>37. ASSUME NEW c \in Children, child_ends(c) PROVE Kept
  BY <1>37 DEF child_ends, RunningIsCurrent
<1>38. ASSUME NEW c \in Children, child_recorded(c) PROVE Kept
  BY <1>38 DEF child_recorded
<1>39. ASSUME NEW c \in Children, child_swept(c) PROVE Kept
  BY <1>39, <1>N, NoQueue
<1>40. ASSUME NEW c \in Children, child_error(c) PROVE Kept
  BY <1>40, <1>N, NoQueue
<1>41. ASSUME NEW c \in Children, mark_missing(c) PROVE Kept
  BY <1>41, <1>N, NoQueue
<1>42. CASE UNCHANGED vars
  BY <1>42 DEF vars
<1> QED
  BY <1>1, <1>2, <1>3, <1>4, <1>5, <1>6, <1>7, <1>8, <1>9, <1>10, <1>11, <1>12,
     <1>13, <1>14, <1>15, <1>16, <1>17, <1>18, <1>19, <1>20, <1>21, <1>22, <1>23,
     <1>24, <1>25, <1>26, <1>27, <1>28, <1>29, <1>30, <1>31, <1>32, <1>33, <1>34,
     <1>35, <1>36, <1>37, <1>38, <1>39, <1>40, <1>41, <1>42, NextCases

\* A child begins in the loop, and the loop waits for it.
LEMMA RunningStep ==
    ASSUME Sound, InProcess, [Next]_vars
    PROVE  RunningIsCurrent'
<1>0. /\ row \in [Children -> Terminal \cup {"none", "Queued", "NotStarted", "Started"}]
      /\ phase \in [Children -> {"none", "picked", "launched", "started",
                                 "recording", "over", "dead"}]
      /\ result \in [Children -> Terminal \cup {"none"}]
      /\ RunningIsCurrent /\ AttemptFits /\ attempt \in 0 .. MaxAttempts
  BY DEF Sound, SettleInv, TypeOK, InProcess
<1>N. TypeOK
  BY DEF Sound, SettleInv
<1> USE <1>0, ChildFacts DEF RunningIsCurrent
<1>1. CASE create_backfill
  BY <1>1 DEF create_backfill
<1>2. CASE cancel_backfill
  BY <1>2 DEF cancel_backfill
<1>3. CASE pickup
  BY <1>3 DEF pickup
<1>4. CASE exec_read
  BY <1>4 DEF exec_read
<1>5. CASE exec_register
  BY <1>5 DEF exec_register
<1>6. CASE exec_flip
  BY <1>6 DEF exec_flip
<1>7. CASE enqueue_backfill_runs
  BY <1>7, <1>N, NoQueue
<1>8. CASE enqueue_check
  BY <1>8, <1>N, NoQueue
<1>9. CASE exec_fail
  BY <1>9 DEF exec_fail
<1>10. CASE exec_settle
  BY <1>10 DEF exec_settle, settle_read, SettleTo, SettleReturns
<1>11. CASE exec_final
  BY <1>11 DEF exec_final
<1>12. CASE monitor_tick
  BY <1>12 DEF monitor_tick
<1>13. CASE monitor_idle_tick
  BY <1>13 DEF monitor_idle_tick
<1>14. CASE resume_stalled_backfill
  BY <1>14 DEF resume_stalled_backfill
<1>15. CASE monitor_settle
  BY <1>15 DEF monitor_settle, settle_read, SettleTo, SettleReturns
<1>16. CASE cancel_settle
  BY <1>16 DEF cancel_settle, settle_read, SettleTo, SettleReturns
<1>17. CASE cancel_write
  BY <1>17 DEF cancel_write
<1>18. CASE cancel_read
  BY <1>18 DEF cancel_read, GivesUp
<1>19. CASE cancel_links
  BY <1>19 DEF cancel_links, GivesUp
<1>20. CASE cascade_done
  BY <1>20 DEF cascade_done
<1>21. CASE crash
  BY <1>21 DEF crash
<1>22. ASSUME NEW a \in Callers, settle_runs(a) PROVE RunningIsCurrent'
  BY <1>22, SettleUndisturbed DEF settle_runs
<1>23. ASSUME NEW a \in Callers, settle_write(a) PROVE RunningIsCurrent'
  BY <1>23, SettleUndisturbed DEF settle_write
<1>24. ASSUME NEW g \in Groups, group_skip(g) PROVE RunningIsCurrent'
  BY <1>24 DEF group_skip
<1>25. ASSUME NEW g \in Groups, link_backfill_run(g) PROVE RunningIsCurrent'
  BY <1>25 DEF link_backfill_run
<1>26. ASSUME NEW g \in Groups, link_commit(g) PROVE RunningIsCurrent'
  BY <1>26 DEF link_commit
<1>27. ASSUME NEW g \in Groups, link_check(g) PROVE RunningIsCurrent'
  BY <1>27 DEF link_check
<1>28. ASSUME NEW g \in Groups, run_child(g) PROVE RunningIsCurrent'
<2>1. ChildOf(g) \in Children /\ ChildOf(g)[1] = g /\ ChildOf(g)[2] = attempt
  BY <1>28 DEF run_child, ChildOf, AttemptFits, Minted, Attempts
<2> QED BY <1>28, <2>1 DEF run_child
<1>29. ASSUME NEW g \in Groups, run_child_error(g) PROVE RunningIsCurrent'
<2>1. ASSUME NEW d \in Children, current = {d[1]}, d[2] = attempt PROVE d = ChildOf(g)
  <3>1. d[1] = g /\ d = <<d[1], d[2]>>
    BY <1>29, <2>1 DEF run_child_error
  <3> QED BY <3>1, <2>1 DEF ChildOf
<2> QED BY <1>29, <2>1 DEF run_child_error
<1>30. ASSUME NEW g \in Groups, child_done(g) PROVE RunningIsCurrent'
<2>1. ASSUME NEW d \in Children, current = {d[1]}, d[2] = attempt PROVE d = ChildOf(g)
  <3>1. d[1] = g /\ d = <<d[1], d[2]>>
    BY <1>30, <2>1 DEF child_done
  <3> QED BY <3>1, <2>1 DEF ChildOf
<2> QED BY <1>30, <2>1 DEF child_done
<1>31. ASSUME NEW c \in Children, enqueue_sweep(c) PROVE RunningIsCurrent'
  BY <1>31, <1>N, NoQueue
<1>32. ASSUME NEW c \in Children, cascade_flag(c) PROVE RunningIsCurrent'
  BY <1>32 DEF cascade_flag
<1>33. ASSUME NEW c \in Children, cascade_flip(c) PROVE RunningIsCurrent'
  BY <1>33 DEF cascade_flip, cancel_queued_run, cancel_queued_run_fails
<1>34. ASSUME NEW c \in Children, child_picked(c) PROVE RunningIsCurrent'
  BY <1>34, <1>N, NoQueue
<1>35. ASSUME NEW c \in Children, child_dequeued(c) PROVE RunningIsCurrent'
  BY <1>35, <1>N, NoQueue
<1>36. ASSUME NEW c \in Children, child_started(c) PROVE RunningIsCurrent'
  BY <1>36, <1>N, NoQueue
<1>37. ASSUME NEW c \in Children, child_ends(c) PROVE RunningIsCurrent'
<2>1. PICK st \in Terminal : row' = [row EXCEPT ![c] = st] /\ result' = [result EXCEPT ![c] = st]
  BY <1>37 DEF child_ends
<2> QED BY <1>37, <2>1 DEF child_ends, Terminal
<1>38. ASSUME NEW c \in Children, child_recorded(c) PROVE RunningIsCurrent'
  BY <1>38 DEF child_recorded
<1>39. ASSUME NEW c \in Children, child_swept(c) PROVE RunningIsCurrent'
  BY <1>39, <1>N, NoQueue
<1>40. ASSUME NEW c \in Children, child_error(c) PROVE RunningIsCurrent'
  BY <1>40, <1>N, NoQueue
<1>41. ASSUME NEW c \in Children, mark_missing(c) PROVE RunningIsCurrent'
  BY <1>41, <1>N, NoQueue
<1>42. CASE UNCHANGED vars
  BY <1>42 DEF vars
<1> QED
  BY <1>1, <1>2, <1>3, <1>4, <1>5, <1>6, <1>7, <1>8, <1>9, <1>10, <1>11, <1>12,
     <1>13, <1>14, <1>15, <1>16, <1>17, <1>18, <1>19, <1>20, <1>21, <1>22, <1>23,
     <1>24, <1>25, <1>26, <1>27, <1>28, <1>29, <1>30, <1>31, <1>32, <1>33, <1>34,
     <1>35, <1>36, <1>37, <1>38, <1>39, <1>40, <1>41, <1>42, NextCases

\* The backfill is resumed only while nothing is linked, and so only before the
\* first child has a row.
LEMMA BornStep ==
    ASSUME Sound, InProcess, [Next]_vars
    PROVE  BornForGood'
<1>0. /\ row \in [Children -> Terminal \cup {"none", "Queued", "NotStarted", "Started"}]
      /\ links \in SUBSET Children /\ RunningIsCurrent /\ BornForGood /\ AttemptFits
      /\ attempt \in 0 .. MaxAttempts
  BY DEF Sound, SettleInv, TypeOK, InProcess
<1>N. TypeOK
  BY DEF Sound, SettleInv
<1> USE <1>0, ChildFacts DEF BornForGood
<1>1. CASE create_backfill
  BY <1>1 DEF create_backfill
<1>2. CASE cancel_backfill
  BY <1>2 DEF cancel_backfill
<1>3. CASE pickup
  BY <1>3 DEF pickup
<1>4. CASE exec_read
  BY <1>4 DEF exec_read, Unminted
<1>5. CASE exec_register
  BY <1>5 DEF exec_register, Unminted
<1>6. CASE exec_flip
  BY <1>6 DEF exec_flip, Unminted, InProcess
<1>7. CASE enqueue_backfill_runs
  BY <1>7, <1>N, NoQueue
<1>8. CASE enqueue_check
  BY <1>8, <1>N, NoQueue
<1>9. CASE exec_fail
  BY <1>9 DEF exec_fail, Unminted
<1>10. CASE exec_settle
  BY <1>10 DEF exec_settle, settle_read, SettleTo, SettleReturns, Unminted
<1>11. CASE exec_final
  BY <1>11 DEF exec_final, Unminted
<1>12. CASE monitor_tick
  BY <1>12 DEF monitor_tick
<1>13. CASE monitor_idle_tick
  BY <1>13 DEF monitor_idle_tick
<1>14. CASE resume_stalled_backfill
  BY <1>14 DEF resume_stalled_backfill
<1>15. CASE monitor_settle
  BY <1>15 DEF monitor_settle, settle_read, SettleTo, SettleReturns
<1>16. CASE cancel_settle
  BY <1>16 DEF cancel_settle, settle_read, SettleTo, SettleReturns
<1>17. CASE cancel_write
  BY <1>17 DEF cancel_write
<1>18. CASE cancel_read
  BY <1>18 DEF cancel_read, GivesUp
<1>19. CASE cancel_links
  BY <1>19 DEF cancel_links, GivesUp
<1>20. CASE cascade_done
  BY <1>20 DEF cascade_done
<1>21. CASE crash
  BY <1>21 DEF crash, Unminted
<1>22. ASSUME NEW a \in Callers, settle_runs(a) PROVE BornForGood'
  BY <1>22, SettleUndisturbed DEF settle_runs, Unminted
<1>23. ASSUME NEW a \in Callers, settle_write(a) PROVE BornForGood'
<2>1. settling[a].status \in Ended
  BY <1>23 DEF settle_write, InProcess, SettlesOver
<2> QED BY <1>23, <2>1, SettleUndisturbed DEF settle_write, Ended, Unminted
<1>24. ASSUME NEW g \in Groups, group_skip(g) PROVE BornForGood'
  BY <1>24 DEF group_skip
<1>25. ASSUME NEW g \in Groups, link_backfill_run(g) PROVE BornForGood'
  BY <1>25 DEF link_backfill_run, Unminted
<1>26. ASSUME NEW g \in Groups, link_commit(g) PROVE BornForGood'
  BY <1>26 DEF link_commit, Unminted
<1>27. ASSUME NEW g \in Groups, link_check(g) PROVE BornForGood'
  BY <1>27 DEF link_check, ChildOf, Unminted
<1>28. ASSUME NEW g \in Groups, run_child(g) PROVE BornForGood'
<2>1. ChildOf(g) \in Children /\ ChildOf(g) = <<g, attempt>> /\ ChildOf(g)[2] = attempt
  BY <1>28 DEF run_child, ChildOf, AttemptFits, Minted, Attempts
<2> QED BY <1>28, <2>1 DEF run_child, Unminted
<1>29. ASSUME NEW g \in Groups, run_child_error(g) PROVE BornForGood'
  BY <1>29 DEF run_child_error, Unminted
<1>30. ASSUME NEW g \in Groups, child_done(g) PROVE BornForGood'
  BY <1>30 DEF child_done, Unminted
<1>31. ASSUME NEW c \in Children, enqueue_sweep(c) PROVE BornForGood'
  BY <1>31, <1>N, NoQueue
<1>32. ASSUME NEW c \in Children, cascade_flag(c) PROVE BornForGood'
  BY <1>32 DEF cascade_flag
<1>33. ASSUME NEW c \in Children, cascade_flip(c) PROVE BornForGood'
  BY <1>33 DEF cascade_flip, cancel_queued_run, cancel_queued_run_fails
<1>34. ASSUME NEW c \in Children, child_picked(c) PROVE BornForGood'
  BY <1>34, <1>N, NoQueue
<1>35. ASSUME NEW c \in Children, child_dequeued(c) PROVE BornForGood'
  BY <1>35, <1>N, NoQueue
<1>36. ASSUME NEW c \in Children, child_started(c) PROVE BornForGood'
  BY <1>36, <1>N, NoQueue
<1>37. ASSUME NEW c \in Children, child_ends(c) PROVE BornForGood'
  BY <1>37 DEF child_ends, RunningIsCurrent
<1>38. ASSUME NEW c \in Children, child_recorded(c) PROVE BornForGood'
  BY <1>38 DEF child_recorded
<1>39. ASSUME NEW c \in Children, child_swept(c) PROVE BornForGood'
  BY <1>39, <1>N, NoQueue
<1>40. ASSUME NEW c \in Children, child_error(c) PROVE BornForGood'
  BY <1>40, <1>N, NoQueue
<1>41. ASSUME NEW c \in Children, mark_missing(c) PROVE BornForGood'
  BY <1>41, <1>N, NoQueue
<1>42. CASE UNCHANGED vars
  BY <1>42 DEF vars
<1> QED
  BY <1>1, <1>2, <1>3, <1>4, <1>5, <1>6, <1>7, <1>8, <1>9, <1>10, <1>11, <1>12,
     <1>13, <1>14, <1>15, <1>16, <1>17, <1>18, <1>19, <1>20, <1>21, <1>22, <1>23,
     <1>24, <1>25, <1>26, <1>27, <1>28, <1>29, <1>30, <1>31, <1>32, <1>33, <1>34,
     <1>35, <1>36, <1>37, <1>38, <1>39, <1>40, <1>41, <1>42, NextCases

-----------------------------------------------------------------------------
(* Outcomes and settlements.                                               *)

\* A canceled child stays one.
LEMMA CanceledStays ==
    ASSUME Sound, InProcess, [Next]_vars, NEW k, NEW R \in SUBSET Children, CanceledRow(k, R)
    PROVE  CanceledRow(k, R)'
  BY RowsKept DEF CanceledRow, Terminal

\* BackfillOutcomeRow::settled makes no key Canceled but those it is given.
LEMMA SettledCanceled ==
    ASSUME NEW old \in [Keys -> Outcomes], NEW X, NEW Y, NEW Z, NEW k \in Keys,
           Settled(old, X, Y, Z)[k] = "Canceled"
    PROVE  k \in Z \/ old[k] = "Canceled"
  BY DEF Settled

\* What the keys marked Canceled rest on, from the locals of the callers.
CallersCanceled ==
    \A a \in Callers : settling[a].pc = "runs" =>
        \A k \in Keys : settling[a].old[k] = "Canceled" => CanceledRow(k, settling[a].links)
RecordCanceled ==
    bstatus \notin Ended \/ exec \in Unminted =>
        \A k \in Keys : outcome[k] = "Canceled" => CanceledRow(k, Children)

\* A caller that reads the record while it is InProgress reads the links of the
\* children that were canceled with it.
LEMMA ReadCanceled ==
    ASSUME Sound, InProcess, NEW a \in Callers, settle_read(a), UNCHANGED row
    PROVE  CallersCanceled'
<1>0. /\ settling \in [Callers -> Settling] /\ CallersCanceled /\ RecordCanceled /\ BornForGood
      /\ links \in SUBSET Children
  BY DEF Sound, SettleInv, TypeOK, InProcess, CanceledByRun, CallersCanceled, RecordCanceled
<1>1. CASE bstatus = "InProgress"
  <2> DEFINE s == [NotSettling EXCEPT !.pc = "runs", !.links = links, !.old = NotCompleted]
  <2>1. settling' = [settling EXCEPT ![a] = s]
    BY <1>1 DEF settle_read, SettleTo
  <2>2. s.links = links /\ \A k \in Keys : s.old[k] = "Canceled" => outcome[k] = "Canceled"
    BY DEF NotSettling, NotCompleted
  <2>3. \A k \in Keys : outcome[k] = "Canceled" => CanceledRow(k, links)
    BY <1>0, <1>1 DEF RecordCanceled, Ended, CanceledRow, BornForGood
  <2>4. \A k, R : CanceledRow(k, R) => CanceledRow(k, R)'
    BY DEF CanceledRow
  <2> HIDE DEF s
  <2>5. \A b \in Callers : settling'[b] = IF b = a THEN s ELSE settling[b]
    BY <1>0, <2>1
  <2>6. ASSUME NEW b \in Callers, settling'[b].pc = "runs", NEW k \in Keys,
               settling'[b].old[k] = "Canceled"
        PROVE  CanceledRow(k, settling[b].links)'
    <3>1. CASE b = a
      <4>1. settling'[b].links = links /\ CanceledRow(k, links)
        BY <2>2, <2>3, <2>5, <2>6, <3>1
      <4> QED BY <4>1 DEF CanceledRow
    <3>2. CASE b # a
      <4>1. settling'[b] = settling[b] /\ CanceledRow(k, settling[b].links)
        BY <1>0, <2>5, <2>6, <3>2 DEF CallersCanceled
      <4> QED BY <4>1 DEF CanceledRow
    <3> QED BY <3>1, <3>2
  <2> QED BY <2>6 DEF CallersCanceled
<1>2. CASE bstatus # "InProgress"
  <2>1. settling' = [settling EXCEPT ![a] = NotSettling]
    BY <1>2 DEF settle_read, SettleReturns
  <2>2. \A b \in Callers : settling'[b].pc = "runs" => settling'[b] = settling[b]
    BY <1>0, <2>1 DEF NotSettling
  <2> QED BY <1>0, <2>2 DEF CallersCanceled, CanceledRow
<1> QED BY <1>1, <1>2

\* No step but the read of the record gives a caller a record it has not read.
LEMMA CallersKept ==
    ASSUME Sound, InProcess, [Next]_vars,
           \A b \in Callers : settling'[b].pc = "runs" => settling'[b] = settling[b]
    PROVE  CallersCanceled'
<1>0. settling \in [Callers -> Settling] /\ CallersCanceled
  BY DEF Sound, SettleInv, TypeOK, InProcess, CanceledByRun, CallersCanceled
<1>1. ASSUME NEW b \in Callers, settling'[b].pc = "runs", NEW k \in Keys,
             settling'[b].old[k] = "Canceled"
      PROVE  CanceledRow(k, settling[b].links)'
  <2>1. settling'[b] = settling[b] /\ CanceledRow(k, settling[b].links)
    BY <1>0, <1>1 DEF CallersCanceled
  <2>2. PICK c \in settling[b].links : row[c] = "Canceled" /\ k \in KeysOf(c)
    BY <2>1 DEF CanceledRow
  <2>3. c \in Children
    BY <1>0 DEF Settling
  <2>4. row'[c] = "Canceled"
    BY <2>2, <2>3, RowsKept DEF Terminal
  <2> QED BY <2>1, <2>2, <2>4 DEF CanceledRow
<1> QED BY <1>1 DEF CallersCanceled

\* What the callers have read of canceled keys stays backed by the rows.
LEMMA CallersStep ==
    ASSUME Sound, InProcess, [Next]_vars
    PROVE  CallersCanceled'
<1> DEFINE Same == \A b \in Callers : settling'[b].pc = "runs" => settling'[b] = settling[b]
<1>0. TypeOK /\ settling \in [Callers -> Settling]
  BY DEF Sound, SettleInv, TypeOK
<1>N. TypeOK
  BY <1>0
<1> SUFFICES ASSUME ~ CallersCanceled' PROVE FALSE
  OBVIOUS
<1>S. ~ Same
  BY CallersKept
<1>1. CASE create_backfill
  BY <1>1, <1>S DEF create_backfill
<1>2. CASE cancel_backfill
  BY <1>2, <1>S DEF cancel_backfill
<1>3. CASE pickup
  BY <1>3, <1>S DEF pickup
<1>4. CASE exec_read
  BY <1>4, <1>S DEF exec_read
<1>5. CASE exec_register
  BY <1>5, <1>S DEF exec_register
<1>6. CASE exec_flip
  BY <1>6, <1>S DEF exec_flip
<1>7. CASE enqueue_backfill_runs
  BY <1>7, <1>N, NoQueue
<1>8. CASE enqueue_check
  BY <1>8, <1>N, NoQueue
<1>9. CASE exec_fail
  BY <1>9, <1>S DEF exec_fail
<1>10. CASE exec_settle
<2>1. CASE settle_read("exec")
  BY <1>10, <2>1, ReadCanceled DEF exec_settle, settle_read, SettleTo, SettleReturns, Callers
<2>2. CASE UNCHANGED settling
  BY <2>2, <1>S
<2> QED BY <1>10, <2>1, <2>2 DEF exec_settle, settle_read, SettleTo, SettleReturns
<1>11. CASE exec_final
  BY <1>11, <1>S DEF exec_final
<1>12. CASE monitor_tick
  BY <1>12, <1>S DEF monitor_tick
<1>13. CASE monitor_idle_tick
  BY <1>13, <1>S DEF monitor_idle_tick
<1>14. CASE resume_stalled_backfill
  BY <1>14, <1>S DEF resume_stalled_backfill
<1>15. CASE monitor_settle
  BY <1>15, ReadCanceled DEF monitor_settle, Callers
<1>16. CASE cancel_settle
<2>1. CASE settle_read("request")
  BY <1>16, <2>1, ReadCanceled DEF cancel_settle, Callers
<2>2. CASE UNCHANGED settling
  BY <2>2, <1>S
<2> QED BY <1>16, <2>1, <2>2 DEF cancel_settle
<1>17. CASE cancel_write
  BY <1>17, <1>S DEF cancel_write
<1>18. CASE cancel_read
  BY <1>18, <1>S DEF cancel_read, GivesUp
<1>19. CASE cancel_links
  BY <1>19, <1>S DEF cancel_links, GivesUp
<1>20. CASE cascade_done
  BY <1>20, <1>S DEF cascade_done
<1>21. CASE crash
  BY <1>21, <1>0, <1>S DEF crash, NotSettling
<1>22. ASSUME NEW a \in Callers, settle_runs(a) PROVE FALSE
<2>1. CASE NothingSettled(a)
  BY <1>0, <1>S, <2>1 DEF NothingSettled, NotSettling
<2>2. ASSUME NEW R, NEW F, NEW D, Derives(a, R, F, D) PROVE FALSE
  BY <1>0, <1>S, <2>2 DEF Derives, Settling
<2> QED BY <1>22, <1>0, <2>1, <2>2, SettleRunsResult
<1>23. ASSUME NEW a \in Callers, settle_write(a) PROVE FALSE
  BY <1>23, <1>0, <1>S DEF settle_write, SettleReturns, NotSettling
<1>24. ASSUME NEW g \in Groups, group_skip(g) PROVE FALSE
  BY <1>24, <1>S DEF group_skip
<1>25. ASSUME NEW g \in Groups, link_backfill_run(g) PROVE FALSE
  BY <1>25, <1>S DEF link_backfill_run
<1>26. ASSUME NEW g \in Groups, link_commit(g) PROVE FALSE
  BY <1>26, <1>S DEF link_commit
<1>27. ASSUME NEW g \in Groups, link_check(g) PROVE FALSE
  BY <1>27, <1>S DEF link_check
<1>28. ASSUME NEW g \in Groups, run_child(g) PROVE FALSE
  BY <1>28, <1>S DEF run_child
<1>29. ASSUME NEW g \in Groups, run_child_error(g) PROVE FALSE
  BY <1>29, <1>S DEF run_child_error
<1>30. ASSUME NEW g \in Groups, child_done(g) PROVE FALSE
  BY <1>30, <1>S DEF child_done
<1>31. ASSUME NEW c \in Children, enqueue_sweep(c) PROVE FALSE
  BY <1>31, <1>N, NoQueue
<1>32. ASSUME NEW c \in Children, cascade_flag(c) PROVE FALSE
  BY <1>32, <1>S DEF cascade_flag
<1>33. ASSUME NEW c \in Children, cascade_flip(c) PROVE FALSE
  BY <1>33, <1>S DEF cascade_flip
<1>34. ASSUME NEW c \in Children, child_picked(c) PROVE FALSE
  BY <1>34, <1>N, NoQueue
<1>35. ASSUME NEW c \in Children, child_dequeued(c) PROVE FALSE
  BY <1>35, <1>N, NoQueue
<1>36. ASSUME NEW c \in Children, child_started(c) PROVE FALSE
  BY <1>36, <1>N, NoQueue
<1>37. ASSUME NEW c \in Children, child_ends(c) PROVE FALSE
  BY <1>37, <1>S DEF child_ends
<1>38. ASSUME NEW c \in Children, child_recorded(c) PROVE FALSE
  BY <1>38, <1>S DEF child_recorded
<1>39. ASSUME NEW c \in Children, child_swept(c) PROVE FALSE
  BY <1>39, <1>N, NoQueue
<1>40. ASSUME NEW c \in Children, child_error(c) PROVE FALSE
  BY <1>40, <1>N, NoQueue
<1>41. ASSUME NEW c \in Children, mark_missing(c) PROVE FALSE
  BY <1>41, <1>N, NoQueue
<1>42. CASE UNCHANGED vars
  BY <1>42, <1>S DEF vars
<1> QED
  BY <1>1, <1>2, <1>3, <1>4, <1>5, <1>6, <1>7, <1>8, <1>9, <1>10, <1>11, <1>12,
     <1>13, <1>14, <1>15, <1>16, <1>17, <1>18, <1>19, <1>20, <1>21, <1>22, <1>23,
     <1>24, <1>25, <1>26, <1>27, <1>28, <1>29, <1>30, <1>31, <1>32, <1>33, <1>34,
     <1>35, <1>36, <1>37, <1>38, <1>39, <1>40, <1>41, <1>42, NextCases

\* A key becomes Canceled with a child that was canceled, or with a settlement
\* that ends the backfill for good.
LEMMA RecordStep ==
    ASSUME Sound, InProcess, [Next]_vars
    PROVE  RecordCanceled'
<1>0. /\ outcome \in [Keys -> Outcomes] /\ RecordCanceled /\ BornForGood /\ SettlesOver
      /\ row \in [Children -> Terminal \cup {"none", "Queued", "NotStarted", "Started"}]
  BY DEF Sound, SettleInv, TypeOK, InProcess, CanceledByRun, RecordCanceled
<1>N. TypeOK
  BY DEF Sound, SettleInv
<1>K. \A k : CanceledRow(k, Children) => CanceledRow(k, Children)'
  BY CanceledStays
<1>S. (UNCHANGED outcome /\ (bstatus' \notin Ended \/ exec' \in Unminted
                              => bstatus \notin Ended \/ exec \in Unminted)) => RecordCanceled'
  BY <1>0, <1>K DEF RecordCanceled
<1>F. ASSUME NEW X, NEW Y, NEW Z, outcome' = Settled(outcome, X, Y, Z),
             UNCHANGED <<bstatus, exec>> \/ (bstatus \notin Ended /\ bstatus' \notin Ended)
                \/ (exec' \notin Unminted /\ UNCHANGED bstatus),
             \A k \in Z : CanceledRow(k, Children)'
      PROVE  RecordCanceled'
  <2>1. \A k \in Keys : outcome'[k] = "Canceled" => k \in Z \/ outcome[k] = "Canceled"
    BY <1>0, <1>F, SettledCanceled
  <2> QED BY <1>0, <1>F, <1>K, <2>1 DEF RecordCanceled
<1> USE <1>0, <1>S, ChildFacts DEF Ended, Unminted
<1>1. CASE create_backfill
  BY <1>1 DEF create_backfill
<1>2. CASE cancel_backfill
  BY <1>2 DEF cancel_backfill
<1>3. CASE pickup
  BY <1>3 DEF pickup
<1>4. CASE exec_read
  BY <1>4 DEF exec_read
<1>5. CASE exec_register
  BY <1>5 DEF exec_register
<1>6. CASE exec_flip
  BY <1>6 DEF exec_flip
<1>7. CASE enqueue_backfill_runs
  BY <1>7, <1>N, NoQueue
<1>8. CASE enqueue_check
  BY <1>8, <1>N, NoQueue
<1>9. CASE exec_fail
  BY <1>9 DEF exec_fail
<1>10. CASE exec_settle
  BY <1>10 DEF exec_settle, settle_read, SettleTo, SettleReturns
<1>11. CASE exec_final
  BY <1>11 DEF exec_final
<1>12. CASE monitor_tick
  BY <1>12 DEF monitor_tick
<1>13. CASE monitor_idle_tick
  BY <1>13 DEF monitor_idle_tick
<1>14. CASE resume_stalled_backfill
  BY <1>14 DEF resume_stalled_backfill
<1>15. CASE monitor_settle
  BY <1>15 DEF monitor_settle, settle_read, SettleTo, SettleReturns
<1>16. CASE cancel_settle
  BY <1>16 DEF cancel_settle, settle_read, SettleTo, SettleReturns
<1>17. CASE cancel_write
  BY <1>17 DEF cancel_write
<1>18. CASE cancel_read
  BY <1>18 DEF cancel_read, GivesUp
<1>19. CASE cancel_links
  BY <1>19 DEF cancel_links, GivesUp
<1>20. CASE cascade_done
  BY <1>20 DEF cascade_done
<1>21. CASE crash
  BY <1>21 DEF crash
<1>22. ASSUME NEW a \in Callers, settle_runs(a) PROVE RecordCanceled'
  BY <1>22 DEF settle_runs, SettleTo, SettleReturns
<1>23. ASSUME NEW a \in Callers, settle_write(a) PROVE RecordCanceled'
<2>1. settling[a].status \in Ended
  BY <1>23 DEF settle_write, SettlesOver
<2>2. exec \notin Unminted
  <3>1. CASE a = "exec"
    BY <1>23, <3>1 DEF settle_write, Sound, SettleInv, CallersWait
  <3>2. CASE a # "exec"
    BY <1>23, <3>2 DEF settle_write, SettlesOver, BornForGood
  <3> QED BY <3>1, <3>2
<2>3. exec' \notin Unminted
  BY <1>23, <2>2, SettleUndisturbed
<2> QED BY <1>23, <2>1, <2>3 DEF settle_write, RecordCanceled
<1>24. ASSUME NEW g \in Groups, group_skip(g) PROVE RecordCanceled'
  BY <1>24 DEF group_skip
<1>25. ASSUME NEW g \in Groups, link_backfill_run(g) PROVE RecordCanceled'
<2>1. CASE fail_group(g)
  BY <1>25, <2>1, <1>F DEF link_backfill_run, fail_group
<2>2. CASE UNCHANGED outcome
  BY <1>25, <2>2 DEF link_backfill_run
<2> QED BY <1>25, <2>1, <2>2 DEF link_backfill_run
<1>26. ASSUME NEW g \in Groups, link_commit(g) PROVE RecordCanceled'
  BY <1>26 DEF link_commit
<1>27. ASSUME NEW g \in Groups, link_check(g) PROVE RecordCanceled'
  BY <1>27 DEF link_check
<1>28. ASSUME NEW g \in Groups, run_child(g) PROVE RecordCanceled'
<2>1. CASE fail_group(g)
  BY <1>28, <2>1, <1>F DEF run_child, fail_group
<2>2. CASE UNCHANGED outcome
  BY <1>28, <2>2 DEF run_child
<2> QED BY <1>28, <2>1, <2>2 DEF run_child
<1>29. ASSUME NEW g \in Groups, run_child_error(g) PROVE RecordCanceled'
<2>1. CASE fail_group(g)
  BY <1>29, <2>1, <1>F DEF run_child_error, fail_group
<2>2. CASE UNCHANGED outcome
  BY <1>29, <2>2 DEF run_child_error
<2> QED BY <1>29, <2>1, <2>2 DEF run_child_error
<1>30. ASSUME NEW g \in Groups, child_done(g) PROVE RecordCanceled'
  BY <1>30 DEF child_done
<1>31. ASSUME NEW c \in Children, enqueue_sweep(c) PROVE RecordCanceled'
  BY <1>31, <1>N, NoQueue
<1>32. ASSUME NEW c \in Children, cascade_flag(c) PROVE RecordCanceled'
  BY <1>32 DEF cascade_flag
<1>33. ASSUME NEW c \in Children, cascade_flip(c) PROVE RecordCanceled'
<2>1. row' = row
  BY <1>33 DEF cascade_flip, cancel_queued_run, cancel_queued_run_fails, InProcess,
     RunningIsCurrent
<2>2. CASE row[c] = "Canceled" /\ outcome' = Settled(outcome, {}, {}, KeysOf(c))
  <3>1. \A k \in KeysOf(c) : CanceledRow(k, Children)'
    BY <2>1, <2>2 DEF CanceledRow
  <3> QED BY <1>33, <2>2, <3>1, <1>F DEF cascade_flip
<2>3. CASE UNCHANGED outcome
  BY <1>33, <2>3 DEF cascade_flip
<2>4. (row[c] = "Canceled" /\ outcome' = Settled(outcome, {}, {}, KeysOf(c)))
         \/ UNCHANGED outcome
  BY <1>33 DEF cascade_flip, cancel_queued_run, cancel_queued_run_fails, InProcess,
     RunningIsCurrent
<2> QED BY <2>2, <2>3, <2>4
<1>34. ASSUME NEW c \in Children, child_picked(c) PROVE RecordCanceled'
  BY <1>34, <1>N, NoQueue
<1>35. ASSUME NEW c \in Children, child_dequeued(c) PROVE RecordCanceled'
  BY <1>35, <1>N, NoQueue
<1>36. ASSUME NEW c \in Children, child_started(c) PROVE RecordCanceled'
  BY <1>36, <1>N, NoQueue
<1>37. ASSUME NEW c \in Children, child_ends(c) PROVE RecordCanceled'
  BY <1>37 DEF child_ends
<1>38. ASSUME NEW c \in Children, child_recorded(c) PROVE RecordCanceled'
<2>1. UNCHANGED <<row, step_failed, bstatus, exec>>
  BY <1>38 DEF child_recorded
<2>2. row[c] \in Terminal /\ row[c] = result[c]
  BY <1>38 DEF child_recorded, InProcess, RunningIsCurrent
<2>3. CASE row[c] = "Canceled" /\ outcome' = Settled(outcome, {}, {}, KeysOf(c))
  <3>1. \A k \in KeysOf(c) : CanceledRow(k, Children)'
    BY <2>1, <2>3 DEF CanceledRow
  <3> QED BY <2>1, <2>3, <3>1, <1>F
<2>4. CASE \E X, Y : outcome' = Settled(outcome, X, Y, {})
  BY <2>1, <2>4, <1>F
<2>5. CASE UNCHANGED outcome
  BY <2>1, <2>5
<2> QED BY <1>38, <2>2, <2>3, <2>4, <2>5 DEF child_recorded, record_outcome, Terminal
<1>39. ASSUME NEW c \in Children, child_swept(c) PROVE RecordCanceled'
  BY <1>39, <1>N, NoQueue
<1>40. ASSUME NEW c \in Children, child_error(c) PROVE RecordCanceled'
  BY <1>40, <1>N, NoQueue
<1>41. ASSUME NEW c \in Children, mark_missing(c) PROVE RecordCanceled'
  BY <1>41, <1>N, NoQueue
<1>42. CASE UNCHANGED vars
  BY <1>42 DEF vars
<1> QED
  BY <1>1, <1>2, <1>3, <1>4, <1>5, <1>6, <1>7, <1>8, <1>9, <1>10, <1>11, <1>12,
     <1>13, <1>14, <1>15, <1>16, <1>17, <1>18, <1>19, <1>20, <1>21, <1>22, <1>23,
     <1>24, <1>25, <1>26, <1>27, <1>28, <1>29, <1>30, <1>31, <1>32, <1>33, <1>34,
     <1>35, <1>36, <1>37, <1>38, <1>39, <1>40, <1>41, <1>42, NextCases

\* The rows from which the monitor or the request derives Canceled are those of
\* all groups.
LEMMA DerivesOver ==
    ASSUME Sound, InProcess, NEW a \in Callers, a # "exec", settle_runs(a), ~ NothingSettled(a)
    PROVE  /\ \E c \in Children : row[c] # "none"
           /\ settling'[a].status = "Canceled" =>
                 \A g \in Groups : row[<<g, attempt>>] \in Terminal
<1> DEFINE s == settling[a]
           R == {c \in s.links : row[c] # "none"}
           ran == UNION {KeysOf(c) : c \in R}
           F == Failed(R) \cup WithoutRun(s.old, "Failed", ran, {})
           C == Canceled(R) \cup {} \cup WithoutRun(s.old, "Canceled", ran, {})
<1>0. /\ settling \in [Callers -> Settling] /\ s.pc = "runs" /\ s \in Settling
      /\ BornForGood /\ CanceledByRun
  BY DEF Sound, SettleInv, TypeOK, InProcess, settle_runs
<1>1. R \subseteq Children
  BY <1>0 DEF Settling
<1>2. /\ \A c \in R : row[c] \in Terminal
      /\ R \cup {} # {}
      /\ Keys \subseteq ran \cup F \cup C
      /\ settling' = [settling EXCEPT ![a] =
            [NotSettling EXCEPT !.pc = "write", !.status = DerivedStatus(F, C),
                      !.new = Settled(Unsettled, Completed(R), F, C)]]
  BY DEF settle_runs, SettleTo, SettleReturns, NothingSettled
<1>3. \E c \in Children : row[c] # "none"
  BY <1>1, <1>2
<1>4. Canceled(R) \subseteq ran
  BY DEF Canceled
<1>5. WithoutRun(s.old, "Canceled", ran, {}) = {}
  <2>1. ASSUME NEW k \in Keys, s.old[k] = "Canceled" PROVE k \in ran
    <3>1. PICK c \in s.links : row[c] = "Canceled" /\ k \in KeysOf(c)
      BY <1>0, <2>1 DEF CanceledByRun, CanceledRow
    <3>2. c \in R
      BY <3>1
    <3> QED BY <3>1, <3>2
  <2> QED BY <2>1 DEF WithoutRun
<1>6. settling'[a].status = DerivedStatus(F, C)
  BY <1>0, <1>2 DEF NotSettling
<1>7. DerivedStatus(F, C) = "Canceled" => F = {}
  BY DEF DerivedStatus
<1>8. ASSUME settling'[a].status = "Canceled", NEW g \in Groups
      PROVE  row[<<g, attempt>>] \in Terminal
  <2>1. Keys \subseteq ran
    BY <1>2, <1>4, <1>5, <1>6, <1>7, <1>8
  <2>2. PICK k \in Members[g] : k \in Keys
    BY BackfillAssumption, ChildFacts
  <2>3. PICK c \in R : k \in KeysOf(c)
    BY <2>1, <2>2
  <2>4. c \in Children /\ c[1] \in Groups /\ c = <<c[1], c[2]>>
    BY <1>1, <2>3, ChildFacts
  <2>5. c[1] = g
    BY <2>2, <2>3, <2>4, BackfillAssumption DEF KeysOf
  <2>6. c[2] = attempt
    BY <1>0, <2>3, <2>4 DEF BornForGood
  <2> QED BY <1>2, <2>3, <2>4, <2>5, <2>6
<1> QED BY <1>3, <1>8

\* A settlement as Canceled stays one of a backfill whose groups are all over.
LEMMA SettlesOverStep ==
    ASSUME Sound, InProcess, [Next]_vars
    PROVE  SettlesOver'
<1> DEFINE Same == \A b \in Callers : settling'[b].pc = "write" => settling'[b] = settling[b]
           Over(b) == /\ settling[b].status \in Ended
                      /\ b # "exec" =>
                            /\ \E c \in Children : row[c] # "none"
                            /\ settling[b].status = "Canceled" =>
                                  \A g \in Groups : row[<<g, attempt>>] \in Terminal
<1>0. /\ TypeOK /\ settling \in [Callers -> Settling] /\ SettlesOver /\ BornForGood
      /\ \A b \in Callers : settling[b].pc = "write" => Over(b)
      /\ Groups # {} /\ attempt \in 0 .. MaxAttempts /\ "exec" \in Callers
  BY BackfillAssumption DEF Sound, SettleInv, TypeOK, InProcess, SettlesOver, Callers
<1>N. TypeOK
  BY <1>0
<1>R. \A d \in Children : /\ row[d] \in Terminal => row'[d] = row[d]
                          /\ row[d] # "none" => row'[d] # "none"
  BY RowsKept
<1>T. \A g : row[<<g, attempt>>] \in Terminal /\ <<g, attempt>> \in Children
                => row'[<<g, attempt>>] \in Terminal
  BY <1>R
<1>A. ASSUME NEW b \in Callers, b # "exec", settling[b].pc = "write"
      PROVE  attempt' = attempt /\ attempt \in Attempts
  <2>1. PICK c \in Children : row[c] # "none"
    BY <1>0, <1>A
  <2>2. exec \notin Unminted /\ ~ queued /\ c[2] = attempt
    BY <1>0, <2>1 DEF BornForGood, InProcess
  <2>3. ~ exec_flip
    BY <2>2 DEF exec_flip, Unminted
  <2>4. attempt \in Attempts
    BY <2>2, ChildFacts
  <2>5. attempt' = attempt
    <3>1. CASE \/ create_backfill \/ cancel_backfill \/ pickup \/ exec_read \/ exec_register
               \/ enqueue_backfill_runs \/ enqueue_check \/ exec_fail \/ exec_settle
               \/ exec_final \/ crash \/ UNCHANGED vars
      BY <3>1 DEF create_backfill, cancel_backfill, pickup, exec_read, exec_register,
         enqueue_backfill_runs, enqueue_check, exec_fail, exec_settle, exec_final, crash,
         loop, vars
    <3>2. CASE \/ monitor_tick \/ monitor_idle_tick \/ resume_stalled_backfill
               \/ monitor_settle \/ cancel_settle \/ cancel_write \/ cancel_read
               \/ cancel_links \/ cascade_done
               \/ \E a \in Callers : settle_runs(a) \/ settle_write(a)
      BY <3>2 DEF monitor_tick, monitor_idle_tick, resume_stalled_backfill, monitor_settle,
         cancel_settle, cancel_write, cancel_read, cancel_links, cascade_done, settle_runs,
         settle_write, loop
    <3>3. CASE \E g \in Groups :
                 \/ group_skip(g) \/ link_backfill_run(g) \/ link_commit(g) \/ link_check(g)
                 \/ run_child(g) \/ run_child_error(g) \/ child_done(g)
      BY <3>3 DEF group_skip, link_backfill_run, link_commit, link_check, run_child,
         run_child_error, child_done, loop
    <3>4. CASE \E d \in Children :
                 \/ enqueue_sweep(d) \/ cascade_flag(d) \/ cascade_flip(d) \/ child_picked(d)
                 \/ child_dequeued(d) \/ child_started(d) \/ child_ends(d)
                 \/ child_recorded(d) \/ child_swept(d) \/ child_error(d) \/ mark_missing(d)
      BY <3>4 DEF enqueue_sweep, cascade_flag, cascade_flip, child_picked, child_dequeued,
         child_started, child_ends, child_recorded, child_swept, child_error, mark_missing,
         loop
    <3> QED BY <2>3, <3>1, <3>2, <3>3, <3>4, NextCases
  <2> QED BY <2>4, <2>5
<1>K. ASSUME NEW b \in Callers, settling[b].pc = "write", settling'[b] = settling[b]
      PROVE  Over(b)'
  <2>1. Over(b)
    BY <1>0, <1>K
  <2>2. CASE b = "exec"
    BY <1>K, <2>1, <2>2
  <2>3. CASE b # "exec"
    <3>1. attempt' = attempt /\ \A g \in Groups : <<g, attempt>> \in Children
      BY <1>A, <1>K, <2>3, ChildFacts
    <3>2. \E c \in Children : row'[c] # "none"
      BY <1>R, <2>1, <2>3
    <3>3. settling[b].status = "Canceled" => \A g \in Groups : row'[<<g, attempt'>>] \in Terminal
      BY <1>T, <2>1, <2>3, <3>1
    <3> QED BY <1>K, <2>1, <3>2, <3>3
  <2> QED BY <2>2, <2>3
<1>S. ASSUME Same PROVE SettlesOver'
  <2>1. ASSUME NEW b \in Callers, settling'[b].pc = "write" PROVE Over(b)'
    <3>1. settling'[b] = settling[b] /\ settling[b].pc = "write"
      BY <1>S, <2>1
    <3> QED BY <3>1, <1>K
  <2> QED BY <2>1 DEF SettlesOver
<1>I. NotSettling.pc = "idle"
  BY DEF NotSettling
<1> HIDE DEF Over
<1>1. CASE create_backfill
  BY <1>1, <1>S DEF create_backfill
<1>2. CASE cancel_backfill
  BY <1>2, <1>S DEF cancel_backfill
<1>3. CASE pickup
  BY <1>3, <1>S DEF pickup
<1>4. CASE exec_read
  BY <1>4, <1>S DEF exec_read
<1>5. CASE exec_register
  BY <1>5, <1>S DEF exec_register
<1>6. CASE exec_flip
  BY <1>6, <1>S DEF exec_flip
<1>7. CASE enqueue_backfill_runs
  BY <1>7, <1>N, NoQueue
<1>8. CASE enqueue_check
  BY <1>8, <1>N, NoQueue
<1>9. CASE exec_fail
  BY <1>9, <1>S DEF exec_fail
<1>10. CASE exec_settle
  BY <1>10, <1>0, <1>S, ReadWritesNothing DEF exec_settle, Callers
<1>11. CASE exec_final
  BY <1>11, <1>S DEF exec_final
<1>12. CASE monitor_tick
  BY <1>12, <1>S DEF monitor_tick
<1>13. CASE monitor_idle_tick
  BY <1>13, <1>S DEF monitor_idle_tick
<1>14. CASE resume_stalled_backfill
  BY <1>14, <1>S DEF resume_stalled_backfill
<1>15. CASE monitor_settle
  BY <1>15, <1>0, <1>S, ReadWritesNothing DEF monitor_settle, Callers
<1>16. CASE cancel_settle
  BY <1>16, <1>0, <1>S, ReadWritesNothing DEF cancel_settle, Callers
<1>17. CASE cancel_write
  BY <1>17, <1>S DEF cancel_write
<1>18. CASE cancel_read
  BY <1>18, <1>S DEF cancel_read, GivesUp
<1>19. CASE cancel_links
  BY <1>19, <1>S DEF cancel_links, GivesUp
<1>20. CASE cascade_done
  BY <1>20, <1>S DEF cascade_done
<1>21. CASE crash
  BY <1>21, <1>S DEF crash, NotSettling, Callers
<1>22. ASSUME NEW a \in Callers, settle_runs(a) PROVE SettlesOver'
<2>1. row' = row /\ attempt' = attempt
  BY <1>22 DEF settle_runs
<2>3. CASE NothingSettled(a)
  <3>1. Same
    BY <1>0, <2>3 DEF NothingSettled, NotSettling
  <3> QED BY <3>1, <1>S
<2>4. CASE ~ NothingSettled(a)
  <3>1. PICK R \in SUBSET Children : \E F, D : Derives(a, R, F, D)
    BY <1>22, <1>0, <2>4, SettleRunsResult
  <3>2. PICK F, D : Derives(a, R, F, D)
    BY <3>1
  <3>3. \A b \in Callers : settling'[b] = IF b = a
            THEN [NotSettling EXCEPT !.pc = "write", !.status = DerivedStatus(F, D),
                    !.new = Settled(Unsettled, Completed(R), F, D)]
            ELSE settling[b]
    BY <1>0, <3>2 DEF Derives
  <3>4. settling'[a].status \in Ended
    <4>1. settling'[a].status = DerivedStatus(F, D)
      BY <3>3 DEF NotSettling
    <4> QED BY <4>1 DEF DerivedStatus, Ended
  <3>5. Over(a)'
    BY <1>22, <2>1, <2>4, <3>4, DerivesOver DEF Over
  <3>6. ASSUME NEW b \in Callers, settling'[b].pc = "write" PROVE Over(b)'
    <4>1. CASE b = a
      BY <3>5, <4>1
    <4>2. CASE b # a
      BY <1>K, <3>3, <3>6, <4>2
    <4> QED BY <4>1, <4>2
  <3> QED BY <3>6 DEF SettlesOver, Over
<2> QED BY <2>3, <2>4
<1>23. ASSUME NEW a \in Callers, settle_write(a) PROVE SettlesOver'
<2>1. Same
  BY <1>23, <1>0 DEF settle_write, SettleReturns, NotSettling
<2> QED BY <1>S, <2>1
<1>24. ASSUME NEW g \in Groups, group_skip(g) PROVE SettlesOver'
  BY <1>24, <1>S DEF group_skip
<1>25. ASSUME NEW g \in Groups, link_backfill_run(g) PROVE SettlesOver'
  BY <1>25, <1>S DEF link_backfill_run
<1>26. ASSUME NEW g \in Groups, link_commit(g) PROVE SettlesOver'
  BY <1>26, <1>S DEF link_commit
<1>27. ASSUME NEW g \in Groups, link_check(g) PROVE SettlesOver'
  BY <1>27, <1>S DEF link_check
<1>28. ASSUME NEW g \in Groups, run_child(g) PROVE SettlesOver'
  BY <1>28, <1>S DEF run_child
<1>29. ASSUME NEW g \in Groups, run_child_error(g) PROVE SettlesOver'
  BY <1>29, <1>S DEF run_child_error
<1>30. ASSUME NEW g \in Groups, child_done(g) PROVE SettlesOver'
  BY <1>30, <1>S DEF child_done
<1>31. ASSUME NEW c \in Children, enqueue_sweep(c) PROVE SettlesOver'
  BY <1>31, <1>N, NoQueue
<1>32. ASSUME NEW c \in Children, cascade_flag(c) PROVE SettlesOver'
  BY <1>32, <1>S DEF cascade_flag
<1>33. ASSUME NEW c \in Children, cascade_flip(c) PROVE SettlesOver'
  BY <1>33, <1>S DEF cascade_flip
<1>34. ASSUME NEW c \in Children, child_picked(c) PROVE SettlesOver'
  BY <1>34, <1>N, NoQueue
<1>35. ASSUME NEW c \in Children, child_dequeued(c) PROVE SettlesOver'
  BY <1>35, <1>N, NoQueue
<1>36. ASSUME NEW c \in Children, child_started(c) PROVE SettlesOver'
  BY <1>36, <1>N, NoQueue
<1>37. ASSUME NEW c \in Children, child_ends(c) PROVE SettlesOver'
  BY <1>37, <1>S DEF child_ends
<1>38. ASSUME NEW c \in Children, child_recorded(c) PROVE SettlesOver'
  BY <1>38, <1>S DEF child_recorded
<1>39. ASSUME NEW c \in Children, child_swept(c) PROVE SettlesOver'
  BY <1>39, <1>N, NoQueue
<1>40. ASSUME NEW c \in Children, child_error(c) PROVE SettlesOver'
  BY <1>40, <1>N, NoQueue
<1>41. ASSUME NEW c \in Children, mark_missing(c) PROVE SettlesOver'
  BY <1>41, <1>N, NoQueue
<1>42. CASE UNCHANGED vars
  BY <1>42, <1>S DEF vars
<1> QED
  BY <1>1, <1>2, <1>3, <1>4, <1>5, <1>6, <1>7, <1>8, <1>9, <1>10, <1>11, <1>12,
     <1>13, <1>14, <1>15, <1>16, <1>17, <1>18, <1>19, <1>20, <1>21, <1>22, <1>23,
     <1>24, <1>25, <1>26, <1>27, <1>28, <1>29, <1>30, <1>31, <1>32, <1>33, <1>34,
     <1>35, <1>36, <1>37, <1>38, <1>39, <1>40, <1>41, <1>42, NextCases

\* Whether the run queue is enabled is fixed when the daemon starts.
LEMMA QueuedStays ==
    ASSUME [Next]_vars
    PROVE  queued' = queued
  BY NextCases, ZenonT(60) DEF create_backfill, cancel_backfill, pickup, exec_read, exec_register,
    exec_flip, enqueue_backfill_runs, enqueue_check, exec_fail, exec_settle,
    exec_final, monitor_tick, monitor_idle_tick, resume_stalled_backfill, monitor_settle,
    cancel_settle, cancel_write, cancel_read, cancel_links,
    cascade_done, crash, settle_runs, settle_write, group_skip, link_backfill_run, link_commit,
    link_check, run_child, child_done, enqueue_sweep, cascade_flag, cascade_flip, child_picked,
    child_dequeued, child_started, child_ends, child_recorded, child_swept, child_error, mark_missing,
    run_child_error, SettleTo, SettleReturns, settle_read, GivesUp, vars

\* In process terminate_run has nothing to forget.
LEMMA NoneMissing ==
    ASSUME Sound, InProcess, [Next]_vars
    PROVE  missing' = {}
<1>1. ~ queued /\ missing = {} /\ TypeOK
  BY DEF InProcess, Sound, SettleInv
<1> QED
  BY <1>1, NoQueue, NextCases, ZenonT(60)
  DEF create_backfill, cancel_backfill, pickup, exec_read, exec_register,
    exec_flip, enqueue_backfill_runs, enqueue_check, exec_fail, exec_settle,
    exec_final, monitor_tick, monitor_idle_tick, resume_stalled_backfill, monitor_settle,
    cancel_settle, cancel_write, cancel_read, cancel_links,
    cascade_done, crash, settle_runs, settle_write, group_skip, link_backfill_run, link_commit,
    link_check, run_child, run_child_error, child_done, enqueue_sweep, cascade_flag, cascade_flip,
    terminate_run, child_picked, child_dequeued, child_started, child_ends, child_recorded,
    child_swept, child_error, mark_missing, vars

\* The loop in process never turns to the run queue's steps.
LEMMA NoSubmit ==
    ASSUME Sound, InProcess, [Next]_vars
    PROVE  exec' \notin {"submit", "check", "sweep"}
<1>1. ~ queued /\ exec \notin {"submit", "check", "sweep"} /\ TypeOK
  BY DEF InProcess, Sound, SettleInv
<1> QED
  BY <1>1, NoQueue, NextCases, ZenonT(60)
  DEF create_backfill, cancel_backfill, pickup, exec_read, exec_register,
    exec_flip, enqueue_backfill_runs, enqueue_check, exec_fail, exec_settle,
    exec_final, monitor_tick, monitor_idle_tick, resume_stalled_backfill, monitor_settle,
    cancel_settle, cancel_write, cancel_read, cancel_links,
    cascade_done, crash, settle_runs, settle_write, group_skip, link_backfill_run, link_commit,
    link_check, run_child, child_done, enqueue_sweep, cascade_flag, cascade_flip, child_picked,
    child_dequeued, child_started, child_ends, child_recorded, child_swept, child_error, mark_missing,
    run_child_error, SettleTo, SettleReturns, settle_read, GivesUp, vars

-----------------------------------------------------------------------------
(* The cascade.                                                            *)

\* The cancel that ends the backfill finds the child the loop is at among the
\* links, and keeps it in its cascade until it has flagged it.
LEMMA CascadeStep ==
    ASSUME Sound, InProcess, [Next]_vars
    PROVE  CascadeReaches'
<1>0. /\ row \in [Children -> Terminal \cup {"none", "Queued", "NotStarted", "Started"}]
      /\ BornForGood /\ SettlesOver /\ CascadeReaches /\ AttemptFits
      /\ links \in SUBSET Children /\ attempt \in 0 .. MaxAttempts /\ current \in SUBSET Groups
      /\ ~ queued
  BY DEF Sound, SettleInv, TypeOK, InProcess
<1>N. TypeOK
  BY DEF Sound, SettleInv
<1>R. ASSUME NEW g \in current, exec \in {"linked", "running"}
      PROVE  /\ <<g, attempt>> \in links
             /\ row[<<g, attempt>>] \in Terminal => row'[<<g, attempt>>] \in Terminal
  BY <1>0, <1>R, RowsKept DEF BornForGood
<1>M. ASSUME NEW g \in current, exec \in {"linked", "running"} PROVE <<g, attempt>> \in Children
  BY <1>0, <1>M, ChildFacts DEF AttemptFits, Minted, Attempts
<1>F. ASSUME UNCHANGED <<bstatus, exec, attempt, current, flagged, missed, request, cascade>>
      PROVE  CascadeReaches'
  BY <1>0, <1>F, <1>R DEF CascadeReaches
<1> USE <1>0, <1>F DEF CascadeReaches
<1>1. CASE create_backfill
  BY <1>1 DEF create_backfill
<1>2. CASE cancel_backfill
  BY <1>2 DEF cancel_backfill
<1>3. CASE pickup
  BY <1>3 DEF pickup
<1>4. CASE exec_read
  BY <1>4 DEF exec_read
<1>5. CASE exec_register
  BY <1>5 DEF exec_register
<1>6. CASE exec_flip
  BY <1>6 DEF exec_flip
<1>7. CASE enqueue_backfill_runs
  BY <1>7, <1>N, NoQueue
<1>8. CASE enqueue_check
  BY <1>8, <1>N, NoQueue
<1>9. CASE exec_fail
  BY <1>9 DEF exec_fail
<1>10. CASE exec_settle
  BY <1>10 DEF exec_settle, settle_read, SettleTo, SettleReturns
<1>11. CASE exec_final
  BY <1>11 DEF exec_final
<1>12. CASE monitor_tick
  BY <1>12 DEF monitor_tick
<1>13. CASE monitor_idle_tick
  BY <1>13 DEF monitor_idle_tick
<1>14. CASE resume_stalled_backfill
  BY <1>14 DEF resume_stalled_backfill
<1>15. CASE monitor_settle
  BY <1>15 DEF monitor_settle, settle_read, SettleTo, SettleReturns
<1>16. CASE cancel_settle
  BY <1>16 DEF cancel_settle, settle_read, SettleTo, SettleReturns
<1>17. CASE cancel_write
  BY <1>17 DEF cancel_write
<1>18. CASE cancel_read
  BY <1>18, <1>M DEF cancel_read, GivesUp
<1>19. CASE cancel_links
<2>1. CASE cascade' = {c \in links : row[c] \notin Terminal}
            /\ request' = "cascade" /\ missed' = {}
  <3>1. ASSUME NEW g \in current, exec \in {"linked", "running"}
        PROVE  row[<<g, attempt>>] \in Terminal \/ <<g, attempt>> \in cascade'
    BY <1>R, <2>1, <3>1
  <3> QED BY <1>19, <2>1, <3>1 DEF cancel_links
<2>2. CASE missed' = Children
  BY <1>19, <2>2, <1>M DEF cancel_links
<2> QED BY <1>19, <2>1, <2>2 DEF cancel_links, GivesUp
<1>20. CASE cascade_done
  BY <1>20 DEF cascade_done
<1>21. CASE crash
  BY <1>21 DEF crash
<1>22. ASSUME NEW a \in Callers, settle_runs(a) PROVE CascadeReaches'
  BY <1>22, <1>F, SettleUndisturbed DEF settle_runs
<1>23. ASSUME NEW a \in Callers, settle_write(a) PROVE CascadeReaches'
<2>1. a = "exec" => exec = "groups"
  BY <1>23 DEF settle_write, Sound, SettleInv, CallersWait
<2>2. a # "exec" /\ settling[a].status = "Canceled" =>
         \A g \in Groups : row[<<g, attempt>>] \in Terminal
  BY <1>23 DEF settle_write, SettlesOver
<2> QED BY <1>23, <2>1, <2>2, SettleUndisturbed DEF settle_write
<1>24. ASSUME NEW g \in Groups, group_skip(g) PROVE CascadeReaches'
  BY <1>24 DEF group_skip
<1>25. ASSUME NEW g \in Groups, link_backfill_run(g) PROVE CascadeReaches'
  BY <1>25 DEF link_backfill_run
<1>26. ASSUME NEW g \in Groups, link_commit(g) PROVE CascadeReaches'
  BY <1>26 DEF link_commit
<1>27. ASSUME NEW g \in Groups, link_check(g) PROVE CascadeReaches'
  BY <1>27 DEF link_check
<1>28. ASSUME NEW g \in Groups, run_child(g) PROVE CascadeReaches'
<2>1. ChildOf(g) \in Children /\ ChildOf(g) = <<g, attempt>> /\ Unborn(ChildOf(g))
  BY <1>28, ChildFacts DEF run_child, ChildOf, Unborn, Linking, AttemptFits, Minted, Attempts
<2>2. row[<<g, attempt>>] = "none"
  BY <2>1 DEF Sound, SettleInv, UnbornRows
<2>3. CASE exec' = "running" /\ UNCHANGED current
  BY <1>28, <2>2, <2>3 DEF run_child, Terminal
<2>4. CASE exec' = "groups"
  BY <2>4
<2> QED BY <1>28, <2>3, <2>4 DEF run_child
<1>29. ASSUME NEW g \in Groups, run_child_error(g) PROVE CascadeReaches'
  BY <1>29 DEF run_child_error
<1>30. ASSUME NEW g \in Groups, child_done(g) PROVE CascadeReaches'
  BY <1>30 DEF child_done
<1>31. ASSUME NEW c \in Children, enqueue_sweep(c) PROVE CascadeReaches'
  BY <1>31, <1>N, NoQueue
<1>32. ASSUME NEW c \in Children, cascade_flag(c) PROVE CascadeReaches'
  BY <1>32 DEF cascade_flag
<1>33. ASSUME NEW c \in Children, cascade_flip(c) PROVE CascadeReaches'
<2>1. row' = row
  BY <1>33 DEF cascade_flip, cancel_queued_run, cancel_queued_run_fails, InProcess, RunningIsCurrent
<2> QED BY <1>33, <2>1 DEF cascade_flip
<1>34. ASSUME NEW c \in Children, child_picked(c) PROVE CascadeReaches'
  BY <1>34, <1>N, NoQueue
<1>35. ASSUME NEW c \in Children, child_dequeued(c) PROVE CascadeReaches'
  BY <1>35, <1>N, NoQueue
<1>36. ASSUME NEW c \in Children, child_started(c) PROVE CascadeReaches'
  BY <1>36, <1>N, NoQueue
<1>37. ASSUME NEW c \in Children, child_ends(c) PROVE CascadeReaches'
<2>1. UNCHANGED <<bstatus, exec, attempt, current, flagged, missed, request, cascade>>
  BY <1>37 DEF child_ends
<2> QED BY <2>1
<1>38. ASSUME NEW c \in Children, child_recorded(c) PROVE CascadeReaches'
  BY <1>38 DEF child_recorded
<1>39. ASSUME NEW c \in Children, child_swept(c) PROVE CascadeReaches'
  BY <1>39, <1>N, NoQueue
<1>40. ASSUME NEW c \in Children, child_error(c) PROVE CascadeReaches'
  BY <1>40, <1>N, NoQueue
<1>41. ASSUME NEW c \in Children, mark_missing(c) PROVE CascadeReaches'
  BY <1>41, <1>N, NoQueue
<1>42. CASE UNCHANGED vars
  BY <1>42 DEF vars
<1> QED
  BY <1>1, <1>2, <1>3, <1>4, <1>5, <1>6, <1>7, <1>8, <1>9, <1>10, <1>11, <1>12,
     <1>13, <1>14, <1>15, <1>16, <1>17, <1>18, <1>19, <1>20, <1>21, <1>22, <1>23,
     <1>24, <1>25, <1>26, <1>27, <1>28, <1>29, <1>30, <1>31, <1>32, <1>33, <1>34,
     <1>35, <1>36, <1>37, <1>38, <1>39, <1>40, <1>41, <1>42, NextCases

-----------------------------------------------------------------------------

\* The inductive invariant holds: in process, nothing makes a backfill Canceled
\* with a child under way but a cancel that is going to flag it, or has failed to,
\* wherever a crash, a failing call, a resume or a late settlement falls.
THEOREM ReachInvHolds == Spec => []ReachInv
<1>1. Init => ReachInv
  <2> SUFFICES ASSUME Init PROVE ReachInv
    OBVIOUS
  <2>1. /\ \A c \in Children : row[c] = "none" /\ phase[c] = "none"
        /\ \A a \in Callers : settling[a].pc = "idle"
        /\ bstatus = "none" /\ exec = "idle" /\ missing = {}
        /\ \A k \in Keys : outcome[k] = "none"
    BY DEF Init, NotSettling, Callers, Unsettled
  <2> QED BY <2>1 DEF ReachInv, RunningIsCurrent, BornForGood, CanceledByRun, SettlesOver,
             CascadeReaches, Unminted
<1>2. Sound /\ Sound' /\ ReachInv /\ [Next]_vars => ReachInv'
  <2> SUFFICES ASSUME Sound, Sound', ReachInv, [Next]_vars PROVE ReachInv'
    OBVIOUS
  <2>1. CASE queued
    <3>1. queued' = queued
      BY QueuedStays
    <3> QED BY <2>1, <3>1 DEF ReachInv
  <2>2. CASE ~ queued
    <3>0. Sound /\ InProcess
      BY <2>2 DEF ReachInv, InProcess
    <3>1. exec' \notin {"submit", "check", "sweep"}
      BY <3>0, NoSubmit
    <3>2. CanceledByRun'
      BY <3>0, CallersStep, RecordStep DEF CanceledByRun, CallersCanceled, RecordCanceled
    <3> QED BY <3>0, <3>1, <3>2, NoneMissing, QueuedStays, RunningStep, BornStep,
                SettlesOverStep, CascadeStep DEF ReachInv
  <2> QED BY <2>1, <2>2
<1> QED BY <1>1, <1>2, SoundHolds, PTL DEF Spec

\* A backfill run in process is canceled with its child, for any number of
\* groups, keys, cancels, resumes, crashes and failing calls: when the request
\* is through, a child that is under way has its flag, but for the children the
\* request could not reach, each by a call of its own that failed
\* (link_backfill_run, Storage::cancel_backfill, RepoHandle::cancel_backfill).
THEOREM CancelReachesChildHolds == Spec => []CancelReachesChild
<1>1. ReachInv => CancelReachesChild
  <2> SUFFICES ASSUME ReachInv, ~ queued, bstatus = "Canceled", request = "idle",
                      NEW c \in Children, phase[c] = "started"
               PROVE  c \in flagged \cup missed
    BY DEF CancelReachesChild
  <2>1. exec = "running" /\ current = {c[1]} /\ c[2] = attempt /\ row[c] = "Started"
    BY DEF ReachInv, RunningIsCurrent
  <2>2. c = <<c[1], attempt>> /\ c[1] \in current
    BY <2>1, ChildFacts
  <2>3. CascadeReaches
    BY DEF ReachInv
  <2> QED BY <2>1, <2>2, <2>3 DEF CascadeReaches, Terminal
<1> QED BY <1>1, ReachInvHolds, PTL

=============================================================================
