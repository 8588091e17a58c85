--------------------------- MODULE BackfillProofs ---------------------------
(***************************************************************************)
(* Proofs about Backfill, for every set of groups and keys and any number  *)
(* of cancels, crashes and failing storage calls: its type invariant, and  *)
(* that a backfill reported as a success, or a key reported as completed,  *)
(* has been materialized and that no group is run by two children.         *)
(***************************************************************************)
EXTENDS Backfill, FiniteSetTheorems, TLAPS

USE DEF record, runs, loop, mon, user, config, ExecTo, PhaseTo, Fault

\* Every step is one of the operations, applied to a caller of
\* try_complete_backfill, a group or a child where it takes one.
LEMMA NextCases ==
    ASSUME [Next]_vars
    PROVE  \/ create_backfill
           \/ cancel_backfill
           \/ pickup
           \/ exec_read
           \/ exec_register
           \/ exec_flip
           \/ enqueue_backfill_runs
           \/ enqueue_check
           \/ exec_fail
           \/ exec_settle
           \/ exec_final
           \/ monitor_tick
           \/ monitor_idle_tick
           \/ resume_stalled_backfill
           \/ monitor_settle
           \/ cancel_settle
           \/ cancel_write
           \/ cancel_read
           \/ cancel_links
           \/ cascade_done
           \/ crash
           \/ \E a \in Callers : settle_runs(a) \/ settle_write(a)
           \/ \E g \in Groups :
                 \/ group_skip(g)
                 \/ link_backfill_run(g)
                 \/ link_commit(g)
                 \/ link_check(g)
                 \/ run_child(g)
                 \/ run_child_error(g)
                 \/ child_done(g)
           \/ \E c \in Children :
                 \/ enqueue_sweep(c)
                 \/ cascade_flag(c)
                 \/ cascade_flip(c)
                 \/ child_picked(c)
                 \/ child_dequeued(c)
                 \/ child_started(c)
                 \/ child_ends(c)
                 \/ child_recorded(c)
                 \/ child_swept(c)
                 \/ child_error(c)
                 \/ mark_missing(c)
           \/ UNCHANGED vars
  BY DEF Next, ExecNext, MonitorNext, RequestNext, ChildNext, Callers

\* The keys of a group, and of the child that runs it, are requested keys.
LEMMA ChildFacts ==
    /\ \A g \in Groups : Members[g] \subseteq Keys
    /\ \A c \in Children : /\ c[1] \in Groups /\ c[2] \in Attempts /\ c = <<c[1], c[2]>>
                           /\ KeysOf(c) \subseteq Keys
    /\ \A g \in Groups, n \in Attempts : <<g, n>> \in Children
    /\ MaxAttempts \in Nat /\ Attempts \subseteq Nat
  BY BackfillAssumption DEF Keys, Children, KeysOf, Attempts, MaxAttempts

\* BackfillOutcomeRow::settled yields an outcome for every key.
LEMMA SettledType ==
    ASSUME NEW old \in [Keys -> Outcomes], NEW X, NEW Y, NEW Z
    PROVE  Settled(old, X, Y, Z) \in [Keys -> Outcomes]
  BY DEF Settled, Outcomes

\* BackfillOutcomeRow::settled makes no key Completed but those it is given.
LEMMA SettledCompleted ==
    ASSUME NEW old \in [Keys -> Outcomes], NEW X, NEW Y, NEW Z, NEW k \in Keys,
           Settled(old, X, Y, Z)[k] = "Completed"
    PROVE  k \in X \/ old[k] = "Completed"
  BY DEF Settled

-----------------------------------------------------------------------------
(* Types.                                                                  *)

\* Every caller's view of try_complete_backfill starts out well-typed.
LEMMA NotSettlingType == NotSettling \in Settling /\ Unsettled \in [Keys -> Outcomes]
  BY DEF NotSettling, Settling, Unsettled, Outcomes

\* A caller's view stays well-typed when the record is read.
LEMMA SettleReadType ==
    ASSUME TypeOK, NEW a \in Callers, settle_read(a)
    PROVE  settling' \in [Callers -> Settling]
<1>1. NotCompleted \in [Keys -> Outcomes]
  BY DEF NotCompleted, Outcomes, TypeOK
<1>2. [NotSettling EXCEPT !.pc = "runs", !.links = links, !.old = NotCompleted] \in Settling
  BY <1>1, NotSettlingType DEF Settling, TypeOK
<1> QED
  BY <1>2, NotSettlingType DEF settle_read, SettleTo, SettleReturns, TypeOK

\* Where the callers stand after caller a has read, or written, for it.
Moved(a) ==
    /\ exec' = exec \/ (a = "exec" /\ exec' = "final")
    /\ monitor' = monitor \/ (a = "monitor" /\ monitor' = "idle")
    /\ request' = request \/ (a = "request" /\ request' \in {"write", "links", "idle"})

\* A call of try_complete_backfill moves no caller but its own.
LEMMA SettleMoves ==
    ASSUME NEW a \in Callers, settle_read(a) \/ settle_runs(a) \/ settle_write(a)
    PROVE  Moved(a)
<1>1. ASSUME NEW r, SettleTo(a, r) PROVE Moved(a)
  BY <1>1 DEF SettleTo, Moved
<1>2. ASSUME NEW st, SettleReturns(a, st) PROVE Moved(a)
  BY <1>2 DEF SettleReturns, Moved
<1> QED
  BY <1>1, <1>2 DEF settle_read, settle_runs, settle_write

\* The loop and the request are not moved on while they have still to settle.
LEMMA SettleKeeps ==
    ASSUME settling \in [Callers -> Settling], NEW a \in Callers,
           settle_read(a) \/ settle_runs(a) \/ settle_write(a)
    PROVE  /\ exec' = exec \/ settling'["exec"] = NotSettling
           /\ request' = request \/ settling'["request"] = NotSettling
           /\ \A b \in Callers : b # a => settling'[b] = settling[b]
<1>1. ASSUME NEW r, SettleTo(a, r)
      PROVE  /\ exec' = exec /\ request' = request
             /\ \A b \in Callers : b # a => settling'[b] = settling[b]
  BY <1>1 DEF SettleTo
<1>2. ASSUME NEW st, SettleReturns(a, st)
      PROVE  /\ exec' = exec \/ settling'["exec"] = NotSettling
             /\ request' = request \/ settling'["request"] = NotSettling
             /\ \A b \in Callers : b # a => settling'[b] = settling[b]
  BY <1>2 DEF SettleReturns
<1> QED
  BY <1>1, <1>2 DEF settle_read, settle_runs, settle_write

\* Caller a has nothing to settle.
NothingSettled(a) == settling' = [settling EXCEPT ![a] = NotSettling]

\* Caller a derives the status and the outcomes from the rows R, the failed
\* keys F and the canceled keys C.
Derives(a, R, F, C) ==
    settling' = [settling EXCEPT ![a] =
        [NotSettling EXCEPT !.pc = "write", !.status = DerivedStatus(F, C),
           !.new = Settled(Unsettled, Completed(R), F, C)]]

\* The rows R are all over and, with F and C, account for every key.
Accounts(R, F, C) ==
    /\ \A c \in R : row[c] \in Terminal
    /\ Failed(R) \subseteq F /\ Canceled(R) \subseteq C
    /\ Keys \subseteq (UNION {KeysOf(c) : c \in R}) \cup F \cup C

\* settle_runs leaves its caller with nothing to settle, or with what it derives
\* from rows that account for every key.
LEMMA SettleRunsResult ==
    ASSUME TypeOK, NEW a \in Callers, settle_runs(a), ~ NothingSettled(a)
    PROVE  \E R \in SUBSET Children : \E F, C : Accounts(R, F, C) /\ Derives(a, R, F, C)
<1> DEFINE s == settling[a]
           R == {c \in s.links : row[c] # "none"}
           ran == UNION {KeysOf(c) : c \in R}
           extra == IF a = "exec" THEN canceled_keys ELSE {}
           F == Failed(R) \cup WithoutRun(s.old, "Failed", ran, extra)
           C == Canceled(R) \cup extra \cup WithoutRun(s.old, "Canceled", ran, extra)
<1>1. R \in SUBSET Children
  BY DEF TypeOK, Settling
<1>2. Accounts(R, F, C) /\ Derives(a, R, F, C)
  BY DEF settle_runs, SettleTo, SettleReturns, NothingSettled, Accounts, Derives
<1> HIDE DEF F, C, R
<1> QED
  BY <1>1, <1>2

\* Every operation keeps the record, the children's rows and the locals of the
\* four actors in their ranges, and mints no more run ids than there are.
LEMMA TypeStep ==
    ASSUME TypeOK, AttemptFits, [Next]_vars
    PROVE  TypeOK' /\ AttemptFits'
<1> USE BackfillAssumption, ChildFacts, NotSettlingType
    DEF TypeOK, AttemptFits, Unminted, Minted, Ended, Terminal
<1>1. CASE create_backfill
  BY <1>1 DEF create_backfill
<1>2. CASE cancel_backfill
  BY <1>2 DEF cancel_backfill
<1>3. CASE pickup
  BY <1>3 DEF pickup
<1>4. CASE exec_read
  BY <1>4 DEF exec_read
<1>5. CASE exec_register
  BY <1>5 DEF exec_register
<1>6. CASE exec_flip
<2>1. attempt' \in 0 .. MaxAttempts /\ AttemptFits'
  BY <1>6 DEF exec_flip
<2>2. bstatus' \in Ended \cup {"none", "Requested", "InProgress"} /\ faults' \in 0 .. MaxFaults
  BY <1>6 DEF exec_flip
<2>3. stop' \in BOOLEAN
  BY <1>6 DEF exec_flip
<2> QED
  BY <1>6, <2>1, <2>2, <2>3 DEF exec_flip
<1>7. CASE enqueue_backfill_runs
<2>1. CASE attempt \in Attempts /\ exec = "submit"
  <3>1. Groups \X {attempt} \subseteq Children
    BY <2>1 DEF Children
  <3> QED BY <1>7, <3>1 DEF enqueue_backfill_runs
<2> QED BY <1>7, <2>1 DEF enqueue_backfill_runs, Attempts
<1>8. CASE enqueue_check
<2>1. exec = "check" => Groups \X {attempt} \subseteq Children
  BY DEF Children, Attempts
<2> QED BY <1>8, <2>1 DEF enqueue_check
<1>9. CASE exec_fail
  BY <1>9 DEF exec_fail
<1>10. CASE exec_settle
<2>1. settling' \in [Callers -> Settling]
  BY <1>10, SettleReadType DEF exec_settle, Callers
<2>2. /\ exec' \in {"groups", "final"} /\ exec = "groups"
      /\ monitor' = monitor /\ request' = request
  BY <1>10, SettleMoves DEF exec_settle, Moved, Callers
<2>3. faults' \in 0 .. MaxFaults
  BY <1>10 DEF exec_settle
<2> QED
  BY <1>10, <2>1, <2>2, <2>3 DEF exec_settle
<1>11. CASE exec_final
<2>1. stop' \in BOOLEAN
  BY <1>11 DEF exec_final
<2>2. bstatus' \in Ended \cup {"none", "Requested", "InProgress"} /\ faults' \in 0 .. MaxFaults
  BY <1>11 DEF exec_final
<2> QED
  BY <1>11, <2>1, <2>2 DEF exec_final
<1>12. CASE monitor_tick
<2>1. sighted' \in BOOLEAN
  BY <1>12 DEF monitor_tick
<2>2. slow' \in 0 .. MaxSlow
  BY <1>12 DEF monitor_tick
<2>3. monitor' \in {"idle", "settle", "resume"}
  BY <1>12 DEF monitor_tick
<2> QED
  BY <1>12, <2>1, <2>2, <2>3 DEF monitor_tick
<1>13. CASE monitor_idle_tick
<2>1. sighted' \in BOOLEAN
  BY <1>13 DEF monitor_idle_tick
<2> QED
  BY <1>13, <2>1 DEF monitor_idle_tick
<1>14. CASE resume_stalled_backfill
  BY <1>14 DEF resume_stalled_backfill
<1>15. CASE monitor_settle
  BY <1>15, SettleReadType, SettleMoves DEF monitor_settle, Moved, Callers
<1>16. CASE cancel_settle
  BY <1>16, SettleReadType, SettleMoves DEF cancel_settle, Moved, Callers
<1>17. CASE cancel_write
  BY <1>17 DEF cancel_write
<1>18. CASE cancel_read
  BY <1>18 DEF cancel_read, GivesUp
<1>19. CASE cancel_links
  BY <1>19 DEF cancel_links, GivesUp
<1>20. CASE cascade_done
  BY <1>20 DEF cascade_done
<1>21. CASE crash
<2>1. phase' \in [Children -> {"none", "picked", "launched", "started",
                               "recording", "over", "dead"}]
  BY <1>21 DEF crash
<2>2. settling' \in [Callers -> Settling]
  BY <1>21 DEF crash
<2>3. stop' \in BOOLEAN /\ sighted' \in BOOLEAN
  BY <1>21 DEF crash
<2>4. faults' \in 0 .. MaxFaults
  BY <1>21 DEF crash
<2> QED
  BY <1>21, <2>1, <2>2, <2>3, <2>4 DEF crash
<1>22. ASSUME NEW a \in Callers, settle_runs(a) PROVE TypeOK' /\ AttemptFits'
<2>1. settling' \in [Callers -> Settling]
  <3>1. CASE NothingSettled(a)
    BY <3>1 DEF NothingSettled, Settling
  <3>2. ASSUME NEW R, NEW F, NEW C, Derives(a, R, F, C)
        PROVE  settling' \in [Callers -> Settling]
    <4>1. DerivedStatus(F, C) \in Ended
      BY DEF DerivedStatus
    <4>2. Settled(Unsettled, Completed(R), F, C) \in [Keys -> Outcomes]
      BY SettledType
    <4> QED BY <3>2, <4>1, <4>2, ZenonT(60) DEF Derives, Settling
  <3> QED BY <3>1, <3>2, <1>22, SettleRunsResult
<2>2. /\ exec' \in {exec, "final"} /\ monitor' \in {monitor, "idle"}
      /\ request' \in {request, "write", "links", "idle"}
  BY <1>22, SettleMoves DEF Moved
<2> QED
  BY <1>22, <2>1, <2>2 DEF settle_runs
<1>23. ASSUME NEW a \in Callers, settle_write(a) PROVE TypeOK' /\ AttemptFits'
<2>1. /\ settling[a] \in Settling
         /\ settling[a].new \in [Keys -> Outcomes]
         /\ settling[a].status \in Ended \cup {"none"}
  BY DEF Settling
<2> QED
  BY <1>23, <2>1, SettleMoves DEF settle_write, SettleReturns, Moved
<1>24. ASSUME NEW g \in Groups, group_skip(g) PROVE TypeOK' /\ AttemptFits'
  BY <1>24 DEF group_skip
<1>25. ASSUME NEW g \in Groups, link_backfill_run(g) PROVE TypeOK' /\ AttemptFits'
  BY <1>25, SettledType DEF link_backfill_run, fail_group
<1>26. ASSUME NEW g \in Groups, link_commit(g) PROVE TypeOK' /\ AttemptFits'
  BY <1>26 DEF link_commit, ChildOf, Attempts
<1>27. ASSUME NEW g \in Groups, link_check(g) PROVE TypeOK' /\ AttemptFits'
  BY <1>27 DEF link_check, ChildOf, Attempts
<1>28. ASSUME NEW g \in Groups, run_child(g) PROVE TypeOK' /\ AttemptFits'
<2>1. ChildOf(g) \in Children /\ exec = "linked"
  BY <1>28 DEF run_child, ChildOf, Attempts
<2>2. row' \in [Children -> Terminal \cup {"none", "Queued", "NotStarted", "Started"}]
  BY <1>28, <2>1 DEF run_child
<2>3. phase' \in [Children -> {"none", "picked", "launched", "started",
                               "recording", "over", "dead"}]
  BY <1>28, <2>1 DEF run_child
<2>4. outcome' \in [Keys -> Outcomes]
  BY <1>28, SettledType DEF run_child, fail_group
<2>5. stop' \in BOOLEAN
  BY <1>28 DEF run_child
<2>6. faults' \in 0 .. MaxFaults
  BY <1>28 DEF run_child
<2>7. current' \in SUBSET Groups /\ exec' \in {"running", "groups"}
  BY <1>28 DEF run_child
<2> QED
  BY <1>28, <2>1, <2>2, <2>3, <2>4, <2>5, <2>6, <2>7 DEF run_child
<1>29. ASSUME NEW g \in Groups, run_child_error(g) PROVE TypeOK' /\ AttemptFits'
<2>1. ChildOf(g) \in Children /\ exec = "running"
  BY <1>29 DEF run_child_error, ChildOf, Attempts
<2>2. phase' \in [Children -> {"none", "picked", "launched", "started",
                               "recording", "over", "dead"}]
  BY <1>29, <2>1 DEF run_child_error
<2>3. outcome' \in [Keys -> Outcomes]
  BY <1>29, SettledType DEF run_child_error, fail_group
<2>4. stop' \in BOOLEAN
  BY <1>29 DEF run_child_error
<2>5. faults' \in 0 .. MaxFaults
  BY <1>29 DEF run_child_error
<2> QED
  BY <1>29, <2>1, <2>2, <2>3, <2>4, <2>5 DEF run_child_error
<1>30. ASSUME NEW g \in Groups, child_done(g) PROVE TypeOK' /\ AttemptFits'
  BY <1>30 DEF child_done
<1>31. ASSUME NEW c \in Children, enqueue_sweep(c) PROVE TypeOK' /\ AttemptFits'
  BY <1>31, SettledType DEF enqueue_sweep, cancel_queued_run, cancel_queued_run_fails
<1>32. ASSUME NEW c \in Children, cascade_flag(c) PROVE TypeOK' /\ AttemptFits'
  BY <1>32 DEF cascade_flag
<1>33. ASSUME NEW c \in Children, cascade_flip(c) PROVE TypeOK' /\ AttemptFits'
<2>1. row' \in [Children -> Terminal \cup {"none", "Queued", "NotStarted", "Started"}]
  BY <1>33 DEF cascade_flip, cancel_queued_run, cancel_queued_run_fails
<2>2. outcome' \in [Keys -> Outcomes]
  BY <1>33, SettledType DEF cascade_flip, cancel_queued_run, cancel_queued_run_fails
<2>3. missing' \in SUBSET Children
  BY <1>33 DEF cascade_flip, terminate_run
<2>4. faults' \in 0 .. MaxFaults
  BY <1>33 DEF cascade_flip
<2> QED
  BY <1>33, <2>1, <2>2, <2>3, <2>4 DEF cascade_flip
<1>34. ASSUME NEW c \in Children, child_picked(c) PROVE TypeOK' /\ AttemptFits'
  BY <1>34 DEF child_picked
<1>35. ASSUME NEW c \in Children, child_dequeued(c) PROVE TypeOK' /\ AttemptFits'
  BY <1>35 DEF child_dequeued
<1>36. ASSUME NEW c \in Children, child_started(c) PROVE TypeOK' /\ AttemptFits'
<2>1. row' \in [Children -> Terminal \cup {"none", "Queued", "NotStarted", "Started"}]
  BY <1>36 DEF child_started
<2>2. phase' \in [Children -> {"none", "picked", "launched", "started",
                               "recording", "over", "dead"}]
  BY <1>36 DEF child_started
<2> QED
  BY <1>36, <2>1, <2>2 DEF child_started
<1>37. ASSUME NEW c \in Children, child_ends(c) PROVE TypeOK' /\ AttemptFits'
  BY <1>37 DEF child_ends
<1>38. ASSUME NEW c \in Children, child_recorded(c) PROVE TypeOK' /\ AttemptFits'
  BY <1>38, SettledType DEF child_recorded, record_outcome
<1>39. ASSUME NEW c \in Children, child_swept(c) PROVE TypeOK' /\ AttemptFits'
  BY <1>39, SettledType DEF child_swept, fail_run_if_active
<1>40. ASSUME NEW c \in Children, child_error(c) PROVE TypeOK' /\ AttemptFits'
<2>1. row' \in [Children -> Terminal \cup {"none", "Queued", "NotStarted", "Started"}]
  BY <1>40 DEF child_error, fail_run_if_active
<2>2. outcome' \in [Keys -> Outcomes]
  BY <1>40, SettledType DEF child_error, fail_run_if_active
<2>3. phase' \in [Children -> {"none", "picked", "launched", "started",
                               "recording", "over", "dead"}]
  BY <1>40 DEF child_error
<2> QED
  BY <1>40, <2>1, <2>2, <2>3 DEF child_error
<1>41. ASSUME NEW c \in Children, mark_missing(c) PROVE TypeOK' /\ AttemptFits'
<2>1. row' \in [Children -> Terminal \cup {"none", "Queued", "NotStarted", "Started"}]
  BY <1>41 DEF mark_missing
<2>2. outcome' \in [Keys -> Outcomes]
  BY <1>41, SettledType DEF mark_missing
<2> QED
  BY <1>41, <2>1, <2>2 DEF mark_missing
<1>42. CASE UNCHANGED vars
  BY <1>42 DEF vars
<1> QED
  BY <1>1, <1>2, <1>3, <1>4, <1>5, <1>6, <1>7, <1>8, <1>9, <1>10, <1>11, <1>12,
     <1>13, <1>14, <1>15, <1>16, <1>17, <1>18, <1>19, <1>20, <1>21, <1>22, <1>23,
     <1>24, <1>25, <1>26, <1>27, <1>28, <1>29, <1>30, <1>31, <1>32, <1>33, <1>34,
     <1>35, <1>36, <1>37, <1>38, <1>39, <1>40, <1>41, <1>42, NextCases

\* The initial states are well-typed.
LEMMA InitTyped == Init => TypeOK /\ AttemptFits
<1> SUFFICES ASSUME Init PROVE TypeOK /\ AttemptFits
  OBVIOUS
<1>1. queued \in BOOLEAN /\ policy \in {"Continue", "StopOnFailure"}
  BY Zenon DEF Init
<1>2. stop \in BOOLEAN /\ sighted \in BOOLEAN
  BY Zenon DEF Init
<1>3. /\ cancels \in 0 .. MaxCancels /\ slow \in 0 .. MaxSlow
      /\ faults \in 0 .. MaxFaults
      /\ attempt \in 0 .. MaxAttempts
  BY BackfillAssumption, ChildFacts DEF Init
<1>4. settling \in [Callers -> Settling] /\ outcome \in [Keys -> Outcomes]
  BY NotSettlingType DEF Init
<1>5. AttemptFits
  BY DEF Init, AttemptFits, Unminted, Minted
<1> QED
  BY <1>1, <1>2, <1>3, <1>4, <1>5 DEF Init, TypeOK, Terminal

\* The record, the children's rows and the locals of the four actors stay in
\* their ranges, crashes and failing storage calls included.
THEOREM TypeCorrect == Spec => []TypeOK
<1>1. Init => TypeOK /\ AttemptFits
  BY InitTyped
<1> QED BY <1>1, TypeStep, PTL DEF Spec

\* The execution thread and the request do nothing else while they settle.
LEMMA WaitStep ==
    ASSUME TypeOK, CallersWait, [Next]_vars
    PROVE  CallersWait'
<1>0. settling \in [Callers -> Settling] /\ "exec" \in Callers /\ "request" \in Callers
  BY DEF TypeOK, Callers
<1> USE DEF CallersWait
<1>1. CASE create_backfill
  BY <1>1 DEF create_backfill
<1>2. CASE cancel_backfill
  BY <1>2 DEF cancel_backfill
<1>3. CASE pickup
  BY <1>3 DEF pickup
<1>4. CASE exec_read
  BY <1>4 DEF exec_read
<1>5. CASE exec_register
  BY <1>5 DEF exec_register
<1>6. CASE exec_flip
  BY <1>6 DEF exec_flip
<1>7. CASE enqueue_backfill_runs
  BY <1>7 DEF enqueue_backfill_runs
<1>8. CASE enqueue_check
  BY <1>8 DEF enqueue_check
<1>9. CASE exec_fail
  BY <1>9 DEF exec_fail
<1>10. CASE exec_settle
<2>1. CASE settle_read("exec")
  BY <1>10, <2>1, <1>0, SettleKeeps DEF exec_settle, Callers, NotSettling
<2>2. CASE UNCHANGED <<settling, request>>
  BY <1>10, <2>2 DEF exec_settle
<2> QED BY <1>10, <2>1, <2>2 DEF exec_settle
<1>11. CASE exec_final
  BY <1>11 DEF exec_final
<1>12. CASE monitor_tick
  BY <1>12 DEF monitor_tick
<1>13. CASE monitor_idle_tick
  BY <1>13 DEF monitor_idle_tick
<1>14. CASE resume_stalled_backfill
  BY <1>14 DEF resume_stalled_backfill
<1>15. CASE monitor_settle
  BY <1>15, <1>0, SettleKeeps DEF monitor_settle, Callers, NotSettling
<1>16. CASE cancel_settle
  BY <1>16, <1>0, SettleKeeps DEF cancel_settle, Callers, NotSettling
<1>17. CASE cancel_write
  BY <1>17 DEF cancel_write
<1>18. CASE cancel_read
  BY <1>18 DEF cancel_read, GivesUp
<1>19. CASE cancel_links
  BY <1>19 DEF cancel_links, GivesUp
<1>20. CASE cascade_done
  BY <1>20 DEF cascade_done
<1>21. CASE crash
  BY <1>21 DEF crash, NotSettling, Callers
<1>22. ASSUME NEW a \in Callers, settle_runs(a) PROVE CallersWait'
<2>1. settling[a].pc = "runs" /\ rest' = rest
  BY <1>22 DEF settle_runs
<2> QED BY <1>22, <1>0, <2>1, SettleKeeps DEF NotSettling
<1>23. ASSUME NEW a \in Callers, settle_write(a) PROVE CallersWait'
  BY <1>23, <1>0, SettleKeeps DEF settle_write, NotSettling
<1>24. ASSUME NEW g \in Groups, group_skip(g) PROVE CallersWait'
  BY <1>24 DEF group_skip
<1>25. ASSUME NEW g \in Groups, link_backfill_run(g) PROVE CallersWait'
  BY <1>25 DEF link_backfill_run
<1>26. ASSUME NEW g \in Groups, link_commit(g) PROVE CallersWait'
  BY <1>26 DEF link_commit
<1>27. ASSUME NEW g \in Groups, link_check(g) PROVE CallersWait'
  BY <1>27 DEF link_check
<1>28. ASSUME NEW g \in Groups, run_child(g) PROVE CallersWait'
  BY <1>28 DEF run_child
<1>29. ASSUME NEW g \in Groups, run_child_error(g) PROVE CallersWait'
  BY <1>29 DEF run_child_error
<1>30. ASSUME NEW g \in Groups, child_done(g) PROVE CallersWait'
  BY <1>30 DEF child_done
<1>31. ASSUME NEW c \in Children, enqueue_sweep(c) PROVE CallersWait'
  BY <1>31 DEF enqueue_sweep
<1>32. ASSUME NEW c \in Children, cascade_flag(c) PROVE CallersWait'
  BY <1>32 DEF cascade_flag
<1>33. ASSUME NEW c \in Children, cascade_flip(c) PROVE CallersWait'
  BY <1>33 DEF cascade_flip
<1>34. ASSUME NEW c \in Children, child_picked(c) PROVE CallersWait'
  BY <1>34 DEF child_picked
<1>35. ASSUME NEW c \in Children, child_dequeued(c) PROVE CallersWait'
  BY <1>35 DEF child_dequeued
<1>36. ASSUME NEW c \in Children, child_started(c) PROVE CallersWait'
  BY <1>36 DEF child_started
<1>37. ASSUME NEW c \in Children, child_ends(c) PROVE CallersWait'
  BY <1>37 DEF child_ends
<1>38. ASSUME NEW c \in Children, child_recorded(c) PROVE CallersWait'
  BY <1>38 DEF child_recorded
<1>39. ASSUME NEW c \in Children, child_swept(c) PROVE CallersWait'
  BY <1>39 DEF child_swept, fail_run_if_active
<1>40. ASSUME NEW c \in Children, child_error(c) PROVE CallersWait'
  BY <1>40 DEF child_error, fail_run_if_active
<1>41. ASSUME NEW c \in Children, mark_missing(c) PROVE CallersWait'
  BY <1>41 DEF mark_missing
<1>42. CASE UNCHANGED vars
  BY <1>42 DEF vars
<1> QED
  BY <1>1, <1>2, <1>3, <1>4, <1>5, <1>6, <1>7, <1>8, <1>9, <1>10, <1>11, <1>12,
     <1>13, <1>14, <1>15, <1>16, <1>17, <1>18, <1>19, <1>20, <1>21, <1>22, <1>23,
     <1>24, <1>25, <1>26, <1>27, <1>28, <1>29, <1>30, <1>31, <1>32, <1>33, <1>34,
     <1>35, <1>36, <1>37, <1>38, <1>39, <1>40, <1>41, <1>42, NextCases

-----------------------------------------------------------------------------
(* What the children's rows say stays true.                                *)

\* No step takes the success of a child's own thread back, or adds a failed key
\* to it.
LEMMA SuccessStays ==
    ASSUME TypeOK, AttemptFits, StoppedRows, UnbornRows, [Next]_vars
    PROVE  \A d \in Children : result[d] = "Success" =>
               result'[d] = "Success" /\ step_failed'[d] = step_failed[d]
<1> DEFINE Stays == \A d \in Children : result[d] = "Success" =>
               result'[d] = "Success" /\ step_failed'[d] = step_failed[d]
<1> USE ChildFacts DEF TypeOK, StoppedRows, Terminal
<1>1. CASE create_backfill
  BY <1>1 DEF create_backfill
<1>2. CASE cancel_backfill
  BY <1>2 DEF cancel_backfill
<1>3. CASE pickup
  BY <1>3 DEF pickup
<1>4. CASE exec_read
  BY <1>4 DEF exec_read
<1>5. CASE exec_register
  BY <1>5 DEF exec_register
<1>6. CASE exec_flip
  BY <1>6 DEF exec_flip
<1>7. CASE enqueue_backfill_runs
  BY <1>7 DEF enqueue_backfill_runs, UnbornRows, Unborn
<1>8. CASE enqueue_check
  BY <1>8 DEF enqueue_check
<1>9. CASE exec_fail
  BY <1>9 DEF exec_fail
<1>10. CASE exec_settle
  BY <1>10 DEF exec_settle, settle_read, SettleTo, SettleReturns
<1>11. CASE exec_final
  BY <1>11 DEF exec_final
<1>12. CASE monitor_tick
  BY <1>12 DEF monitor_tick
<1>13. CASE monitor_idle_tick
  BY <1>13 DEF monitor_idle_tick
<1>14. CASE resume_stalled_backfill
  BY <1>14 DEF resume_stalled_backfill
<1>15. CASE monitor_settle
  BY <1>15 DEF monitor_settle, settle_read, SettleTo, SettleReturns
<1>16. CASE cancel_settle
  BY <1>16 DEF cancel_settle, settle_read, SettleTo, SettleReturns
<1>17. CASE cancel_write
  BY <1>17 DEF cancel_write
<1>18. CASE cancel_read
  BY <1>18 DEF cancel_read, GivesUp
<1>19. CASE cancel_links
  BY <1>19 DEF cancel_links, GivesUp
<1>20. CASE cascade_done
  BY <1>20 DEF cascade_done
<1>21. CASE crash
  BY <1>21 DEF crash
<1>22. ASSUME NEW a \in Callers, settle_runs(a) PROVE Stays
  BY <1>22 DEF settle_runs, SettleTo, SettleReturns
<1>23. ASSUME NEW a \in Callers, settle_write(a) PROVE Stays
  BY <1>23 DEF settle_write, SettleReturns
<1>24. ASSUME NEW g \in Groups, group_skip(g) PROVE Stays
  BY <1>24 DEF group_skip
<1>25. ASSUME NEW g \in Groups, link_backfill_run(g) PROVE Stays
  BY <1>25 DEF link_backfill_run
<1>26. ASSUME NEW g \in Groups, link_commit(g) PROVE Stays
  BY <1>26 DEF link_commit
<1>27. ASSUME NEW g \in Groups, link_check(g) PROVE Stays
  BY <1>27 DEF link_check
<1>28. ASSUME NEW g \in Groups, run_child(g) PROVE Stays
  BY <1>28
     DEF run_child, ChildOf, UnbornRows, Unborn, Linking, AttemptFits, Minted, Attempts
<1>29. ASSUME NEW g \in Groups, run_child_error(g) PROVE Stays
  BY <1>29 DEF run_child_error
<1>30. ASSUME NEW g \in Groups, child_done(g) PROVE Stays
  BY <1>30 DEF child_done
<1>31. ASSUME NEW c \in Children, enqueue_sweep(c) PROVE Stays
  BY <1>31 DEF enqueue_sweep, cancel_queued_run, cancel_queued_run_fails
<1>32. ASSUME NEW c \in Children, cascade_flag(c) PROVE Stays
  BY <1>32 DEF cascade_flag
<1>33. ASSUME NEW c \in Children, cascade_flip(c) PROVE Stays
  BY <1>33 DEF cascade_flip, cancel_queued_run, cancel_queued_run_fails
<1>34. ASSUME NEW c \in Children, child_picked(c) PROVE Stays
  BY <1>34 DEF child_picked
<1>35. ASSUME NEW c \in Children, child_dequeued(c) PROVE Stays
  BY <1>35 DEF child_dequeued
<1>36. ASSUME NEW c \in Children, child_started(c) PROVE Stays
  BY <1>36 DEF child_started
<1>37. ASSUME NEW c \in Children, child_ends(c) PROVE Stays
  BY <1>37 DEF child_ends
<1>38. ASSUME NEW c \in Children, child_recorded(c) PROVE Stays
  BY <1>38 DEF child_recorded
<1>39. ASSUME NEW c \in Children, child_swept(c) PROVE Stays
  BY <1>39 DEF child_swept, fail_run_if_active
<1>40. ASSUME NEW c \in Children, child_error(c) PROVE Stays
  BY <1>40 DEF child_error, fail_run_if_active
<1>41. ASSUME NEW c \in Children, mark_missing(c) PROVE Stays
  BY <1>41 DEF mark_missing
<1>42. CASE UNCHANGED vars
  BY <1>42 DEF vars
<1> QED
  BY <1>1, <1>2, <1>3, <1>4, <1>5, <1>6, <1>7, <1>8, <1>9, <1>10, <1>11, <1>12,
     <1>13, <1>14, <1>15, <1>16, <1>17, <1>18, <1>19, <1>20, <1>21, <1>22, <1>23,
     <1>24, <1>25, <1>26, <1>27, <1>28, <1>29, <1>30, <1>31, <1>32, <1>33, <1>34,
     <1>35, <1>36, <1>37, <1>38, <1>39, <1>40, <1>41, <1>42, NextCases

\* A key that has been materialized stays materialized.
LEMMA MaterializedStays ==
    ASSUME TypeOK, AttemptFits, StoppedRows, UnbornRows, [Next]_vars,
           NEW k, Materialized(k)
    PROVE  Materialized(k)'
  BY SuccessStays DEF Materialized

\* A child that succeeded does not start again, and one without a row does not
\* run.
LEMMA StoppedStep ==
    ASSUME TypeOK, AttemptFits, StoppedRows, UnbornRows, [Next]_vars
    PROVE  StoppedRows'
<1> USE ChildFacts DEF TypeOK, StoppedRows, Terminal
<1>1. CASE create_backfill
  BY <1>1 DEF create_backfill
<1>2. CASE cancel_backfill
  BY <1>2 DEF cancel_backfill
<1>3. CASE pickup
  BY <1>3 DEF pickup
<1>4. CASE exec_read
  BY <1>4 DEF exec_read
<1>5. CASE exec_register
  BY <1>5 DEF exec_register
<1>6. CASE exec_flip
  BY <1>6 DEF exec_flip
<1>7. CASE enqueue_backfill_runs
  BY <1>7 DEF enqueue_backfill_runs, UnbornRows, Unborn
<1>8. CASE enqueue_check
  BY <1>8 DEF enqueue_check
<1>9. CASE exec_fail
  BY <1>9 DEF exec_fail
<1>10. CASE exec_settle
  BY <1>10 DEF exec_settle
<1>11. CASE exec_final
  BY <1>11 DEF exec_final
<1>12. CASE monitor_tick
  BY <1>12 DEF monitor_tick
<1>13. CASE monitor_idle_tick
  BY <1>13 DEF monitor_idle_tick
<1>14. CASE resume_stalled_backfill
  BY <1>14 DEF resume_stalled_backfill
<1>15. CASE monitor_settle
  BY <1>15 DEF monitor_settle
<1>16. CASE cancel_settle
  BY <1>16 DEF cancel_settle
<1>17. CASE cancel_write
  BY <1>17 DEF cancel_write
<1>18. CASE cancel_read
  BY <1>18 DEF cancel_read, GivesUp
<1>19. CASE cancel_links
  BY <1>19 DEF cancel_links, GivesUp
<1>20. CASE cascade_done
  BY <1>20 DEF cascade_done
<1>21. CASE crash
  BY <1>21 DEF crash
<1>22. ASSUME NEW a \in Callers, settle_runs(a) PROVE StoppedRows'
  BY <1>22 DEF settle_runs, SettleTo, SettleReturns
<1>23. ASSUME NEW a \in Callers, settle_write(a) PROVE StoppedRows'
  BY <1>23 DEF settle_write, SettleReturns
<1>24. ASSUME NEW g \in Groups, group_skip(g) PROVE StoppedRows'
  BY <1>24 DEF group_skip
<1>25. ASSUME NEW g \in Groups, link_backfill_run(g) PROVE StoppedRows'
  BY <1>25 DEF link_backfill_run
<1>26. ASSUME NEW g \in Groups, link_commit(g) PROVE StoppedRows'
  BY <1>26 DEF link_commit
<1>27. ASSUME NEW g \in Groups, link_check(g) PROVE StoppedRows'
  BY <1>27 DEF link_check
<1>28. ASSUME NEW g \in Groups, run_child(g) PROVE StoppedRows'
<2>1. /\ ChildOf(g) \in Children /\ phase[ChildOf(g)] = "none"
      /\ result[ChildOf(g)] = "none" /\ result' = result
  BY <1>28 DEF run_child, ChildOf, UnbornRows, Unborn, Linking, AttemptFits, Minted, Attempts
<2>2. CASE /\ row' = [row EXCEPT ![ChildOf(g)] = "Started"]
           /\ phase' = [phase EXCEPT ![ChildOf(g)] = "started"]
  BY <2>1, <2>2
<2>3. CASE UNCHANGED <<row, phase>>
  BY <2>1, <2>3
<2> QED
  BY <1>28, <2>2, <2>3 DEF run_child
<1>29. ASSUME NEW g \in Groups, run_child_error(g) PROVE StoppedRows'
  BY <1>29 DEF run_child_error
<1>30. ASSUME NEW g \in Groups, child_done(g) PROVE StoppedRows'
  BY <1>30 DEF child_done
<1>31. ASSUME NEW c \in Children, enqueue_sweep(c) PROVE StoppedRows'
  BY <1>31 DEF enqueue_sweep, cancel_queued_run, cancel_queued_run_fails
<1>32. ASSUME NEW c \in Children, cascade_flag(c) PROVE StoppedRows'
  BY <1>32 DEF cascade_flag
<1>33. ASSUME NEW c \in Children, cascade_flip(c) PROVE StoppedRows'
  BY <1>33 DEF cascade_flip, cancel_queued_run, cancel_queued_run_fails
<1>34. ASSUME NEW c \in Children, child_picked(c) PROVE StoppedRows'
  BY <1>34 DEF child_picked
<1>35. ASSUME NEW c \in Children, child_dequeued(c) PROVE StoppedRows'
  BY <1>35 DEF child_dequeued
<1>36. ASSUME NEW c \in Children, child_started(c) PROVE StoppedRows'
  BY <1>36 DEF child_started
<1>37. ASSUME NEW c \in Children, child_ends(c) PROVE StoppedRows'
  BY <1>37 DEF child_ends
<1>38. ASSUME NEW c \in Children, child_recorded(c) PROVE StoppedRows'
  BY <1>38 DEF child_recorded
<1>39. ASSUME NEW c \in Children, child_swept(c) PROVE StoppedRows'
  BY <1>39 DEF child_swept, fail_run_if_active
<1>40. ASSUME NEW c \in Children, child_error(c) PROVE StoppedRows'
  BY <1>40 DEF child_error, fail_run_if_active
<1>41. ASSUME NEW c \in Children, mark_missing(c) PROVE StoppedRows'
  BY <1>41 DEF mark_missing
<1>42. CASE UNCHANGED vars
  BY <1>42 DEF vars
<1> QED
  BY <1>1, <1>2, <1>3, <1>4, <1>5, <1>6, <1>7, <1>8, <1>9, <1>10, <1>11, <1>12,
     <1>13, <1>14, <1>15, <1>16, <1>17, <1>18, <1>19, <1>20, <1>21, <1>22, <1>23,
     <1>24, <1>25, <1>26, <1>27, <1>28, <1>29, <1>30, <1>31, <1>32, <1>33, <1>34,
     <1>35, <1>36, <1>37, <1>38, <1>39, <1>40, <1>41, <1>42, NextCases

\* A child the execution thread has still to create has no row: its run id is
\* minted by the attempt and used once.
LEMMA UnbornStep ==
    ASSUME TypeOK, AttemptFits, StoppedRows, UnbornRows, [Next]_vars
    PROVE  UnbornRows'
<1> USE ChildFacts DEF TypeOK, StoppedRows, UnbornRows, Unborn, Linking
<1>1. CASE create_backfill
  BY <1>1 DEF create_backfill
<1>2. CASE cancel_backfill
  BY <1>2 DEF cancel_backfill
<1>3. CASE pickup
  BY <1>3 DEF pickup
<1>4. CASE exec_read
  BY <1>4 DEF exec_read
<1>5. CASE exec_register
  BY <1>5 DEF exec_register
<1>6. CASE exec_flip
  BY <1>6 DEF exec_flip
<1>7. CASE enqueue_backfill_runs
  BY <1>7 DEF enqueue_backfill_runs
<1>8. CASE enqueue_check
  BY <1>8 DEF enqueue_check
<1>9. CASE exec_fail
  BY <1>9 DEF exec_fail
<1>10. CASE exec_settle
  BY <1>10 DEF exec_settle, settle_read, SettleTo, SettleReturns
<1>11. CASE exec_final
  BY <1>11 DEF exec_final
<1>12. CASE monitor_tick
  BY <1>12 DEF monitor_tick
<1>13. CASE monitor_idle_tick
  BY <1>13 DEF monitor_idle_tick
<1>14. CASE resume_stalled_backfill
  BY <1>14 DEF resume_stalled_backfill
<1>15. CASE monitor_settle
  BY <1>15 DEF monitor_settle, settle_read, SettleTo, SettleReturns
<1>16. CASE cancel_settle
  BY <1>16 DEF cancel_settle, settle_read, SettleTo, SettleReturns
<1>17. CASE cancel_write
  BY <1>17 DEF cancel_write
<1>18. CASE cancel_read
  BY <1>18 DEF cancel_read, GivesUp
<1>19. CASE cancel_links
  BY <1>19 DEF cancel_links, GivesUp
<1>20. CASE cascade_done
  BY <1>20 DEF cascade_done
<1>21. CASE crash
  BY <1>21 DEF crash
<1>22. ASSUME NEW a \in Callers, settle_runs(a) PROVE UnbornRows'
  BY <1>22 DEF settle_runs, SettleTo, SettleReturns
<1>23. ASSUME NEW a \in Callers, settle_write(a) PROVE UnbornRows'
  BY <1>23 DEF settle_write, SettleReturns
<1>24. ASSUME NEW g \in Groups, group_skip(g) PROVE UnbornRows'
  BY <1>24 DEF group_skip
<1>25. ASSUME NEW g \in Groups, link_backfill_run(g) PROVE UnbornRows'
  BY <1>25 DEF link_backfill_run
<1>26. ASSUME NEW g \in Groups, link_commit(g) PROVE UnbornRows'
  BY <1>26 DEF link_commit, ChildOf, AttemptFits, Minted, Attempts
<1>27. ASSUME NEW g \in Groups, link_check(g) PROVE UnbornRows'
  BY <1>27 DEF link_check, ChildOf, AttemptFits, Minted, Attempts
<1>28. ASSUME NEW g \in Groups, run_child(g) PROVE UnbornRows'
  BY <1>28 DEF run_child, ChildOf, AttemptFits, Minted, Attempts
<1>29. ASSUME NEW g \in Groups, run_child_error(g) PROVE UnbornRows'
  BY <1>29 DEF run_child_error
<1>30. ASSUME NEW g \in Groups, child_done(g) PROVE UnbornRows'
  BY <1>30 DEF child_done, ChildOf, AttemptFits, Minted, Attempts
<1>31. ASSUME NEW c \in Children, enqueue_sweep(c) PROVE UnbornRows'
  BY <1>31 DEF enqueue_sweep, cancel_queued_run, cancel_queued_run_fails
<1>32. ASSUME NEW c \in Children, cascade_flag(c) PROVE UnbornRows'
  BY <1>32 DEF cascade_flag
<1>33. ASSUME NEW c \in Children, cascade_flip(c) PROVE UnbornRows'
  BY <1>33 DEF cascade_flip, cancel_queued_run, cancel_queued_run_fails
<1>34. ASSUME NEW c \in Children, child_picked(c) PROVE UnbornRows'
  BY <1>34 DEF child_picked
<1>35. ASSUME NEW c \in Children, child_dequeued(c) PROVE UnbornRows'
  BY <1>35 DEF child_dequeued
<1>36. ASSUME NEW c \in Children, child_started(c) PROVE UnbornRows'
  BY <1>36 DEF child_started
<1>37. ASSUME NEW c \in Children, child_ends(c) PROVE UnbornRows'
  BY <1>37 DEF child_ends, Terminal
<1>38. ASSUME NEW c \in Children, child_recorded(c) PROVE UnbornRows'
  BY <1>38 DEF child_recorded
<1>39. ASSUME NEW c \in Children, child_swept(c) PROVE UnbornRows'
  BY <1>39 DEF child_swept, fail_run_if_active
<1>40. ASSUME NEW c \in Children, child_error(c) PROVE UnbornRows'
  BY <1>40 DEF child_error, fail_run_if_active
<1>41. ASSUME NEW c \in Children, mark_missing(c) PROVE UnbornRows'
  BY <1>41 DEF mark_missing
<1>42. CASE UNCHANGED vars
  BY <1>42 DEF vars
<1> QED
  BY <1>1, <1>2, <1>3, <1>4, <1>5, <1>6, <1>7, <1>8, <1>9, <1>10, <1>11, <1>12,
     <1>13, <1>14, <1>15, <1>16, <1>17, <1>18, <1>19, <1>20, <1>21, <1>22, <1>23,
     <1>24, <1>25, <1>26, <1>27, <1>28, <1>29, <1>30, <1>31, <1>32, <1>33, <1>34,
     <1>35, <1>36, <1>37, <1>38, <1>39, <1>40, <1>41, <1>42, NextCases

-----------------------------------------------------------------------------
(* What try_complete_backfill writes is true.                              *)

\* The rows a caller reads: if they make the backfill a success, they have
\* materialized every key.
LEMMA DerivedSuccess ==
    ASSUME TypeOK, StoppedRows, NEW R \in SUBSET Children, NEW F, NEW C, Accounts(R, F, C),
           DerivedStatus(F, C) = "CompletedSuccess"
    PROVE  \A k \in Keys : Materialized(k)
<1> USE DEF Accounts
<1>1. F = {} /\ C = {}
  BY DEF DerivedStatus
<1> TAKE k \in Keys
<1>2. PICK c \in R : k \in KeysOf(c)
  BY <1>1
<1>3. row[c] # "Failure"
  BY <1>1, <1>2 DEF Failed
<1>4. row[c] # "Canceled"
  BY <1>1, <1>2 DEF Canceled
<1>5. row[c] = "Success"
  BY <1>3, <1>4 DEF Terminal
<1>6. k \notin step_failed[c]
  BY <1>1, <1>5 DEF Failed
<1> QED
  BY <1>2, <1>5, <1>6 DEF Materialized, StoppedRows

\* A key SettledRunKeys::of counts as completed has been materialized.
LEMMA CompletedIsReal ==
    ASSUME StoppedRows, NEW R \in SUBSET Children, NEW k \in Completed(R)
    PROVE  Materialized(k)
  BY DEF Completed, Materialized, StoppedRows

\* A caller of try_complete_backfill that reads the record is not about to write.
LEMMA ReadWritesNothing ==
    ASSUME settling \in [Callers -> Settling], NEW a \in Callers, settle_read(a)
    PROVE  \A b \in Callers : settling'[b].pc = "write" => settling'[b] = settling[b]
<1>1. CASE bstatus = "InProgress"
  BY <1>1 DEF settle_read, SettleTo, NotSettling
<1>2. CASE bstatus # "InProgress"
  BY <1>2 DEF settle_read, SettleReturns, NotSettling
<1> QED BY <1>1, <1>2

\* Neither SettleInv nor SuccessIsReal is inductive without the other.
Sound == TypeOK /\ SettleInv /\ SuccessIsReal

\* What a caller read in the rows and has still to write stays true.
LEMMA SettlesStep ==
    ASSUME Sound, [Next]_vars
    PROVE  SettlesReal'
<1> USE DEF Sound, SettleInv, SettlesReal
<1>0. /\ TypeOK /\ AttemptFits /\ StoppedRows /\ UnbornRows
      /\ settling \in [Callers -> Settling]
      /\ \A k \in Keys : Materialized(k) => Materialized(k)'
  BY MaterializedStays DEF TypeOK
<1>1. CASE create_backfill
  BY <1>0, <1>1 DEF create_backfill
<1>2. CASE cancel_backfill
  BY <1>0, <1>2 DEF cancel_backfill
<1>3. CASE pickup
  BY <1>0, <1>3 DEF pickup
<1>4. CASE exec_read
  BY <1>0, <1>4 DEF exec_read
<1>5. CASE exec_register
  BY <1>0, <1>5 DEF exec_register
<1>6. CASE exec_flip
  BY <1>0, <1>6 DEF exec_flip
<1>7. CASE enqueue_backfill_runs
  BY <1>0, <1>7 DEF enqueue_backfill_runs
<1>8. CASE enqueue_check
  BY <1>0, <1>8 DEF enqueue_check
<1>9. CASE exec_fail
  BY <1>0, <1>9 DEF exec_fail
<1>10. CASE exec_settle
  BY <1>0, <1>10, ReadWritesNothing DEF exec_settle, settle_read, SettleTo, SettleReturns, Callers
<1>11. CASE exec_final
  BY <1>0, <1>11 DEF exec_final
<1>12. CASE monitor_tick
  BY <1>0, <1>12 DEF monitor_tick
<1>13. CASE monitor_idle_tick
  BY <1>0, <1>13 DEF monitor_idle_tick
<1>14. CASE resume_stalled_backfill
  BY <1>0, <1>14 DEF resume_stalled_backfill
<1>15. CASE monitor_settle
  BY <1>0, <1>15, ReadWritesNothing DEF monitor_settle, settle_read, SettleTo, SettleReturns, Callers
<1>16. CASE cancel_settle
  BY <1>0, <1>16, ReadWritesNothing DEF cancel_settle, settle_read, SettleTo, SettleReturns, Callers
<1>17. CASE cancel_write
  BY <1>0, <1>17 DEF cancel_write
<1>18. CASE cancel_read
  BY <1>0, <1>18 DEF cancel_read, GivesUp
<1>19. CASE cancel_links
  BY <1>0, <1>19 DEF cancel_links, GivesUp
<1>20. CASE cascade_done
  BY <1>0, <1>20 DEF cascade_done
<1>21. CASE crash
  BY <1>0, <1>21 DEF crash, NotSettling, Settling, Callers
<1>22. ASSUME NEW a \in Callers, settle_runs(a) PROVE SettlesReal'
<2>1. CASE NothingSettled(a)
  BY <1>0, <2>1 DEF NothingSettled, NotSettling
<2>2. ASSUME NEW R \in SUBSET Children, NEW F, NEW C, Accounts(R, F, C), Derives(a, R, F, C)
      PROVE  SettlesReal'
  <3>1. DerivedStatus(F, C) = "CompletedSuccess" => \A k \in Keys : Materialized(k)
    BY <1>0, <2>2, DerivedSuccess
  <3>2. ASSUME NEW k \in Keys, Settled(Unsettled, Completed(R), F, C)[k] = "Completed"
        PROVE  Materialized(k)
    <4>1. k \in Completed(R) \/ Unsettled[k] = "Completed"
      BY <3>2, SettledCompleted, NotSettlingType
    <4> QED BY <1>0, <4>1, CompletedIsReal DEF Unsettled
  <3>3. /\ settling'[a].status = DerivedStatus(F, C)
        /\ settling'[a].new = Settled(Unsettled, Completed(R), F, C)
        /\ \A b \in Callers : b # a => settling'[b] = settling[b]
    BY <1>0, <2>2 DEF Derives, Settling
  <3> QED
    BY <1>0, <3>1, <3>2, <3>3
<2> QED
  BY <1>0, <1>22, <2>1, <2>2, SettleRunsResult
<1>23. ASSUME NEW a \in Callers, settle_write(a) PROVE SettlesReal'
  BY <1>0, <1>23 DEF settle_write, SettleReturns, NotSettling, Settling
<1>24. ASSUME NEW g \in Groups, group_skip(g) PROVE SettlesReal'
  BY <1>0, <1>24 DEF group_skip
<1>25. ASSUME NEW g \in Groups, link_backfill_run(g) PROVE SettlesReal'
  BY <1>0, <1>25 DEF link_backfill_run
<1>26. ASSUME NEW g \in Groups, link_commit(g) PROVE SettlesReal'
  BY <1>0, <1>26 DEF link_commit
<1>27. ASSUME NEW g \in Groups, link_check(g) PROVE SettlesReal'
  BY <1>0, <1>27 DEF link_check
<1>28. ASSUME NEW g \in Groups, run_child(g) PROVE SettlesReal'
  BY <1>0, <1>28 DEF run_child
<1>29. ASSUME NEW g \in Groups, run_child_error(g) PROVE SettlesReal'
  BY <1>0, <1>29 DEF run_child_error
<1>30. ASSUME NEW g \in Groups, child_done(g) PROVE SettlesReal'
  BY <1>0, <1>30 DEF child_done
<1>31. ASSUME NEW c \in Children, enqueue_sweep(c) PROVE SettlesReal'
  BY <1>0, <1>31 DEF enqueue_sweep
<1>32. ASSUME NEW c \in Children, cascade_flag(c) PROVE SettlesReal'
  BY <1>0, <1>32 DEF cascade_flag
<1>33. ASSUME NEW c \in Children, cascade_flip(c) PROVE SettlesReal'
  BY <1>0, <1>33 DEF cascade_flip
<1>34. ASSUME NEW c \in Children, child_picked(c) PROVE SettlesReal'
  BY <1>0, <1>34 DEF child_picked
<1>35. ASSUME NEW c \in Children, child_dequeued(c) PROVE SettlesReal'
  BY <1>0, <1>35 DEF child_dequeued
<1>36. ASSUME NEW c \in Children, child_started(c) PROVE SettlesReal'
  BY <1>0, <1>36 DEF child_started
<1>37. ASSUME NEW c \in Children, child_ends(c) PROVE SettlesReal'
  BY <1>0, <1>37 DEF child_ends
<1>38. ASSUME NEW c \in Children, child_recorded(c) PROVE SettlesReal'
  BY <1>0, <1>38 DEF child_recorded
<1>39. ASSUME NEW c \in Children, child_swept(c) PROVE SettlesReal'
  BY <1>0, <1>39 DEF child_swept, fail_run_if_active
<1>40. ASSUME NEW c \in Children, child_error(c) PROVE SettlesReal'
  BY <1>0, <1>40 DEF child_error, fail_run_if_active
<1>41. ASSUME NEW c \in Children, mark_missing(c) PROVE SettlesReal'
  BY <1>0, <1>41 DEF mark_missing
<1>42. CASE UNCHANGED vars
  BY <1>0, <1>42 DEF vars
<1> QED
  BY <1>1, <1>2, <1>3, <1>4, <1>5, <1>6, <1>7, <1>8, <1>9, <1>10, <1>11, <1>12,
     <1>13, <1>14, <1>15, <1>16, <1>17, <1>18, <1>19, <1>20, <1>21, <1>22, <1>23,
     <1>24, <1>25, <1>26, <1>27, <1>28, <1>29, <1>30, <1>31, <1>32, <1>33, <1>34,
     <1>35, <1>36, <1>37, <1>38, <1>39, <1>40, <1>41, <1>42, NextCases

\* The status and the outcomes in storage stay true.
LEMMA SuccessStep ==
    ASSUME Sound, [Next]_vars
    PROVE  SuccessIsReal'
<1> USE DEF Sound, SettleInv, SuccessIsReal
<1>0. /\ TypeOK /\ AttemptFits /\ StoppedRows /\ UnbornRows
      /\ outcome \in [Keys -> Outcomes]
      /\ \A k \in Keys : Materialized(k) => Materialized(k)'
  BY MaterializedStays DEF TypeOK
<1>1. CASE create_backfill
  BY <1>0, <1>1 DEF create_backfill
<1>2. CASE cancel_backfill
  BY <1>0, <1>2 DEF cancel_backfill
<1>3. CASE pickup
  BY <1>0, <1>3 DEF pickup
<1>4. CASE exec_read
  BY <1>0, <1>4 DEF exec_read
<1>5. CASE exec_register
  BY <1>0, <1>5 DEF exec_register
<1>6. CASE exec_flip
  BY <1>0, <1>6 DEF exec_flip
<1>7. CASE enqueue_backfill_runs
  BY <1>0, <1>7 DEF enqueue_backfill_runs
<1>8. CASE enqueue_check
  BY <1>0, <1>8 DEF enqueue_check
<1>9. CASE exec_fail
  BY <1>0, <1>9 DEF exec_fail
<1>10. CASE exec_settle
  BY <1>0, <1>10 DEF exec_settle, settle_read, SettleTo, SettleReturns
<1>11. CASE exec_final
  BY <1>0, <1>11 DEF exec_final
<1>12. CASE monitor_tick
  BY <1>0, <1>12 DEF monitor_tick
<1>13. CASE monitor_idle_tick
  BY <1>0, <1>13 DEF monitor_idle_tick
<1>14. CASE resume_stalled_backfill
  BY <1>0, <1>14 DEF resume_stalled_backfill
<1>15. CASE monitor_settle
  BY <1>0, <1>15 DEF monitor_settle, settle_read, SettleTo, SettleReturns
<1>16. CASE cancel_settle
  BY <1>0, <1>16 DEF cancel_settle, settle_read, SettleTo, SettleReturns
<1>17. CASE cancel_write
  BY <1>0, <1>17 DEF cancel_write
<1>18. CASE cancel_read
  BY <1>0, <1>18 DEF cancel_read, GivesUp
<1>19. CASE cancel_links
  BY <1>0, <1>19 DEF cancel_links, GivesUp
<1>20. CASE cascade_done
  BY <1>0, <1>20 DEF cascade_done
<1>21. CASE crash
  BY <1>0, <1>21 DEF crash
<1>22. ASSUME NEW a \in Callers, settle_runs(a) PROVE SuccessIsReal'
  BY <1>0, <1>22 DEF settle_runs, SettleTo, SettleReturns
<1>23. ASSUME NEW a \in Callers, settle_write(a) PROVE SuccessIsReal'
  BY <1>0, <1>23 DEF settle_write, SettleReturns, SettlesReal
<1>24. ASSUME NEW g \in Groups, group_skip(g) PROVE SuccessIsReal'
  BY <1>0, <1>24 DEF group_skip
<1>25. ASSUME NEW g \in Groups, link_backfill_run(g) PROVE SuccessIsReal'
  BY <1>0, <1>25, SettledCompleted DEF link_backfill_run, fail_group
<1>26. ASSUME NEW g \in Groups, link_commit(g) PROVE SuccessIsReal'
  BY <1>0, <1>26 DEF link_commit
<1>27. ASSUME NEW g \in Groups, link_check(g) PROVE SuccessIsReal'
  BY <1>0, <1>27 DEF link_check
<1>28. ASSUME NEW g \in Groups, run_child(g) PROVE SuccessIsReal'
  BY <1>0, <1>28, SettledCompleted DEF run_child, fail_group, ChildOf
<1>29. ASSUME NEW g \in Groups, run_child_error(g) PROVE SuccessIsReal'
  BY <1>0, <1>29, SettledCompleted DEF run_child_error, fail_group
<1>30. ASSUME NEW g \in Groups, child_done(g) PROVE SuccessIsReal'
  BY <1>0, <1>30 DEF child_done
<1>31. ASSUME NEW c \in Children, enqueue_sweep(c) PROVE SuccessIsReal'
  BY <1>0, <1>31, SettledCompleted DEF enqueue_sweep, cancel_queued_run, cancel_queued_run_fails
<1>32. ASSUME NEW c \in Children, cascade_flag(c) PROVE SuccessIsReal'
  BY <1>0, <1>32 DEF cascade_flag
<1>33. ASSUME NEW c \in Children, cascade_flip(c) PROVE SuccessIsReal'
  BY <1>0, <1>33, SettledCompleted DEF cascade_flip, cancel_queued_run, cancel_queued_run_fails
<1>34. ASSUME NEW c \in Children, child_picked(c) PROVE SuccessIsReal'
  BY <1>0, <1>34 DEF child_picked
<1>35. ASSUME NEW c \in Children, child_dequeued(c) PROVE SuccessIsReal'
  BY <1>0, <1>35 DEF child_dequeued
<1>36. ASSUME NEW c \in Children, child_started(c) PROVE SuccessIsReal'
  BY <1>0, <1>36 DEF child_started
<1>37. ASSUME NEW c \in Children, child_ends(c) PROVE SuccessIsReal'
  BY <1>0, <1>37 DEF child_ends
<1>38. ASSUME NEW c \in Children, child_recorded(c) PROVE SuccessIsReal'
<2>1. ASSUME NEW k \in Keys, outcome'[k] = "Completed" PROVE Materialized(k)
  <3>1. \/ outcome[k] = "Completed"
        \/ result[c] = "Success" /\ k \in KeysOf(c) \ step_failed[c]
    BY <1>0, <1>38, <2>1, SettledCompleted DEF child_recorded, record_outcome
  <3> QED BY <3>1 DEF Materialized
<2> QED BY <1>0, <1>38, <2>1 DEF child_recorded
<1>39. ASSUME NEW c \in Children, child_swept(c) PROVE SuccessIsReal'
  BY <1>0, <1>39, SettledCompleted DEF child_swept, fail_run_if_active
<1>40. ASSUME NEW c \in Children, child_error(c) PROVE SuccessIsReal'
  BY <1>0, <1>40, SettledCompleted DEF child_error, fail_run_if_active
<1>41. ASSUME NEW c \in Children, mark_missing(c) PROVE SuccessIsReal'
  BY <1>0, <1>41, SettledCompleted DEF mark_missing
<1>42. CASE UNCHANGED vars
  BY <1>0, <1>42 DEF vars
<1> QED
  BY <1>1, <1>2, <1>3, <1>4, <1>5, <1>6, <1>7, <1>8, <1>9, <1>10, <1>11, <1>12,
     <1>13, <1>14, <1>15, <1>16, <1>17, <1>18, <1>19, <1>20, <1>21, <1>22, <1>23,
     <1>24, <1>25, <1>26, <1>27, <1>28, <1>29, <1>30, <1>31, <1>32, <1>33, <1>34,
     <1>35, <1>36, <1>37, <1>38, <1>39, <1>40, <1>41, <1>42, NextCases

\* The three are inductive together.
LEMMA SoundHolds == Spec => []Sound
<1>1. Init => Sound
  <2> SUFFICES ASSUME Init PROVE Sound
    OBVIOUS
  <2>1. TypeOK /\ AttemptFits
    BY InitTyped
  <2>2. CallersWait /\ StoppedRows /\ UnbornRows
    BY DEF Init, CallersWait, NotSettling, Callers, StoppedRows, UnbornRows, Linking
  <2>3. SettlesReal /\ SuccessIsReal
    BY DEF Init, SettlesReal, SuccessIsReal, NotSettling, Unsettled
  <2> QED BY <2>1, <2>2, <2>3 DEF Sound, SettleInv
<1>2. Sound /\ [Next]_vars => Sound'
  BY TypeStep, WaitStep, StoppedStep, UnbornStep, SettlesStep, SuccessStep DEF Sound, SettleInv
<1> QED BY <1>1, <1>2, PTL DEF Spec

\* What a caller of try_complete_backfill has counted as a success was
\* materialized by the child's own thread, which never runs it again, until the
\* caller writes it: whatever the other actors, a crash or a failing call do in
\* between, the health check's Canceled over the row of that success included.
THEOREM SettleInvHolds == Spec => []SettleInv
<1>1. Sound => SettleInv
  BY DEF Sound
<1> QED BY <1>1, SoundHolds, PTL

\* A backfill reported CompletedSuccess has materialized every requested key,
\* and a key reported Completed has been, for any number of groups, keys,
\* cancels, crashes, failing calls and slow submissions.
THEOREM SuccessIsRealHolds == Spec => []SuccessIsReal
<1>1. Sound => SuccessIsReal
  BY DEF Sound
<1> QED BY <1>1, SoundHolds, PTL

-----------------------------------------------------------------------------
(* No group is run by two children.                                        *)

\* What try_complete_backfill is about to write is a final status.
LEMMA WritesEnded ==
    ASSUME TypeOK, AttemptFits, OnceInv, [Next]_vars
    PROVE  \A b \in Callers : settling'[b].pc = "write" => settling'[b].status \in Ended
<1> DEFINE Final == \A b \in Callers :
               settling'[b].pc = "write" => settling'[b].status \in Ended
<1>0. /\ TypeOK /\ settling \in [Callers -> Settling]
      /\ \A b \in Callers : settling[b].pc = "write" => settling[b].status \in Ended
  BY DEF OnceInv, TypeOK
<1>1. CASE create_backfill
  BY <1>0, <1>1 DEF create_backfill
<1>2. CASE cancel_backfill
  BY <1>0, <1>2 DEF cancel_backfill
<1>3. CASE pickup
  BY <1>0, <1>3 DEF pickup
<1>4. CASE exec_read
  BY <1>0, <1>4 DEF exec_read
<1>5. CASE exec_register
  BY <1>0, <1>5 DEF exec_register
<1>6. CASE exec_flip
  BY <1>0, <1>6 DEF exec_flip
<1>7. CASE enqueue_backfill_runs
  BY <1>0, <1>7 DEF enqueue_backfill_runs
<1>8. CASE enqueue_check
  BY <1>0, <1>8 DEF enqueue_check
<1>9. CASE exec_fail
  BY <1>0, <1>9 DEF exec_fail
<1>10. CASE exec_settle
  BY <1>0, <1>10, ReadWritesNothing DEF exec_settle, settle_read, SettleTo, SettleReturns, Callers
<1>11. CASE exec_final
  BY <1>0, <1>11 DEF exec_final
<1>12. CASE monitor_tick
  BY <1>0, <1>12 DEF monitor_tick
<1>13. CASE monitor_idle_tick
  BY <1>0, <1>13 DEF monitor_idle_tick
<1>14. CASE resume_stalled_backfill
  BY <1>0, <1>14 DEF resume_stalled_backfill
<1>15. CASE monitor_settle
  BY <1>0, <1>15, ReadWritesNothing DEF monitor_settle, settle_read, SettleTo, SettleReturns, Callers
<1>16. CASE cancel_settle
  BY <1>0, <1>16, ReadWritesNothing DEF cancel_settle, settle_read, SettleTo, SettleReturns, Callers
<1>17. CASE cancel_write
  BY <1>0, <1>17 DEF cancel_write
<1>18. CASE cancel_read
  BY <1>0, <1>18 DEF cancel_read, GivesUp
<1>19. CASE cancel_links
  BY <1>0, <1>19 DEF cancel_links, GivesUp
<1>20. CASE cascade_done
  BY <1>0, <1>20 DEF cascade_done
<1>21. CASE crash
  BY <1>0, <1>21 DEF crash, NotSettling, Settling, Callers
<1>22. ASSUME NEW a \in Callers, settle_runs(a) PROVE Final
<2>1. CASE NothingSettled(a)
  BY <1>0, <2>1 DEF NothingSettled, NotSettling
<2>2. ASSUME NEW R, NEW F, NEW C, Derives(a, R, F, C)
      PROVE  Final
  <3>1. DerivedStatus(F, C) \in Ended
    BY DEF DerivedStatus, Ended
  <3>2. settling'[a].status = DerivedStatus(F, C)
    BY <1>0, <2>2 DEF Derives, Settling
  <3> QED
    BY <1>0, <2>2, <3>1, <3>2 DEF Derives
<2> QED
  BY <1>0, <1>22, <2>1, <2>2, SettleRunsResult
<1>23. ASSUME NEW a \in Callers, settle_write(a) PROVE Final
  BY <1>0, <1>23 DEF settle_write, SettleReturns, NotSettling, Settling
<1>24. ASSUME NEW g \in Groups, group_skip(g) PROVE Final
  BY <1>0, <1>24 DEF group_skip
<1>25. ASSUME NEW g \in Groups, link_backfill_run(g) PROVE Final
  BY <1>0, <1>25 DEF link_backfill_run
<1>26. ASSUME NEW g \in Groups, link_commit(g) PROVE Final
  BY <1>0, <1>26 DEF link_commit
<1>27. ASSUME NEW g \in Groups, link_check(g) PROVE Final
  BY <1>0, <1>27 DEF link_check
<1>28. ASSUME NEW g \in Groups, run_child(g) PROVE Final
  BY <1>0, <1>28 DEF run_child
<1>29. ASSUME NEW g \in Groups, run_child_error(g) PROVE Final
  BY <1>0, <1>29 DEF run_child_error
<1>30. ASSUME NEW g \in Groups, child_done(g) PROVE Final
  BY <1>0, <1>30 DEF child_done
<1>31. ASSUME NEW c \in Children, enqueue_sweep(c) PROVE Final
  BY <1>0, <1>31 DEF enqueue_sweep
<1>32. ASSUME NEW c \in Children, cascade_flag(c) PROVE Final
  BY <1>0, <1>32 DEF cascade_flag
<1>33. ASSUME NEW c \in Children, cascade_flip(c) PROVE Final
  BY <1>0, <1>33 DEF cascade_flip
<1>34. ASSUME NEW c \in Children, child_picked(c) PROVE Final
  BY <1>0, <1>34 DEF child_picked
<1>35. ASSUME NEW c \in Children, child_dequeued(c) PROVE Final
  BY <1>0, <1>35 DEF child_dequeued
<1>36. ASSUME NEW c \in Children, child_started(c) PROVE Final
  BY <1>0, <1>36 DEF child_started
<1>37. ASSUME NEW c \in Children, child_ends(c) PROVE Final
  BY <1>0, <1>37 DEF child_ends
<1>38. ASSUME NEW c \in Children, child_recorded(c) PROVE Final
  BY <1>0, <1>38 DEF child_recorded
<1>39. ASSUME NEW c \in Children, child_swept(c) PROVE Final
  BY <1>0, <1>39 DEF child_swept, fail_run_if_active
<1>40. ASSUME NEW c \in Children, child_error(c) PROVE Final
  BY <1>0, <1>40 DEF child_error, fail_run_if_active
<1>41. ASSUME NEW c \in Children, mark_missing(c) PROVE Final
  BY <1>0, <1>41 DEF mark_missing
<1>42. CASE UNCHANGED vars
  BY <1>0, <1>42 DEF vars
<1> QED
  BY <1>1, <1>2, <1>3, <1>4, <1>5, <1>6, <1>7, <1>8, <1>9, <1>10, <1>11, <1>12,
     <1>13, <1>14, <1>15, <1>16, <1>17, <1>18, <1>19, <1>20, <1>21, <1>22, <1>23,
     <1>24, <1>25, <1>26, <1>27, <1>28, <1>29, <1>30, <1>31, <1>32, <1>33, <1>34,
     <1>35, <1>36, <1>37, <1>38, <1>39, <1>40, <1>41, <1>42, NextCases

\* A backfill is only picked up again while no child of it is linked, as long
\* as no submission has been slow.
LEMMA RequestedStep ==
    ASSUME TypeOK, AttemptFits, CallersWait, OnceInv, [Next]_vars, slow' = 0
    PROVE  slow = 0 /\ RequestedUnlinked'
<1>0. slow \in Nat /\ (slow = 0 => RequestedUnlinked)
  BY BackfillAssumption DEF OnceInv, TypeOK
<1>L. \A a \in Callers : settling[a].pc # "idle" => a # "exec" \/ exec = "groups"
  BY DEF CallersWait
<1> USE <1>0 DEF RequestedUnlinked, Unminted
<1>1. CASE create_backfill
  BY <1>1 DEF create_backfill
<1>2. CASE cancel_backfill
  BY <1>2 DEF cancel_backfill
<1>3. CASE pickup
  BY <1>3 DEF pickup
<1>4. CASE exec_read
  BY <1>4 DEF exec_read
<1>5. CASE exec_register
  BY <1>5 DEF exec_register
<1>6. CASE exec_flip
  BY <1>6 DEF exec_flip
<1>7. CASE enqueue_backfill_runs
  BY <1>7 DEF enqueue_backfill_runs
<1>8. CASE enqueue_check
  BY <1>8 DEF enqueue_check
<1>9. CASE exec_fail
  BY <1>9 DEF exec_fail
<1>10. CASE exec_settle
  BY <1>10 DEF exec_settle, settle_read, SettleTo, SettleReturns
<1>11. CASE exec_final
  BY <1>11 DEF exec_final
<1>12. CASE monitor_tick
  BY <1>12 DEF monitor_tick
<1>13. CASE monitor_idle_tick
  BY <1>13 DEF monitor_idle_tick
<1>14. CASE resume_stalled_backfill
  BY <1>14 DEF resume_stalled_backfill
<1>15. CASE monitor_settle
  BY <1>15 DEF monitor_settle, settle_read, SettleTo, SettleReturns
<1>16. CASE cancel_settle
  BY <1>16 DEF cancel_settle, settle_read, SettleTo, SettleReturns
<1>17. CASE cancel_write
  BY <1>17 DEF cancel_write
<1>18. CASE cancel_read
  BY <1>18 DEF cancel_read, GivesUp
<1>19. CASE cancel_links
  BY <1>19 DEF cancel_links, GivesUp
<1>20. CASE cascade_done
  BY <1>20 DEF cascade_done
<1>21. CASE crash
  BY <1>21 DEF crash
<1>22. ASSUME NEW a \in Callers, settle_runs(a) PROVE slow = 0 /\ RequestedUnlinked'
  BY <1>22, <1>L, SettleMoves DEF settle_runs, Moved
<1>23. ASSUME NEW a \in Callers, settle_write(a) PROVE slow = 0 /\ RequestedUnlinked'
  BY <1>23, <1>L, SettleMoves DEF settle_write, Moved, OnceInv, Ended
<1>24. ASSUME NEW g \in Groups, group_skip(g) PROVE slow = 0 /\ RequestedUnlinked'
  BY <1>24 DEF group_skip
<1>25. ASSUME NEW g \in Groups, link_backfill_run(g) PROVE slow = 0 /\ RequestedUnlinked'
  BY <1>25 DEF link_backfill_run
<1>26. ASSUME NEW g \in Groups, link_commit(g) PROVE slow = 0 /\ RequestedUnlinked'
  BY <1>26 DEF link_commit
<1>27. ASSUME NEW g \in Groups, link_check(g) PROVE slow = 0 /\ RequestedUnlinked'
  BY <1>27 DEF link_check
<1>28. ASSUME NEW g \in Groups, run_child(g) PROVE slow = 0 /\ RequestedUnlinked'
  BY <1>28 DEF run_child
<1>29. ASSUME NEW g \in Groups, run_child_error(g) PROVE slow = 0 /\ RequestedUnlinked'
  BY <1>29 DEF run_child_error
<1>30. ASSUME NEW g \in Groups, child_done(g) PROVE slow = 0 /\ RequestedUnlinked'
  BY <1>30 DEF child_done
<1>31. ASSUME NEW c \in Children, enqueue_sweep(c) PROVE slow = 0 /\ RequestedUnlinked'
  BY <1>31 DEF enqueue_sweep
<1>32. ASSUME NEW c \in Children, cascade_flag(c) PROVE slow = 0 /\ RequestedUnlinked'
  BY <1>32 DEF cascade_flag
<1>33. ASSUME NEW c \in Children, cascade_flip(c) PROVE slow = 0 /\ RequestedUnlinked'
  BY <1>33 DEF cascade_flip
<1>34. ASSUME NEW c \in Children, child_picked(c) PROVE slow = 0 /\ RequestedUnlinked'
  BY <1>34 DEF child_picked
<1>35. ASSUME NEW c \in Children, child_dequeued(c) PROVE slow = 0 /\ RequestedUnlinked'
  BY <1>35 DEF child_dequeued
<1>36. ASSUME NEW c \in Children, child_started(c) PROVE slow = 0 /\ RequestedUnlinked'
  BY <1>36 DEF child_started
<1>37. ASSUME NEW c \in Children, child_ends(c) PROVE slow = 0 /\ RequestedUnlinked'
  BY <1>37 DEF child_ends
<1>38. ASSUME NEW c \in Children, child_recorded(c) PROVE slow = 0 /\ RequestedUnlinked'
  BY <1>38 DEF child_recorded
<1>39. ASSUME NEW c \in Children, child_swept(c) PROVE slow = 0 /\ RequestedUnlinked'
  BY <1>39 DEF child_swept, fail_run_if_active
<1>40. ASSUME NEW c \in Children, child_error(c) PROVE slow = 0 /\ RequestedUnlinked'
  BY <1>40 DEF child_error, fail_run_if_active
<1>41. ASSUME NEW c \in Children, mark_missing(c) PROVE slow = 0 /\ RequestedUnlinked'
  BY <1>41 DEF mark_missing
<1>42. CASE UNCHANGED vars
  BY <1>42 DEF vars
<1> QED
  BY <1>1, <1>2, <1>3, <1>4, <1>5, <1>6, <1>7, <1>8, <1>9, <1>10, <1>11, <1>12,
     <1>13, <1>14, <1>15, <1>16, <1>17, <1>18, <1>19, <1>20, <1>21, <1>22, <1>23,
     <1>24, <1>25, <1>26, <1>27, <1>28, <1>29, <1>30, <1>31, <1>32, <1>33, <1>34,
     <1>35, <1>36, <1>37, <1>38, <1>39, <1>40, <1>41, <1>42, NextCases

\* A child is linked by the time it has a row, by the only attempt that links.
LEMMA LinkedStep ==
    ASSUME TypeOK, AttemptFits, OnceInv, StoppedRows, [Next]_vars, slow = 0
    PROVE  LinkedOnce'
<1>0. /\ RequestedUnlinked /\ LinkedOnce /\ TypeOK /\ AttemptFits
      /\ row \in [Children -> Terminal \cup {"none", "Queued", "NotStarted", "Started"}]
      /\ links \in SUBSET Children /\ attempt \in Nat
  BY ChildFacts DEF OnceInv, TypeOK
<1> USE <1>0, ChildFacts DEF LinkedOnce
<1>1. CASE create_backfill
  BY <1>1 DEF create_backfill
<1>2. CASE cancel_backfill
  BY <1>2 DEF cancel_backfill
<1>3. CASE pickup
  BY <1>3 DEF pickup
<1>4. CASE exec_read
  BY <1>4 DEF exec_read
<1>5. CASE exec_register
  BY <1>5 DEF exec_register
<1>6. CASE exec_flip
  BY <1>6 DEF exec_flip, RequestedUnlinked, Unminted
<1>7. CASE enqueue_backfill_runs
<2>1. \A c \in Children : c[2] = attempt => c \in Groups \X {attempt}
  OBVIOUS
<2>2. \A c \in Groups \X {attempt} : c[2] = attempt
  OBVIOUS
<2> QED
  BY <1>7, <2>1, <2>2 DEF enqueue_backfill_runs
<1>8. CASE enqueue_check
  BY <1>8 DEF enqueue_check
<1>9. CASE exec_fail
  BY <1>9 DEF exec_fail
<1>10. CASE exec_settle
  BY <1>10 DEF exec_settle, settle_read, SettleTo, SettleReturns
<1>11. CASE exec_final
  BY <1>11 DEF exec_final
<1>12. CASE monitor_tick
  BY <1>12 DEF monitor_tick
<1>13. CASE monitor_idle_tick
  BY <1>13 DEF monitor_idle_tick
<1>14. CASE resume_stalled_backfill
  BY <1>14 DEF resume_stalled_backfill
<1>15. CASE monitor_settle
  BY <1>15 DEF monitor_settle, settle_read, SettleTo, SettleReturns
<1>16. CASE cancel_settle
  BY <1>16 DEF cancel_settle, settle_read, SettleTo, SettleReturns
<1>17. CASE cancel_write
  BY <1>17 DEF cancel_write
<1>18. CASE cancel_read
  BY <1>18 DEF cancel_read, GivesUp
<1>19. CASE cancel_links
  BY <1>19 DEF cancel_links, GivesUp
<1>20. CASE cascade_done
  BY <1>20 DEF cascade_done
<1>21. CASE crash
  BY <1>21 DEF crash
<1>22. ASSUME NEW a \in Callers, settle_runs(a) PROVE LinkedOnce'
  BY <1>22 DEF settle_runs, SettleTo, SettleReturns
<1>23. ASSUME NEW a \in Callers, settle_write(a) PROVE LinkedOnce'
  BY <1>23 DEF settle_write, SettleReturns
<1>24. ASSUME NEW g \in Groups, group_skip(g) PROVE LinkedOnce'
  BY <1>24 DEF group_skip
<1>25. ASSUME NEW g \in Groups, link_backfill_run(g) PROVE LinkedOnce'
  BY <1>25 DEF link_backfill_run
<1>26. ASSUME NEW g \in Groups, link_commit(g) PROVE LinkedOnce'
  BY <1>26 DEF link_commit, ChildOf
<1>27. ASSUME NEW g \in Groups, link_check(g) PROVE LinkedOnce'
  BY <1>27 DEF link_check, ChildOf
<1>28. ASSUME NEW g \in Groups, run_child(g) PROVE LinkedOnce'
  BY <1>28 DEF run_child, ChildOf
<1>29. ASSUME NEW g \in Groups, run_child_error(g) PROVE LinkedOnce'
  BY <1>29 DEF run_child_error
<1>30. ASSUME NEW g \in Groups, child_done(g) PROVE LinkedOnce'
  BY <1>30 DEF child_done
<1>31. ASSUME NEW c \in Children, enqueue_sweep(c) PROVE LinkedOnce'
  BY <1>31 DEF enqueue_sweep, cancel_queued_run, cancel_queued_run_fails
<1>32. ASSUME NEW c \in Children, cascade_flag(c) PROVE LinkedOnce'
  BY <1>32 DEF cascade_flag
<1>33. ASSUME NEW c \in Children, cascade_flip(c) PROVE LinkedOnce'
  BY <1>33 DEF cascade_flip, cancel_queued_run, cancel_queued_run_fails
<1>34. ASSUME NEW c \in Children, child_picked(c) PROVE LinkedOnce'
  BY <1>34 DEF child_picked
<1>35. ASSUME NEW c \in Children, child_dequeued(c) PROVE LinkedOnce'
  BY <1>35 DEF child_dequeued, StoppedRows, Terminal
<1>36. ASSUME NEW c \in Children, child_started(c) PROVE LinkedOnce'
  BY <1>36 DEF child_started, StoppedRows, Terminal
<1>37. ASSUME NEW c \in Children, child_ends(c) PROVE LinkedOnce'
  BY <1>37 DEF child_ends, StoppedRows, Terminal
<1>38. ASSUME NEW c \in Children, child_recorded(c) PROVE LinkedOnce'
  BY <1>38 DEF child_recorded
<1>39. ASSUME NEW c \in Children, child_swept(c) PROVE LinkedOnce'
  BY <1>39 DEF child_swept, fail_run_if_active
<1>40. ASSUME NEW c \in Children, child_error(c) PROVE LinkedOnce'
  BY <1>40 DEF child_error, fail_run_if_active
<1>41. ASSUME NEW c \in Children, mark_missing(c) PROVE LinkedOnce'
  BY <1>41 DEF mark_missing
<1>42. CASE UNCHANGED vars
  BY <1>42 DEF vars
<1> QED
  BY <1>1, <1>2, <1>3, <1>4, <1>5, <1>6, <1>7, <1>8, <1>9, <1>10, <1>11, <1>12,
     <1>13, <1>14, <1>15, <1>16, <1>17, <1>18, <1>19, <1>20, <1>21, <1>22, <1>23,
     <1>24, <1>25, <1>26, <1>27, <1>28, <1>29, <1>30, <1>31, <1>32, <1>33, <1>34,
     <1>35, <1>36, <1>37, <1>38, <1>39, <1>40, <1>41, <1>42, NextCases

\* At most one child of a group has a row when all rows are of one attempt.
LEMMA OneAttempt ==
    ASSUME TypeOK, LinkedOnce, NEW g \in Groups
    PROVE  Cardinality({a \in Attempts : row[<<g, a>>] # "none"}) <= 1
<1> DEFINE A == {a \in Attempts : row[<<g, a>>] # "none"}
<1>1. A \subseteq {attempt}
  BY ChildFacts DEF LinkedOnce
<1>2. IsFiniteSet({attempt}) /\ Cardinality({attempt}) = 1
  BY FS_Singleton
<1>3. Cardinality(A) <= Cardinality({attempt})
  BY <1>1, <1>2, FS_Subset
<1> QED
  BY <1>2, <1>3

\* The inductive invariant holds: a backfill that has linked a child is not
\* picked up again, wherever a crash, a failing call or a resume falls.
THEOREM OnceInvHolds == Spec => []OnceInv
<1>1. Init => OnceInv
  BY DEF Init, OnceInv, NotSettling, RequestedUnlinked, LinkedOnce, Unminted
<1>2. Sound /\ OnceInv /\ [Next]_vars => OnceInv'
  <2> SUFFICES ASSUME Sound, OnceInv, [Next]_vars PROVE OnceInv'
    OBVIOUS
  <2>1. TypeOK /\ AttemptFits /\ CallersWait /\ StoppedRows
    BY DEF Sound, SettleInv
  <2> QED
    BY <2>1, WritesEnded, RequestedStep, LinkedStep DEF OnceInv
<1> QED BY <1>1, <1>2, SoundHolds, PTL DEF Spec

\* No group is run by two children, for any number of groups, cancels, crashes
\* and failing calls, unless a submission outlives two ticks of the monitor.
THEOREM GroupRunsOnceHolds == Spec => []GroupRunsOnce
<1>1. TypeOK /\ OnceInv => GroupRunsOnce
  BY OneAttempt DEF OnceInv, GroupRunsOnce
<1> QED BY <1>1, TypeCorrect, OnceInvHolds, PTL

=============================================================================
