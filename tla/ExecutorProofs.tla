--------------------------- MODULE ExecutorProofs ---------------------------
(***************************************************************************)
(* Proof about OperatorRun: as long as one of the operator's replicas acts *)
(* on a Run, whatever the others observe, the run never has two executors, *)
(* for any number of steps, restarts, crashes of that replica, failing     *)
(* calls and versions its cache is behind.                                 *)
(***************************************************************************)
EXTENDS OperatorRunProofs, FiniteSetTheorems

USE DEF storage, kubelet, exec, op, others, clock, faults

-----------------------------------------------------------------------------
(* The invariant as a relation between pods and versions of the Run.       *)

LiveIn(ps, p) == ps[p] \in {"Pending", "Running"}

FitsIn(ps, run) == run.there =>
    /\ run.phase = "none" => \A p \in Pods : ps[p] = "none"
    /\ run.phase \in Early => run.total = 0 /\ \A p \in Pods : p > 0 => ps[p] = "none"
    /\ run.phase = "Running" =>
          /\ run.pod = run.total
          /\ \A p \in Pods : /\ p < run.total => ~LiveIn(ps, p)
                             /\ p > run.total + 1 => ps[p] = "none"
                             /\ p = run.total + 1 /\ LiveIn(ps, run.total) => ps[p] = "none"

\* Knows(r) for the pods ps, the Run x, the cached version c, the version s the
\* reconcile began with, its draft d and its place k.
KnowsIn(ps, x, c, s, d, k) ==
    /\ k # "idle" <=> s.there
    /\ k \notin {"idle", "patch", "del_sync", "del_pod", "del_final"} => s.phase \notin Early
    /\ k \in {"failure", "budget", "delete_old", "create", "progress"} => s.phase = "Running"
    /\ k \in {"failure", "budget", "delete_old", "create"} => ~LiveIn(ps, s.total)
    /\ k \in {"timeout", "exhausted", "delete_old", "create"} => d.there
    /\ k \in {"delete_old", "create"} => d.phase = "Running" /\ d.total = s.total + 1
    /\ k = "progress" => Follows(s, x) /\ Follows(s, c)
    /\ k \in {"patch", "patch_sync"} =>
          d.there /\ FitsIn(ps, d) /\ Follows(d, x) /\ Follows(d, c)

Single(ps) == \A p, q \in Pods : LiveIn(ps, p) /\ LiveIn(ps, q) => p = q

VersionsFit(ps, x, c, s) ==
    /\ FitsIn(ps, x) /\ FitsIn(ps, c) /\ FitsIn(ps, s)
    /\ Follows(x, c) /\ Follows(c, s) /\ Follows(x, s)

Ok(ps, x, c, s, d, k) == Single(ps) /\ VersionsFit(ps, x, c, s) /\ KnowsIn(ps, x, c, s, d, k)

\* What the lemmas use of a version.
Counted(run) == run.total \in Pods

\* Pods 0, 1, 2, ... and the numbers next to them.
LEMMA PodNumbers ==
    /\ MaxTotal \in Nat /\ 0 \in Pods
    /\ \A p \in Pods : p \in Nat /\ p <= MaxTotal
  BY OperatorAssumption, AllowanceGrows DEF Pods

\* Pods that die, finish or go change nothing a version may not meet.
Shrinks(ps, qs) ==
    \A p \in Pods : (ps[p] = "none" => qs[p] = "none") /\ (LiveIn(qs, p) => LiveIn(ps, p))

LEMMA FitsShrinks ==
    ASSUME NEW ps, NEW qs, NEW run, Shrinks(ps, qs), Counted(run), FitsIn(ps, run)
    PROVE  FitsIn(qs, run)
  BY PodNumbers DEF FitsIn, Shrinks, Counted

LEMMA ShrinkOk ==
    ASSUME NEW ps, NEW qs, NEW x, NEW c, NEW s, NEW d, NEW k, Shrinks(ps, qs),
           Counted(x), Counted(c), Counted(s), Counted(d), Ok(ps, x, c, s, d, k)
    PROVE  Ok(qs, x, c, s, d, k)
<1>1. Single(qs)
  BY DEF Ok, Single, Shrinks
<1>2. FitsIn(qs, x) /\ FitsIn(qs, c) /\ FitsIn(qs, s)
  BY FitsShrinks DEF Ok, VersionsFit
<1>3. KnowsIn(qs, x, c, s, d, k)
  <2>1. FitsIn(ps, d) => FitsIn(qs, d)
    BY FitsShrinks
  <2>2. ~LiveIn(ps, s.total) => ~LiveIn(qs, s.total)
    BY DEF Shrinks, Counted
  <2> QED BY <2>1, <2>2 DEF Ok, KnowsIn
<1> QED BY <1>1, <1>2, <1>3 DEF Ok, VersionsFit

\* The Run gets an annotation, a finalizer or a deletion timestamp, or is gone.
LEMMA FlagOk ==
    ASSUME NEW ps, NEW x, NEW c, NEW s, NEW d, NEW k, NEW y,
           y.there => /\ x.there /\ y.phase = x.phase
                      /\ y.total = x.total /\ y.pod = x.pod,
           Ok(ps, x, c, s, d, k)
    PROVE  Ok(ps, y, c, s, d, k)
<1>1. FitsIn(ps, y)
  BY DEF Ok, VersionsFit, FitsIn
<1>2. /\ Follows(y, c) /\ Follows(y, s)
      /\ Follows(s, x) => Follows(s, y)
      /\ Follows(d, x) => Follows(d, y)
  BY DEF Ok, VersionsFit, Follows
<1> QED BY <1>1, <1>2 DEF Ok, VersionsFit, KnowsIn

\* The watch delivers the Run.
LEMMA ObserveOk ==
    ASSUME NEW ps, NEW x, NEW c, NEW s, NEW d, NEW k, Ok(ps, x, c, s, d, k)
    PROVE  Ok(ps, x, x, s, d, k)
<1>1. Follows(x, x)
  BY DEF Follows, Early
<1> QED BY <1>1 DEF Ok, VersionsFit, KnowsIn

\* A reconcile is over, or forgotten.
LEMMA FinishOk ==
    ASSUME NEW ps, NEW x, NEW c, NEW s, NEW d, NEW k, NEW t, NEW e, ~t.there,
           Ok(ps, x, c, s, d, k)
    PROVE  Ok(ps, x, c, t, e, "idle")
<1>1. FitsIn(ps, t) /\ Follows(c, t) /\ Follows(x, t)
  BY DEF FitsIn, Follows
<1>2. KnowsIn(ps, x, c, t, e, "idle")
  BY DEF KnowsIn
<1> QED BY <1>1, <1>2 DEF Ok, VersionsFit

\* The draft is patched over the Run.
LEMMA PatchOk ==
    ASSUME NEW ps, NEW x, NEW c, NEW s, NEW d, NEW k \in {"patch", "patch_sync"}, NEW y,
           y.there <=> x.there,
           x.there => /\ y.phase = d.phase /\ y.total = d.total
                      /\ d.phase = "Running" => y.pod = d.pod,
           Ok(ps, x, c, s, d, k)
    PROVE  /\ \A t, e : ~t.there => Ok(ps, y, c, t, e, "idle")
           /\ k = "patch_sync" /\ d.phase \in Terminal => Ok(ps, y, c, s, d, "sync")
<1>0. d.there /\ FitsIn(ps, d) /\ Follows(d, c)
  BY DEF Ok, KnowsIn
<1>1. FitsIn(ps, y)
  BY <1>0 DEF FitsIn, Early
<1>2. Follows(y, c)
  BY <1>0 DEF Follows, Early
<1>3. ASSUME NEW t, NEW e, ~t.there PROVE Ok(ps, y, c, t, e, "idle")
  <2>1. FitsIn(ps, t) /\ Follows(c, t) /\ Follows(y, t)
    BY <1>3 DEF FitsIn, Follows
  <2>2. KnowsIn(ps, y, c, t, e, "idle")
    BY <1>3 DEF KnowsIn
  <2> QED BY <1>1, <1>2, <2>1, <2>2 DEF Ok, VersionsFit
<1>4. ASSUME k = "patch_sync", d.phase \in Terminal PROVE Ok(ps, y, c, s, d, "sync")
  <2>1. s.there /\ s.phase \notin Early
    BY <1>4 DEF Ok, KnowsIn
  <2>2. Follows(y, s)
    BY <1>4, <2>1 DEF Follows, Early, Terminal
  <2>3. KnowsIn(ps, y, c, s, d, "sync")
    BY <2>1 DEF KnowsIn
  <2> QED BY <1>1, <1>2, <2>2, <2>3 DEF Ok, VersionsFit
<1> QED BY <1>3, <1>4

\* reconcile_init: the phase of a Run nobody has started becomes Pending.
LEMMA InitPatchOk ==
    ASSUME NEW ps, NEW x, NEW c, NEW s, NEW d, NEW y,
           c.there, c.phase = "none",
           y.there <=> x.there, x.there => y.phase = "Pending" /\ y.total = c.total,
           Ok(ps, x, c, s, d, "idle")
    PROVE  Ok(ps, y, c, s, d, "idle")
<1>1. ~s.there /\ FitsIn(ps, c)
  BY DEF Ok, KnowsIn, VersionsFit
<1>2. FitsIn(ps, y)
  BY <1>1 DEF FitsIn, Early
<1>3. Follows(y, c) /\ Follows(y, s)
  BY <1>1 DEF Follows, Early
<1>4. KnowsIn(ps, y, c, s, d, "idle")
  BY <1>1 DEF KnowsIn
<1> QED BY <1>2, <1>3, <1>4 DEF Ok, VersionsFit

-----------------------------------------------------------------------------
(* A reconcile begins.                                                     *)

\* What every reconcile that begins knows of its version, which is the cached one.
LEMMA BeginOk ==
    ASSUME NEW ps, NEW x, NEW c, NEW s, NEW d, c.there, Ok(ps, x, c, s, d, "idle")
    PROVE  Single(ps) /\ VersionsFit(ps, x, c, c) /\ (c.phase \notin Early /\ x.there => x.phase \notin Early)
<1>1. Follows(c, c)
  BY DEF Follows, Early
<1> QED BY <1>1 DEF Ok, VersionsFit, Follows

\* ... when it comes to no decision about pods yet.
LEMMA BeginPlainOk ==
    ASSUME NEW ps, NEW x, NEW c, NEW s, NEW d, NEW e, NEW k, c.there,
           Ok(ps, x, c, s, d, "idle"),
           \/ k \in {"del_sync", "del_pod"}
           \/ k \in {"outcome", "kill", "finalize"} /\ c.phase \notin Early
           \/ k = "timeout" /\ c.phase \notin Early /\ e.there
    PROVE  Ok(ps, x, c, c, e, k)
<1>1. Single(ps) /\ VersionsFit(ps, x, c, c)
  BY BeginOk
<1>2. KnowsIn(ps, x, c, c, e, k)
  BY DEF KnowsIn
<1> QED BY <1>1, <1>2 DEF Ok

\* ... when its pod is dead.
LEMMA BeginFailureOk ==
    ASSUME NEW ps, NEW x, NEW c, NEW s, NEW d, NEW e, c.there, c.phase = "Running",
           ~LiveIn(ps, c.total), Ok(ps, x, c, s, d, "idle")
    PROVE  Ok(ps, x, c, c, e, "failure")
<1>1. Single(ps) /\ VersionsFit(ps, x, c, c)
  BY BeginOk
<1>2. KnowsIn(ps, x, c, c, e, "failure")
  BY DEF KnowsIn, Early
<1> QED BY <1>1, <1>2 DEF Ok

\* ... when its pod runs: then no later version has another one.
LEMMA BeginProgressOk ==
    ASSUME NEW ps, NEW x, NEW c, NEW s, NEW d, NEW e, c.there, c.phase = "Running",
           Counted(c), Counted(x), LiveIn(ps, c.total), Ok(ps, x, c, s, d, "idle")
    PROVE  Ok(ps, x, c, c, e, "progress")
<1>1. Single(ps) /\ VersionsFit(ps, x, c, c)
  BY BeginOk
<1>2. x.there /\ x.phase = "Running" => x.total = c.total
  BY <1>1, PodNumbers DEF VersionsFit, Follows, FitsIn, Counted
<1>3. Follows(c, x) /\ Follows(c, c)
  BY <1>1, <1>2 DEF Follows, VersionsFit, Early
<1>4. KnowsIn(ps, x, c, c, e, "progress")
  BY <1>3 DEF KnowsIn, Early
<1> QED BY <1>1, <1>4 DEF Ok

\* ... when the run is to be stopped.
LEMMA BeginStopOk ==
    ASSUME NEW ps, NEW x, NEW c, NEW s, NEW d, NEW e, c.there, c.phase = "Running",
           e.there, e.phase \in Terminal \cup {"Cancelling"}, Ok(ps, x, c, s, d, "idle")
    PROVE  Ok(ps, x, c, c, e, "patch")
<1>1. Single(ps) /\ VersionsFit(ps, x, c, c) /\ (x.there => x.phase \notin Early)
  BY BeginOk DEF Early
<1>2. Follows(e, x) /\ Follows(e, c) /\ FitsIn(ps, e)
  BY <1>1 DEF Follows, FitsIn, Early, Terminal
<1>3. KnowsIn(ps, x, c, c, e, "patch")
  BY <1>2 DEF KnowsIn
<1> QED BY <1>1, <1>3 DEF Ok

\* A pod is created where there was none.
Creates(ps, qs, p) ==
    /\ p \in Pods
    /\ \A q \in Pods : q # p => qs[q] = ps[q]
    /\ ps[p] # "none" => qs[p] = ps[p]

\* ... when the first pod is created.
LEMMA BeginPendingOk ==
    ASSUME NEW ps, NEW qs, NEW x, NEW c, NEW s, NEW d, NEW e, c.there, c.phase = "Pending",
           Counted(x), Counted(c), Creates(ps, qs, 0),
           e.there, e.phase = "Running", e.total = c.total, e.pod = 0,
           Ok(ps, x, c, s, d, "idle")
    PROVE  Ok(qs, x, c, c, e, "patch")
<1>1. Single(ps) /\ VersionsFit(ps, x, c, c)
  BY BeginOk
<1>2. c.total = 0 /\ \A p \in Pods : p > 0 => ps[p] = "none"
  BY <1>1 DEF VersionsFit, FitsIn, Early
<1>3. \A p \in Pods : p > 0 => qs[p] = "none"
  BY <1>2, PodNumbers DEF Creates
<1>4. Single(qs)
  BY <1>3, PodNumbers DEF Single, LiveIn
<1>5. x.there => x.phase = "Pending" \/ (x.phase = "Running" /\ x.total = 0)
  BY <1>1 DEF VersionsFit, Follows
<1>6. FitsIn(qs, c) /\ FitsIn(qs, e)
  BY <1>2, <1>3, PodNumbers DEF FitsIn, Early
<1>7. FitsIn(qs, x)
  <2>1. x.there /\ x.phase = "Pending" => x.total = 0
    BY <1>1 DEF VersionsFit, FitsIn, Early
  <2>2. x.there /\ x.phase = "Running" => x.pod = x.total
    BY <1>1 DEF VersionsFit, FitsIn
  <2> QED BY <1>3, <1>5, <2>1, <2>2, PodNumbers DEF FitsIn, Early
<1>8. Follows(e, x) /\ Follows(e, c)
  BY <1>2, <1>5 DEF Follows, Early
<1>9. KnowsIn(qs, x, c, c, e, "patch")
  BY <1>6, <1>8 DEF KnowsIn
<1> QED BY <1>1, <1>4, <1>6, <1>7, <1>9 DEF Ok, VersionsFit

-----------------------------------------------------------------------------
(* A reconcile goes on.                                                    *)

\* To a patch that ends the run.
LEMMA EndOk ==
    ASSUME NEW ps, NEW x, NEW c, NEW s, NEW d, NEW k, NEW e, NEW l \in {"patch", "patch_sync"},
           k \in {"outcome", "failure", "exhausted", "timeout", "finalize"},
           e.there, e.phase \in Terminal, Ok(ps, x, c, s, d, k)
    PROVE  Ok(ps, x, c, s, e, l)
<1>1. s.there /\ s.phase \notin Early /\ Follows(x, s) /\ Follows(c, s)
  BY DEF Ok, KnowsIn, VersionsFit
<1>2. Follows(e, x) /\ Follows(e, c) /\ FitsIn(ps, e)
  BY <1>1 DEF Follows, FitsIn, Early, Terminal
<1>3. KnowsIn(ps, x, c, s, e, l)
  BY <1>1, <1>2 DEF KnowsIn
<1> QED BY <1>3 DEF Ok

\* With nothing written.
LEMMA GoOnOk ==
    ASSUME NEW ps, NEW x, NEW c, NEW s, NEW d, NEW k, NEW l,
           \/ k = "failure" /\ l = "budget"
           \/ k = "delete_old" /\ l = "create"
           \/ k = "kill" /\ l = "finalize"
           \/ k = "del_sync" /\ l = "del_pod"
           \/ k = "del_pod" /\ l = "del_final",
           Ok(ps, x, c, s, d, k)
    PROVE  Ok(ps, x, c, s, d, l)
<1>1. KnowsIn(ps, x, c, s, d, l)
  BY DEF Ok, KnowsIn
<1> QED BY <1>1 DEF Ok

\* To a restart, or to the end of the budget.
LEMMA BudgetOk ==
    ASSUME NEW ps, NEW x, NEW c, NEW s, NEW d, NEW e, NEW l \in {"exhausted", "delete_old"},
           e.there, e.phase = "Running", e.total = s.total + 1, Ok(ps, x, c, s, d, "budget")
    PROVE  Ok(ps, x, c, s, e, l)
<1>1. KnowsIn(ps, x, c, s, e, l)
  BY DEF Ok, KnowsIn
<1> QED BY <1>1 DEF Ok

\* To a patch of the count of steps.
LEMMA ProgressOk ==
    ASSUME NEW ps, NEW x, NEW c, NEW s, NEW d, NEW e,
           e.there, e.phase = s.phase, e.total = s.total, e.pod = s.pod,
           Ok(ps, x, c, s, d, "progress")
    PROVE  Ok(ps, x, c, s, e, "patch")
<1>1. s.there /\ Follows(s, x) /\ Follows(s, c) /\ FitsIn(ps, s)
  BY DEF Ok, KnowsIn, VersionsFit
<1>2. Follows(e, x) /\ Follows(e, c) /\ FitsIn(ps, e)
  BY <1>1 DEF Follows, FitsIn
<1>3. KnowsIn(ps, x, c, s, e, "patch")
  BY <1>1, <1>2 DEF KnowsIn
<1> QED BY <1>3 DEF Ok

\* The pod that replaces a dead one is created: every other pod is dead, and
\* no version there is knows of a later one.
LEMMA CreateOk ==
    ASSUME NEW ps, NEW qs, NEW x, NEW c, NEW s, NEW d, NEW e,
           Counted(x), Counted(c), Counted(s), Creates(ps, qs, d.total),
           e.there, e.phase = d.phase, e.total = d.total, e.pod = d.total,
           Ok(ps, x, c, s, d, "create")
    PROVE  Ok(qs, x, c, s, e, "patch")
<1>1. /\ s.there /\ s.phase = "Running" /\ ~LiveIn(ps, s.total)
      /\ d.there /\ d.phase = "Running" /\ d.total = s.total + 1
  BY DEF Ok, KnowsIn
<1>2. /\ s.pod = s.total
      /\ \A p \in Pods : /\ p < s.total => ~LiveIn(ps, p)
                         /\ p > s.total + 1 => ps[p] = "none"
  BY <1>1 DEF Ok, VersionsFit, FitsIn
<1>3. /\ d.total \in Pods /\ s.total \in Pods
      /\ \A p \in Pods : p # d.total => qs[p] = ps[p]
      /\ \A p \in Pods : p <= s.total => ~LiveIn(qs, p)
      /\ \A p \in Pods : p > s.total + 1 => qs[p] = "none"
  BY <1>1, <1>2, PodNumbers DEF Creates, LiveIn, Counted
<1>4. Single(qs)
  <2>1. \A p \in Pods : LiveIn(qs, p) => p = s.total + 1
    BY <1>3, PodNumbers DEF LiveIn
  <2> QED BY <2>1 DEF Single
<1>5. /\ x.there => x.phase \notin Early
      /\ x.there /\ x.phase = "Running" =>
            x.pod = x.total /\ (x.total = s.total \/ x.total = s.total + 1)
      /\ c.there => c.phase \notin Early
      /\ c.there /\ c.phase = "Running" =>
            c.pod = c.total /\ (c.total = s.total \/ c.total = s.total + 1)
  BY <1>1 DEF Ok, VersionsFit, FitsIn, Follows, Early
<1>6. ASSUME NEW v, v.there => v.phase \notin Early,
             v.there /\ v.phase = "Running" =>
                v.pod = v.total /\ (v.total = s.total \/ v.total = s.total + 1)
      PROVE  FitsIn(qs, v)
  BY <1>3, <1>6, PodNumbers DEF FitsIn, Early
<1>7. FitsIn(qs, x) /\ FitsIn(qs, c) /\ FitsIn(qs, s) /\ FitsIn(qs, e)
  BY <1>1, <1>2, <1>5, <1>6 DEF Early
<1>8. Follows(e, x) /\ Follows(e, c)
  BY <1>1, <1>3, <1>5, PodNumbers DEF Follows, Early
<1>9. KnowsIn(qs, x, c, s, e, "patch")
  BY <1>1, <1>7, <1>8 DEF KnowsIn
<1> QED BY <1>4, <1>7, <1>9 DEF Ok, VersionsFit

-----------------------------------------------------------------------------
(* The steps of the system.                                                *)

\* Two versions agree in all that the invariant looks at.
Like(e, run) ==
    e.there = run.there /\ e.phase = run.phase /\ e.total = run.total /\ e.pod = run.pod

LEMMA PhaseView ==
    ASSUME NEW run \in Resource, NEW x
    PROVE  /\ [run EXCEPT !.phase = x].there = run.there
           /\ [run EXCEPT !.phase = x].phase = x
           /\ [run EXCEPT !.phase = x].total = run.total
           /\ [run EXCEPT !.phase = x].pod = run.pod
  BY DEF Resource

LEMMA LaunchView ==
    ASSUME NEW run \in Resource
    PROVE  /\ [run EXCEPT !.phase = "Running", !.pod = 0].there = run.there
           /\ [run EXCEPT !.phase = "Running", !.pod = 0].phase = "Running"
           /\ [run EXCEPT !.phase = "Running", !.pod = 0].total = run.total
           /\ [run EXCEPT !.phase = "Running", !.pod = 0].pod = 0
  BY DEF Resource

LEMMA PodView ==
    ASSUME NEW run \in Resource, NEW x
    PROVE  /\ [run EXCEPT !.pod = x].there = run.there
           /\ [run EXCEPT !.pod = x].phase = run.phase
           /\ [run EXCEPT !.pod = x].total = run.total
           /\ [run EXCEPT !.pod = x].pod = x
  BY DEF Resource

LEMMA CountView ==
    ASSUME NEW run \in Resource, NEW x
    PROVE  Like([run EXCEPT !.completed = x], run)
  BY DEF Resource, Like

LEMMA FlagView ==
    ASSUME NEW run \in Resource
    PROVE  /\ Like([run EXCEPT !.cancel = TRUE], run)
           /\ Like([run EXCEPT !.deleting = TRUE], run)
           /\ Like([run EXCEPT !.finalizer = TRUE], run)
  BY DEF Resource, Like

LEMMA RestartView ==
    ASSUME NEW run \in Resource, NEW n, NEW b
    PROVE  /\ Restarted(run, n, b).there = run.there
           /\ Restarted(run, n, b).phase = run.phase
           /\ Restarted(run, n, b).total = run.total + 1
  BY DEF Resource, Restarted

LEMMA PatchView ==
    ASSUME cr \in Resource, NEW d, patch_status(d)
    PROVE  /\ cr'.there <=> cr.there
           /\ cr.there => /\ cr'.phase = d.phase /\ cr'.total = d.total
                          /\ d.pod # Absent => cr'.pod = d.pod
<1>1. CASE ~cr.there
  BY <1>1 DEF patch_status
<1>2. CASE cr.there
  BY <1>2 DEF patch_status, Resource
<1> QED BY <1>1, <1>2

\* NoRun is not there, and a Run that is created has nothing done for it.
LEMMA NoRunView ==
    /\ ~NoRun.there
    /\ Created.there /\ Created.phase = "none" /\ Created.total = 0
  BY DEF NoRun, Created

\* Deleting a pod, or its end, makes no pod.
LEMMA DeleteShrinks ==
    ASSUME pods \in [Pods -> {"none", "Pending", "Running", "Succeeded", "Failed"}],
           NEW p, delete_pod(p)
    PROVE  Shrinks(pods, pods')
<1>1. CASE pods' = pods
  BY <1>1 DEF Shrinks, LiveIn
<1>2. CASE p \in Pods /\ pods' = [pods EXCEPT ![p] = "none"]
  BY <1>2 DEF Shrinks, LiveIn
<1> QED BY <1>1, <1>2 DEF delete_pod

LEMMA EndShrinks ==
    ASSUME pods \in [Pods -> {"none", "Pending", "Running", "Succeeded", "Failed"}],
           NEW p \in Pods, NEW phase \in {"none", "Succeeded", "Failed"}, pods[p] # "none",
           PodEnds(p, phase)
    PROVE  Shrinks(pods, pods')
<1>1. PICK x \in {"none", "Succeeded", "Failed"} : pods' = [pods EXCEPT ![p] = x]
  BY DEF PodEnds
<1> QED BY <1>1 DEF Shrinks, LiveIn

LEMMA CreateCreates ==
    ASSUME pods \in [Pods -> {"none", "Pending", "Running", "Succeeded", "Failed"}],
           NEW p \in Pods, create_pod(p)
    PROVE  Creates(pods, pods', p)
  BY DEF create_pod, Creates

\* A step that leaves the Run and the replica alone.
Aside == UNCHANGED <<cr, cache, seen, draft, pc>>

\* What the executors, the kubelet and the clocks do to the pods.
LEMMA AsideStep ==
    ASSUME TypeOK, NEW p \in Pods,
           \/ pod_starts(p) \/ try_start_run(p) \/ execute_level(p) \/ execute_step(p)
           \/ finalize_status(p) \/ finalize_write(p) \/ report(p) \/ set_run_outcome(p)
           \/ pod_succeeds(p) \/ verb_mismatch(p) \/ pod_dies(p)
    PROVE  Aside /\ Shrinks(pods, pods')
<1>0. pods \in [Pods -> {"none", "Pending", "Running", "Succeeded", "Failed"}]
  BY DEF TypeOK
<1>1. Aside
  BY DEF Aside, pod_starts, try_start_run, execute_level, execute_step, finalize_status,
         finalize_write, report, set_run_outcome, pod_succeeds, verb_mismatch, pod_dies
<1>2. CASE pods' = pods
  BY <1>1, <1>2 DEF Shrinks, LiveIn
<1>3. CASE pod_starts(p)
  <2>1. pods[p] = "Pending" /\ pods' = [pods EXCEPT ![p] = "Running"]
    BY <1>3 DEF pod_starts
  <2> QED BY <1>0, <1>1, <2>1 DEF Shrinks, LiveIn
<1>4. CASE pod_succeeds(p) \/ verb_mismatch(p) \/ pod_dies(p)
  <2>1. pods[p] # "none"
    BY <1>4 DEF pod_succeeds, verb_mismatch, pod_dies, ExecAt, Live
  <2>2. PodEnds(p, "Succeeded") \/ PodEnds(p, "Failed") \/ PodEnds(p, "none")
    BY <1>4 DEF pod_succeeds, verb_mismatch, pod_dies
  <2> QED BY <1>0, <1>1, <2>1, <2>2, EndShrinks
<1>5. CASE ~pod_starts(p) /\ ~(pod_succeeds(p) \/ verb_mismatch(p) \/ pod_dies(p))
  <2>1. pods' = pods
    BY <1>5 DEF try_start_run, execute_level, execute_step, finalize_status,
           finalize_write, report, set_run_outcome
  <2> QED BY <1>2, <2>1
<1> QED BY <1>1, <1>3, <1>4, <1>5

\* The step is not one in which a replica other than r acts on the Run.
Alone(r) == \A q \in Replicas \ {r} : ~(Reconcile(q) \/ api_error(q) \/ crash(q))

\* Then it is one of r, or the watch of another replica delivers.
LEMMA AloneCases ==
    ASSUME NEW r \in Replicas, [Next]_vars, [Alone(r)]_vars
    PROVE  \/ launch \/ launch_retry \/ fail_unlaunched_run \/ health_check
           \/ annotate \/ delete_run \/ cancel_run \/ cancel_queued_run \/ terminate_run
           \/ collect_pods \/ timeout_passes \/ grace_passes
           \/ \E p \in Pods :
                 \/ pod_starts(p) \/ try_start_run(p) \/ execute_level(p) \/ execute_step(p)
                 \/ finalize_status(p) \/ finalize_write(p) \/ report(p) \/ set_run_outcome(p)
                 \/ pod_succeeds(p) \/ verb_mismatch(p) \/ pod_dies(p)
           \/ \E q \in Replicas \ {r} : observe(q)
           \/ observe(r) \/ add_finalizer(r) \/ reconcile_init(r) \/ reconcile_pending(r)
           \/ start_cancelling(r) \/ transition_to_timed_out(r) \/ timed_out_delete(r)
           \/ reconcile_running(r) \/ succeeded_outcome(r) \/ update_progress(r)
           \/ handle_executor_failure(r) \/ restart_budget(r) \/ budget_exhausted(r)
           \/ restart_delete(r) \/ restart_create(r) \/ reconcile_cancelling(r)
           \/ cancelling_kill(r) \/ finalize_cancelled(r) \/ patch(r)
           \/ sync_run_status_to_storage(r) \/ handle_deletion(r) \/ deletion_sync(r)
           \/ deletion_pod(r) \/ remove_finalizer(r) \/ api_error(r) \/ crash(r)
           \/ UNCHANGED vars
<1>1. CASE UNCHANGED vars
  BY <1>1
<1>2. CASE Alone(r) /\ \E q \in Replicas : observe(q) \/ Reconcile(q) \/ api_error(q) \/ crash(q)
  <2>1. PICK q \in Replicas : observe(q) \/ Reconcile(q) \/ api_error(q) \/ crash(q)
    BY <1>2
  <2>2. CASE q = r
    BY <2>1, <2>2 DEF Reconcile
  <2>3. CASE q # r
    BY <1>2, <2>1, <2>3 DEF Alone
  <2> QED BY <2>2, <2>3
<1>3. CASE Daemon \/ User \/ collect_pods \/ timeout_passes \/ grace_passes
           \/ \E p \in Pods : Executor(p) \/ pod_dies(p)
  BY <1>3 DEF Daemon, User, Executor
<1> QED BY <1>1, <1>2, <1>3 DEF Next

\* The invariant of the replica that acts, in the terms of the lemmas above.
Good(r) == Ok(pods, cr, cache[r], seen[r], draft[r], pc[r])

LEMMA GoodView ==
    ASSUME NEW r \in Replicas, OneActs(r)
    PROVE  Good(r)
<1>1. /\ Fits(cr) /\ Fits(cache[r]) /\ Fits(seen[r]) /\ Knows(r)
      /\ Follows(cr, cache[r]) /\ Follows(cache[r], seen[r]) /\ Follows(cr, seen[r])
      /\ \A p, q \in Pods : Live(p) /\ Live(q) => p = q
  BY DEF OneActs
<1>2. \A run : Fits(run) <=> FitsIn(pods, run)
  BY DEF Fits, FitsIn, Live, LiveIn
<1>3. KnowsIn(pods, cr, cache[r], seen[r], draft[r], pc[r])
  BY <1>1, <1>2 DEF Knows, KnowsIn, Live, LiveIn
<1>4. Single(pods)
  BY <1>1 DEF Single, Live, LiveIn
<1> QED BY <1>1, <1>2, <1>3, <1>4 DEF Good, Ok, VersionsFit

\* Every step keeps the invariant of the replica that acts.
LEMMA GoodStep ==
    ASSUME NEW r \in Replicas, TypeOK, TypeOK', Due, OneActs(r), [Next]_vars, [Alone(r)]_vars
    PROVE  Good(r)'
<1> DEFINE Goal == Ok(pods', cr', cache'[r], seen'[r], draft'[r], pc'[r])
<1> SUFFICES Goal
  BY DEF Good
<1>0. /\ pods \in [Pods -> {"none", "Pending", "Running", "Succeeded", "Failed"}]
      /\ cr \in Resource /\ cache[r] \in Resource /\ seen[r] \in Resource
      /\ draft[r] \in Resource
      /\ outcome \in {"none", "Success", "Failure", "Cancelled"}
  BY DEF TypeOK
<1>N. \A run \in Resource : Counted(run)
  BY PodNumbers DEF Resource, Counted, Pods
<1>T. Counted(cr) /\ Counted(cache[r]) /\ Counted(seen[r]) /\ Counted(draft[r])
  BY <1>0, <1>N
<1>G. Ok(pods, cr, cache[r], seen[r], draft[r], pc[r])
  BY GoodView DEF Good
<1>K. /\ pc[r] # "idle" <=> seen[r].there
      /\ pc[r] \in {"timeout", "patch_sync", "sync"} => draft[r].phase \in Terminal
      /\ pc[r] \in {"timeout", "exhausted", "delete_old", "create"} => draft[r].there
  BY <1>G DEF Ok, KnowsIn, Due
<1>E. \A v : /\ [cache EXCEPT ![r] = v][r] = v /\ [seen EXCEPT ![r] = v][r] = v
             /\ [draft EXCEPT ![r] = v][r] = v /\ [pc EXCEPT ![r] = v][r] = v
  BY DEF TypeOK
<1>O. outcome # "none" => PhaseOf(outcome) \in Terminal /\ PhaseOf(outcome) \in Phases
  BY <1>0, OutcomePhase
<1>P. Shrinks(pods, pods)
  BY DEF Shrinks
<1>S. ASSUME Aside, Shrinks(pods, pods') PROVE Goal
  <2>1. Ok(pods', cr, cache[r], seen[r], draft[r], pc[r])
    BY <1>G, <1>T, <1>S, ShrinkOk
  <2> QED BY <1>S, <2>1 DEF Aside
<1>X. ASSUME UNCHANGED <<pods, cache, seen, draft, pc>>, Like(cr', cr) \/ ~cr'.there
      PROVE  Goal
  <2>1. Ok(pods, cr', cache[r], seen[r], draft[r], pc[r])
    BY <1>G, <1>X, FlagOk DEF Like
  <2> QED BY <1>X, <2>1
<1>F. ASSUME Finishes(r), UNCHANGED <<pods, cr, cache>> PROVE Goal
  <2>1. seen'[r] = NoRun /\ pc'[r] = "idle"
    BY <1>F, <1>E, Zenon DEF Finishes, Goes
  <2>2. Ok(pods, cr, cache[r], seen'[r], draft'[r], "idle")
    BY <1>G, <2>1, FinishOk, NoRunView
  <2> QED BY <1>F, <2>1, <2>2
\* The daemon and the user.
<1>1. CASE launch
  <2>1. CASE cr' = Created
    <3>1. /\ daemon = "launching" /\ UNCHANGED <<pods, cache, seen, draft, pc>>
      BY <1>1 DEF launch
    <3>2. pc[r] = "idle" /\ ~cache[r].there /\ ~seen[r].there /\ \A p \in Pods : pods[p] = "none"
      BY <3>1, <1>K DEF OneActs
    <3>3. Single(pods)
      BY <1>G DEF Ok
    <3>4. FitsIn(pods, Created) /\ FitsIn(pods, cache[r]) /\ FitsIn(pods, seen[r])
      BY <3>2, NoRunView DEF FitsIn, Early
    <3>5. Follows(Created, cache[r]) /\ Follows(cache[r], seen[r]) /\ Follows(Created, seen[r])
      BY <3>2 DEF Follows
    <3>6. KnowsIn(pods, Created, cache[r], seen[r], draft[r], "idle")
      BY <3>2 DEF KnowsIn
    <3>7. Ok(pods, Created, cache[r], seen[r], draft[r], "idle")
      BY <3>3, <3>4, <3>5, <3>6 DEF Ok, VersionsFit
    <3> QED BY <2>1, <3>1, <3>2, <3>7
  <2>2. CASE cr' = cr
    <3>1. Aside /\ pods' = pods
      BY <1>1, <2>2 DEF launch, Aside
    <3> QED BY <1>S, <1>P, <3>1
  <2> QED BY <1>1, <2>1, <2>2 DEF launch
<1>2. CASE \/ launch_retry \/ fail_unlaunched_run \/ health_check \/ cancel_run
           \/ cancel_queued_run \/ timeout_passes \/ grace_passes
  <2>1. Aside /\ pods' = pods
    BY <1>2 DEF launch_retry, fail_unlaunched_run, health_check, cancel_run,
                cancel_queued_run, timeout_passes, grace_passes, Aside
  <2> QED BY <1>S, <1>P, <2>1
<1>3. CASE annotate \/ delete_run \/ terminate_run
  <2>1. UNCHANGED <<pods, cache, seen, draft, pc>>
    BY <1>3 DEF annotate, delete_run, terminate_run
  <2>2. cr' \in {cr, NoRun, [cr EXCEPT !.cancel = TRUE], [cr EXCEPT !.deleting = TRUE]}
    BY <1>3 DEF annotate, delete_run, terminate_run
  <2>3. /\ Like(cr, cr) /\ Like([cr EXCEPT !.cancel = TRUE], cr)
        /\ Like([cr EXCEPT !.deleting = TRUE], cr) /\ ~NoRun.there
    BY <1>0, FlagView, NoRunView DEF Like
  <2>4. Like(cr', cr) \/ ~cr'.there
    BY <2>2, <2>3, Zenon
  <2> QED BY <1>X, <2>1, <2>4
\* The pods.
<1>4. CASE collect_pods
  <2>1. Aside /\ pods' = [p \in Pods |-> IF Live(p) THEN pods[p] ELSE "none"]
    BY <1>4 DEF collect_pods, Aside
  <2>2. Shrinks(pods, pods')
    BY <2>1 DEF Shrinks, LiveIn, Live
  <2> QED BY <1>S, <2>1, <2>2
<1>5. ASSUME NEW p \in Pods,
             \/ pod_starts(p) \/ try_start_run(p) \/ execute_level(p) \/ execute_step(p)
             \/ finalize_status(p) \/ finalize_write(p) \/ report(p) \/ set_run_outcome(p)
             \/ pod_succeeds(p) \/ verb_mismatch(p) \/ pod_dies(p)
      PROVE  Goal
  <2>1. Aside /\ Shrinks(pods, pods')
    BY <1>5, AsideStep
  <2> QED BY <1>S, <2>1
\* The replica.
<1>6. CASE observe(r)
  <2>1. cache'[r] = cr /\ UNCHANGED <<pods, cr, seen, draft, pc>>
    BY <1>6, <1>E, Zenon DEF observe
  <2>2. Ok(pods, cr, cr, seen[r], draft[r], pc[r])
    BY <1>G, ObserveOk
  <2> QED BY <2>1, <2>2
<1>7. CASE add_finalizer(r)
  <2>1. cr' \in {cr, [cr EXCEPT !.finalizer = TRUE]} /\ UNCHANGED <<pods, cache, seen, draft, pc>>
    BY <1>7 DEF add_finalizer
  <2>2. Like(cr', cr)
    BY <1>0, <2>1, FlagView DEF Like
  <2> QED BY <1>X, <2>1, <2>2
<1>8. CASE reconcile_init(r)
  <2> DEFINE d == [cache[r] EXCEPT !.phase = "Pending"]
  <2>1. /\ pc[r] = "idle" /\ cache[r].there /\ cache[r].phase = "none"
        /\ patch_status(d) /\ UNCHANGED <<pods, cache, seen, draft, pc>>
    BY <1>8 DEF reconcile_init, Begins
  <2>2. d.phase = "Pending" /\ d.total = cache[r].total
    BY <1>0, PhaseView
  <2> HIDE DEF d
  <2>3. /\ cr'.there <=> cr.there
        /\ cr.there => cr'.phase = "Pending" /\ cr'.total = cache[r].total
    BY <1>0, <2>1, <2>2, PatchView
  <2>4. Ok(pods, cr', cache[r], seen[r], draft[r], "idle")
    BY <1>G, <2>1, <2>3, InitPatchOk
  <2> QED BY <2>1, <2>4
<1>9. CASE reconcile_pending(r)
  <2> DEFINE d == [cache[r] EXCEPT !.phase = "Running", !.pod = 0]
  <2>1. /\ pc[r] = "idle" /\ cache[r].there /\ cache[r].phase = "Pending"
        /\ create_pod(0) /\ UNCHANGED <<cr, cache>>
    BY <1>9 DEF reconcile_pending, Begins
  <2>2. seen'[r] = cache[r] /\ draft'[r] = d /\ pc'[r] = "patch"
    BY <1>9, <1>E, Zenon DEF reconcile_pending, Sees, Drafts, Goes
  <2>3. d.there = cache[r].there /\ d.phase = "Running" /\ d.total = cache[r].total /\ d.pod = 0
    BY <1>0, LaunchView
  <2> HIDE DEF d
  <2>4. Creates(pods, pods', 0)
    BY <1>0, <2>1, CreateCreates, PodNumbers
  <2>5. Ok(pods', cr, cache[r], cache[r], d, "patch")
    BY <1>G, <1>T, <2>1, <2>3, <2>4, BeginPendingOk
  <2> QED BY <2>1, <2>2, <2>5
<1>10. CASE start_cancelling(r)
  <2> DEFINE d == [cache[r] EXCEPT !.phase = "Cancelling"]
  <2>1. /\ pc[r] = "idle" /\ cache[r].there /\ cache[r].phase = "Running"
        /\ UNCHANGED <<pods, cr, cache>>
    BY <1>10 DEF start_cancelling, Begins
  <2>2. seen'[r] = cache[r] /\ draft'[r] = d /\ pc'[r] = "patch"
    BY <1>10, <1>E, Zenon DEF start_cancelling, Sees, Drafts, Goes
  <2>3. d.there = cache[r].there /\ d.phase = "Cancelling"
    BY <1>0, PhaseView
  <2> HIDE DEF d
  <2>4. Ok(pods, cr, cache[r], cache[r], d, "patch")
    BY <1>G, <2>1, <2>3, BeginStopOk
  <2> QED BY <2>1, <2>2, <2>4
<1>11. CASE transition_to_timed_out(r)
  <2> DEFINE d == [cache[r] EXCEPT !.phase = "TimedOut"]
  <2>1. /\ pc[r] = "idle" /\ cache[r].there /\ cache[r].phase = "Running"
        /\ UNCHANGED <<pods, cr, cache>>
    BY <1>11 DEF transition_to_timed_out, Begins
  <2>2. seen'[r] = cache[r] /\ draft'[r] = d /\ pc'[r] = "timeout"
    BY <1>11, <1>E, Zenon DEF transition_to_timed_out, Sees, Drafts, Goes
  <2>3. d.there = cache[r].there
    BY <1>0, PhaseView
  <2> HIDE DEF d
  <2>4. Ok(pods, cr, cache[r], cache[r], d, "timeout")
    BY <1>G, <2>1, <2>3, BeginPlainOk DEF Early
  <2> QED BY <2>1, <2>2, <2>4
<1>12. CASE timed_out_delete(r)
  <2>1. pc[r] = "timeout" /\ delete_pod(seen[r].pod) /\ UNCHANGED <<cr, cache, seen>>
    BY <1>12 DEF timed_out_delete
  <2>2. draft'[r] \in {draft[r], [draft[r] EXCEPT !.completed = done]} /\ pc'[r] = "patch_sync"
    <3>1. \/ Drafts(r, draft[r])
          \/ Drafts(r, [draft[r] EXCEPT !.completed = done])
      BY <1>12 DEF timed_out_delete, reads_progress
    <3>2. draft'[r] \in {draft[r], [draft[r] EXCEPT !.completed = done]}
      BY <3>1, <1>E, Zenon DEF Drafts
    <3> QED BY <1>12, <1>E, <3>2, Zenon DEF timed_out_delete, Goes
  <2>3. draft'[r].there /\ draft'[r].phase \in Terminal
    <3>1. Like(draft[r], draft[r]) /\ Like([draft[r] EXCEPT !.completed = done], draft[r])
      BY <1>0, CountView DEF Like
    <3>2. Like(draft'[r], draft[r])
      BY <2>2, <3>1, Zenon
    <3> QED BY <1>K, <2>1, <3>2 DEF Like
  <2>4. Ok(pods', cr, cache[r], seen[r], draft[r], "timeout")
    BY <1>0, <1>G, <1>T, <2>1, DeleteShrinks, ShrinkOk
  <2>5. Ok(pods', cr, cache[r], seen[r], draft'[r], "patch_sync")
    BY <2>3, <2>4, EndOk
  <2> QED BY <2>1, <2>2, <2>5
<1>13. CASE reconcile_running(r)
  <2> DEFINE p == PodOf(cache[r])
  <2>1. /\ pc[r] = "idle" /\ cache[r].there /\ cache[r].phase = "Running"
        /\ UNCHANGED <<pods, cr, cache, draft>>
    BY <1>13 DEF reconcile_running, Begins
  <2>2. p = cache[r].total
    <3>1. cache[r].pod = cache[r].total
      BY <1>G, <2>1 DEF Ok, VersionsFit, FitsIn
    <3>2. cache[r].total # Absent
      BY <1>T, PodNumbers DEF Counted, Absent
    <3> QED BY <3>1, <3>2 DEF PodOf
  <2>3. seen'[r] = cache[r]
    BY <1>13, <1>E, Zenon DEF reconcile_running, Sees
  <2>4. \/ pc'[r] = "outcome"
        \/ pc'[r] = "failure" /\ ~LiveIn(pods, p)
        \/ pc'[r] = "progress" /\ LiveIn(pods, p)
    <3>1. /\ pods[p] # "Pending"
          /\ Goes(r, CASE pods[p] = "Succeeded"          -> "outcome"
                       [] pods[p] \in {"Failed", "none"} -> "failure"
                       [] pods[p] = "Running"            -> "progress")
      BY <1>13 DEF reconcile_running
    <3>2. pods[p] \in {"none", "Running", "Succeeded", "Failed"}
      BY <1>0, <1>T, <2>2, <3>1 DEF Counted
    <3>3. \/ Goes(r, "outcome")
          \/ Goes(r, "failure") /\ ~LiveIn(pods, p)
          \/ Goes(r, "progress") /\ LiveIn(pods, p)
      BY <3>1, <3>2 DEF LiveIn
    <3> QED BY <1>E, <3>3, Zenon DEF Goes
  <2> HIDE DEF p
  <2>5. CASE pc'[r] = "outcome"
    <3>1. Ok(pods, cr, cache[r], cache[r], draft[r], "outcome")
      BY <1>G, <2>1, BeginPlainOk DEF Early
    <3> QED BY <2>1, <2>3, <2>5, <3>1
  <2>6. CASE pc'[r] = "failure" /\ ~LiveIn(pods, p)
    <3>1. Ok(pods, cr, cache[r], cache[r], draft[r], "failure")
      BY <1>G, <2>1, <2>2, <2>6, BeginFailureOk
    <3> QED BY <2>1, <2>3, <2>6, <3>1
  <2>7. CASE pc'[r] = "progress" /\ LiveIn(pods, p)
    <3>1. Ok(pods, cr, cache[r], cache[r], draft[r], "progress")
      BY <1>G, <1>T, <2>1, <2>2, <2>7, BeginProgressOk
    <3> QED BY <2>1, <2>3, <2>7, <3>1
  <2> QED BY <2>4, <2>5, <2>6, <2>7
<1>14. CASE succeeded_outcome(r)
  <2>1. pc[r] = "outcome" /\ UNCHANGED <<pods, cr, cache, seen>>
    BY <1>14 DEF succeeded_outcome
  <2>2. PICK x \in Terminal : draft'[r] = [seen[r] EXCEPT !.phase = x]
    <3>1. \/ Drafts(r, [seen[r] EXCEPT !.phase = PhaseOf(outcome)]) /\ outcome # "none"
          \/ Drafts(r, [seen[r] EXCEPT !.phase = "Succeeded"])
      BY <1>14 DEF succeeded_outcome, apply_outcome_to_status
    <3>2. "Succeeded" \in Terminal
      BY DEF Terminal
    <3> QED BY <1>E, <1>O, <3>1, <3>2, ZenonT(40) DEF Drafts
  <2>3. pc'[r] \in {"patch", "patch_sync"}
    BY <1>14, <1>E, Zenon DEF succeeded_outcome, Goes
  <2>4. draft'[r].there /\ draft'[r].phase \in Terminal
    BY <1>0, <1>K, <2>1, <2>2, PhaseView
  <2>5. Ok(pods, cr, cache[r], seen[r], draft'[r], pc'[r])
    BY <1>G, <2>1, <2>3, <2>4, EndOk
  <2> QED BY <2>1, <2>5
<1>15. CASE update_progress(r)
  <2>1. CASE Finishes(r)
    <3>1. UNCHANGED <<pods, cr, cache>>
      BY <1>15 DEF update_progress
    <3> QED BY <1>F, <2>1, <3>1
  <2>2. CASE Drafts(r, [seen[r] EXCEPT !.completed = done]) /\ Goes(r, "patch") /\ seen' = seen
    <3> DEFINE d == [seen[r] EXCEPT !.completed = done]
    <3>1. pc[r] = "progress" /\ UNCHANGED <<pods, cr, cache, seen>>
      BY <1>15, <2>2 DEF update_progress
    <3>2. draft'[r] = d /\ pc'[r] = "patch"
      BY <2>2, <1>E, Zenon DEF Drafts, Goes
    <3>3. Like(d, seen[r])
      BY <1>0, CountView
    <3> HIDE DEF d
    <3>4. Ok(pods, cr, cache[r], seen[r], d, "patch")
      BY <1>G, <1>K, <3>1, <3>3, ProgressOk DEF Like
    <3> QED BY <3>1, <3>2, <3>4
  <2> QED BY <1>15, <2>1, <2>2 DEF update_progress
<1>16. CASE handle_executor_failure(r)
  <2>1. pc[r] = "failure" /\ UNCHANGED <<pods, cr, cache, seen>>
    BY <1>16 DEF handle_executor_failure
  <2>2. CASE outcome # "none" /\ apply_outcome_to_status(r, seen[r]) /\ Goes(r, "patch_sync")
    <3> DEFINE d == [seen[r] EXCEPT !.phase = PhaseOf(outcome)]
    <3>1. draft'[r] = d /\ pc'[r] = "patch_sync"
      BY <2>2, <1>E, Zenon DEF apply_outcome_to_status, Drafts, Goes
    <3>2. d.there /\ d.phase \in Terminal
      BY <1>0, <1>K, <1>O, <2>1, <2>2, PhaseView
    <3> HIDE DEF d
    <3>3. Ok(pods, cr, cache[r], seen[r], d, "patch_sync")
      BY <1>G, <2>1, <3>2, EndOk
    <3> QED BY <2>1, <3>1, <3>3
  <2>3. CASE Goes(r, "budget") /\ draft' = draft
    <3>1. pc'[r] = "budget"
      BY <2>3, <1>E, Zenon DEF Goes
    <3>2. Ok(pods, cr, cache[r], seen[r], draft[r], "budget")
      BY <1>G, <2>1, GoOnOk
    <3> QED BY <2>1, <2>3, <3>1, <3>2
  <2> QED BY <1>16, <2>2, <2>3 DEF handle_executor_failure
<1>17. CASE restart_budget(r)
  <2>1. pc[r] = "budget" /\ UNCHANGED <<pods, cr, cache, seen>>
    BY <1>17 DEF restart_budget
  <2>2. \/ draft'[r] = Restarted(seen[r], done, TRUE)
        \/ draft'[r] = Restarted(seen[r], 0, FALSE)
    BY <1>17, <1>E, Zenon DEF restart_budget, Drafts
  <2>3. pc'[r] \in {"exhausted", "delete_old"}
    <3>1. Goes(r, "exhausted") \/ Goes(r, "delete_old")
      BY <1>17 DEF restart_budget
    <3> QED BY <3>1, <1>E, Zenon DEF Goes
  <2>4. seen[r].there /\ seen[r].phase = "Running"
    BY <1>G, <2>1 DEF Ok, KnowsIn
  <2>5. draft'[r].there /\ draft'[r].phase = "Running" /\ draft'[r].total = seen[r].total + 1
    <3>1. ASSUME NEW n, NEW b, draft'[r] = Restarted(seen[r], n, b)
          PROVE  /\ draft'[r].there /\ draft'[r].phase = "Running"
                 /\ draft'[r].total = seen[r].total + 1
      BY <1>0, <2>4, <3>1, RestartView
    <3> QED BY <2>2, <3>1
  <2>6. Ok(pods, cr, cache[r], seen[r], draft'[r], pc'[r])
    BY <1>G, <2>1, <2>3, <2>5, BudgetOk
  <2> QED BY <2>1, <2>6
<1>18. CASE budget_exhausted(r)
  <2>1. pc[r] = "exhausted" /\ UNCHANGED <<pods, cr, cache, seen>>
    BY <1>18 DEF budget_exhausted
  <2>2. PICK x \in Terminal : draft'[r] = [draft[r] EXCEPT !.phase = x]
    <3>1. \/ Drafts(r, [draft[r] EXCEPT !.phase = PhaseOf(outcome)]) /\ outcome # "none"
          \/ Drafts(r, [draft[r] EXCEPT !.phase = "Failed"])
      BY <1>18 DEF budget_exhausted, apply_outcome_to_status
    <3>2. "Failed" \in Terminal
      BY DEF Terminal
    <3> QED BY <1>E, <1>O, <3>1, <3>2, ZenonT(40) DEF Drafts
  <2>3. pc'[r] = "patch_sync"
    BY <1>18, <1>E, Zenon DEF budget_exhausted, Goes
  <2>4. draft'[r].there /\ draft'[r].phase \in Terminal
    BY <1>0, <1>K, <2>1, <2>2, PhaseView
  <2>5. Ok(pods, cr, cache[r], seen[r], draft'[r], pc'[r])
    BY <1>G, <2>1, <2>3, <2>4, EndOk
  <2> QED BY <2>1, <2>5
<1>19. CASE restart_delete(r) \/ cancelling_kill(r) \/ deletion_pod(r)
  <2>1. UNCHANGED <<cr, cache, seen, draft>> /\ Shrinks(pods, pods')
    <3>1. UNCHANGED <<cr, cache, seen, draft>> /\ (delete_pod(seen[r].pod) \/ pods' = pods)
      BY <1>19 DEF restart_delete, cancelling_kill, deletion_pod
    <3> QED BY <1>0, <1>P, <3>1, DeleteShrinks
  <2>2. \/ pc[r] = "delete_old" /\ pc'[r] = "create"
        \/ pc[r] = "kill" /\ pc'[r] = "finalize"
        \/ pc[r] = "del_pod" /\ pc'[r] = "del_final"
    BY <1>19, <1>E, ZenonT(40) DEF restart_delete, cancelling_kill, deletion_pod, Goes
  <2>3. Ok(pods', cr, cache[r], seen[r], draft[r], pc[r])
    BY <1>G, <1>T, <2>1, ShrinkOk
  <2>4. Ok(pods', cr, cache[r], seen[r], draft[r], pc'[r])
    BY <2>2, <2>3, GoOnOk
  <2> QED BY <2>1, <2>4
<1>20. CASE restart_create(r)
  <2> DEFINE d == [draft[r] EXCEPT !.pod = draft[r].total]
  <2>1. /\ pc[r] = "create" /\ create_pod(draft[r].total) /\ UNCHANGED <<cr, cache, seen>>
    BY <1>20 DEF restart_create
  <2>2. draft'[r] = d /\ pc'[r] = "patch"
    BY <1>20, <1>E, Zenon DEF restart_create, Drafts, Goes
  <2>3. /\ d.there = draft[r].there /\ d.phase = draft[r].phase
        /\ d.total = draft[r].total /\ d.pod = draft[r].total
    BY <1>0, PodView
  <2> HIDE DEF d
  <2>4. Creates(pods, pods', draft[r].total)
    BY <1>0, <1>T, <2>1, CreateCreates DEF Counted
  <2>5. Ok(pods', cr, cache[r], seen[r], d, "patch")
    BY <1>G, <1>K, <1>T, <2>1, <2>3, <2>4, CreateOk
  <2> QED BY <2>1, <2>2, <2>5
<1>21. CASE reconcile_cancelling(r)
  <2>1. /\ pc[r] = "idle" /\ cache[r].there /\ cache[r].phase = "Cancelling"
        /\ UNCHANGED <<pods, cr, cache, draft>>
    BY <1>21 DEF reconcile_cancelling, Begins
  <2>2. seen'[r] = cache[r] /\ pc'[r] \in {"finalize", "kill"}
    BY <1>21, <1>E, Zenon DEF reconcile_cancelling, Sees, Goes
  <2>3. Ok(pods, cr, cache[r], cache[r], draft[r], pc'[r])
    BY <1>G, <2>1, <2>2, BeginPlainOk DEF Early
  <2> QED BY <2>1, <2>2, <2>3
<1>22. CASE finalize_cancelled(r)
  <2> DEFINE d == [seen[r] EXCEPT !.phase = "Cancelled"]
  <2>1. pc[r] = "finalize" /\ UNCHANGED <<pods, cr, cache, seen>>
    BY <1>22 DEF finalize_cancelled
  <2>2. d \in Resource /\ d.there = seen[r].there /\ d.phase = "Cancelled"
    <3>1. seen[r] \in Resource
      BY <1>0
    <3>2. "Cancelled" \in Phases
      BY DEF Phases, Terminal
    <3>3. d \in Resource
      BY ONLY <3>1, <3>2, PhaseShape
    <3>4. d.there = seen[r].there /\ d.phase = "Cancelled"
      BY ONLY <3>1, PhaseView
    <3> QED BY <3>3, <3>4
  <2>3. Drafts(r, d) \/ Drafts(r, [d EXCEPT !.completed = done])
    BY <1>22 DEF finalize_cancelled, reads_progress
  <2> HIDE DEF d
  <2>4. draft'[r] = d \/ draft'[r] = [d EXCEPT !.completed = done]
    BY <2>3, <1>E, Zenon DEF Drafts
  <2>5. pc'[r] = "patch_sync"
    BY <1>22, <1>E, Zenon DEF finalize_cancelled, Goes
  <2>6. draft'[r].there /\ draft'[r].phase \in Terminal
    <3>1. Like(d, d) /\ Like([d EXCEPT !.completed = done], d)
      BY <2>2, CountView DEF Like
    <3>2. Like(draft'[r], d)
      BY <2>4, <3>1, Zenon
    <3> QED BY <1>K, <2>1, <2>2, <3>2 DEF Like, Terminal
  <2>7. Ok(pods, cr, cache[r], seen[r], draft'[r], pc'[r])
    BY <1>G, <2>1, <2>5, <2>6, EndOk
  <2> QED BY <2>1, <2>7
<1>23. CASE patch(r)
  <2>1. /\ pc[r] \in {"patch", "patch_sync"} /\ patch_status(draft[r]) /\ UNCHANGED <<pods, cache>>
    BY <1>23 DEF patch
  <2>2. /\ cr'.there <=> cr.there
        /\ cr.there => /\ cr'.phase = draft[r].phase /\ cr'.total = draft[r].total
                       /\ draft[r].pod # Absent => cr'.pod = draft[r].pod
    BY <1>0, <2>1, PatchView
  <2>3. draft[r].phase = "Running" => draft[r].pod # Absent
    <3>1. draft[r].there /\ FitsIn(pods, draft[r])
      BY <1>G, <2>1 DEF Ok, KnowsIn
    <3>2. draft[r].total # Absent
      BY <1>T, PodNumbers DEF Counted, Absent
    <3> QED BY <3>1, <3>2 DEF FitsIn
  <2>4. /\ \A t, e : ~t.there => Ok(pods, cr', cache[r], t, e, "idle")
        /\ pc[r] = "patch_sync" /\ draft[r].phase \in Terminal =>
              Ok(pods, cr', cache[r], seen[r], draft[r], "sync")
    BY <1>G, <2>1, <2>2, <2>3, PatchOk
  <2>5. CASE Finishes(r)
    <3>1. seen'[r] = NoRun /\ pc'[r] = "idle"
      BY <2>5, <1>E, Zenon DEF Finishes, Goes
    <3> QED BY <2>1, <2>4, <3>1, NoRunView
  <2>6. CASE pc[r] = "patch_sync" /\ Goes(r, "sync") /\ UNCHANGED <<seen, draft>>
    <3>1. pc'[r] = "sync"
      BY <2>6, <1>E, Zenon DEF Goes
    <3>2. draft[r].phase \in Terminal
      BY <1>K, <2>6
    <3> QED BY <2>1, <2>4, <2>6, <3>1, <3>2
  <2> QED BY <1>23, <2>5, <2>6 DEF patch
<1>24. CASE sync_run_status_to_storage(r) \/ api_error(r)
  <2>1. Finishes(r) /\ UNCHANGED <<pods, cr, cache>>
    BY <1>24 DEF sync_run_status_to_storage, api_error
  <2> QED BY <1>F, <2>1
<1>25. CASE handle_deletion(r)
  <2>1. pc[r] = "idle" /\ cache[r].there /\ UNCHANGED <<pods, cr, cache, draft>>
    BY <1>25 DEF handle_deletion
  <2>2. seen'[r] = cache[r] /\ pc'[r] \in {"del_pod", "del_sync"}
    BY <1>25, <1>E, Zenon DEF handle_deletion, Sees, Goes
  <2>3. Ok(pods, cr, cache[r], cache[r], draft[r], pc'[r])
    BY <1>G, <2>1, <2>2, BeginPlainOk
  <2> QED BY <2>1, <2>2, <2>3
<1>26. CASE deletion_sync(r)
  <2>1. pc[r] = "del_sync" /\ UNCHANGED <<pods, cr, cache, seen, draft>>
    BY <1>26 DEF deletion_sync
  <2>2. pc'[r] = "del_pod"
    BY <1>26, <1>E, Zenon DEF deletion_sync, Goes
  <2>3. Ok(pods, cr, cache[r], seen[r], draft[r], "del_pod")
    BY <1>G, <2>1, GoOnOk
  <2> QED BY <2>1, <2>2, <2>3
<1>27. CASE remove_finalizer(r)
  <2>1. cr' = NoRun /\ Finishes(r) /\ UNCHANGED <<pods, cache>>
    BY <1>27 DEF remove_finalizer
  <2>2. seen'[r] = NoRun /\ pc'[r] = "idle"
    BY <2>1, <1>E, Zenon DEF Finishes, Goes
  <2>3. Ok(pods, NoRun, cache[r], seen[r], draft[r], pc[r])
    BY <1>G, FlagOk, NoRunView
  <2>4. Ok(pods, NoRun, cache[r], NoRun, draft'[r], "idle")
    BY <2>3, FinishOk, NoRunView
  <2> QED BY <2>1, <2>2, <2>4
<1>28. CASE crash(r)
  <2>1. Finishes(r) /\ UNCHANGED <<pods, cr>>
    BY <1>28 DEF crash
  <2>2. seen'[r] = NoRun /\ pc'[r] = "idle" /\ cache'[r] = cr
    BY <1>28, <2>1, <1>E, Zenon DEF Finishes, Goes, crash
  <2>3. Ok(pods, cr, cr, seen[r], draft[r], pc[r])
    BY <1>G, ObserveOk
  <2>4. Ok(pods, cr, cr, NoRun, draft'[r], "idle")
    BY <2>3, FinishOk, NoRunView
  <2> QED BY <2>1, <2>2, <2>4
<1>29. CASE UNCHANGED vars
  <2>1. Aside /\ pods' = pods
    BY <1>29 DEF vars, Aside
  <2> QED BY <1>S, <1>P, <2>1
<1>30. ASSUME NEW q \in Replicas \ {r}, observe(q) PROVE Goal
  <2>1. cache'[r] = cache[r] /\ UNCHANGED <<pods, cr, seen, draft, pc>>
    BY <1>30 DEF observe, TypeOK
  <2> QED BY <1>G, <2>1
<1> HIDE DEF Goal
<1> QED
  BY <1>1, <1>2, <1>3, <1>4, <1>5, <1>6, <1>7, <1>8, <1>9, <1>10, <1>11, <1>12, <1>13,
     <1>14, <1>15, <1>16, <1>17, <1>18, <1>19, <1>20, <1>21, <1>22, <1>23, <1>24, <1>25,
     <1>26, <1>27, <1>28, <1>29, <1>30, AloneCases

\* Nothing happens to a run before it is launched.
LEMMA LaunchStep ==
    ASSUME NEW r \in Replicas, TypeOK, OneActs(r), [Next]_vars, [Alone(r)]_vars,
           daemon' = "launching"
    PROVE  /\ ~cr'.there /\ \A p \in Pods : pods'[p] = "none"
           /\ pc'[r] = "idle" /\ ~cache'[r].there
<1> DEFINE Asleep == /\ ~cr.there /\ \A p \in Pods : pods[p] = "none"
                     /\ pc[r] = "idle" /\ ~cache[r].there
<1>1. daemon = "launching" => Asleep
  BY DEF OneActs
<1>2. CASE ~daemon = "launching"
  <2>1. ASSUME daemon' = daemon PROVE FALSE
    BY <1>2, <2>1
  <2>2. ASSUME NEW q \in Replicas,
               \/ observe(q) \/ add_finalizer(q) \/ reconcile_init(q) \/ reconcile_pending(q)
               \/ start_cancelling(q) \/ transition_to_timed_out(q) \/ timed_out_delete(q)
               \/ reconcile_running(q) \/ succeeded_outcome(q) \/ update_progress(q)
               \/ handle_executor_failure(q) \/ restart_budget(q) \/ budget_exhausted(q)
               \/ restart_delete(q) \/ restart_create(q) \/ reconcile_cancelling(q)
               \/ cancelling_kill(q) \/ finalize_cancelled(q) \/ patch(q)
               \/ sync_run_status_to_storage(q) \/ handle_deletion(q) \/ deletion_sync(q)
               \/ deletion_pod(q) \/ remove_finalizer(q) \/ api_error(q) \/ crash(q)
        PROVE  daemon' = daemon
    BY <2>2, Zenon DEF observe, add_finalizer, reconcile_init, reconcile_pending,
       start_cancelling, transition_to_timed_out, timed_out_delete, reconcile_running,
       succeeded_outcome, update_progress, handle_executor_failure, restart_budget,
       budget_exhausted, restart_delete, restart_create, reconcile_cancelling,
       cancelling_kill, finalize_cancelled, patch, sync_run_status_to_storage,
       handle_deletion, deletion_sync, deletion_pod, remove_finalizer, api_error, crash
  <2>3. ASSUME NEW p \in Pods,
               \/ pod_starts(p) \/ try_start_run(p) \/ execute_level(p) \/ execute_step(p)
               \/ finalize_status(p) \/ finalize_write(p) \/ report(p) \/ set_run_outcome(p)
               \/ pod_succeeds(p) \/ verb_mismatch(p) \/ pod_dies(p)
        PROVE  daemon' = daemon
    BY <2>3, Zenon DEF pod_starts, try_start_run, execute_level, execute_step,
       finalize_status, finalize_write, report, set_run_outcome, pod_succeeds,
       verb_mismatch, pod_dies
  <2>4. CASE launch \/ launch_retry \/ fail_unlaunched_run \/ health_check
    BY <1>2, <2>4 DEF launch, launch_retry, fail_unlaunched_run, health_check
  <2>5. CASE \/ annotate \/ delete_run \/ cancel_run \/ cancel_queued_run \/ terminate_run
             \/ collect_pods \/ timeout_passes \/ grace_passes \/ UNCHANGED vars
    <3>1. daemon' = daemon
      BY <2>5 DEF annotate, delete_run, cancel_run, cancel_queued_run, terminate_run,
             collect_pods, timeout_passes, grace_passes, vars
    <3> QED BY <2>1, <3>1
  <2> QED BY <2>1, <2>2, <2>3, <2>4, <2>5, NextCases
<1>3. CASE daemon = "launching"
  <2>0. Asleep
    BY <1>1, <1>3
  <2>1. CASE UNCHANGED <<cr, pods, pc, cache>>
    BY <2>0, <2>1
  <2>2. CASE observe(r)
    <3>1. cache'[r] = cr /\ UNCHANGED <<cr, pods, pc>>
      BY <2>2 DEF observe, TypeOK
    <3> QED BY <2>0, <3>1
  <2>7. ASSUME NEW q \in Replicas \ {r}, observe(q)
        PROVE  cache'[r] = cache[r] /\ UNCHANGED <<cr, pods, pc>>
    BY <2>7 DEF observe, TypeOK
  <2>3. ~\/ add_finalizer(r) \/ reconcile_init(r) \/ reconcile_pending(r)
         \/ start_cancelling(r) \/ transition_to_timed_out(r) \/ timed_out_delete(r)
         \/ reconcile_running(r) \/ succeeded_outcome(r) \/ update_progress(r)
         \/ handle_executor_failure(r) \/ restart_budget(r) \/ budget_exhausted(r)
         \/ restart_delete(r) \/ restart_create(r) \/ reconcile_cancelling(r)
         \/ cancelling_kill(r) \/ finalize_cancelled(r) \/ patch(r)
         \/ sync_run_status_to_storage(r) \/ handle_deletion(r) \/ deletion_sync(r)
         \/ deletion_pod(r) \/ remove_finalizer(r) \/ api_error(r) \/ crash(r)
    BY <2>0 DEF Begins, add_finalizer, reconcile_init, reconcile_pending,
       start_cancelling, transition_to_timed_out, timed_out_delete, reconcile_running,
       succeeded_outcome, update_progress, handle_executor_failure, restart_budget,
       budget_exhausted, restart_delete, restart_create, reconcile_cancelling,
       cancelling_kill, finalize_cancelled, patch, sync_run_status_to_storage,
       handle_deletion, deletion_sync, deletion_pod, remove_finalizer, api_error, crash
  <2>4. ASSUME NEW p \in Pods PROVE
           ~\/ pod_starts(p) \/ try_start_run(p) \/ execute_level(p) \/ execute_step(p)
            \/ finalize_status(p) \/ finalize_write(p) \/ report(p) \/ set_run_outcome(p)
            \/ pod_succeeds(p) \/ verb_mismatch(p) \/ pod_dies(p)
    BY <2>0 DEF ExecAt, Live, pod_starts, try_start_run, execute_level, execute_step,
       finalize_status, finalize_write, report, set_run_outcome, pod_succeeds,
       verb_mismatch, pod_dies
  <2>5. ~\/ launch \/ launch_retry \/ fail_unlaunched_run \/ health_check \/ collect_pods
         \/ annotate \/ delete_run
    BY <1>3, <2>0 DEF launch, launch_retry, fail_unlaunched_run, health_check, collect_pods,
       annotate, delete_run
  <2>6. CASE \/ cancel_run \/ cancel_queued_run \/ terminate_run
             \/ timeout_passes \/ grace_passes \/ UNCHANGED vars
    <3>1. UNCHANGED <<cr, pods, pc, cache>>
      BY <2>0, <2>6 DEF cancel_run, cancel_queued_run, terminate_run, timeout_passes,
             grace_passes, vars
    <3> QED BY <2>1, <3>1
  <2> QED BY <2>0, <2>2, <2>3, <2>4, <2>5, <2>6, <2>7, AloneCases
<1> QED BY <1>2, <1>3

\* As long as one replica acts on the Run and the others only watch, what its
\* cache, its reconcile and the Run say of the pods is so, however far the cache
\* is behind and wherever the replica crashes.
THEOREM OneActsHolds ==
    ASSUME NEW r \in Replicas
    PROVE  Spec /\ [][Alone(r)]_vars => []OneActs(r)
<1>1. Init => OneActs(r)
  <2> SUFFICES ASSUME Init PROVE OneActs(r)
    OBVIOUS
  <2>1. /\ cr = NoRun /\ \A p \in Pods : pods[p] = "none" /\ ~Live(p)
        /\ cache[r] = NoRun /\ seen[r] = NoRun /\ pc[r] = "idle"
    BY DEF Init, Live
  <2>2. Fits(NoRun) /\ Follows(NoRun, NoRun)
    BY NoRunView DEF Fits, Follows
  <2>3. Knows(r)
    BY <2>1, NoRunView DEF Knows
  <2> QED BY <2>1, <2>2, <2>3, NoRunView DEF OneActs
<1>2. TypeOK /\ TypeOK' /\ HonestInv /\ OneActs(r) /\ [Next]_vars /\ [Alone(r)]_vars
         => OneActs(r)'
  <2> SUFFICES ASSUME TypeOK, TypeOK', HonestInv, OneActs(r), [Next]_vars, [Alone(r)]_vars
               PROVE  OneActs(r)'
    OBVIOUS
  <2>0. Due
    BY DEF HonestInv
  <2>1. Good(r)'
    BY <2>0, GoodStep
  <2>2. /\ FitsIn(pods', cr') /\ FitsIn(pods', cache'[r]) /\ FitsIn(pods', seen'[r])
        /\ Follows(cr', cache'[r]) /\ Follows(cache'[r], seen'[r]) /\ Follows(cr', seen'[r])
        /\ Single(pods') /\ KnowsIn(pods', cr', cache'[r], seen'[r], draft'[r], pc'[r])
    BY <2>1 DEF Good, Ok, VersionsFit
  <2>3. /\ Fits(cr)' <=> FitsIn(pods', cr')
        /\ Fits(cache[r])' <=> FitsIn(pods', cache'[r])
        /\ Fits(seen[r])' <=> FitsIn(pods', seen'[r])
        /\ Fits(draft[r])' <=> FitsIn(pods', draft'[r])
    BY DEF Fits, FitsIn, Live, LiveIn
  <2>4. Knows(r)'
    BY <2>2, <2>3 DEF Knows, KnowsIn, Live, LiveIn
  <2>5. \A p, q \in Pods : Live(p)' /\ Live(q)' => p = q
    BY <2>2 DEF Single, Live, LiveIn
  <2>6. daemon' = "launching" =>
           /\ ~cr'.there /\ \A p \in Pods : pods'[p] = "none"
           /\ pc'[r] = "idle" /\ ~cache'[r].there
    BY LaunchStep
  <2> QED BY <2>2, <2>3, <2>4, <2>5, <2>6 DEF OneActs, Follows
<1> QED BY <1>1, <1>2, TypeCorrect, HonestInvHolds, PTL DEF Spec

\* Whatever the number of replicas, a run has two executors that are starting or
\* running only after a second replica has acted on its Run: before that, no
\* number of steps and restarts, crashes of the replica between any two of its
\* calls, failing calls, lost pods and versions its cache is behind leads there
\* (reconcile_running, handle_executor_failure, reconcile_pending).
THEOREM OneExecutorHolds ==
    ASSUME NEW r \in Replicas
    PROVE  Spec /\ [][Alone(r)]_vars => []OneExecutor
<1>1. OneActs(r) => OneExecutor
  <2> SUFFICES ASSUME OneActs(r) PROVE OneExecutor
    OBVIOUS
  <2> DEFINE A == {p \in Pods : Live(p)}
  <2>1. \A p, q \in A : p = q
    BY DEF OneActs
  <2> HIDE DEF A
  <2>2. CASE A = {}
    <3>1. Cardinality({}) = 0
      BY FS_EmptySet
    <3>2. Cardinality(A) <= 1
      BY <2>2, <3>1
    <3> QED BY <3>2 DEF OneExecutor, A
  <2>3. CASE A # {}
    <3>1. PICK p \in A : A = {p}
      BY <2>1, <2>3
    <3>2. Cardinality({p}) = 1
      BY FS_Singleton
    <3>3. Cardinality(A) <= 1
      BY <3>1, <3>2
    <3> QED BY <3>3 DEF OneExecutor, A
  <2> QED BY <2>2, <2>3
<1> QED BY <1>1, OneActsHolds, PTL

=============================================================================
