------------------------ MODULE SchedulerChainProofs ------------------------
(***************************************************************************)
(* The length of a loop's transcript, for any LOOP_FRESH_CHAIN_EVERY and   *)
(* any number of iterations.                                               *)
(*                                                                         *)
(* The actor never sees a transcript, only a counter beside the anchor of  *)
(* a task.  The two are saved, restored and cleared together or apart; the *)
(* invariant is that wherever a task is kept, unless a reset is pending,   *)
(* its counter is at least the length of the transcript its anchor ends.   *)
(* The lengths are a witness of the invariant, so no recursion is unfolded *)
(* but in the last step: there can be only one such function.              *)
(***************************************************************************)
EXTENDS SchedulerProofs, WellFoundedInduction

\* f is the length of the transcript of each iteration.
Lengths(f, rs) ==
  /\ f \in [DOMAIN rs -> 1..FreshEvery]
  /\ \A n \in DOMAIN rs : f[n] = IF rs[n].from = 0 THEN 1 ELSE 1 + f[rs[n].from]

\* The counter of a task covers the transcript that it may resume.
Covered(t, f) == t.anchor # 0 /\ ~t.reset => f[t.anchor] <= t.iters

AllCovered(f) ==
  /\ \A s \in Snapshots : \A k \in DOMAIN s : Covered(s[k], f)
  /\ Expiry \/ Looping => Covered(job.held, f)

ChainInv == \E f \in [DOMAIN runs -> 1..FreshEvery] : Lengths(f, runs) /\ AllCovered(f)

\* The lengths g after a step agree with the lengths f before it, and the counter
\* that Spawn writes covers the iteration that it starts.
Continues(f, g) ==
  /\ \A n \in DOMAIN runs : g[n] = f[n]
  /\ Spawn /\ hub => g[Len(runs) + 1] <= IF Resumes THEN job.held.iters + 1 ELSE 1

LEMMA StaysCovered ==
  ASSUME Inv, NEW f, NEW g, Continues(f, g),
         NEW t \in TaskRecords, Linked(t, runs), Covered(t, f)
  PROVE  Covered(t, g)
<1>1. t.anchor # 0 => t.anchor \in DOMAIN runs
  BY RunsTyped DEF Linked, TaskRecords
<1>. QED
  BY <1>1 DEF Covered, Continues

\* The counter of the task that Spawn changes.
LEMMA SpawnCounter ==
  ASSUME Inv, Spawn, NEW k \in DOMAIN tasks, tasks[k].id = job.held.id
  PROVE  /\ hub => tasks'[k].iters = IF Resumes THEN job.held.iters + 1 ELSE 1
         /\ ~hub => tasks'[k].iters = job.held.iters
<1>1. /\ k = IndexOf(job.held.id) /\ tasks[k] \in TaskRecords
  <2>1. IndexOf(job.held.id) \in DOMAIN tasks /\ tasks[IndexOf(job.held.id)].id = job.held.id
    BY LoopJob DEF Spawn, Looping
  <2>. QED
    BY <2>1, TasksTyped DEF Listings, Unique
<1>2. DOMAIN tasks' = DOMAIN tasks
  BY SpawnTasks
<1>3. CASE hub
  <2>1. tasks' = [tasks EXCEPT ![k] = Advanced(tasks[k])]
    BY <1>1, <1>3 DEF Spawn
  <2>2. Advanced(tasks[k]).iters = IF Resumes THEN job.held.iters + 1 ELSE 1
    BY <1>1 DEF Advanced, TaskRecords
  <2>. QED
    BY <1>3, <2>1, <2>2
<1>4. CASE ~hub
  <2>1. tasks' = [tasks EXCEPT ![k] = [tasks[k] EXCEPT !.anchor = job.held.anchor,
                     !.iters = job.held.iters, !.reset = job.held.reset]]
    BY <1>1, <1>4 DEF Spawn
  <2>. QED
    BY <1>1, <1>4, <2>1 DEF TaskRecords
<1>. QED
  BY <1>3, <1>4

\* Where the tasks in memory come from.
LEMMA CoveredTasks ==
  ASSUME Inv, [Next]_vars, NEW f, AllCovered(f), NEW g, Continues(f, g), NEW k \in DOMAIN tasks'
  PROVE  Covered(tasks'[k], g)
<1>0. /\ \A m \in DOMAIN tasks : Covered(tasks[m], g)
      /\ \A m \in DOMAIN disk : Covered(disk[m], g)
  <2>1. tasks \in Seq(TaskRecords) /\ disk \in Seq(TaskRecords)
    BY TasksTyped DEF Listings
  <2>2. /\ \A m \in DOMAIN tasks : Linked(tasks[m], runs) /\ Covered(tasks[m], f)
        /\ \A m \in DOMAIN disk : Linked(disk[m], runs) /\ Covered(disk[m], f)
    BY DEF Inv, LinkInv, Snapshots, AllCovered
  <2>3. /\ \A m \in DOMAIN tasks : tasks[m] \in TaskRecords
        /\ \A m \in DOMAIN disk : disk[m] \in TaskRecords
    BY <2>1
  <2>. QED
    BY <2>2, <2>3, StaysCovered
<1>1. ASSUME \E m \in DOMAIN tasks : tasks'[k] = tasks[m] PROVE Covered(tasks'[k], g)
  BY <1>0, <1>1
<1>2. UNCHANGED tasks => Covered(tasks'[k], g)
  BY <1>0
<1>3. ASSUME tasks'[k].anchor = 0 PROVE Covered(tasks'[k], g)
  BY <1>3 DEF Covered
<1>4. CASE Command
  <2>1. ASSUME NEW i \in Ids, Create(i) PROVE Covered(tasks'[k], g)
    <3>1. tasks'[k] = Task(i) \/ \E m \in DOMAIN tasks : tasks'[k] = tasks[m]
      BY <2>1, CreateTasks
    <3>. QED
      BY <1>1, <1>3, <3>1 DEF Task
  <2>2. ASSUME NEW i \in Ids, Delete(i) PROVE Covered(tasks'[k], g)
    BY <1>1, <2>2, DeleteTasks
  <2>3. ASSUME NEW i \in Ids, NEW p \in BOOLEAN, NEW v \in BOOLEAN, Update(i, p, v)
        PROVE  Covered(tasks'[k], g)
    <3>1. k \in DOMAIN tasks /\ (tasks'[k] = tasks[k] \/ tasks'[k].reset)
      BY <2>3, UpdateTasks
    <3>. QED
      BY <1>0, <3>1 DEF Covered
  <2>. QED
    BY <1>2, <1>4, <2>1, <2>2, <2>3 DEF Command, AbandonRemoval
<1>5. CASE Fire
  BY <1>1, <1>5, FireTasks DEF Fire
<1>6. ASSUME Expiry \/ Looping PROVE Covered(job.held, g)
  <2>1. job.held \in TaskRecords /\ Linked(job.held, runs) /\ Covered(job.held, f)
    BY <1>6, HeldTyped DEF Inv, LinkInv, AllCovered
  <2>. QED
    BY <2>1, StaysCovered
<1>7. CASE Proceed
  <2>1. CASE Spawn
    <3>1. /\ k \in DOMAIN tasks /\ (tasks[k].id # job.held.id => tasks'[k] = tasks[k])
          /\ tasks[k].id = job.held.id =>
               /\ hub => tasks'[k].anchor = Len(runs) + 1
               /\ ~hub => tasks'[k].anchor = job.held.anchor /\ tasks'[k].reset = job.held.reset
      BY <2>1, SpawnTasks
    <3>2. CASE tasks[k].id # job.held.id
      BY <1>0, <3>1, <3>2
    <3>3. CASE tasks[k].id = job.held.id
      <4>1. /\ hub => tasks'[k].iters = IF Resumes THEN job.held.iters + 1 ELSE 1
            /\ ~hub => tasks'[k].iters = job.held.iters
        BY <2>1, <3>1, <3>3, SpawnCounter
      <4>2. Covered(job.held, g)
        BY <1>6, <2>1 DEF Spawn, Looping
      <4>3. CASE hub
        BY <2>1, <3>1, <3>3, <4>1, <4>3 DEF Covered, Continues
      <4>4. CASE ~hub
        BY <3>1, <3>3, <4>1, <4>2, <4>4 DEF Covered
      <4>. QED
        BY <4>3, <4>4
    <3>. QED
      BY <3>2, <3>3
  <2>2. CASE SaveFailed
    <3>1. (Expiry /\ tasks'[k] = job.held) \/ \E m \in DOMAIN tasks : tasks'[k] = tasks[m]
      BY <2>2, SaveFailedTasks
    <3>. QED
      BY <1>1, <1>6, <3>1
  <2>. QED
    BY <1>2, <1>7, <2>1, <2>2 DEF Proceed, AskUnit, Skip, Saved, SaveUnknown, Acknowledged, Unacknowledged
<1>8. CASE Restart
  <2>1. tasks' = disk
    BY <1>8 DEF Restart
  <2>. QED
    BY <1>0, <2>1
<1>9. ASSUME NEW n \in DOMAIN runs, Watch(n) PROVE Covered(tasks'[k], g)
  <2>1. k \in DOMAIN tasks /\ (tasks'[k] = tasks[k] \/ tasks'[k].anchor = 0)
    BY <1>9, WatchTasks
  <2>. QED
    BY <1>1, <1>3, <2>1
<1>10. CASE Writer \/ Coordinator \/ HubCloses \/ (\E i \in Ids : Elapse(i)) \/ Cancel \/ Shutdown \/ CloseTarget
  BY <1>2, <1>10 DEF Writer, Coordinator, HubCloses, Elapse, Cancel, Shutdown, CloseTarget
<1>. QED
  BY <1>2, <1>4, <1>5, <1>7, <1>8, <1>9, <1>10 DEF Next, vars

LEMMA AllCoveredStep ==
  ASSUME Inv, [Next]_vars, NEW f, AllCovered(f), NEW g, Continues(f, g)
  PROVE  AllCovered(g)'
<1>1. ASSUME NEW s \in Snapshots', NEW k \in DOMAIN s PROVE Covered(s[k], g)
  <2>1. CASE s = tasks'
    BY <1>1, <2>1, CoveredTasks
  <2>2. CASE s \in Snapshots
    <3>1. s \in Listings /\ Linked(s[k], runs) /\ Covered(s[k], f)
      BY <1>1, <2>2 DEF Inv, ListTypes, LinkInv, AllCovered
    <3>2. s[k] \in TaskRecords
      BY <1>1, <3>1 DEF Listings
    <3>. QED
      BY <3>1, <3>2, StaysCovered
  <2>. QED
    BY <1>1, <2>1, <2>2, SnapshotsStep
<1>2. ASSUME Expiry' \/ Looping' PROVE Covered(job'.held, g)
  <2>1. CASE (Expiry \/ Looping) /\ job'.held = job.held
    <3>1. job.held \in TaskRecords /\ Linked(job.held, runs) /\ Covered(job.held, f)
      BY <2>1, HeldTyped DEF Inv, LinkInv, AllCovered
    <3>. QED
      BY <2>1, <3>1, StaysCovered
  <2>2. ASSUME NEW k \in DOMAIN tasks, job'.held = tasks[k] PROVE Covered(job'.held, g)
    <3>1. tasks[k] \in TaskRecords /\ Linked(tasks[k], runs) /\ Covered(tasks[k], f)
      BY <2>2, TasksTyped DEF Inv, LinkInv, Snapshots, AllCovered
    <3>. QED
      BY <2>2, <3>1, StaysCovered
  <2>. QED
    BY <1>2, <2>1, <2>2, HeldTaskStep
<1>. QED
  BY <1>1, <1>2 DEF AllCovered

-----------------------------------------------------------------------------
LEMMA ChainInvStep ==
  ASSUME Inv, [Next]_vars, ChainInv
  PROVE  ChainInv'
<1>1. PICK f \in [DOMAIN runs -> 1..FreshEvery] : Lengths(f, runs) /\ AllCovered(f)
  BY DEF ChainInv
<1>2. ASSUME NEW g, Lengths(g, runs'), Continues(f, g) PROVE ChainInv'
  <2>1. AllCovered(g)'
    BY <1>1, <1>2, AllCoveredStep
  <2>. QED
    BY <1>2, <2>1 DEF ChainInv, Lengths
<1>3. CASE KeepsRuns /\ ~(Spawn /\ hub)
  <2>1. Lengths(f, runs')
    BY <1>1, <1>3 DEF KeepsRuns, Evolves, Lengths
  <2>2. Continues(f, f)
    BY <1>3 DEF Continues
  <2>. QED
    BY <1>2, <2>1, <2>2
<1>4. CASE Spawn /\ hub
  <2> DEFINE last == Len(runs) + 1
             from == runs'[last].from
             g == [n \in DOMAIN runs \cup {last} |->
                     IF n # last THEN f[n] ELSE IF from = 0 THEN 1 ELSE 1 + f[from]]
  <2>1. /\ DOMAIN runs' = DOMAIN runs \cup {last} /\ last \notin DOMAIN runs
        /\ \A n \in DOMAIN runs : runs'[n] = runs[n]
        /\ from \in 0..Len(runs) /\ (from # 0 => Resumes /\ from = job.held.anchor)
    BY <1>4, SpawnRuns
  <2>2. /\ DOMAIN runs = 1..Len(runs) /\ Len(runs) \in Nat
        /\ \A n \in DOMAIN runs : runs[n].from \in Nat /\ runs[n].from < n
    BY RunsTyped DEF Inv, RunTypes, RunRecords
  <2>3. ASSUME from # 0 PROVE f[from] \in Nat /\ f[from] <= job.held.iters /\ job.held.iters < FreshEvery
    <3>1. Resumes /\ from = job.held.anchor /\ from \in DOMAIN runs
      BY <2>1, <2>2, <2>3
    <3>2. Covered(job.held, f)
      BY <1>1, <1>4 DEF AllCovered, Spawn, Looping
    <3>3. f[from] <= job.held.iters
      BY <2>3, <3>1, <3>2 DEF Covered, Resumes
    <3>4. f[from] \in Nat
      BY <1>1, <3>1, SchedulerAssumption
    <3>. QED
      BY <3>1, <3>3, <3>4 DEF Resumes
  <2>4. job.held.iters \in Nat
    BY <1>4, LoopJob DEF Spawn, Looping, TaskRecords
  <2>5. g[last] \in 1..FreshEvery /\ g[last] <= IF Resumes THEN job.held.iters + 1 ELSE 1
    <3>1. CASE from = 0
      BY <2>4, <3>1, SchedulerAssumption
    <3>2. CASE from # 0
      <4>1. g[last] = 1 + f[from]
        BY <3>2
      <4>. QED
        BY <2>1, <2>3, <2>4, <3>2, <4>1, SchedulerAssumption
    <3>. QED
      BY <3>1, <3>2
  <2>6. \A n \in DOMAIN runs : g[n] = f[n]
    BY <2>1
  <2>7. g[last] = IF from = 0 THEN 1 ELSE 1 + g[from]
    BY <2>1, <2>2, <2>6
  <2>8. DOMAIN g = DOMAIN runs' /\ g = [n \in DOMAIN runs' |-> g[n]]
    BY <2>1
  <2> HIDE DEF g
  <2>9. ASSUME NEW n \in DOMAIN runs'
        PROVE  g[n] \in 1..FreshEvery /\ g[n] = IF runs'[n].from = 0 THEN 1 ELSE 1 + g[runs'[n].from]
    <3>1. CASE n = last
      BY <2>5, <2>7, <3>1
    <3>2. CASE n \in DOMAIN runs
      <4>1. f[n] \in 1..FreshEvery /\ f[n] = IF runs[n].from = 0 THEN 1 ELSE 1 + f[runs[n].from]
        BY <1>1, <3>2 DEF Lengths
      <4>2. runs[n].from # 0 => runs[n].from \in DOMAIN runs
        BY <2>2, <3>2
      <4>. QED
        BY <2>1, <2>6, <3>2, <4>1, <4>2
    <3>. QED
      BY <2>1, <2>9, <3>1, <3>2
  <2>10. Lengths(g, runs')
    BY <2>8, <2>9 DEF Lengths
  <2>11. Continues(f, g)
    BY <2>5, <2>6 DEF Continues
  <2>. QED
    BY <1>2, <2>10, <2>11
<1>. QED
  BY <1>3, <1>4, RunsStep

LEMMA InitChain ==
  ASSUME Init
  PROVE  ChainInv
<1>1. \A k \in DOMAIN tasks : tasks[k].anchor = 0
  BY InitTasks
<1>2. Snapshots = {tasks}
  BY DEF Init, Snapshots
<1>3. \A f : AllCovered(f)
  BY <1>1, <1>2 DEF Init, AllCovered, Covered, Expiry, Removing, Looping
<1>4. DOMAIN runs = {}
  BY DEF Init
<1> DEFINE none == [n \in {} |-> 1]
<1>5. none \in [DOMAIN runs -> 1..FreshEvery] /\ Lengths(none, runs)
  BY <1>4 DEF Lengths
<1>. QED
  BY <1>3, <1>5 DEF ChainInv

\* Two functions that satisfy the equation of the lengths are equal: at the
\* first iteration where they differed, they would agree on the one it resumes.
LEMMA LengthsUnique ==
  ASSUME Inv, NEW f, Lengths(f, runs), NEW g,
         g = [n \in DOMAIN runs |-> IF runs[n].from = 0 THEN 1 ELSE 1 + g[runs[n].from]]
  PROVE  \A n \in DOMAIN runs : g[n] = f[n]
<1> DEFINE T == {n \in DOMAIN runs : g[n] # f[n]}
           R == OpToRel(<, Nat)
<1>1. SUFFICES ASSUME T # {} PROVE FALSE
  OBVIOUS
<1>2. /\ DOMAIN runs = 1..Len(runs) /\ Len(runs) \in Nat
      /\ \A n \in DOMAIN runs : runs[n].from \in Nat /\ runs[n].from < n
  BY RunsTyped DEF Inv, RunTypes, RunRecords
<1>3. T \subseteq Nat
  BY <1>2
<1>4. PICK n \in T : \A m \in T : <<m, n>> \notin R
  BY <1>1, <1>3, NatLessThanWellFounded, WFMin
<1>5. \A m \in T : ~(m < n)
  BY <1>3, <1>4 DEF OpToRel
<1>6. /\ g[n] = IF runs[n].from = 0 THEN 1 ELSE 1 + g[runs[n].from]
      /\ f[n] = IF runs[n].from = 0 THEN 1 ELSE 1 + f[runs[n].from]
  BY DEF Lengths
<1>7. runs[n].from # 0 => runs[n].from \in DOMAIN runs /\ runs[n].from \notin T
  BY <1>2, <1>5
<1>. QED
  BY <1>6, <1>7

\* The inductive invariant of transcripts and their counters.
THEOREM ChainInvariant == Spec => []ChainInv
<1>1. Init => ChainInv
  BY InitChain
<1>2. Inv /\ ChainInv /\ [Next]_vars => ChainInv'
  BY ChainInvStep
<1>. QED
  BY <1>1, <1>2, SchedulerInvariant, PTL DEF Spec

\* A transcript holds at most LOOP_FRESH_CHAIN_EVERY iterations, whatever failed,
\* was evicted, cleared, reworded or restored in between.
THEOREM TranscriptsAreBounded == Spec => []ChainBounded
<1>1. Inv /\ ChainInv => ChainBounded
  <2>1. SUFFICES ASSUME Inv, ChainInv PROVE ChainBounded
    OBVIOUS
  <2> DEFINE E(g) == g = [n \in DOMAIN runs |-> IF runs[n].from = 0 THEN 1 ELSE 1 + g[runs[n].from]]
             length == CHOOSE g : E(g)
  <2>2. PICK f \in [DOMAIN runs -> 1..FreshEvery] : Lengths(f, runs)
    BY <2>1 DEF ChainInv
  <2>3. E(f)
    BY <2>2 DEF Lengths
  <2>4. E(length)
    BY <2>3
  <2>5. \A n \in DOMAIN runs : length[n] = f[n]
    BY <2>1, <2>2, <2>4, LengthsUnique
  <2>6. \A n \in DOMAIN runs : length[n] <= FreshEvery
    <3> HIDE DEF length
    <3> QED BY <2>2, <2>5, SchedulerAssumption
  <2>. QED
    BY <2>6 DEF ChainBounded
<1>. QED
  BY <1>1, ChainInvariant, SchedulerInvariant, PTL
=============================================================================
