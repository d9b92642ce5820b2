----------------------- MODULE SubagentDeliveryProofs -----------------------
(***************************************************************************)
(* Delivery, stop, teardown and exit of the subagent coordinator, for      *)
(* every number of ids, sessions, runs and clients and every limit.        *)
(*                                                                         *)
(* What makes these hold is that nothing is kept for an id that is not     *)
(* live (Owned): no waiter, no caller, no mark of a teardown.  A handler   *)
(* may break the rule of a stopped session (Stopped) for the parked spawns *)
(* it is about to resolve, and for those only.                             *)
(***************************************************************************)
EXTENDS SubagentCoordinatorProofs

\* What the coordinator holds of one id.
Owned(st, i) ==
  /\ i \notin Live(st) => st.waiters[i] = {} /\ st.reply[i] = "none" /\ i \notin st.tornDown
  /\ i \in st.tornDown => ~st.req[i].surface
  /\ i \in st.pending \cup st.active /\ ~IsWorkflow(st, i) /\ i \notin st.handleOnly =>
       st.reply[i] # "none"

\* What a Stop of its session means for one id.
Stopped(st, i) ==
  i \in Live(st) /\ st.req[i].parent \in st.blocked /\ ~IsWorkflow(st, i) =>
    i \in st.cancelled /\ i \notin st.queued

RunsAwaited(st) ==
  \A r \in Runs : st.cancelWaiters[r] # {} => WorkflowOutstanding(st, r) # {}

Heeded(e) == (e.owed => e.to # {}) /\ ("surface" \in e.to => e.owed /\ e.to = {"surface"})

Delivered(st) == \A e \in st.report : Heeded(e)

CleanBuffer(st) == \A b \in st.buffer : ~b.tornDown

ExitedEmpty(st) == st.mode = "exited" => Live(st) = {}

Settled(st) ==
  /\ \A i \in Ids : Owned(st, i)
  /\ RunsAwaited(st) /\ Delivered(st) /\ CleanBuffer(st) /\ ExitedEmpty(st)

Tidy(st) == Settled(st) /\ \A i \in Ids : Stopped(st, i)

DInv == IInv /\ Tidy(co)

-----------------------------------------------------------------------------
(***************************************************************************)
(* The end of children and the start of parked ones.                       *)
(***************************************************************************)
\* What Complete does to the fields that delivery looks at.
Retires(st, S, rc, r) ==
  /\ r.queued = st.queued \ S /\ r.pending = st.pending \ S /\ r.active = st.active \ S
  /\ r.req = st.req /\ r.reply = Set(st.reply, S, "none")
  /\ r.handleOnly = st.handleOnly \ S /\ r.cancelled = st.cancelled \ S
  /\ r.waiters = Set(st.waiters, S, {}) /\ r.tornDown = st.tornDown \ S
  /\ r.blocked = st.blocked /\ r.mode = st.mode /\ r.buffer = Buffered(st, S)
  /\ r.cancelWaiters = ResolveCancelWaiters(st, S, (st.pending \cup st.active) \ S)
  /\ r.report = st.report \cup {Report(st, i, rc) : i \in S}

LEMMA CompleteRetires ==
  ASSUME NEW st \in States, NEW S \in SUBSET Ids, NEW rc \in BOOLEAN
  PROVE  Retires(st, S, rc, Complete(st, S, rc))
BY DEF Complete, States, AnswerWaiters, Retires

\* A result is owed to somebody who is there: the caller, a waiter, or the parent
\* when neither heard it.
LEMMA ReportHeeded ==
  ASSUME NEW st, NEW i, NEW rc PROVE Heeded(Report(st, i, rc))
<1> DEFINE owed == st.req[i].surface /\ ~rc /\ i \notin st.killed
           to == Destinations(st, i, owed)
<1>1. /\ "surface" \in to <=> owed /\ BackgroundedAtEnd(st, i) /\ ~Heard(st, i)
      /\ "waiter" \in to <=> Heard(st, i)
      /\ "inline" \in to <=> i \notin st.handleOnly /\ st.reply[i] = "open"
      /\ \A ch \in to : ch \in {"inline", "waiter", "surface"}
  BY DEF Destinations, Channels
<1>2. BackgroundedAtEnd(st, i) <=> ~(i \notin st.handleOnly /\ st.reply[i] = "open")
  BY DEF BackgroundedAtEnd
<1>3. Report(st, i, rc).owed = owed /\ Report(st, i, rc).to = to
  BY DEF Report
<1> HIDE DEF owed, to
<1>4. owed => to # {} BY <1>1, <1>2
<1>5. "surface" \in to => owed /\ to = {"surface"} BY <1>1, <1>2
<1> QED BY <1>3, <1>4, <1>5 DEF Heeded

LEMMA BufferedClean ==
  ASSUME NEW st \in States, NEW S \in SUBSET Ids, CleanBuffer(st),
         \A i \in Ids : i \in st.tornDown => ~st.req[i].surface
  PROVE  \A b \in Buffered(st, S) : ~b.tornDown
<1> DEFINE kept == {i \in S : BufferCompletions /\ st.req[i].surface /\ st.req[i].owner = Task}
           older == {[b EXCEPT !.age = @ + Cardinality(kept)] : b \in st.buffer}
           new == {[id |-> i, parent |-> st.req[i].parent, age |-> Behind(st, i, kept),
                    tornDown |-> i \in st.tornDown] : i \in kept}
<1>1. \A b \in older : ~b.tornDown
  <2>1. \A b \in st.buffer : b \in [id : Ids, parent : Sessions, age : Nat, tornDown : BOOLEAN]
    BY DEF States
  <2>2. \A b \in st.buffer : [b EXCEPT !.age = @ + Cardinality(kept)].tornDown = b.tornDown
    BY <2>1
  <2> QED BY <2>2 DEF CleanBuffer
<1>2. \A i \in kept : i \notin st.tornDown OBVIOUS
<1>3. \A b \in new : ~b.tornDown
  <2> SUFFICES ASSUME NEW i \in kept
               PROVE  ~[id |-> i, parent |-> st.req[i].parent, age |-> Behind(st, i, kept),
                        tornDown |-> i \in st.tornDown].tornDown
    BY Zenon
  <2>1. i \notin st.tornDown BY <1>2
  <2> HIDE DEF kept
  <2> QED BY <2>1
<1>4. Buffered(st, S) = {b \in older \cup new : b.age < BufferCap} BY Zenon DEF Buffered
<1> HIDE DEF older, new
<1> QED BY <1>1, <1>3, <1>4

\* Children that end leave nothing behind, whether or not the rule of a stopped
\* session held for them.
LEMMA CompleteTidy ==
  ASSUME NEW st \in States, NEW S \in SUBSET Ids, NEW rc \in BOOLEAN, Settled(st),
         \A i \in Ids \ S : Stopped(st, i)
  PROVE  Tidy(Complete(st, S, rc))
<1> DEFINE r == Complete(st, S, rc)
<1>0. /\ \A i \in Ids : Owned(st, i)
      /\ RunsAwaited(st) /\ Delivered(st) /\ CleanBuffer(st) /\ ExitedEmpty(st)
  BY DEF Settled
<1>1. /\ r.queued = st.queued \ S /\ r.pending = st.pending \ S /\ r.active = st.active \ S
      /\ r.req = st.req /\ r.reply = Set(st.reply, S, "none")
      /\ r.handleOnly = st.handleOnly \ S /\ r.cancelled = st.cancelled \ S
      /\ r.waiters = Set(st.waiters, S, {}) /\ r.tornDown = st.tornDown \ S
      /\ r.blocked = st.blocked /\ r.mode = st.mode /\ r.buffer = Buffered(st, S)
      /\ r.cancelWaiters = ResolveCancelWaiters(st, S, (st.pending \cup st.active) \ S)
      /\ r.report = st.report \cup {Report(st, i, rc) : i \in S}
  <2>1. Retires(st, S, rc, r) BY CompleteRetires, Zenon
  <2> HIDE DEF r
  <2> QED BY <2>1, Zenon DEF Retires
<1> HIDE DEF r
<1>2. Live(r) = Live(st) \ S BY <1>1 DEF Live
<1>3. \A i \in Ids : IsWorkflow(r, i) = IsWorkflow(st, i) BY <1>1 DEF IsWorkflow
<1>4. ASSUME NEW i \in Ids PROVE Owned(r, i)
  <2>1. CASE i \in S
    <3>1. r.waiters[i] = {} /\ r.reply[i] = "none" /\ i \notin r.tornDown BY <1>1, <2>1 DEF Set
    <3>2. i \notin r.pending \cup r.active BY <1>1, <2>1
    <3> QED BY <3>1, <3>2 DEF Owned
  <2>2. CASE i \notin S
    <3>1. r.waiters[i] = st.waiters[i] /\ r.reply[i] = st.reply[i] BY <1>1, <2>2 DEF Set
    <3>2. Owned(st, i) BY <1>0
    <3> QED BY <1>1, <1>2, <1>3, <2>2, <3>1, <3>2 DEF Owned
  <2> QED BY <2>1, <2>2
<1>5. ASSUME NEW i \in Ids PROVE Stopped(r, i)
  <2>1. CASE i \in S BY <1>2, <2>1 DEF Stopped
  <2>2. CASE i \notin S
    <3>1. Stopped(st, i) BY <2>2
    <3> QED BY <1>1, <1>2, <1>3, <2>2, <3>1 DEF Stopped
  <2> QED BY <2>1, <2>2
<1>6. RunsAwaited(r)
  <2> SUFFICES ASSUME NEW w \in Runs, r.cancelWaiters[w] # {} PROVE WorkflowOutstanding(r, w) # {}
    BY DEF RunsAwaited
  <2> DEFINE ends == \E i \in S : st.req[i].owner = w
             rest == \A i \in (st.pending \cup st.active) \ S : st.req[i].owner # w
  <2>1. r.cancelWaiters[w] = IF ends /\ rest THEN {} ELSE st.cancelWaiters[w]
    BY <1>1 DEF ResolveCancelWaiters
  <2>2. ~(ends /\ rest) /\ st.cancelWaiters[w] # {} BY <2>1
  <2>3. PICK k \in st.pending \cup st.active : st.req[k].owner = w
    BY <1>0, <2>2 DEF RunsAwaited, WorkflowOutstanding
  <2>4. \E k2 \in (st.pending \cup st.active) \ S : st.req[k2].owner = w BY <2>2, <2>3
  <2> QED BY <1>1, <2>4 DEF WorkflowOutstanding
<1>7. Delivered(r) BY <1>0, <1>1, ReportHeeded DEF Delivered
<1>8. CleanBuffer(r)
  <2>1. \A i \in Ids : i \in st.tornDown => ~st.req[i].surface BY <1>0 DEF Owned
  <2>2. \A b \in Buffered(st, S) : ~b.tornDown BY <1>0, <2>1, BufferedClean
  <2> QED BY <1>1, <2>2 DEF CleanBuffer
<1>9. ExitedEmpty(r) BY <1>0, <1>1, <1>2 DEF ExitedEmpty
<1>10. Tidy(r) BY <1>4, <1>5, <1>6, <1>7, <1>8, <1>9 DEF Tidy, Settled
<1> QED BY <1>10 DEF r

LEMMA StartDequeuedTidy ==
  ASSUME NEW st \in States, NEW S \in SUBSET st.queued, Tidy(st)
  PROVE  Tidy(StartDequeued(st, S))
<1> DEFINE r == StartDequeued(st, S)
<1>0. /\ \A i \in Ids : Owned(st, i) /\ Stopped(st, i)
      /\ RunsAwaited(st) /\ Delivered(st) /\ CleanBuffer(st) /\ ExitedEmpty(st)
  BY DEF Tidy, Settled
<1>1. /\ r.queued = st.queued \ S /\ r.pending = st.pending \cup S /\ r.active = st.active
      /\ r.handleOnly = st.handleOnly \cup {i \in S : st.reply[i] = "none"}
      /\ r.req = st.req /\ r.reply = st.reply /\ r.cancelled = st.cancelled
      /\ r.waiters = st.waiters /\ r.tornDown = st.tornDown /\ r.blocked = st.blocked
      /\ r.mode = st.mode /\ r.buffer = st.buffer /\ r.cancelWaiters = st.cancelWaiters
      /\ r.report = st.report
  BY DEF StartDequeued, States
<1> HIDE DEF r
<1>2. Live(r) = Live(st) BY <1>1 DEF Live
<1>3. \A i \in Ids : IsWorkflow(r, i) = IsWorkflow(st, i) BY <1>1 DEF IsWorkflow
<1>4. ASSUME NEW i \in Ids PROVE Owned(r, i)
  <2>1. Owned(st, i) BY <1>0
  <2> QED BY <1>1, <1>2, <1>3, <2>1 DEF Owned
<1>5. ASSUME NEW i \in Ids PROVE Stopped(r, i)
  <2>1. Stopped(st, i) BY <1>0
  <2> QED BY <1>1, <1>2, <1>3, <2>1 DEF Stopped
<1>6. RunsAwaited(r) BY <1>0, <1>1 DEF RunsAwaited, WorkflowOutstanding
<1>7. Delivered(r) /\ CleanBuffer(r) /\ ExitedEmpty(r)
  BY <1>0, <1>1, <1>2 DEF Delivered, CleanBuffer, ExitedEmpty
<1>8. Tidy(r) BY <1>4, <1>5, <1>6, <1>7 DEF Tidy, Settled
<1> QED BY <1>8 DEF r

LEMMA SweepTidy ==
  ASSUME NEW st \in States, Tidy(st)
  PROVE  /\ Tidy(StartQueuedWithinCapacity(st))
         /\ StartQueuedWithinCapacity(st).mode = st.mode
<1> DEFINE W == WithinCapacity(st)
           d == st.queued \cap st.cancelled
           a == StartDequeued(st, W)
<1>1. W \in SUBSET st.queued /\ W \in SUBSET Ids /\ d \in SUBSET Ids
  BY DEF WithinCapacity, States
<1>2. a \in States /\ a.mode = st.mode
  <2>1. a \in States BY <1>1, StartDequeuedType
  <2>2. a.mode = st.mode BY DEF StartDequeued, States
  <2> QED BY <2>1, <2>2
<1>3. Tidy(a) BY <1>1, StartDequeuedTidy
<1>4. StartQueuedWithinCapacity(st) = Complete(a, d, TRUE) BY SweepIs, Zenon
<1> HIDE DEF a, d
<1>5. Tidy(Complete(a, d, TRUE)) BY <1>1, <1>2, <1>3, CompleteTidy DEF Tidy
<1>6. Complete(a, d, TRUE).mode = a.mode BY <1>1, <1>2, CompleteRetires DEF Retires
<1> QED BY <1>2, <1>4, <1>5, <1>6, Zenon

\* finish_child and remove_queued.
LEMMA EndTidy ==
  ASSUME NEW st \in States, NEW S \in SUBSET Ids, NEW rc \in BOOLEAN, Settled(st),
         \A i \in Ids \ S : Stopped(st, i)
  PROVE  /\ Tidy(StartQueuedWithinCapacity(Complete(st, S, rc)))
         /\ StartQueuedWithinCapacity(Complete(st, S, rc)).mode = st.mode
<1> DEFINE c == Complete(st, S, rc)
<1>1. c \in States BY CompleteType
<1>2. Tidy(c) BY CompleteTidy
<1>3. c.mode = st.mode
  <2>1. Retires(st, S, rc, c) BY CompleteRetires, Zenon
  <2> HIDE DEF c
  <2> QED BY <2>1 DEF Retires
<1> HIDE DEF c
<1>4. Tidy(StartQueuedWithinCapacity(c)) /\ StartQueuedWithinCapacity(c).mode = c.mode
  BY <1>1, <1>2, SweepTidy
<1> QED BY <1>3, <1>4 DEF c

LEMMA FinishTidy ==
  ASSUME NEW st \in States, NEW i \in Ids, NEW rc \in BOOLEAN, Settled(st),
         \A j \in Ids \ {i} : Stopped(st, j)
  PROVE  Tidy(FinishChild(st, i, rc)) /\ FinishChild(st, i, rc).mode = st.mode
<1>1. {i} \in SUBSET Ids OBVIOUS
<1>2. FinishChild(st, i, rc) = StartQueuedWithinCapacity(Complete(st, {i}, rc)) BY FinishIs
<1> QED BY <1>1, <1>2, EndTidy

LEMMA RemoveQueuedTidy ==
  ASSUME NEW st \in States, NEW S \in SUBSET Ids, Settled(st), \A i \in Ids \ S : Stopped(st, i)
  PROVE  Tidy(RemoveQueued(st, S)) /\ RemoveQueued(st, S).mode = st.mode
<1>1. CASE S = {} BY <1>1 DEF RemoveQueued, Tidy
<1>2. CASE S # {}
  <2>1. RemoveQueued(st, S) = StartQueuedWithinCapacity(Complete(st, S, TRUE))
    BY <1>2, RemoveQueuedIs
  <2> QED BY <2>1, EndTidy
<1> QED BY <1>1, <1>2

(***************************************************************************)
(* Steps that move no child into or out of the coordinator.  What is added *)
(* is added for live children and for runs with children, and a caller is  *)
(* let go only where nothing waits for it.                                 *)
(***************************************************************************)
Mild(st, r) ==
  /\ r.queued = st.queued /\ r.pending \cup r.active = st.pending \cup st.active
  /\ \A i \in Live(st) : r.req[i].parent = st.req[i].parent /\ r.req[i].owner = st.req[i].owner
  /\ \A i \in Ids \ Live(st) : /\ st.waiters[i] = {} => r.waiters[i] = {}
                               /\ st.reply[i] = "none" => r.reply[i] = "none"
  /\ \A i \in st.pending \cup st.active :
       r.reply[i] = "none" => st.reply[i] = "none" \/ i \in r.handleOnly \/ IsWorkflow(st, i)
  /\ st.handleOnly \subseteq r.handleOnly
  /\ \A i \in r.tornDown : /\ i \in st.tornDown \/ i \in Live(st)
                           /\ i \in Live(st) /\ r.req[i].surface =>
                                i \in st.tornDown /\ st.req[i].surface
  /\ \A w \in Runs : r.cancelWaiters[w] # {} =>
                       st.cancelWaiters[w] # {} \/ WorkflowOutstanding(st, w) # {}
  /\ r.buffer \subseteq st.buffer /\ r.report \subseteq st.report
  /\ r.mode = "exited" => st.mode = "exited" \/ Live(st) = {}

\* Stop is lifted, never imposed, and no token is revived.
Milder(st, r) == Mild(st, r) /\ r.blocked \subseteq st.blocked /\ st.cancelled \subseteq r.cancelled

LEMMA MildSettled ==
  ASSUME NEW st \in States, NEW r, Settled(st), Mild(st, r)
  PROVE  Settled(r)
<1>0. /\ \A i \in Ids : Owned(st, i)
      /\ RunsAwaited(st) /\ Delivered(st) /\ CleanBuffer(st) /\ ExitedEmpty(st)
  BY DEF Settled
<1>1. Live(r) = Live(st) BY DEF Mild, Live
<1>2. ASSUME NEW i \in Ids PROVE Owned(r, i)
  <2>1. Owned(st, i) BY <1>0
  <2>2. i \notin Live(st) => r.waiters[i] = {} /\ r.reply[i] = "none" /\ i \notin r.tornDown
    BY <2>1 DEF Owned, Mild
  <2>3. i \in r.tornDown => ~r.req[i].surface
    BY <2>1, <2>2 DEF Owned, Mild
  <2>4. ASSUME i \in r.pending \cup r.active, ~IsWorkflow(r, i), i \notin r.handleOnly
        PROVE  r.reply[i] # "none"
    <3>1. i \in st.pending \cup st.active /\ i \in Live(st) /\ i \notin st.handleOnly
      BY <2>4 DEF Mild, Live
    <3>2. ~IsWorkflow(st, i) BY <2>4, <3>1 DEF IsWorkflow, Mild
    <3> QED BY <2>1, <2>4, <3>1, <3>2 DEF Owned, Mild
  <2> QED BY <1>1, <2>2, <2>3, <2>4 DEF Owned
<1>3. RunsAwaited(r)
  <2>1. \A w : WorkflowOutstanding(r, w) = WorkflowOutstanding(st, w)
    BY DEF WorkflowOutstanding, Mild, Live
  <2> QED BY <1>0, <2>1 DEF RunsAwaited, Mild
<1>4. Delivered(r) /\ CleanBuffer(r) BY <1>0 DEF Delivered, CleanBuffer, Mild
<1>5. ExitedEmpty(r) BY <1>0, <1>1 DEF ExitedEmpty, Mild
<1> QED BY <1>2, <1>3, <1>4, <1>5 DEF Settled

LEMMA MilderTidy ==
  ASSUME NEW st \in States, NEW r, Tidy(st), Milder(st, r)
  PROVE  Tidy(r)
<1>1. Settled(r) BY MildSettled DEF Tidy, Milder
<1>2. ASSUME NEW i \in Ids PROVE Stopped(r, i)
  <2>1. Stopped(st, i) BY DEF Tidy
  <2>2. Live(r) = Live(st) BY DEF Milder, Mild, Live
  <2>3. i \in Live(st) => IsWorkflow(r, i) = IsWorkflow(st, i) BY DEF Milder, Mild, IsWorkflow
  <2> QED BY <2>1, <2>2, <2>3 DEF Stopped, Milder, Mild
<1> QED BY <1>1, <1>2 DEF Tidy

LEMMA EvictTidy ==
  ASSUME NEW st \in States, Tidy(st) PROVE Tidy(Evict(st))
<1> DEFINE kept == {i \in st.completed : st.age[i] < CompletedCap}
           age == [i \in Ids |-> IF i \in kept THEN st.age[i] ELSE 0]
           req == [i \in Ids |-> IF i \in Live(st) THEN st.req[i] ELSE Blank]
           clock == IF st.queued = {} THEN 0 ELSE st.clock
           r == [st EXCEPT !.completed = kept, !.age = age, !.req = req, !.clock = clock]
<1>1. Evict(st) = r BY Zenon DEF Evict
<1>2. Live(st) \in SUBSET Ids BY DEF States, Live
<1>3. \A i \in Live(st) : req[i] = st.req[i] BY <1>2
<1> HIDE DEF kept, age, req, clock
<1>4. Milder(st, r) BY <1>3 DEF Milder, Mild, States
<1> QED BY <1>1, <1>4, MilderTidy

\* The updates of a single field.
LEMMA FieldTidy ==
  ASSUME NEW st \in States, Tidy(st)
  PROVE  /\ \A v : st.cancelled \subseteq v => Tidy([st EXCEPT !.cancelled = v])
         /\ \A v : Tidy([st EXCEPT !.killed = v])
         /\ \A v \in SUBSET st.blocked : Tidy([st EXCEPT !.blocked = v])
         /\ \A v : Tidy([st EXCEPT !.gone = v])
         /\ \A v \in SUBSET st.buffer : Tidy([st EXCEPT !.buffer = v])
         /\ Tidy([st EXCEPT !.report = {}])
<1>1. ASSUME NEW v, st.cancelled \subseteq v PROVE Tidy([st EXCEPT !.cancelled = v])
  <2>1. Milder(st, [st EXCEPT !.cancelled = v]) BY <1>1 DEF Milder, Mild, States
  <2> QED BY <2>1, MilderTidy
<1>2. ASSUME NEW v PROVE Tidy([st EXCEPT !.killed = v])
  <2>1. Milder(st, [st EXCEPT !.killed = v]) BY DEF Milder, Mild, States
  <2> QED BY <2>1, MilderTidy
<1>3. ASSUME NEW v \in SUBSET st.blocked PROVE Tidy([st EXCEPT !.blocked = v])
  <2>1. Milder(st, [st EXCEPT !.blocked = v]) BY DEF Milder, Mild, States
  <2> QED BY <2>1, MilderTidy
<1>4. ASSUME NEW v PROVE Tidy([st EXCEPT !.gone = v])
  <2>1. Milder(st, [st EXCEPT !.gone = v]) BY DEF Milder, Mild, States
  <2> QED BY <2>1, MilderTidy
<1>5. ASSUME NEW v \in SUBSET st.buffer PROVE Tidy([st EXCEPT !.buffer = v])
  <2>1. Milder(st, [st EXCEPT !.buffer = v]) BY DEF Milder, Mild, States
  <2> QED BY <2>1, MilderTidy
<1>6. Tidy([st EXCEPT !.report = {}])
  <2>1. Milder(st, [st EXCEPT !.report = {}]) BY DEF Milder, Mild, States
  <2> QED BY <2>1, MilderTidy
<1> QED BY <1>1, <1>2, <1>3, <1>4, <1>5, <1>6

(***************************************************************************)
(* The handlers.                                                           *)
(***************************************************************************)
LEMMA ReapTidy ==
  ASSUME NEW st \in States, Tidy(st)
  PROVE  Tidy(Reap(st)) /\ Reap(st).mode = st.mode
<1> DEFINE abandoned == {i \in st.pending \cup st.active :
                           i \notin st.handleOnly /\ st.reply[i] = "closed"}
           tasks == {i \in abandoned : ~IsWorkflow(st, i)}
           parked == {i \in st.queued : st.reply[i] = "closed"}
           reply == Set(st.reply, abandoned \cup parked, "none")
           ho == st.handleOnly \cup tasks
           dl == st.deadline \ (tasks \cup parked)
           ca == st.cancelled \cup (abandoned \ tasks)
           r == [st EXCEPT !.reply = reply, !.handleOnly = ho, !.deadline = dl, !.cancelled = ca]
<1>1. abandoned \in SUBSET Ids /\ parked \in SUBSET Ids /\ tasks \in SUBSET Ids
  BY DEF States
<1>2. reply \in [Ids -> Replies] BY <1>1, SetType DEF States, Replies
<1>3. ho \in SUBSET Ids /\ dl \in SUBSET Ids /\ ca \in SUBSET Ids BY <1>1 DEF States
<1>4. {RemoveQueued(s, s.queued \cap s.cancelled) : s \in {r}}
      = {RemoveQueued(r, r.queued \cap r.cancelled)}
  OBVIOUS
<1>5. Reap(st) = RemoveQueued(r, r.queued \cap r.cancelled)
  BY <1>4, TheElement, Zenon DEF Reap
<1>6. \A i \in Ids : st.reply[i] = "none" => reply[i] = "none" BY DEF Set
<1>7. \A i \in st.pending \cup st.active :
        reply[i] = "none" => st.reply[i] = "none" \/ i \in ho \/ IsWorkflow(st, i)
  BY DEF Set, States
<1>8. st.handleOnly \subseteq ho /\ st.cancelled \subseteq ca OBVIOUS
<1> HIDE DEF reply, ho, dl, ca
<1>9. r \in States BY <1>2, <1>3, ZenonT(60) DEF States
<1>10. Milder(st, r) BY <1>6, <1>7, <1>8 DEF Milder, Mild, States
<1>11. r.mode = st.mode BY DEF States
<1> HIDE DEF r
<1>12. Tidy(r) BY <1>10, MilderTidy
<1>13. r.queued \cap r.cancelled \in SUBSET Ids BY <1>9 DEF States
<1>14. Settled(r) /\ \A i \in Ids \ (r.queued \cap r.cancelled) : Stopped(r, i) BY <1>12 DEF Tidy
<1> QED BY <1>5, <1>9, <1>11, <1>13, <1>14, RemoveQueuedTidy

LEMMA ProcessDeadlinesTidy ==
  ASSUME NEW st \in States, Placed(st), Tidy(st), NEW due, NEW late
  PROVE  Tidy(ProcessDeadlines(st, due, late))
<1> DEFINE D == due \cap st.deadline
           reply == Set(st.reply, D, "none")
           ho == st.handleOnly \cup (D \ st.queued)
           dl == st.deadline \ D
           wa == [i \in Ids |-> st.waiters[i] \ late]
           go == st.gone \ late
           r == [st EXCEPT !.reply = reply, !.handleOnly = ho, !.deadline = dl,
                           !.waiters = wa, !.gone = go]
<1>1. ProcessDeadlines(st, due, late) = r BY Zenon DEF ProcessDeadlines
<1>2. \A i \in Ids : /\ st.reply[i] = "none" => reply[i] = "none"
                     /\ st.waiters[i] = {} => wa[i] = {}
  BY DEF Set
<1>3. \A i \in st.pending \cup st.active :
        reply[i] = "none" => st.reply[i] = "none" \/ i \in ho \/ IsWorkflow(st, i)
  BY DEF Set, States, Placed
<1>4. st.handleOnly \subseteq ho OBVIOUS
<1> HIDE DEF reply, ho, dl, wa, go
<1>5. Milder(st, r) BY <1>2, <1>3, <1>4 DEF Milder, Mild, States
<1> QED BY <1>1, <1>5, MilderTidy

\* Whatever a handler cancels, the children it does not name were in order, and
\* of those it names the running ones get their token cancelled and the parked
\* ones are resolved.
LEMMA CancelAllTidy ==
  ASSUME NEW st \in States, NEW S, Settled(st), \A i \in Ids : i \notin S => Stopped(st, i)
  PROVE  Tidy(CancelAll(st, S))
<1> DEFINE ca == st.cancelled \cup (S \cap (st.pending \cup st.active))
           r == [st EXCEPT !.cancelled = ca]
           q == S \cap st.queued
<1>1. ca \in SUBSET Ids /\ q \in SUBSET Ids BY DEF States
<1>2. CancelAll(st, S) = RemoveQueued(r, q) BY Zenon DEF CancelAll
<1>3. r \in States
  <2> HIDE DEF ca
  <2> QED BY <1>1, Zenon DEF States
<1>4. /\ r.queued = st.queued /\ r.pending = st.pending /\ r.active = st.active
      /\ r.req = st.req /\ r.blocked = st.blocked /\ r.cancelled = ca
  BY DEF States
<1>5. Mild(st, r)
  <2> HIDE DEF ca
  <2> QED BY DEF Mild, States
<1> HIDE DEF r
<1>6. Settled(r) BY <1>5, MildSettled
<1>7. ASSUME NEW i \in Ids \ q PROVE Stopped(r, i)
  <2>1. CASE i \in S BY <1>4, <1>7, <2>1 DEF Stopped, Live
  <2>2. CASE i \notin S
    <3>1. Stopped(st, i) BY <2>2
    <3> QED BY <1>4, <3>1 DEF Stopped, Live, IsWorkflow
  <2> QED BY <2>1, <2>2
<1> HIDE DEF q
<1>8. Tidy(RemoveQueued(r, q)) BY <1>1, <1>3, <1>6, <1>7, RemoveQueuedTidy
<1> QED BY <1>2, <1>8, Zenon

LEMMA CancelOneTidy ==
  ASSUME NEW st \in States, Tidy(st), NEW i, NEW scope PROVE Tidy(CancelOne(st, i, scope))
<1> DEFINE ki == st.killed \cup ({i} \cap (st.pending \cup st.active))
           r == [st EXCEPT !.killed = ki]
<1>1. ki \in SUBSET Ids BY DEF States
<1>2. CancelOne(st, i, scope) \in {CancelAll(r, {i}), st} BY Zenon DEF CancelOne
<1> HIDE DEF ki
<1>3. r \in States BY <1>1, Zenon DEF States
<1>4. Tidy(r) BY FieldTidy
<1> HIDE DEF r
<1>5. Tidy(CancelAll(r, {i})) BY <1>3, <1>4, CancelAllTidy DEF Tidy
<1> QED BY <1>2, <1>5

\* Stop: the children it adds to the rule are the ones it cancels.
LEMMA CancelParentSessionTidy ==
  ASSUME NEW st \in States, Tidy(st), NEW s \in Sessions PROVE Tidy(CancelParentSession(st, s))
<1> DEFINE bl == st.blocked \cup {s}
           r == [st EXCEPT !.blocked = bl]
           S == {i \in Live(st) : st.req[i].parent = s /\ ~IsWorkflow(st, i)}
<1>1. bl \in SUBSET Sessions BY DEF States
<1>2. CancelParentSession(st, s) = CancelAll(r, S) BY Zenon DEF CancelParentSession
<1>3. r \in States
  <2> HIDE DEF bl
  <2> QED BY <1>1, Zenon DEF States
<1>4. /\ r.queued = st.queued /\ r.pending = st.pending /\ r.active = st.active
      /\ r.req = st.req /\ r.blocked = bl /\ r.cancelled = st.cancelled
  BY DEF States
<1>5. Mild(st, r)
  <2> HIDE DEF bl
  <2> QED BY DEF Mild, States
<1> HIDE DEF r
<1>6. Settled(r) BY <1>5, MildSettled DEF Tidy
<1>7. ASSUME NEW i \in Ids, i \notin S PROVE Stopped(r, i)
  <2>1. Stopped(st, i) BY DEF Tidy
  <2> QED BY <1>4, <1>7, <2>1 DEF Stopped, Live, IsWorkflow
<1> HIDE DEF S
<1> QED BY <1>2, <1>3, <1>6, <1>7, CancelAllTidy

LEMMA CancelWorkflowRunTidy ==
  ASSUME NEW st \in States, Tidy(st), NEW w \in Runs, NEW c \in Clients, NEW scope
  PROVE  Tidy(CancelWorkflowRun(st, w, c, scope))
<1> DEFINE S == {i \in WorkflowOutstanding(st, w) : Belongs(st, i, scope)}
           ca == st.cancelled \cup S
           a == [st EXCEPT !.cancelled = ca]
           cw == [a.cancelWaiters EXCEPT ![w] = @ \cup {c}]
           r == [a EXCEPT !.cancelWaiters = cw]
<1>1. ca \in SUBSET Ids /\ st.cancelled \subseteq ca BY DEF States, WorkflowOutstanding
<1>2. CASE WorkflowOutstanding(st, w) = {}
  <2>1. CancelWorkflowRun(st, w, c, scope) = a BY <1>2, Zenon DEF CancelWorkflowRun
  <2> HIDE DEF ca
  <2> QED BY <1>1, <2>1, FieldTidy
<1>3. CASE WorkflowOutstanding(st, w) # {}
  <2>1. CancelWorkflowRun(st, w, c, scope) = r BY <1>3, Zenon DEF CancelWorkflowRun
  <2> HIDE DEF ca
  <2>2. a.cancelWaiters = st.cancelWaiters /\ st.cancelWaiters \in [Runs -> SUBSET Clients]
    BY DEF States
  <2>3. \A v \in Runs : cw[v] # {} => st.cancelWaiters[v] # {} \/ v = w BY <2>2
  <2> HIDE DEF cw
  <2>4. /\ r.queued = st.queued /\ r.pending = st.pending /\ r.active = st.active
        /\ r.req = st.req /\ r.blocked = st.blocked /\ r.cancelled = ca
        /\ r.waiters = st.waiters /\ r.reply = st.reply /\ r.handleOnly = st.handleOnly
        /\ r.tornDown = st.tornDown /\ r.buffer = st.buffer /\ r.report = st.report
        /\ r.mode = st.mode /\ r.cancelWaiters = cw
    BY DEF States
  <2> HIDE DEF r
  <2>5. Milder(st, r) BY <1>1, <1>3, <2>3, <2>4 DEF Milder, Mild
  <2> QED BY <2>1, <2>5, MilderTidy
<1> QED BY <1>2, <1>3

\* Teardown: the mark and the loss of the right to surface go together.
LEMMA TeardownSessionTidy ==
  ASSUME NEW st \in States, Tidy(st), NEW s PROVE Tidy(TeardownSession(st, s))
<1> DEFINE children == {i \in Live(st) : st.req[i].parent = s}
           bu == {b \in st.buffer : b.parent # s}
           bl == st.blocked \ {s}
           req == [i \in Ids |-> IF i \in children
                     THEN [st.req[i] EXCEPT !.surface = FALSE] ELSE st.req[i]]
           td == st.tornDown \cup children
           r == [st EXCEPT !.buffer = bu, !.blocked = bl, !.req = req, !.tornDown = td]
<1>1. bu \in SUBSET [id : Ids, parent : Sessions, age : Nat, tornDown : BOOLEAN]
  BY DEF States
<1>2. bl \in SUBSET Sessions /\ td \in SUBSET Ids BY DEF States, Live
<1>3. req \in [Ids -> Requests]
  <2>1. \A q \in Requests : [q EXCEPT !.surface = FALSE] \in Requests BY DEF Requests
  <2>2. \A i \in Ids : st.req[i] \in Requests BY DEF States
  <2> QED BY <2>1, <2>2, Zenon
<1>4. \A i \in Ids : /\ req[i].parent = st.req[i].parent /\ req[i].owner = st.req[i].owner
                     /\ i \in children => ~req[i].surface
                     /\ i \notin children => req[i] = st.req[i]
  BY DEF States, Requests
<1>5. Live(st) \in SUBSET Ids /\ children \in SUBSET Live(st) BY DEF States, Live
<1>6. TeardownSession(st, s) = CancelAll(r, children) BY Zenon DEF TeardownSession
<1>7. td \subseteq st.tornDown \cup children /\ bu \subseteq st.buffer /\ bl \subseteq st.blocked
  OBVIOUS
<1> HIDE DEF bu, bl, req, td, children
<1>8. r \in States BY <1>1, <1>2, <1>3, ZenonT(60) DEF States
<1>9. /\ r.queued = st.queued /\ r.pending = st.pending /\ r.active = st.active
      /\ r.req = req /\ r.blocked = bl /\ r.cancelled = st.cancelled
      /\ r.waiters = st.waiters /\ r.reply = st.reply /\ r.handleOnly = st.handleOnly
      /\ r.tornDown = td /\ r.buffer = bu /\ r.report = st.report
      /\ r.mode = st.mode /\ r.cancelWaiters = st.cancelWaiters
  BY DEF States
<1> HIDE DEF r
<1>10. Milder(st, r)
  <2>1. \A i \in Live(st) : r.req[i].parent = st.req[i].parent /\ r.req[i].owner = st.req[i].owner
    BY <1>4, <1>5, <1>9
  <2>2. ASSUME NEW i \in r.tornDown
        PROVE  /\ i \in st.tornDown \/ i \in Live(st)
               /\ i \in Live(st) /\ r.req[i].surface => i \in st.tornDown /\ st.req[i].surface
    BY <1>4, <1>5, <1>7, <1>9
  <2> QED BY <1>7, <1>9, <2>1, <2>2 DEF Milder, Mild
<1>11. Tidy(r) BY <1>10, MilderTidy
<1> QED BY <1>6, <1>8, <1>11, CancelAllTidy DEF Tidy

LEMMA HandleQueryTidy ==
  ASSUME NEW st \in States, Tidy(st), NEW c \in Clients, NEW i \in Ids, NEW scope
  PROVE  Tidy(HandleQuery(st, c, i, scope))
<1> DEFINE wa == [st.waiters EXCEPT ![i] = @ \cup {c}]
           r == [st EXCEPT !.waiters = wa]
<1>1. CASE i \in Live(st) /\ Belongs(st, i, scope) /\ ~IsWorkflow(st, i)
  <2>1. HandleQuery(st, c, i, scope) = r BY <1>1, Zenon DEF HandleQuery
  <2>2. \A j \in Ids \ Live(st) : wa[j] = st.waiters[j] BY <1>1 DEF States
  <2> HIDE DEF wa
  <2>3. Milder(st, r) BY <2>2 DEF Milder, Mild, States
  <2> QED BY <2>1, <2>3, MilderTidy
<1>2. CASE ~(i \in Live(st) /\ Belongs(st, i, scope) /\ ~IsWorkflow(st, i))
  BY <1>2 DEF HandleQuery
<1> QED BY <1>1, <1>2

(***************************************************************************)
(* handle_spawn.                                                           *)
(***************************************************************************)
\* The state r is st with the fresh child i of request q put into one of the
\* maps.
Joins(st, r, i, q) ==
  /\ Live(r) = Live(st) \cup {i}
  /\ \A j \in Ids \ {i} : /\ j \in r.queued <=> j \in st.queued
                          /\ j \in r.pending \cup r.active <=> j \in st.pending \cup st.active
                          /\ j \in r.handleOnly <=> j \in st.handleOnly
                          /\ r.reply[j] = st.reply[j] /\ r.req[j] = st.req[j]
  /\ r.req[i] = q /\ r.reply[i] = "open"
  /\ r.waiters = st.waiters /\ r.tornDown = st.tornDown /\ r.cancelled = st.cancelled
  /\ r.blocked = st.blocked /\ r.cancelWaiters = st.cancelWaiters
  /\ r.buffer = st.buffer /\ r.report = st.report /\ r.mode = st.mode

LEMMA JoinsTidy ==
  ASSUME NEW st \in States, NEW r, NEW i \in Ids, NEW q, Tidy(st), Joins(st, r, i, q),
         i \notin Live(st), st.mode # "exited", q.owner # Task \/ q.parent \notin st.blocked
  PROVE  Tidy(r)
<1>0. /\ \A j \in Ids : Owned(st, j) /\ Stopped(st, j)
      /\ RunsAwaited(st) /\ Delivered(st) /\ CleanBuffer(st) /\ ExitedEmpty(st)
  BY DEF Tidy, Settled
<1>1. ASSUME NEW j \in Ids PROVE Owned(r, j) /\ Stopped(r, j)
  <2>1. Owned(st, j) /\ Stopped(st, j) BY <1>0
  <2>2. CASE j = i
    <3>1. j \in Live(r) /\ j \notin r.tornDown /\ r.reply[j] # "none"
      BY <2>1, <2>2 DEF Owned, Joins
    <3>2. IsWorkflow(r, j) \/ r.req[j].parent \notin r.blocked BY <2>2 DEF Joins, IsWorkflow
    <3> QED BY <3>1, <3>2 DEF Owned, Stopped
  <2>3. CASE j # i
    <3>1. /\ j \in Live(r) <=> j \in Live(st)
          /\ IsWorkflow(r, j) = IsWorkflow(st, j)
      BY <2>3 DEF Joins, IsWorkflow
    <3>2. /\ j \in r.queued <=> j \in st.queued
          /\ j \in r.pending \cup r.active <=> j \in st.pending \cup st.active
          /\ j \in r.handleOnly <=> j \in st.handleOnly
          /\ r.reply[j] = st.reply[j] /\ r.req[j] = st.req[j]
          /\ r.waiters = st.waiters /\ r.tornDown = st.tornDown /\ r.cancelled = st.cancelled
          /\ r.blocked = st.blocked
      BY <2>3 DEF Joins
    <3>3. Owned(r, j) BY <2>1, <3>1, <3>2 DEF Owned
    <3>4. Stopped(r, j) BY <2>1, <3>1, <3>2 DEF Stopped
    <3> QED BY <3>3, <3>4
  <2> QED BY <2>2, <2>3
<1>2. RunsAwaited(r)
  <2> SUFFICES ASSUME NEW w \in Runs, r.cancelWaiters[w] # {} PROVE WorkflowOutstanding(r, w) # {}
    BY DEF RunsAwaited
  <2>1. PICK k \in st.pending \cup st.active : st.req[k].owner = w
    BY <1>0 DEF RunsAwaited, WorkflowOutstanding, Joins
  <2>2. k \in Ids \ {i} BY DEF Live, States
  <2> QED BY <2>1, <2>2 DEF Joins, WorkflowOutstanding
<1>3. Delivered(r) /\ CleanBuffer(r) /\ ExitedEmpty(r)
  BY <1>0 DEF Delivered, CleanBuffer, ExitedEmpty, Joins
<1> QED BY <1>1, <1>2, <1>3 DEF Tidy, Settled

LEMMA AdmitFields ==
  ASSUME NEW st \in States, NEW i \in Ids, NEW q \in Requests
  PROVE  LET n == Admit(st, i, q)
         IN /\ n \in States
            /\ n.queued = st.queued /\ n.pending = st.pending /\ n.active = st.active
            /\ \A j \in Ids \ {i} : /\ j \in n.handleOnly <=> j \in st.handleOnly
                                    /\ n.reply[j] = st.reply[j] /\ n.req[j] = st.req[j]
            /\ n.req[i] = q /\ n.reply[i] = "open"
            /\ n.waiters = st.waiters /\ n.tornDown = st.tornDown /\ n.cancelled = st.cancelled
            /\ n.blocked = st.blocked /\ n.cancelWaiters = st.cancelWaiters
            /\ n.buffer = st.buffer /\ n.report = st.report /\ n.mode = st.mode
<1> DEFINE req == [st.req EXCEPT ![i] = q]
           reply == [st.reply EXCEPT ![i] = "open"]
           ho == IF q.kind = "background" THEN st.handleOnly \cup {i} ELSE st.handleOnly \ {i}
           dl == IF q.kind = "foreground" THEN st.deadline \cup {i} ELSE st.deadline \ {i}
           ro == [st.root EXCEPT ![i] = IF q.spawner \in Ids THEN st.root[q.spawner] ELSE q.spawner]
           bo == st.born \ {i}
           n == [st EXCEPT !.req = req, !.reply = reply, !.handleOnly = ho, !.deadline = dl,
                           !.root = ro, !.born = bo]
<1>1. Admit(st, i, q) = n BY Zenon DEF Admit
<1>2. Admit(st, i, q) \in States BY AdmitType, Zenon
<1>3. /\ \A j \in Ids \ {i} : /\ j \in ho <=> j \in st.handleOnly
                              /\ reply[j] = st.reply[j] /\ req[j] = st.req[j]
      /\ req[i] = q /\ reply[i] = "open"
  BY DEF States
<1> HIDE DEF reply, ho, dl, ro, bo, req
<1>4. /\ n.queued = st.queued /\ n.pending = st.pending /\ n.active = st.active
      /\ n.handleOnly = ho /\ n.reply = reply /\ n.req = req
      /\ n.waiters = st.waiters /\ n.tornDown = st.tornDown /\ n.cancelled = st.cancelled
      /\ n.blocked = st.blocked /\ n.cancelWaiters = st.cancelWaiters
      /\ n.buffer = st.buffer /\ n.report = st.report /\ n.mode = st.mode
  BY DEF States
<1> HIDE DEF n
<1>5. /\ n \in States
      /\ n.queued = st.queued /\ n.pending = st.pending /\ n.active = st.active
      /\ \A j \in Ids \ {i} : /\ j \in n.handleOnly <=> j \in st.handleOnly
                              /\ n.reply[j] = st.reply[j] /\ n.req[j] = st.req[j]
      /\ n.req[i] = q /\ n.reply[i] = "open"
      /\ n.waiters = st.waiters /\ n.tornDown = st.tornDown /\ n.cancelled = st.cancelled
      /\ n.blocked = st.blocked /\ n.cancelWaiters = st.cancelWaiters
      /\ n.buffer = st.buffer /\ n.report = st.report /\ n.mode = st.mode
  BY <1>1, <1>2, <1>3, <1>4
<1> QED BY <1>1, <1>5, Zenon

LEMMA HandleSpawnTidy ==
  ASSUME NEW st \in States, Tidy(st), st.mode # "exited", NEW i \in Ids, NEW request \in Requests
  PROVE  Tidy(HandleSpawn(st, i, request))
<1> DEFINE q == Reparent(st, request)
           n == Admit(st, i, q)
           started == [n EXCEPT !.pending = @ \cup {i}]
           parked == [n EXCEPT !.queued = @ \cup {i}, !.at[i] = st.clock + 1, !.clock = @ + 1]
           refused == [n EXCEPT !.pending = @ \cup {i}, !.deadline = @ \ {i}]
<1>1. CASE Refused(st, i, request) BY <1>1 DEF HandleSpawn
<1>2. CASE ~Refused(st, i, request)
  <2>1. HandleSpawn(st, i, request) \in {started, parked, FinishChild(refused, i, FALSE)}
    BY <1>2, Zenon DEF HandleSpawn
  <2>2. i \notin Live(st) /\ (q.owner # Task \/ q.parent \notin st.blocked)
    BY <1>2, Zenon DEF Refused, Known
  <2>3. q \in Requests BY ReparentType
  <2> HIDE DEF q
  <2>4. /\ n \in States
        /\ n.queued = st.queued /\ n.pending = st.pending /\ n.active = st.active
        /\ \A j \in Ids \ {i} : /\ j \in n.handleOnly <=> j \in st.handleOnly
                                /\ n.reply[j] = st.reply[j] /\ n.req[j] = st.req[j]
        /\ n.req[i] = q /\ n.reply[i] = "open"
        /\ n.waiters = st.waiters /\ n.tornDown = st.tornDown /\ n.cancelled = st.cancelled
        /\ n.blocked = st.blocked /\ n.cancelWaiters = st.cancelWaiters
        /\ n.buffer = st.buffer /\ n.report = st.report /\ n.mode = st.mode
    BY <2>3, AdmitFields
  <2> HIDE DEF n
  <2>5. ASSUME NEW r, r \in {started, refused, parked} PROVE Joins(st, r, i, q)
    <3>1. /\ r.active = n.active /\ r.handleOnly = n.handleOnly
          /\ r.reply = n.reply /\ r.req = n.req
          /\ r.waiters = n.waiters /\ r.tornDown = n.tornDown /\ r.cancelled = n.cancelled
          /\ r.blocked = n.blocked /\ r.cancelWaiters = n.cancelWaiters
          /\ r.buffer = n.buffer /\ r.report = n.report /\ r.mode = n.mode
          /\ \/ r.pending = n.pending \cup {i} /\ r.queued = n.queued
             \/ r.pending = n.pending /\ r.queued = n.queued \cup {i}
      <4>1. CASE r = started BY <2>4, <4>1 DEF States
      <4>2. CASE r = refused BY <2>4, <4>2 DEF States
      <4>3. CASE r = parked
        <5> DEFINE at == [n.at EXCEPT ![i] = st.clock + 1]
                   cl == n.clock + 1
                   qu == n.queued \cup {i}
        <5>1. r = [n EXCEPT !.queued = qu, !.at = at, !.clock = cl] BY <4>3, Zenon
        <5> HIDE DEF at, cl
        <5> QED BY <2>4, <5>1 DEF States
      <4> QED BY <2>5, <4>1, <4>2, <4>3
    <3> HIDE DEF started, refused, parked
    <3> QED BY <2>4, <3>1 DEF Joins, Live
  <2>6. Tidy(started) /\ Tidy(parked) /\ Tidy(refused) BY <2>2, <2>5, JoinsTidy
  <2>7. refused \in States
    <3> DEFINE p == n.pending \cup {i}
               dl == n.deadline \ {i}
    <3>1. p \in SUBSET Ids /\ dl \in SUBSET Ids BY <2>4 DEF States
    <3>2. refused = [n EXCEPT !.pending = p, !.deadline = dl] BY Zenon
    <3> HIDE DEF p, dl
    <3>3. [n EXCEPT !.pending = p, !.deadline = dl] \in States BY <2>4, <3>1, Zenon DEF States
    <3> QED BY <3>2, <3>3, Zenon
  <2> HIDE DEF refused
  <2>8. Tidy(FinishChild(refused, i, FALSE)) BY <2>6, <2>7, FinishTidy DEF Tidy
  <2> QED BY <2>1, <2>6, <2>8
<1> QED BY <1>1, <1>2

(***************************************************************************)
(* The steps.                                                              *)
(***************************************************************************)
LEMMA InitTidy == Tidy(InitState)
<1>1. /\ InitState.queued = {} /\ InitState.pending = {} /\ InitState.active = {}
      /\ InitState.waiters = [i \in Ids |-> {}] /\ InitState.reply = [i \in Ids |-> "none"]
      /\ InitState.tornDown = {} /\ InitState.cancelWaiters = [r \in Runs |-> {}]
      /\ InitState.buffer = {} /\ InitState.report = {} /\ InitState.mode = "running"
  BY DEF InitState
<1> HIDE DEF InitState
<1>2. Live(InitState) = {} BY <1>1 DEF Live
<1>3. \A i \in Ids : Owned(InitState, i) /\ Stopped(InitState, i)
  BY <1>1, <1>2 DEF Owned, Stopped
<1>4. RunsAwaited(InitState) BY <1>1 DEF RunsAwaited
<1>5. Delivered(InitState) /\ CleanBuffer(InitState) /\ ExitedEmpty(InitState)
  BY <1>1 DEF Delivered, CleanBuffer, ExitedEmpty
<1> QED BY <1>3, <1>4, <1>5 DEF Tidy, Settled

LEMMA FreshTidy ==
  ASSUME DInv PROVE fresh \in States /\ Good(fresh) /\ Tidy(fresh) /\ fresh.mode = co.mode
<1>1. Good(fresh) BY FieldGood, Zenon DEF DInv, IInv, fresh
<1>2. co \in States /\ fresh \in States BY <1>1 DEF DInv, IInv, Good, Sound
<1>3. Tidy(fresh) BY <1>2, FieldTidy DEF DInv, fresh
<1>4. fresh.mode = co.mode BY <1>2 DEF fresh, States
<1> QED BY <1>1, <1>2, <1>3, <1>4

LEMMA CommandTidy ==
  ASSUME DInv, CommandStep PROVE Tidy(co')
<1> DEFINE f == Reap(fresh)
<1>1. fresh \in States /\ Good(fresh) /\ Tidy(fresh) /\ fresh.mode = co.mode BY FreshTidy
<1>2. Good(f) BY <1>1, ReapGood
<1>3. f \in States BY <1>2 DEF Good, Sound
<1>4. Tidy(f) /\ f.mode = co.mode BY <1>1, ReapTidy
<1> HIDE DEF f
<1>5. Reaped = {f} BY Zenon DEF Reaped, f
<1> SUFFICES \E st \in States : Tidy(st) /\ co' = Evict(st) BY EvictTidy
<1>6. ASSUME NEW i \in Ids, NEW from \in Sessions, NEW kind \in Kinds, NEW owner \in Owners,
             NEW p \in Prompts, Spawn(i, from, kind, owner, p)
      PROVE  \E st \in States : Tidy(st) /\ co' = Evict(st)
  <2> DEFINE request == [parent |-> from, spawner |-> from, owner |-> owner, kind |-> kind,
                         prompt |-> p, surface |-> kind # "workflow"]
  <2>1. request \in Requests BY KindsAssumption DEF Requests
  <2>2. co' = Evict(HandleSpawn(f, i, request)) /\ co.mode = "running"
    BY <1>5, <1>6, Zenon DEF Spawn, Command
  <2> HIDE DEF request
  <2>3. Good(HandleSpawn(f, i, request)) BY <1>2, <2>1, HandleSpawnGood
  <2>4. Tidy(HandleSpawn(f, i, request)) BY <1>3, <1>4, <2>1, <2>2, HandleSpawnTidy
  <2> QED BY <2>2, <2>3, <2>4, Zenon DEF Good, Sound
<1>7. ASSUME NEW c \in Clients, NEW i \in Ids, NEW scope \in Scopes, Query(c, i, scope)
      PROVE  \E st \in States : Tidy(st) /\ co' = Evict(st)
  <2>1. Good(HandleQuery(f, c, i, scope)) BY <1>2, HandleQueryGood
  <2>2. Tidy(HandleQuery(f, c, i, scope)) BY <1>3, <1>4, HandleQueryTidy
  <2>3. co' = Evict(HandleQuery(f, c, i, scope)) BY <1>5, <1>7, Zenon DEF Query, Command
  <2> QED BY <2>1, <2>2, <2>3, Zenon DEF Good, Sound
<1>8. ASSUME NEW i \in Ids, NEW scope \in Scopes, Cancel(i, scope)
      PROVE  \E st \in States : Tidy(st) /\ co' = Evict(st)
  <2>1. Good(CancelOne(f, i, scope)) BY <1>2, CancelOneGood
  <2>2. Tidy(CancelOne(f, i, scope)) BY <1>3, <1>4, CancelOneTidy
  <2>3. co' = Evict(CancelOne(f, i, scope)) BY <1>5, <1>8, Zenon DEF Cancel, Command
  <2> QED BY <2>1, <2>2, <2>3, Zenon DEF Good, Sound
<1>9. ASSUME NEW p \in Prompts, NEW scope \in Scopes, CancelPrompt(p, scope)
      PROVE  \E st \in States : Tidy(st) /\ co' = Evict(st)
  <2> DEFINE S == {i \in Live(f) : f.req[i].prompt = p /\ Belongs(f, i, scope)}
  <2>1. co' = Evict(CancelAll(f, S))
    BY <1>5, <1>9, Zenon DEF CancelPrompt, Command, CancelParentPrompt
  <2> HIDE DEF S
  <2>2. Good(CancelAll(f, S)) BY <1>2, CancelAllGood
  <2>3. Tidy(CancelAll(f, S)) BY <1>3, <1>4, CancelAllTidy DEF Tidy
  <2> QED BY <2>1, <2>2, <2>3, Zenon DEF Good, Sound
<1>10. ASSUME NEW s \in Sessions, Stop(s)
       PROVE  \E st \in States : Tidy(st) /\ co' = Evict(st)
  <2>1. Good(CancelParentSession(f, s)) BY <1>2, CancelParentSessionGood
  <2>2. Tidy(CancelParentSession(f, s)) BY <1>3, <1>4, CancelParentSessionTidy
  <2>3. co' = Evict(CancelParentSession(f, s)) BY <1>5, <1>10, Zenon DEF Stop, Command
  <2> QED BY <2>1, <2>2, <2>3, Zenon DEF Good, Sound
<1>11. ASSUME NEW s \in Roots, Teardown(s)
       PROVE  \E st \in States : Tidy(st) /\ co' = Evict(st)
  <2>1. Good(TeardownSession(f, s)) BY <1>2, TeardownSessionGood
  <2>2. Tidy(TeardownSession(f, s)) BY <1>3, <1>4, TeardownSessionTidy
  <2>3. co' = Evict(TeardownSession(f, s)) BY <1>5, <1>11, Zenon DEF Teardown, Command
  <2> QED BY <2>1, <2>2, <2>3, Zenon DEF Good, Sound
<1>12. ASSUME NEW s \in Sessions, OpenSpawnAdmission(s)
       PROVE  \E st \in States : Tidy(st) /\ co' = Evict(st)
  <2> DEFINE bl == f.blocked \ {s}
  <2>1. bl \in SUBSET Sessions /\ bl \in SUBSET f.blocked BY <1>3 DEF States
  <2>2. co' = Evict([f EXCEPT !.blocked = bl])
    BY <1>5, <1>12, Zenon DEF OpenSpawnAdmission, Command
  <2> HIDE DEF bl
  <2>3. Good([f EXCEPT !.blocked = bl]) BY <1>2, <2>1, FieldGood
  <2>4. Tidy([f EXCEPT !.blocked = bl]) BY <1>3, <1>4, <2>1, FieldTidy
  <2> QED BY <2>2, <2>3, <2>4, Zenon DEF Good, Sound
<1>13. ASSUME NEW w \in Runs, NEW c \in Clients, NEW scope \in Scopes, CancelRun(w, c, scope)
       PROVE  \E st \in States : Tidy(st) /\ co' = Evict(st)
  <2>1. Good(CancelWorkflowRun(f, w, c, scope)) BY <1>2, CancelWorkflowRunGood
  <2>2. Tidy(CancelWorkflowRun(f, w, c, scope)) BY <1>3, <1>4, CancelWorkflowRunTidy
  <2>3. co' = Evict(CancelWorkflowRun(f, w, c, scope)) BY <1>5, <1>13, Zenon DEF CancelRun, Command
  <2> QED BY <2>1, <2>2, <2>3, Zenon DEF Good, Sound
<1>14. ASSUME NEW scope \in Scopes, Completions(scope)
       PROVE  \E st \in States : Tidy(st) /\ co' = Evict(st)
  <2> DEFINE bu == {b \in f.buffer : scope # "any" /\ b.parent # scope}
  <2>1. bu \in SUBSET f.buffer OBVIOUS
  <2>2. co' = Evict([f EXCEPT !.buffer = bu])
    BY <1>5, <1>14, Zenon DEF Completions, Command, DrainCompletions
  <2> HIDE DEF bu
  <2>3. Good([f EXCEPT !.buffer = bu]) BY <1>2, <2>1, FieldGood
  <2>4. Tidy([f EXCEPT !.buffer = bu]) BY <1>3, <1>4, <2>1, FieldTidy
  <2> QED BY <2>2, <2>3, <2>4, Zenon DEF Good, Sound
<1>15. ASSUME Read PROVE \E st \in States : Tidy(st) /\ co' = Evict(st)
  BY <1>3, <1>4, <1>5, <1>15, Zenon DEF Read, Command
<1> QED BY <1>6, <1>7, <1>8, <1>9, <1>10, <1>11, <1>12, <1>13, <1>14, <1>15, Zenon DEF CommandStep

\* Once no run is left, no spawn is parked: a parked spawn means that its session
\* is full.
LEMMA NoRunsNoQueue ==
  ASSUME NEW st, Good(st), st.pending \cup st.active = {} PROVE Live(st) = {}
<1> SUFFICES ASSUME NEW i \in st.queued PROVE FALSE BY DEF Live
<1>1. Load(st, st.req[i].parent) = MaxConcurrent BY DEF Good, Full
<1>2. Running(st, st.req[i].parent) = {} BY DEF Running
<1>3. Load(st, st.req[i].parent) = 0 BY <1>2, FS_EmptySet DEF Load
<1> QED BY <1>1, <1>3, LimitAssumption

LEMMA OtherTidy ==
  ASSUME DInv, Next, ~CommandStep PROVE Tidy(co')
<1>0. co \in States /\ Tidy(co) BY DEF DInv, IInv, Good, Sound
<1>1. fresh \in States /\ Good(fresh) /\ Tidy(fresh) /\ fresh.mode = co.mode BY FreshTidy
<1>2. /\ fresh.pending = co.pending /\ fresh.active = co.active /\ fresh.queued = co.queued
      /\ fresh.reply = co.reply
  BY <1>0 DEF fresh, States
<1>3. ASSUME NEW i \in Ids, Started(i) PROVE Tidy(co')
  <2> DEFINE p == fresh.pending \ {i}  a == fresh.active \cup {i}  b == fresh.born \cup {i}
             r == [fresh EXCEPT !.pending = p, !.active = a, !.born = b]
  <2>1. co' = r /\ i \in fresh.pending BY <1>2, <1>3, Zenon DEF Started
  <2>2. p \cup a = fresh.pending \cup fresh.active BY <2>1
  <2> HIDE DEF p, a, b
  <2>3. Milder(fresh, r) BY <1>1, <2>2 DEF Milder, Mild, States
  <2> QED BY <1>1, <2>1, <2>3, MilderTidy
<1>4. ASSUME NEW i \in Ids, CancelToken(i) PROVE Tidy(co')
  <2> DEFINE ca == fresh.cancelled \cup {i}
  <2>1. co' = [fresh EXCEPT !.cancelled = ca] BY <1>4, Zenon DEF CancelToken
  <2>2. fresh.cancelled \subseteq ca OBVIOUS
  <2> HIDE DEF ca
  <2> QED BY <1>1, <2>1, <2>2, FieldTidy
<1>5. ASSUME NEW i \in Ids, DropCaller(i) PROVE Tidy(co')
  <2> DEFINE rp == [fresh.reply EXCEPT ![i] = "closed"]
             ca == IF co.req[i].kind = "workflow" THEN fresh.cancelled \cup {i} ELSE fresh.cancelled
             r == [fresh EXCEPT !.reply = rp, !.cancelled = ca]
  <2>1. co' = r /\ fresh.reply[i] = "open" BY <1>2, <1>5, Zenon DEF DropCaller
  <2>2. fresh.cancelled \subseteq ca OBVIOUS
  <2>3. \A j \in Ids : rp[j] = "none" <=> fresh.reply[j] = "none" BY <1>1, <2>1 DEF States
  <2>4. fresh.pending \cup fresh.active \subseteq Ids BY <1>1 DEF States
  <2> HIDE DEF rp, ca
  <2>5. Milder(fresh, r) BY <1>1, <2>2, <2>3, <2>4 DEF Milder, Mild, States
  <2> QED BY <1>1, <2>1, <2>5, MilderTidy
<1>6. ASSUME NEW i \in Ids, NEW rc \in BOOLEAN, Finish(i, rc) PROVE Tidy(co')
  <2>1. i \in fresh.pending \cup fresh.active BY <1>2, <1>6 DEF Finish
  <2>2. Good(FinishChild(fresh, i, rc)) BY <1>1, <2>1, FinishGood
  <2>3. Tidy(FinishChild(fresh, i, rc)) BY <1>1, FinishTidy DEF Tidy
  <2>4. co' = Evict(FinishChild(fresh, i, rc)) BY <1>6, Zenon DEF Finish
  <2> QED BY <2>2, <2>3, <2>4, EvictTidy, Zenon DEF Good, Sound
<1>7. ASSUME NEW due, NEW late, Deadlines(due, late) PROVE Tidy(co')
  <2> DEFINE f == Reap(fresh)
             r == ProcessDeadlines(f, due, late)
  <2>1. Good(f) /\ Tidy(f) BY <1>1, ReapGood, ReapTidy
  <2>2. co' = Evict(r) BY <1>7, Zenon DEF Deadlines, Reaped
  <2> HIDE DEF f
  <2>3. f \in States /\ Placed(f) BY <2>1 DEF Good, Sound
  <2>4. Good(r) BY <2>1, ProcessDeadlinesGood
  <2>5. Tidy(r) BY <2>1, <2>3, ProcessDeadlinesTidy
  <2> HIDE DEF r
  <2> QED BY <2>2, <2>4, <2>5, EvictTidy, Zenon DEF Good, Sound
<1>8. ASSUME NEW c \in Clients, DropClient(c) PROVE Tidy(co')
  <2> DEFINE go == fresh.gone \cup {c}
  <2>1. co' = [fresh EXCEPT !.gone = go] BY <1>8, Zenon DEF DropClient
  <2> HIDE DEF go
  <2> QED BY <1>1, <2>1, FieldTidy
<1>9. ASSUME CloseCommands \/ Exit PROVE Tidy(co')
  <2>1. PICK m \in {"closed", "exited"} :
          /\ co' = [fresh EXCEPT !.mode = m]
          /\ m = "exited" => fresh.pending \cup fresh.active = {}
    <3>1. CASE CloseCommands
      <4>1. "closed" \in {"closed", "exited"} /\ ~("closed" = "exited") OBVIOUS
      <4> QED BY <3>1, <4>1, Zenon DEF CloseCommands
    <3>2. CASE Exit BY <1>2, <3>2, Zenon DEF Exit
    <3> QED BY <1>9, <3>1, <3>2
  <2> DEFINE r == [fresh EXCEPT !.mode = m]
  <2>2. m = "exited" => Live(fresh) = {} BY <1>1, <2>1, NoRunsNoQueue
  <2>3. Milder(fresh, r) BY <1>1, <2>2 DEF Milder, Mild, States
  <2> QED BY <1>1, <2>1, <2>3, MilderTidy
<1>10. ASSUME Drop PROVE Tidy(co')
  <2> DEFINE ca == co.cancelled \cup Live(co)
             r == [InitState EXCEPT !.mode = "dropped", !.cancelled = ca]
  <2>1. co' = r BY <1>10, Zenon DEF Drop
  <2>2. InitState \in States /\ Tidy(InitState) BY InitStateGood, InitTidy DEF Good, Sound
  <2>3. InitState.cancelled = {} BY DEF InitState
  <2> HIDE DEF ca
  <2>4. Milder(InitState, r) BY <2>2, <2>3 DEF Milder, Mild, States
  <2> QED BY <2>1, <2>2, <2>4, MilderTidy
<1>11. ASSUME Ended PROVE Tidy(co') BY <1>0, <1>11 DEF Ended, vars
<1> QED BY <1>3, <1>4, <1>5, <1>6, <1>7, <1>8, <1>9, <1>10, <1>11, Zenon DEF Next

(***************************************************************************)
(* The theorems.                                                           *)
(***************************************************************************)
\* In every state the coordinator reaches, nothing is kept for an id that is not
\* live, a stopped session has no child that was left running or parked, and
\* what ended was delivered.
THEOREM DeliveryInvariant == Spec => []DInv
<1>1. Init => DInv BY InitStateGood, InitTidy DEF Init, DInv, IInv
<1>2. DInv /\ [Next]_vars => DInv'
  <2> SUFFICES ASSUME DInv, [Next]_vars PROVE DInv' OBVIOUS
  <2>1. CASE CommandStep BY <2>1, CommandGood, CommandTidy DEF DInv
  <2>2. CASE Next /\ ~CommandStep BY <2>2, OtherGood, OtherTidy DEF DInv
  <2>3. CASE UNCHANGED vars BY <2>3 DEF vars, DInv, IInv
  <2> QED BY <2>1, <2>2, <2>3
<1> QED BY <1>1, <1>2, PTL DEF Spec

\* No client waits in a query on a child that is gone, and none in a cancel of a
\* workflow run that has no children: every handler that ends a child or drains
\* a run answers the waiters in the same turn.
THEOREM WaitersCanBeAnswered == Spec => []NoStrandedWaiter
<1>1. DInv => NoStrandedWaiter
  <2> SUFFICES ASSUME DInv PROVE NoStrandedWaiter OBVIOUS
  <2>1. \A i \in Ids : Owned(co, i) BY DEF DInv, Tidy, Settled
  <2>2. RunsAwaited(co) BY DEF DInv, Tidy, Settled
  <2> QED BY <2>1, <2>2 DEF Owned, RunsAwaited, NoStrandedWaiter
<1> QED BY <1>1, DeliveryInvariant, PTL

\* After a Stop, until the session is reopened or torn down, each of its task
\* children is cancelled and none is parked, whatever is spawned meanwhile.
THEOREM StopIsKept == Spec => []StopHolds
<1>1. DInv => StopHolds
  <2> SUFFICES ASSUME DInv PROVE StopHolds OBVIOUS
  <2>1. \A i \in Ids : Stopped(co, i) BY DEF DInv, Tidy
  <2>2. Live(co) \subseteq Ids BY DEF DInv, IInv, Good, Sound, States, Live
  <2> QED BY <2>1, <2>2 DEF Stopped, StopHolds
<1> QED BY <1>1, DeliveryInvariant, PTL

\* A task child that still blocks its parent's turn has a caller to block: the
\* reap, the deadline and the start of a parked spawn all clear the flag.
THEOREM BlockersHaveCallers == Spec => []TurnBlockerHasCaller
<1>1. DInv => TurnBlockerHasCaller
  <2> SUFFICES ASSUME DInv PROVE TurnBlockerHasCaller OBVIOUS
  <2>1. \A i \in Ids : Owned(co, i) BY DEF DInv, Tidy, Settled
  <2>2. co.pending \cup co.active \subseteq Ids BY DEF DInv, IInv, Good, Sound, States
  <2> QED BY <2>1, <2>2 DEF Owned, TurnBlockerHasCaller
<1> QED BY <1>1, DeliveryInvariant, PTL

\* The result of a child that was not killed or cancelled is heard by its caller
\* or by a waiter, or is surfaced to the parent, and surfaced only then.
THEOREM ResultsAreDelivered == Spec => []ResultDelivered
<1>1. DInv => ResultDelivered BY DEF DInv, Tidy, Settled, Delivered, Heeded, ResultDelivered
<1> QED BY <1>1, DeliveryInvariant, PTL

\* No child that its session's teardown caught is buffered for a session that
\* comes back under the same id.
THEOREM TeardownIsFinal == Spec => []TornDownNotBuffered
<1>1. DInv => TornDownNotBuffered BY DEF DInv, Tidy, Settled, CleanBuffer, TornDownNotBuffered
<1> QED BY <1>1, DeliveryInvariant, PTL

\* When the loop returns, no spawn is parked and nobody waits for the actor.
THEOREM ExitIsDrained == Spec => []DrainedAtExit
<1>1. DInv => DrainedAtExit
  <2> SUFFICES ASSUME DInv, co.mode = "exited"
               PROVE  /\ co.queued = {}
                      /\ \A i \in Ids : co.waiters[i] = {} /\ co.reply[i] = "none"
                      /\ \A r \in Runs : co.cancelWaiters[r] = {}
    BY DEF DrainedAtExit
  <2>1. /\ \A i \in Ids : Owned(co, i)
        /\ RunsAwaited(co) /\ ExitedEmpty(co)
    BY DEF DInv, Tidy, Settled
  <2>2. Live(co) = {} BY <2>1 DEF ExitedEmpty
  <2>3. \A r \in Runs : WorkflowOutstanding(co, r) = {} BY <2>2 DEF Live, WorkflowOutstanding
  <2> QED BY <2>1, <2>2, <2>3 DEF Owned, RunsAwaited, Live
<1> QED BY <1>1, DeliveryInvariant, PTL
=============================================================================
