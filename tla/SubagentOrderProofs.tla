------------------------ MODULE SubagentOrderProofs ------------------------
(***************************************************************************)
(* No spawn starts ahead of an earlier one that waits for the same session,*)
(* for every number of ids, sessions and clients and every limit.          *)
(*                                                                         *)
(* A step of the actor is a chain of handlers.  Every link but the arrival *)
(* of a spawn only shortens the queue, and what it starts was ahead of all *)
(* it leaves parked for the same session (Calm, which is transitive).  The *)
(* arriving spawn starts only in a session with a free slot, for which no  *)
(* spawn is parked (Full of the admission invariant).                      *)
(*                                                                         *)
(* And the sweep of the queue, of which all this speaks in closed form, is *)
(* the loop of the source.                                                 *)
(***************************************************************************)
EXTENDS SubagentCoordinatorProofs

Calm(st, r) ==
  /\ r.queued \subseteq st.queued /\ \A j \in r.queued : r.at[j] = st.at[j]
  /\ Live(r) \subseteq Live(st)
  /\ \A i \in Live(r) : r.req[i].parent = st.req[i].parent /\ r.req[i].owner = st.req[i].owner
  /\ \A i \in r.pending \ st.pending, j \in r.queued :
       r.req[i].parent = st.req[j].parent => i \in st.queued /\ st.at[i] < st.at[j]

\* What NoOvertaking says of a step from st to r.
Ordered(st, r) ==
  \A i \in r.pending \ st.pending, j \in st.queued \cap r.queued :
    r.req[i].parent = st.req[j].parent /\ r.req[i].owner = Task
      => i \in st.queued /\ st.at[i] < st.at[j]

\* Nothing is started, and nothing leaves or joins the queue.
Still(st, r) ==
  /\ r.queued = st.queued /\ r.pending \subseteq st.pending
  /\ r.pending \cup r.active = st.pending \cup st.active
  /\ \A i \in st.queued : r.at[i] = st.at[i]
  /\ \A i \in Live(st) : r.req[i].parent = st.req[i].parent /\ r.req[i].owner = st.req[i].owner

LEMMA StillCalm == ASSUME NEW st, NEW r, Still(st, r) PROVE Calm(st, r)
<1>1. Live(r) = Live(st) BY DEF Still, Live
<1> QED BY <1>1 DEF Still, Calm

LEMMA CalmOrdered == ASSUME NEW st, NEW r, Calm(st, r) PROVE Ordered(st, r)
BY DEF Calm, Ordered

LEMMA CalmChain ==
  ASSUME NEW st, NEW m, NEW r, Calm(st, m), Calm(m, r) PROVE Calm(st, r)
<1>1. /\ r.queued \subseteq st.queued /\ Live(r) \subseteq Live(st)
      /\ \A j \in r.queued : r.at[j] = st.at[j]
      /\ \A i \in Live(r) : r.req[i].parent = st.req[i].parent /\ r.req[i].owner = st.req[i].owner
  BY DEF Calm
<1>2. ASSUME NEW i \in r.pending \ st.pending, NEW j \in r.queued,
             r.req[i].parent = st.req[j].parent
      PROVE  i \in st.queued /\ st.at[i] < st.at[j]
  <2>1. j \in m.queued /\ i \in Live(r) /\ j \in Live(m) BY DEF Calm, Live
  <2>2. CASE i \in m.pending
    <3>1. m.req[i].parent = r.req[i].parent BY <2>1 DEF Calm
    <3> QED BY <1>2, <2>1, <2>2, <3>1 DEF Calm
  <2>3. CASE i \notin m.pending
    <3>1. m.req[j].parent = st.req[j].parent BY <2>1 DEF Calm
    <3>2. i \in m.queued /\ m.at[i] < m.at[j] BY <1>2, <2>3, <3>1 DEF Calm
    <3>3. m.at[i] = st.at[i] /\ m.at[j] = st.at[j] /\ i \in st.queued BY <2>1, <3>2 DEF Calm
    <3> QED BY <3>2, <3>3
  <2> QED BY <2>2, <2>3
<1> QED BY <1>1, <1>2 DEF Calm

(***************************************************************************)
(* The end of children and the sweep that follows.                         *)
(***************************************************************************)
LEMMA CompleteCalm ==
  ASSUME NEW st \in States, Placed(st), Stamped(st), NEW S \in SUBSET Ids, NEW rc \in BOOLEAN
  PROVE  LET c == Complete(st, S, rc)
         IN c \in States /\ Placed(c) /\ Stamped(c) /\ Calm(st, c)
            /\ \A i \in Ids : Known(st, i) => Known(c, i)
<1> DEFINE c == Complete(st, S, rc)
<1>1. c \in States BY CompleteType
<1>2. /\ c.queued = st.queued \ S /\ c.pending = st.pending \ S
      /\ c.active = st.active \ S /\ c.completed = st.completed \cup S
      /\ c.req = st.req /\ c.clock = st.clock /\ c.at = Set(st.at, S, 0)
  BY DEF Complete, States
<1> HIDE DEF c
<1>3. \A j \in c.queued : c.at[j] = st.at[j] BY <1>1, <1>2 DEF Set, States
<1>4. Placed(c) BY <1>2 DEF Placed
<1>5. Stamped(c) BY <1>2, <1>3 DEF Stamped
<1>6. Calm(st, c) BY <1>2, <1>3 DEF Calm, Live
<1>7. \A i \in Ids : Known(st, i) => Known(c, i) BY <1>2 DEF Known, Live
<1> QED BY <1>1, <1>4, <1>5, <1>6, <1>7 DEF c

\* The sweep starts the entries with the least stamps of each session.
LEMMA SweepCalm ==
  ASSUME NEW st \in States, Placed(st), Stamped(st)
  PROVE  LET r == StartQueuedWithinCapacity(st)
         IN Calm(st, r) /\ \A i \in Ids : Known(st, i) => Known(r, i)
<1> DEFINE r == StartQueuedWithinCapacity(st)
           W == WithinCapacity(st)
           d == st.queued \cap st.cancelled
           waiting == st.queued \ st.cancelled
           ahead(i) == {j \in waiting : st.at[j] < st.at[i]
                                        /\ st.req[j].parent = st.req[i].parent}
<1>1. /\ W \subseteq waiting
      /\ r.queued = (st.queued \ W) \ d /\ r.pending = st.pending \cup W
      /\ r.active = st.active /\ r.completed = st.completed \cup d
      /\ r.req = st.req
      /\ \A i \in r.queued : r.at[i] = st.at[i]
  BY SweepFields
<1> HIDE DEF r
<1>2. waiting \in SUBSET Ids /\ \A i \in waiting : st.at[i] \in Nat BY DEF States
<1>3. \A i \in waiting : i \in W <=> Load(st, st.req[i].parent) + Cardinality(ahead(i)) < MaxConcurrent
  BY DEF WithinCapacity, HasCapacity, Load
<1> HIDE DEF W
<1>4. ASSUME NEW i \in W, NEW j \in waiting \ W, st.req[i].parent = st.req[j].parent
      PROVE  st.at[i] < st.at[j]
  <2> SUFFICES ASSUME ~(st.at[i] < st.at[j]) PROVE FALSE OBVIOUS
  <2>1. i \in waiting /\ st.at[i] \in Nat /\ st.at[j] \in Nat BY <1>1, <1>2
  <2>2. st.at[i] # st.at[j] BY <1>1, <1>4 DEF Stamped
  <2>3. st.at[j] < st.at[i] BY <2>1, <2>2
  <2>4. ahead(j) \subseteq ahead(i) BY <1>2, <1>4, <2>1, <2>3
  <2>5. ahead(i) \in SUBSET Ids /\ ahead(j) \in SUBSET Ids BY <1>2
  <2> HIDE DEF ahead
  <2>6. IsFiniteSet(ahead(i)) /\ Cardinality(ahead(i)) \in Nat /\ Cardinality(ahead(j)) \in Nat
    BY <2>5, FiniteIds
  <2>7. Cardinality(ahead(j)) <= Cardinality(ahead(i)) BY <2>4, <2>6, FS_Subset
  <2>8. Load(st, st.req[i].parent) + Cardinality(ahead(i)) < MaxConcurrent BY <1>3, <2>1
  <2>9. ~(Load(st, st.req[i].parent) + Cardinality(ahead(j)) < MaxConcurrent) BY <1>3, <1>4
  <2>10. Load(st, st.req[i].parent) \in Nat BY LoadNat
  <2> QED BY <2>6, <2>7, <2>8, <2>9, <2>10, LimitAssumption
<1> HIDE DEF ahead
<1>5. Live(r) \subseteq Live(st) BY <1>1 DEF Live
<1>6. Calm(st, r) BY <1>1, <1>4, <1>5 DEF Calm
<1>7. \A i \in Ids : Known(st, i) => Known(r, i) BY <1>1 DEF Known, Live
<1> QED BY <1>6, <1>7 DEF r

LEMMA EndCalm ==
  ASSUME NEW st \in States, Placed(st), Stamped(st), NEW S \in SUBSET Ids, NEW rc \in BOOLEAN
  PROVE  LET r == StartQueuedWithinCapacity(Complete(st, S, rc))
         IN Calm(st, r) /\ \A i \in Ids : Known(st, i) => Known(r, i)
<1> DEFINE c == Complete(st, S, rc)
           r == StartQueuedWithinCapacity(c)
<1>1. c \in States /\ Placed(c) /\ Stamped(c) /\ Calm(st, c)
      /\ \A i \in Ids : Known(st, i) => Known(c, i)
  BY CompleteCalm, Zenon
<1> HIDE DEF c
<1>2. Calm(c, r) /\ \A i \in Ids : Known(c, i) => Known(r, i) BY <1>1, SweepCalm, Zenon
<1> HIDE DEF r
<1>3. Calm(st, r) /\ \A i \in Ids : Known(st, i) => Known(r, i) BY <1>1, <1>2, CalmChain
<1> QED BY <1>3, Zenon DEF r, c

LEMMA RemoveQueuedCalm ==
  ASSUME NEW st, Good(st), NEW S \in SUBSET Ids
  PROVE  LET r == RemoveQueued(st, S)
         IN Calm(st, r) /\ \A i \in Ids : Known(st, i) => Known(r, i)
<1>0. st \in States /\ Placed(st) /\ Stamped(st) BY DEF Good, Sound
<1>1. CASE S = {}
  <2>1. RemoveQueued(st, S) = st BY <1>1 DEF RemoveQueued
  <2>2. Calm(st, st) BY StillCalm DEF Still
  <2> QED BY <2>1, <2>2
<1>2. CASE S # {}
  <2>1. RemoveQueued(st, S) = StartQueuedWithinCapacity(Complete(st, S, TRUE))
    BY <1>2, RemoveQueuedIs
  <2> QED BY <1>0, <2>1, EndCalm
<1> QED BY <1>1, <1>2

(***************************************************************************)
(* The handlers.                                                           *)
(***************************************************************************)
LEMMA EvictCalm == ASSUME NEW st \in States PROVE Still(st, Evict(st))
<1> DEFINE kept == {i \in st.completed : st.age[i] < CompletedCap}
           age == [i \in Ids |-> IF i \in kept THEN st.age[i] ELSE 0]
           req == [i \in Ids |-> IF i \in Live(st) THEN st.req[i] ELSE Blank]
           clock == IF st.queued = {} THEN 0 ELSE st.clock
           r == [st EXCEPT !.completed = kept, !.age = age, !.req = req, !.clock = clock]
<1>1. Evict(st) = r BY Zenon DEF Evict
<1>2. Live(st) \in SUBSET Ids BY DEF States, Live
<1>3. \A i \in Live(st) : req[i] = st.req[i] BY <1>2
<1> HIDE DEF kept, age, req, clock
<1>4. Still(st, r) BY <1>3 DEF Still, States
<1> QED BY <1>1, <1>4, Zenon

\* The updates of fields that order does not look at.
LEMMA FieldStill ==
  ASSUME NEW st \in States
  PROVE  /\ \A v : Still(st, [st EXCEPT !.cancelled = v])
         /\ \A v : Still(st, [st EXCEPT !.killed = v])
         /\ \A v : Still(st, [st EXCEPT !.blocked = v])
         /\ \A v : Still(st, [st EXCEPT !.gone = v])
         /\ \A v : Still(st, [st EXCEPT !.buffer = v])
         /\ \A v : Still(st, [st EXCEPT !.waiters = v])
         /\ \A v : Still(st, [st EXCEPT !.cancelWaiters = v])
         /\ \A v : Still(st, [st EXCEPT !.mode = v])
BY DEF Still, States

LEMMA ReapCalm ==
  ASSUME NEW st, Good(st)
  PROVE  Calm(st, Reap(st)) /\ \A i \in Ids : Known(st, i) => Known(Reap(st), i)
<1> DEFINE abandoned == {i \in st.pending \cup st.active :
                           i \notin st.handleOnly /\ st.reply[i] = "closed"}
           tasks == {i \in abandoned : ~IsWorkflow(st, i)}
           parked == {i \in st.queued : st.reply[i] = "closed"}
           reply == Set(st.reply, abandoned \cup parked, "none")
           ho == st.handleOnly \cup tasks
           dl == st.deadline \ (tasks \cup parked)
           ca == st.cancelled \cup (abandoned \ tasks)
           r == [st EXCEPT !.reply = reply, !.handleOnly = ho, !.deadline = dl, !.cancelled = ca]
           x == RemoveQueued(r, r.queued \cap r.cancelled)
<1>0. st \in States BY DEF Good, Sound
<1>1. abandoned \in SUBSET Ids /\ parked \in SUBSET Ids /\ tasks \in SUBSET Ids
  BY <1>0 DEF States
<1>2. reply \in [Ids -> Replies] BY <1>0, <1>1, SetType DEF States, Replies
<1>3. ho \in SUBSET Ids /\ dl \in SUBSET Ids /\ ca \in SUBSET Ids BY <1>0, <1>1 DEF States
<1>4. {RemoveQueued(s, s.queued \cap s.cancelled) : s \in {r}} = {x} OBVIOUS
<1>5. Reap(st) = x BY <1>4, TheElement, Zenon DEF Reap
<1> HIDE DEF reply, ho, dl, ca
<1>6. r \in States BY <1>0, <1>2, <1>3, ZenonT(60) DEF States
<1>7. Alike(st, r) /\ Still(st, r) /\ r.completed = st.completed
  BY <1>0 DEF Alike, Still, States
<1> HIDE DEF r
<1>8. Good(r) BY <1>6, <1>7, AlikeGood
<1>9. r.queued \cap r.cancelled \in SUBSET Ids BY <1>6 DEF States
<1>10. Calm(r, x) /\ \A i \in Ids : Known(r, i) => Known(x, i)
  BY <1>8, <1>9, RemoveQueuedCalm, Zenon
<1> HIDE DEF x
<1>11. Calm(st, x) BY <1>7, <1>10, StillCalm, CalmChain
<1>12. \A i \in Ids : Known(st, i) => Known(x, i) BY <1>7, <1>10 DEF Still, Known, Live
<1> QED BY <1>5, <1>11, <1>12, Zenon

LEMMA ProcessDeadlinesCalm ==
  ASSUME NEW st \in States, NEW due, NEW late PROVE Still(st, ProcessDeadlines(st, due, late))
<1> DEFINE D == due \cap st.deadline
           reply == Set(st.reply, D, "none")
           ho == st.handleOnly \cup (D \ st.queued)
           dl == st.deadline \ D
           wa == [i \in Ids |-> st.waiters[i] \ late]
           go == st.gone \ late
           r == [st EXCEPT !.reply = reply, !.handleOnly = ho, !.deadline = dl,
                           !.waiters = wa, !.gone = go]
<1>1. ProcessDeadlines(st, due, late) = r BY Zenon DEF ProcessDeadlines
<1> HIDE DEF reply, ho, dl, wa, go
<1>2. Still(st, r) BY DEF Still, States
<1> QED BY <1>1, <1>2, Zenon

LEMMA CancelAllCalm ==
  ASSUME NEW st, Good(st), NEW S PROVE Calm(st, CancelAll(st, S))
<1> DEFINE ca == st.cancelled \cup (S \cap (st.pending \cup st.active))
           r == [st EXCEPT !.cancelled = ca]
           x == RemoveQueued(r, S \cap st.queued)
<1>0. st \in States BY DEF Good, Sound
<1>1. ca \in SUBSET Ids /\ S \cap st.queued \in SUBSET Ids BY <1>0 DEF States
<1>2. CancelAll(st, S) = x BY Zenon DEF CancelAll
<1> HIDE DEF ca
<1>3. Good(r) /\ Still(st, r) BY <1>0, <1>1, FieldGood, FieldStill
<1> HIDE DEF r
<1>4. Calm(r, x) BY <1>1, <1>3, RemoveQueuedCalm, Zenon
<1> HIDE DEF x
<1>5. Calm(st, x) BY <1>3, <1>4, StillCalm, CalmChain
<1> QED BY <1>2, <1>5, Zenon

\* A field is set, then children are cancelled.
LEMMA SetAndCancelCalm ==
  ASSUME NEW st, NEW r, Still(st, r), Good(r), NEW S PROVE Calm(st, CancelAll(r, S))
BY CancelAllCalm, StillCalm, CalmChain

LEMMA CancelOneCalm ==
  ASSUME NEW st, Good(st), NEW i, NEW scope PROVE Calm(st, CancelOne(st, i, scope))
<1> DEFINE ki == st.killed \cup ({i} \cap (st.pending \cup st.active))
           r == [st EXCEPT !.killed = ki]
<1>0. st \in States BY DEF Good, Sound
<1>1. ki \in SUBSET Ids BY <1>0 DEF States
<1>2. CancelOne(st, i, scope) \in {CancelAll(r, {i}), st} BY Zenon DEF CancelOne
<1> HIDE DEF ki
<1>3. Good(r) /\ Still(st, r) BY <1>0, <1>1, FieldGood, FieldStill
<1> HIDE DEF r
<1>4. Calm(st, CancelAll(r, {i})) BY <1>3, SetAndCancelCalm
<1>5. Calm(st, st) BY StillCalm DEF Still
<1> QED BY <1>2, <1>4, <1>5

LEMMA CancelParentSessionCalm ==
  ASSUME NEW st, Good(st), NEW s \in Sessions PROVE Calm(st, CancelParentSession(st, s))
<1> DEFINE bl == st.blocked \cup {s}
           r == [st EXCEPT !.blocked = bl]
           S == {i \in Live(st) : st.req[i].parent = s /\ ~IsWorkflow(st, i)}
<1>0. st \in States BY DEF Good, Sound
<1>1. bl \in SUBSET Sessions BY <1>0 DEF States
<1>2. CancelParentSession(st, s) = CancelAll(r, S) BY Zenon DEF CancelParentSession
<1> HIDE DEF bl, S
<1>3. Good(r) /\ Still(st, r) BY <1>0, <1>1, FieldGood, FieldStill
<1> HIDE DEF r
<1> QED BY <1>2, <1>3, SetAndCancelCalm

LEMMA CancelWorkflowRunCalm ==
  ASSUME NEW st \in States, NEW w, NEW c, NEW scope
  PROVE  Still(st, CancelWorkflowRun(st, w, c, scope))
<1> DEFINE ca == st.cancelled \cup {i \in WorkflowOutstanding(st, w) : Belongs(st, i, scope)}
           a == [st EXCEPT !.cancelled = ca]
           cw == [a.cancelWaiters EXCEPT ![w] = @ \cup {c}]
           r == [a EXCEPT !.cancelWaiters = cw]
<1>1. CancelWorkflowRun(st, w, c, scope) \in {a, r} BY Zenon DEF CancelWorkflowRun
<1> HIDE DEF ca
<1>2. Still(st, a) BY FieldStill
<1> HIDE DEF cw
<1>3. Still(st, r) BY DEF Still, States
<1> QED BY <1>1, <1>2, <1>3

LEMMA TeardownSessionCalm ==
  ASSUME NEW st, Good(st), NEW s PROVE Calm(st, TeardownSession(st, s))
<1> DEFINE children == {i \in Live(st) : st.req[i].parent = s}
           bu == {b \in st.buffer : b.parent # s}
           bl == st.blocked \ {s}
           req == [i \in Ids |-> IF i \in children
                     THEN [st.req[i] EXCEPT !.surface = FALSE] ELSE st.req[i]]
           td == st.tornDown \cup children
           r == [st EXCEPT !.buffer = bu, !.blocked = bl, !.req = req, !.tornDown = td]
<1>0. st \in States BY DEF Good, Sound
<1>1. bu \in SUBSET [id : Ids, parent : Sessions, age : Nat, tornDown : BOOLEAN]
  BY <1>0 DEF States
<1>2. bl \in SUBSET Sessions /\ td \in SUBSET Ids BY <1>0 DEF States, Live
<1>3. req \in [Ids -> Requests]
  <2>1. \A q \in Requests : [q EXCEPT !.surface = FALSE] \in Requests BY DEF Requests
  <2>2. \A i \in Ids : st.req[i] \in Requests BY <1>0 DEF States
  <2> QED BY <2>1, <2>2, Zenon
<1>4. \A i \in Ids : req[i].parent = st.req[i].parent /\ req[i].owner = st.req[i].owner
  BY <1>0 DEF States, Requests
<1>5. Live(st) \in SUBSET Ids BY <1>0 DEF States, Live
<1>6. TeardownSession(st, s) = CancelAll(r, children) BY Zenon DEF TeardownSession
<1> HIDE DEF bu, bl, req, td, children
<1>7. r \in States BY <1>0, <1>1, <1>2, <1>3, ZenonT(60) DEF States
<1>8. Alike(st, r) /\ Still(st, r) BY <1>0, <1>4, <1>5 DEF Alike, Still, States
<1>9. Good(r) BY <1>7, <1>8, AlikeGood
<1> HIDE DEF r
<1> QED BY <1>6, <1>8, <1>9, SetAndCancelCalm

LEMMA HandleQueryCalm ==
  ASSUME NEW st \in States, NEW c, NEW i, NEW scope PROVE Still(st, HandleQuery(st, c, i, scope))
<1> DEFINE wa == [st.waiters EXCEPT ![i] = @ \cup {c}]
<1>1. HandleQuery(st, c, i, scope) \in {[st EXCEPT !.waiters = wa], st} BY Zenon DEF HandleQuery
<1> HIDE DEF wa
<1>2. Still(st, [st EXCEPT !.waiters = wa]) BY FieldStill
<1>3. Still(st, st) BY DEF Still
<1> QED BY <1>1, <1>2, <1>3

(***************************************************************************)
(* handle_spawn, from the state m that the reap left of st.                *)
(***************************************************************************)
LEMMA SpawnOrdered ==
  ASSUME NEW st, NEW m, Good(m), Calm(st, m), \A i \in st.queued : Known(m, i),
         NEW i0 \in Ids, NEW request \in Requests
  PROVE  Ordered(st, HandleSpawn(m, i0, request)) /\ Good(HandleSpawn(m, i0, request))
<1> DEFINE q == Reparent(m, request)
           new == Admit(m, i0, q)
           started == [new EXCEPT !.pending = @ \cup {i0}]
           parked == [new EXCEPT !.queued = @ \cup {i0}, !.at[i0] = m.clock + 1, !.clock = @ + 1]
           refused == [new EXCEPT !.pending = @ \cup {i0}, !.deadline = @ \ {i0}]
           r == HandleSpawn(m, i0, request)
<1>0. /\ m \in States /\ Placed(m) /\ Stamped(m) /\ Full(m) BY DEF Good, Sound
<1>1. q \in Requests BY <1>0, ReparentType
<1>2. r = IF Refused(m, i0, request) THEN m
          ELSE IF q.owner # Task \/ Load(m, q.parent) < MaxConcurrent THEN started
          ELSE IF QueueAtLimit THEN parked ELSE FinishChild(refused, i0, FALSE)
  BY Zenon DEF HandleSpawn, HasCapacity, Load
<1>3. ~Refused(m, i0, request) => i0 \notin Live(m) /\ i0 \notin m.completed /\ i0 \notin st.queued
  BY DEF Refused, Known
<1>4. Good(r) BY HandleSpawnGood
<1> HIDE DEF q, r
<1>5. /\ new \in States
      /\ new.queued = m.queued /\ new.pending = m.pending /\ new.active = m.active
      /\ new.completed = m.completed /\ new.at = m.at /\ new.clock = m.clock
      /\ new.req = [m.req EXCEPT ![i0] = q]
  BY <1>0, <1>1, AdmitType
<1> HIDE DEF new
<1>6. i0 \notin Live(m) => \A i \in Live(m) : new.req[i] = m.req[i]
  BY <1>0, <1>5 DEF States, Live
<1>7. new.req[i0] = q BY <1>0, <1>5 DEF States
<1>8. CASE Refused(m, i0, request)
  <2>1. r = m BY <1>2, <1>8
  <2> QED BY <1>4, <2>1, CalmOrdered DEF r
<1>9. CASE ~Refused(m, i0, request) /\ (q.owner # Task \/ Load(m, q.parent) < MaxConcurrent)
  <2>1. r = started BY <1>2, <1>9
  <2>2. r.queued = m.queued /\ r.pending = m.pending \cup {i0} /\ r.req = new.req
    BY <1>5, <2>1 DEF States
  <2>3. ASSUME NEW i \in r.pending \ st.pending, NEW j \in st.queued \cap r.queued,
               r.req[i].parent = st.req[j].parent, r.req[i].owner = Task
        PROVE  i \in st.queued /\ st.at[i] < st.at[j]
    <3>1. j \in m.queued /\ j \in Live(m) BY <2>2 DEF Live
    <3>2. CASE i = i0
      <4>1. q.owner = Task /\ q.parent = st.req[j].parent BY <1>7, <2>2, <2>3, <3>2
      <4>2. m.req[j].parent = st.req[j].parent BY <3>1 DEF Calm
      <4>3. Load(m, q.parent) = MaxConcurrent BY <1>0, <3>1, <4>1, <4>2 DEF Full
      <4> QED BY <1>9, <4>1, <4>3, LimitAssumption
    <3>3. CASE i # i0
      <4>1. i \in m.pending \ st.pending /\ i \in Live(m) BY <2>2, <3>3 DEF Live
      <4>2. r.req[i] = m.req[i] BY <1>3, <1>6, <1>9, <2>2, <4>1
      <4> QED BY <2>3, <3>1, <4>1, <4>2 DEF Calm
    <3> QED BY <3>2, <3>3
  <2>4. Ordered(st, r) BY <2>3 DEF Ordered
  <2> QED BY <1>4, <2>4 DEF r
<1>10. CASE /\ ~Refused(m, i0, request) /\ QueueAtLimit
            /\ ~(q.owner # Task \/ Load(m, q.parent) < MaxConcurrent)
  <2> DEFINE qu == new.queued \cup {i0}
             at == [new.at EXCEPT ![i0] = m.clock + 1]
             cl == new.clock + 1
  <2>1. r = [new EXCEPT !.queued = qu, !.at = at, !.clock = cl] BY <1>2, <1>10, Zenon
  <2> HIDE DEF at, cl
  <2>2. r.queued = m.queued \cup {i0} /\ r.pending = m.pending /\ r.req = new.req
    BY <1>5, <2>1 DEF States
  <2>3. ASSUME NEW i \in r.pending \ st.pending, NEW j \in st.queued \cap r.queued,
               r.req[i].parent = st.req[j].parent, r.req[i].owner = Task
        PROVE  i \in st.queued /\ st.at[i] < st.at[j]
    <3>1. j \in m.queued BY <1>3, <1>10, <2>2
    <3>2. i \in m.pending \ st.pending /\ i \in Live(m) BY <2>2 DEF Live
    <3>3. r.req[i] = m.req[i] BY <1>3, <1>6, <1>10, <2>2, <3>2
    <3> QED BY <2>3, <3>1, <3>2, <3>3 DEF Calm
  <2>4. Ordered(st, r) BY <2>3 DEF Ordered
  <2> QED BY <1>4, <2>4 DEF r
<1>11. CASE /\ ~Refused(m, i0, request) /\ ~QueueAtLimit
            /\ ~(q.owner # Task \/ Load(m, q.parent) < MaxConcurrent)
  <2> DEFINE p == new.pending \cup {i0}
             dl == new.deadline \ {i0}
             c == Complete(refused, {i0}, FALSE)
             x == StartQueuedWithinCapacity(c)
  <2>1. r = x BY <1>2, <1>11, FinishIs, Zenon
  <2>2. refused \in States
    <3>1. p \in SUBSET Ids /\ dl \in SUBSET Ids BY <1>5 DEF States
    <3>2. refused = [new EXCEPT !.pending = p, !.deadline = dl] BY Zenon
    <3> HIDE DEF p, dl
    <3>3. [new EXCEPT !.pending = p, !.deadline = dl] \in States BY <1>5, <3>1, Zenon DEF States
    <3> QED BY <3>2, <3>3, Zenon
  <2>3. /\ refused.queued = m.queued /\ refused.pending = m.pending \cup {i0}
        /\ refused.active = m.active /\ refused.completed = m.completed
        /\ refused.at = m.at /\ refused.clock = m.clock /\ refused.req = new.req
    BY <1>5 DEF States
  <2> HIDE DEF refused
  <2>4. i0 \notin Live(m) /\ i0 \notin m.completed BY <1>3, <1>11
  <2>5. Placed(refused) /\ Stamped(refused)
    BY <1>0, <2>3, <2>4 DEF Placed, Stamped, Live
  <2>6. {i0} \in SUBSET Ids /\ FALSE \in BOOLEAN OBVIOUS
  <2>7. c \in States /\ Placed(c) /\ Stamped(c) BY <2>2, <2>5, <2>6, CompleteCalm
  <2>8. /\ c.queued = refused.queued \ {i0} /\ c.pending = refused.pending \ {i0}
        /\ c.active = refused.active \ {i0} /\ c.req = refused.req
        /\ c.at = Set(refused.at, {i0}, 0)
    BY <2>2, <2>6 DEF Complete, States
  <2> HIDE DEF c
  <2>9. c.queued = m.queued /\ c.pending = m.pending /\ c.active = m.active /\ c.req = new.req
    BY <2>3, <2>4, <2>8 DEF Live
  <2>10. \A j \in m.queued : c.at[j] = m.at[j]
    BY <1>0, <2>3, <2>4, <2>8 DEF Set, States, Live
  <2>11. Still(m, c) BY <1>6, <2>4, <2>9, <2>10 DEF Still
  <2>12. Calm(c, x) BY <2>7, SweepCalm, Zenon
  <2> HIDE DEF x
  <2>13. Calm(st, r) BY <2>1, <2>11, <2>12, StillCalm, CalmChain
  <2> QED BY <1>4, <2>13, CalmOrdered DEF r
<1> QED BY <1>8, <1>9, <1>10, <1>11

(***************************************************************************)
(* The steps.                                                              *)
(***************************************************************************)
\* The eviction that ends a turn starts nothing.
LEMMA EvictOrdered ==
  ASSUME NEW st, NEW r \in States, Ordered(st, r) PROVE Ordered(st, Evict(r))
<1>1. Still(r, Evict(r)) BY EvictCalm
<1>2. \A i \in Evict(r).pending : i \in r.pending /\ i \in Live(r) BY <1>1 DEF Still, Live
<1> QED BY <1>1, <1>2 DEF Still, Ordered

LEMMA CommandOrdered ==
  ASSUME IInv, CommandStep PROVE Ordered(fresh, co')
<1> DEFINE f == Reap(fresh)
<1>1. Good(fresh) BY FieldGood, Zenon DEF IInv, fresh
<1>2. Good(f) BY <1>1, ReapGood
<1>3. Calm(fresh, f) /\ \A i \in Ids : Known(fresh, i) => Known(f, i) BY <1>1, ReapCalm
<1> HIDE DEF f
<1>4. f \in States /\ fresh \in States BY <1>1, <1>2 DEF Good, Sound
<1>5. Reaped = {f} BY Zenon DEF Reaped, f
<1>6. \A i \in fresh.queued : Known(f, i) BY <1>3, <1>4 DEF Known, Live, States
<1> SUFFICES \E r : Good(r) /\ Ordered(fresh, r) /\ co' = Evict(r)
  BY EvictOrdered DEF Good, Sound
<1>7. \A r : Calm(f, r) => Ordered(fresh, r) BY <1>3, CalmChain, CalmOrdered
<1>8. \A r : Still(f, r) => Ordered(fresh, r) BY <1>7, StillCalm
<1>9. ASSUME NEW i \in Ids, NEW from \in Sessions, NEW kind \in Kinds, NEW owner \in Owners,
             NEW p \in Prompts, Spawn(i, from, kind, owner, p)
      PROVE  \E r : Good(r) /\ Ordered(fresh, r) /\ co' = Evict(r)
  <2> DEFINE request == [parent |-> from, spawner |-> from, owner |-> owner, kind |-> kind,
                         prompt |-> p, surface |-> kind # "workflow"]
  <2>1. request \in Requests BY KindsAssumption DEF Requests
  <2>2. co' = Evict(HandleSpawn(f, i, request)) BY <1>5, <1>9, Zenon DEF Spawn, Command
  <2> HIDE DEF request
  <2>3. Ordered(fresh, HandleSpawn(f, i, request)) /\ Good(HandleSpawn(f, i, request))
    BY <1>2, <1>3, <1>6, <2>1, SpawnOrdered
  <2> QED BY <2>2, <2>3, Zenon
<1>10. ASSUME NEW c \in Clients, NEW i \in Ids, NEW scope \in Scopes, Query(c, i, scope)
       PROVE  \E r : Good(r) /\ Ordered(fresh, r) /\ co' = Evict(r)
  <2>1. Good(HandleQuery(f, c, i, scope)) BY <1>2, HandleQueryGood
  <2>2. Ordered(fresh, HandleQuery(f, c, i, scope)) BY <1>4, <1>8, HandleQueryCalm
  <2>3. co' = Evict(HandleQuery(f, c, i, scope)) BY <1>5, <1>10, Zenon DEF Query, Command
  <2> QED BY <2>1, <2>2, <2>3, Zenon
<1>11. ASSUME NEW i \in Ids, NEW scope \in Scopes, Cancel(i, scope)
       PROVE  \E r : Good(r) /\ Ordered(fresh, r) /\ co' = Evict(r)
  <2>1. Good(CancelOne(f, i, scope)) BY <1>2, CancelOneGood
  <2>2. Ordered(fresh, CancelOne(f, i, scope)) BY <1>2, <1>7, CancelOneCalm
  <2>3. co' = Evict(CancelOne(f, i, scope)) BY <1>5, <1>11, Zenon DEF Cancel, Command
  <2> QED BY <2>1, <2>2, <2>3, Zenon
<1>12. ASSUME NEW p \in Prompts, NEW scope \in Scopes, CancelPrompt(p, scope)
       PROVE  \E r : Good(r) /\ Ordered(fresh, r) /\ co' = Evict(r)
  <2> DEFINE S == {i \in Live(f) : f.req[i].prompt = p /\ Belongs(f, i, scope)}
  <2>1. co' = Evict(CancelAll(f, S))
    BY <1>5, <1>12, Zenon DEF CancelPrompt, Command, CancelParentPrompt
  <2> HIDE DEF S
  <2>2. Good(CancelAll(f, S)) BY <1>2, CancelAllGood
  <2>3. Ordered(fresh, CancelAll(f, S)) BY <1>2, <1>7, CancelAllCalm
  <2> QED BY <2>1, <2>2, <2>3, Zenon
<1>13. ASSUME NEW s \in Sessions, Stop(s)
       PROVE  \E r : Good(r) /\ Ordered(fresh, r) /\ co' = Evict(r)
  <2>1. Good(CancelParentSession(f, s)) BY <1>2, CancelParentSessionGood
  <2>2. Ordered(fresh, CancelParentSession(f, s)) BY <1>2, <1>7, CancelParentSessionCalm
  <2>3. co' = Evict(CancelParentSession(f, s)) BY <1>5, <1>13, Zenon DEF Stop, Command
  <2> QED BY <2>1, <2>2, <2>3, Zenon
<1>14. ASSUME NEW s \in Roots, Teardown(s)
       PROVE  \E r : Good(r) /\ Ordered(fresh, r) /\ co' = Evict(r)
  <2>1. Good(TeardownSession(f, s)) BY <1>2, TeardownSessionGood
  <2>2. Ordered(fresh, TeardownSession(f, s)) BY <1>2, <1>7, TeardownSessionCalm
  <2>3. co' = Evict(TeardownSession(f, s)) BY <1>5, <1>14, Zenon DEF Teardown, Command
  <2> QED BY <2>1, <2>2, <2>3, Zenon
<1>15. ASSUME NEW s \in Sessions, OpenSpawnAdmission(s)
       PROVE  \E r : Good(r) /\ Ordered(fresh, r) /\ co' = Evict(r)
  <2> DEFINE bl == f.blocked \ {s}
  <2>1. bl \in SUBSET Sessions BY <1>4 DEF States
  <2>2. co' = Evict([f EXCEPT !.blocked = bl])
    BY <1>5, <1>15, Zenon DEF OpenSpawnAdmission, Command
  <2> HIDE DEF bl
  <2>3. Good([f EXCEPT !.blocked = bl]) BY <1>2, <2>1, FieldGood
  <2>4. Ordered(fresh, [f EXCEPT !.blocked = bl]) BY <1>4, <1>8, FieldStill
  <2> QED BY <2>2, <2>3, <2>4, Zenon
<1>16. ASSUME NEW w \in Runs, NEW c \in Clients, NEW scope \in Scopes, CancelRun(w, c, scope)
       PROVE  \E r : Good(r) /\ Ordered(fresh, r) /\ co' = Evict(r)
  <2>1. Good(CancelWorkflowRun(f, w, c, scope)) BY <1>2, CancelWorkflowRunGood
  <2>2. Ordered(fresh, CancelWorkflowRun(f, w, c, scope)) BY <1>4, <1>8, CancelWorkflowRunCalm
  <2>3. co' = Evict(CancelWorkflowRun(f, w, c, scope)) BY <1>5, <1>16, Zenon DEF CancelRun, Command
  <2> QED BY <2>1, <2>2, <2>3, Zenon
<1>17. ASSUME NEW scope \in Scopes, Completions(scope)
       PROVE  \E r : Good(r) /\ Ordered(fresh, r) /\ co' = Evict(r)
  <2> DEFINE bu == {b \in f.buffer : scope # "any" /\ b.parent # scope}
  <2>1. bu \in SUBSET f.buffer OBVIOUS
  <2>2. co' = Evict([f EXCEPT !.buffer = bu])
    BY <1>5, <1>17, Zenon DEF Completions, Command, DrainCompletions
  <2> HIDE DEF bu
  <2>3. Good([f EXCEPT !.buffer = bu]) BY <1>2, <2>1, FieldGood
  <2>4. Ordered(fresh, [f EXCEPT !.buffer = bu]) BY <1>4, <1>8, FieldStill
  <2> QED BY <2>2, <2>3, <2>4, Zenon
<1>18. ASSUME Read PROVE \E r : Good(r) /\ Ordered(fresh, r) /\ co' = Evict(r)
  <2>1. Ordered(fresh, f) BY <1>3, CalmOrdered
  <2>2. co' = Evict(f) BY <1>5, <1>18, Zenon DEF Read, Command
  <2> QED BY <1>2, <2>1, <2>2, Zenon
<1> QED
  BY <1>9, <1>10, <1>11, <1>12, <1>13, <1>14, <1>15, <1>16, <1>17, <1>18, Zenon DEF CommandStep

LEMMA OtherOrdered ==
  ASSUME IInv, Next, ~CommandStep PROVE Ordered(fresh, co')
<1>0. Good(fresh) BY FieldGood, Zenon DEF IInv, fresh
<1>1. co \in States /\ fresh \in States /\ Placed(fresh) /\ Stamped(fresh)
  BY <1>0 DEF IInv, Good, Sound
<1>2. \A r : Calm(fresh, r) => Ordered(fresh, r) BY CalmOrdered
<1>3. \A r : Still(fresh, r) => Ordered(fresh, r) BY <1>2, StillCalm
<1>4. /\ fresh.pending = co.pending /\ fresh.active = co.active
      /\ fresh.queued = co.queued /\ fresh.at = co.at /\ fresh.req = co.req
  BY <1>1 DEF fresh, States
<1>5. ASSUME NEW i \in Ids, Started(i) PROVE Ordered(fresh, co')
  <2> DEFINE p == fresh.pending \ {i}  a == fresh.active \cup {i}  b == fresh.born \cup {i}
             r == [fresh EXCEPT !.pending = p, !.active = a, !.born = b]
  <2>1. co' = r /\ i \in fresh.pending BY <1>4, <1>5, Zenon DEF Started
  <2>2. p \cup a = fresh.pending \cup fresh.active /\ p \subseteq fresh.pending BY <2>1
  <2> HIDE DEF p, a, b
  <2>3. Still(fresh, r) BY <1>1, <2>2 DEF Still, States
  <2> QED BY <1>3, <2>1, <2>3
<1>6. ASSUME NEW i \in Ids, CancelToken(i) PROVE Ordered(fresh, co')
  <2> DEFINE ca == fresh.cancelled \cup {i}
  <2>1. co' = [fresh EXCEPT !.cancelled = ca] BY <1>6, Zenon DEF CancelToken
  <2> HIDE DEF ca
  <2> QED BY <1>1, <1>3, <2>1, FieldStill
<1>7. ASSUME NEW i \in Ids, DropCaller(i) PROVE Ordered(fresh, co')
  <2> DEFINE rp == [fresh.reply EXCEPT ![i] = "closed"]
             ca == IF co.req[i].kind = "workflow" THEN fresh.cancelled \cup {i} ELSE fresh.cancelled
             r == [fresh EXCEPT !.reply = rp, !.cancelled = ca]
  <2>1. co' = r BY <1>7, Zenon DEF DropCaller
  <2> HIDE DEF rp, ca
  <2>2. Still(fresh, r) BY <1>1 DEF Still, States
  <2> QED BY <1>3, <2>1, <2>2
<1>8. ASSUME NEW i \in Ids, NEW rc \in BOOLEAN, Finish(i, rc) PROVE Ordered(fresh, co')
  <2> DEFINE r == FinishChild(fresh, i, rc)
  <2>1. i \in fresh.pending \cup fresh.active BY <1>4, <1>8 DEF Finish
  <2>2. Good(r) BY <1>0, <2>1, FinishGood
  <2>3. co' = Evict(r) BY <1>8, Zenon DEF Finish
  <2>4. r = StartQueuedWithinCapacity(Complete(fresh, {i}, rc)) BY FinishIs
  <2> HIDE DEF r
  <2>5. Calm(fresh, r) BY <1>1, <2>4, EndCalm
  <2>6. Ordered(fresh, r) BY <1>2, <2>5
  <2> QED BY <2>2, <2>3, <2>6, EvictOrdered DEF Good, Sound
<1>9. ASSUME NEW due, NEW late, Deadlines(due, late) PROVE Ordered(fresh, co')
  <2> DEFINE f == Reap(fresh)
             r == ProcessDeadlines(f, due, late)
  <2>1. Good(f) BY <1>0, ReapGood
  <2>2. Calm(fresh, f) BY <1>0, ReapCalm
  <2>3. co' = Evict(r) BY <1>9, Zenon DEF Deadlines, Reaped
  <2> HIDE DEF f
  <2>4. Good(r) BY <2>1, ProcessDeadlinesGood
  <2>5. Still(f, r) BY <2>1, ProcessDeadlinesCalm DEF Good, Sound
  <2> HIDE DEF r
  <2>6. Ordered(fresh, r) BY <1>2, <2>2, <2>5, StillCalm, CalmChain
  <2> QED BY <2>3, <2>4, <2>6, EvictOrdered DEF Good, Sound
<1>10. ASSUME NEW c \in Clients, DropClient(c) PROVE Ordered(fresh, co')
  <2> DEFINE go == fresh.gone \cup {c}
  <2>1. co' = [fresh EXCEPT !.gone = go] BY <1>10, Zenon DEF DropClient
  <2> HIDE DEF go
  <2> QED BY <1>1, <1>3, <2>1, FieldStill
<1>11. ASSUME CloseCommands \/ Exit PROVE Ordered(fresh, co')
  <2>1. PICK v : co' = [fresh EXCEPT !.mode = v] BY <1>11, Zenon DEF CloseCommands, Exit
  <2> QED BY <1>1, <1>3, <2>1, FieldStill
<1>12. ASSUME Drop PROVE Ordered(fresh, co')
  <2>1. co'.pending = {}
    <3> DEFINE ca == co.cancelled \cup Live(co)
    <3>1. co' = [InitState EXCEPT !.mode = "dropped", !.cancelled = ca] BY <1>12, Zenon DEF Drop
    <3> HIDE DEF ca
    <3> QED BY <3>1 DEF InitState
  <2> QED BY <2>1 DEF Ordered
<1>13. ASSUME Ended PROVE Ordered(fresh, co')
  <2>1. co' = co BY <1>13 DEF Ended, vars
  <2> QED BY <1>4, <2>1 DEF Ordered
<1> QED BY <1>5, <1>6, <1>7, <1>8, <1>9, <1>10, <1>11, <1>12, <1>13, Zenon DEF Next

(***************************************************************************)
(* The closed form of the sweep is its loop.  What the loop has started    *)
(* after the entries T are the first entries of T of each session; so the  *)
(* closed form, restricted to T, satisfies the equation of the loop, and   *)
(* there is only one function that does.                                   *)
(***************************************************************************)
\* The entries of T ahead of i, and those that find a slot after them.
AheadIn(st, T, i) ==
  {j \in T \ st.cancelled : st.at[j] < st.at[i] /\ st.req[j].parent = st.req[i].parent}

Fits(st, T) ==
  {i \in T \ st.cancelled :
     HasCapacity(Load(st, st.req[i].parent) + Cardinality(AheadIn(st, T, i)))}

\* What the loop asks of a state: the queue is typed, task-owned and ordered.
Sweepable(st) == st \in States /\ Placed(st) /\ QueuedTasks(st) /\ Stamped(st)

LastOf(st, T) == CHOOSE x \in T : \A y \in T : st.at[y] <= st.at[x]

\* One turn of the loop, for the entry i.
Turn(s, i) ==
  IF i \notin s.cancelled /\ HasCapacity(Cardinality(Running(s, s.req[i].parent)))
  THEN StartDequeued(s, {i}) ELSE s

LEMMA LastExists ==
  ASSUME NEW st, Sweepable(st), NEW T \in SUBSET st.queued, T # {}
  PROVE  LastOf(st, T) \in T /\ \A y \in T : st.at[y] <= st.at[LastOf(st, T)]
<1> DEFINE f == [i \in Ids |-> IF i \in T THEN st.clock - st.at[i] ELSE 0]
<1>0. T \in SUBSET Ids /\ st.at \in [Ids -> Nat] /\ st.clock \in Nat BY DEF Sweepable, States
<1>1. \A i \in T : st.at[i] \in Nat /\ st.at[i] <= st.clock BY <1>0 DEF Sweepable, Stamped
<1>2. f \in [Ids -> Nat] BY <1>0, <1>1
<1>3. \A i \in T : f[i] = st.clock - st.at[i] BY <1>0
<1> HIDE DEF f
<1>4. PICK x \in T : \A y \in T : f[x] <= f[y] BY <1>0, <1>2, LeastStamp
<1>5. \A y \in T : st.at[y] <= st.at[x] BY <1>0, <1>1, <1>3, <1>4
<1> QED BY <1>5, Zenon DEF LastOf

\* How many entries of T the loop finds started for the session of i, and how many
\* the closed form counts ahead of i: the one is at the limit iff the other is.
LEMMA SameRoom ==
  ASSUME NEW st, Sweepable(st), NEW T \in SUBSET st.queued, NEW i \in st.queued,
         \A j \in T : st.at[j] < st.at[i]
  PROVE  LET p == st.req[i].parent
             begun == {j \in Fits(st, T) : st.req[j].parent = p}
         IN HasCapacity(Load(st, p) + Cardinality(begun))
            <=> HasCapacity(Load(st, p) + Cardinality(AheadIn(st, T, i)))
<1> DEFINE p == st.req[i].parent
           begun == {j \in Fits(st, T) : st.req[j].parent = p}
           A == AheadIn(st, T, i)
           late == A \ begun
<1> USE LimitAssumption
<1>0. st \in States /\ st.at \in [Ids -> Nat] /\ T \in SUBSET Ids /\ st.queued \in SUBSET Ids
  BY DEF Sweepable, States
<1>1. A = {j \in T \ st.cancelled : st.req[j].parent = p} BY DEF AheadIn
<1>2. begun \subseteq A /\ A \in SUBSET Ids /\ begun \in SUBSET Ids BY <1>0, <1>1 DEF Fits
<1>3. /\ IsFiniteSet(A) /\ Cardinality(A) \in Nat /\ Cardinality(begun) \in Nat
      /\ Cardinality(begun) <= Cardinality(A) /\ Load(st, p) \in Nat
  BY <1>0, <1>2, FiniteIds, FS_Subset, LoadNat
<1>4. CASE late = {}
  <2>1. begun = A BY <1>2, <1>4
  <2> QED BY <2>1
<1>5. CASE late # {}
  <2>1. PICK m \in late : \A j \in late : st.at[m] <= st.at[j]
    BY <1>0, <1>2, <1>5, LeastStamp
  <2>2. m \in A /\ m \notin Fits(st, T) /\ st.req[m].parent = p BY <1>1, <2>1
  <2> DEFINE B == AheadIn(st, T, m)
  <2>3. B \subseteq begun
    <3> SUFFICES ASSUME NEW j \in B PROVE j \in begun OBVIOUS
    <3>1. j \in T \ st.cancelled /\ st.at[j] < st.at[m] /\ st.req[j].parent = p BY <2>2 DEF AheadIn
    <3>2. j \in A BY <1>1, <3>1
    <3>3. st.at[j] \in Nat /\ st.at[m] \in Nat BY <1>0, <1>2, <2>2, <3>2
    <3>4. j \notin late BY <2>1, <3>1, <3>3
    <3> QED BY <3>2, <3>4
  <2>4. ~HasCapacity(Load(st, p) + Cardinality(B)) BY <1>1, <2>2 DEF Fits
  <2>5. Cardinality(B) \in Nat /\ Cardinality(B) <= Cardinality(begun)
    <3>1. B \in SUBSET Ids /\ IsFiniteSet(begun) BY <1>2, <2>3, FiniteIds
    <3> HIDE DEF B, begun
    <3> QED BY <2>3, <3>1, FiniteIds, FS_Subset
  <2>6. /\ ~HasCapacity(Load(st, p) + Cardinality(begun))
        /\ ~HasCapacity(Load(st, p) + Cardinality(A))
    <3> HIDE DEF B, begun, A, p
    <3> QED BY <1>3, <2>4, <2>5 DEF HasCapacity
  <2> QED BY <2>6
<1> QED BY <1>4, <1>5

\* What an entry counts ahead of it does not depend on later entries.
LEMMA FitsPrefix ==
  ASSUME NEW st, Sweepable(st), NEW T \in SUBSET st.queued, NEW i \in st.queued,
         \A j \in T : st.at[j] < st.at[i], i \notin T
  PROVE  /\ Fits(st, T \cup {i}) \ {i} = Fits(st, T)
         /\ i \in Fits(st, T \cup {i}) <=>
              i \notin st.cancelled /\ HasCapacity(Load(st, st.req[i].parent) + Cardinality(AheadIn(st, T, i)))
<1>0. st.at \in [Ids -> Nat] /\ T \in SUBSET Ids /\ i \in Ids BY DEF Sweepable, States
<1>1. \A k \in T \cup {i} : AheadIn(st, T \cup {i}, k) = AheadIn(st, T, k)
  <2> SUFFICES ASSUME NEW k \in T \cup {i} PROVE AheadIn(st, T \cup {i}, k) = AheadIn(st, T, k)
    OBVIOUS
  <2>1. st.at[k] \in Nat /\ st.at[i] \in Nat /\ ~(st.at[i] < st.at[k]) BY <1>0
  <2> QED BY <2>1 DEF AheadIn
<1> QED BY <1>1 DEF Fits

\* Starting one more entry.
LEMMA StartOneMore ==
  ASSUME NEW st \in States, NEW S \in SUBSET Ids, NEW i \in Ids
  PROVE  StartDequeued(StartDequeued(st, S), {i}) = StartDequeued(st, S \cup {i})
<1> DEFINE a == StartDequeued(st, S)
           b == StartDequeued(a, {i})
           c == StartDequeued(st, S \cup {i})
<1>1. a \in States BY StartDequeuedType
<1>2. b \in States /\ c \in States BY <1>1, StartDequeuedType
<1>3. /\ a.queued = st.queued \ S /\ a.pending = st.pending \cup S /\ a.reply = st.reply
      /\ a.handleOnly = st.handleOnly \cup {j \in S : st.reply[j] = "none"} /\ a.at = Set(st.at, S, 0)
  BY DEF StartDequeued, States
<1> DEFINE Same(x, y) ==
      /\ x.active = y.active /\ x.completed = y.completed /\ x.req = y.req /\ x.reply = y.reply
      /\ x.deadline = y.deadline /\ x.killed = y.killed /\ x.cancelled = y.cancelled
      /\ x.clock = y.clock /\ x.age = y.age /\ x.waiters = y.waiters
      /\ x.cancelWaiters = y.cancelWaiters /\ x.gone = y.gone /\ x.blocked = y.blocked
      /\ x.buffer = y.buffer /\ x.mode = y.mode /\ x.report = y.report /\ x.born = y.born
      /\ x.root = y.root /\ x.tornDown = y.tornDown
<1>4. Same(a, st) BY DEF StartDequeued, States
<1>5. Same(c, st) BY DEF StartDequeued, States
<1> HIDE DEF a
<1>6. Same(b, a) BY <1>1 DEF StartDequeued, States
<1>7. Same(b, c) BY <1>4, <1>5, <1>6
<1>8. /\ b.queued = a.queued \ {i} /\ b.pending = a.pending \cup {i}
      /\ b.handleOnly = a.handleOnly \cup {j \in {i} : a.reply[j] = "none"} /\ b.at = Set(a.at, {i}, 0)
  BY <1>1 DEF StartDequeued, States
<1>9. /\ c.queued = st.queued \ (S \cup {i}) /\ c.pending = st.pending \cup (S \cup {i})
      /\ c.handleOnly = st.handleOnly \cup {j \in S \cup {i} : st.reply[j] = "none"}
      /\ c.at = Set(st.at, S \cup {i}, 0)
  BY DEF StartDequeued, States
<1> HIDE DEF b, c
<1>10. b.queued = c.queued /\ b.pending = c.pending /\ b.handleOnly = c.handleOnly
  BY <1>3, <1>8, <1>9
<1>11. b.at = c.at BY <1>3, <1>8, <1>9 DEF Set
<1>12. b = c BY <1>2, <1>7, <1>10, <1>11 DEF States
<1> QED BY <1>12 DEF b, c, a

LEMMA StartNone ==
  ASSUME NEW st \in States
  PROVE  StartDequeued(st, {}) = st
<1>1. Set(st.at, {}, 0) = st.at BY DEF Set, States
<1>2. /\ st.queued \ {} = st.queued /\ st.pending \cup {} = st.pending
      /\ st.handleOnly \cup {i \in {} : st.reply[i] = "none"} = st.handleOnly
  OBVIOUS
<1> DEFINE r == StartDequeued(st, {})
<1>3. r \in States BY StartDequeuedType
<1>4. /\ r.queued = st.queued /\ r.pending = st.pending /\ r.handleOnly = st.handleOnly /\ r.at = st.at
  BY <1>1, <1>2 DEF StartDequeued, States
<1>5. /\ r.active = st.active /\ r.completed = st.completed /\ r.req = st.req /\ r.reply = st.reply
      /\ r.deadline = st.deadline /\ r.killed = st.killed /\ r.cancelled = st.cancelled
      /\ r.clock = st.clock /\ r.age = st.age /\ r.waiters = st.waiters
      /\ r.cancelWaiters = st.cancelWaiters /\ r.gone = st.gone /\ r.blocked = st.blocked
      /\ r.buffer = st.buffer /\ r.mode = st.mode /\ r.report = st.report /\ r.born = st.born
      /\ r.root = st.root /\ r.tornDown = st.tornDown
  BY DEF StartDequeued, States
<1> HIDE DEF r
<1>6. r = st BY <1>3, <1>4, <1>5 DEF States
<1> QED BY <1>6 DEF r

\* The closed form takes the turn of the loop for the last entry.
LEMMA ClosedFormTurns ==
  ASSUME NEW st, Sweepable(st), NEW T \in SUBSET st.queued, T # {}
  PROVE  LET i == LastOf(st, T)
         IN StartDequeued(st, Fits(st, T)) = Turn(StartDequeued(st, Fits(st, T \ {i})), i)
<1> DEFINE i == LastOf(st, T)
           P == T \ {i}
           F == Fits(st, P)
           s == StartDequeued(st, F)
           p == st.req[i].parent
           begun == {j \in F : st.req[j].parent = p}
<1>0. /\ st \in States /\ Placed(st) /\ QueuedTasks(st) /\ Stamped(st)
      /\ st.at \in [Ids -> Nat] /\ st.queued \in SUBSET Ids
  BY DEF Sweepable, States
<1>1. i \in T /\ \A y \in T : st.at[y] <= st.at[i] BY LastExists
<1>2. \A j \in P : st.at[j] < st.at[i]
  <2> SUFFICES ASSUME NEW j \in P PROVE st.at[j] < st.at[i] OBVIOUS
  <2>1. j \in st.queued /\ i \in st.queued /\ j # i BY <1>1
  <2>2. st.at[j] # st.at[i] BY <1>0, <2>1 DEF Stamped
  <2>3. st.at[j] \in Nat /\ st.at[i] \in Nat BY <1>0, <2>1
  <2> QED BY <1>1, <2>2, <2>3
<1>3. P \in SUBSET st.queued /\ i \in st.queued /\ i \in Ids /\ i \notin P /\ P \cup {i} = T
  BY <1>0, <1>1
<1> HIDE DEF i, P
<1>4. /\ Fits(st, T) \ {i} = F
      /\ i \in Fits(st, T) <=>
           i \notin st.cancelled /\ HasCapacity(Load(st, p) + Cardinality(AheadIn(st, P, i)))
  BY <1>2, <1>3, FitsPrefix
<1>5. HasCapacity(Load(st, p) + Cardinality(begun)) <=> HasCapacity(Load(st, p) + Cardinality(AheadIn(st, P, i)))
  BY <1>2, <1>3, SameRoom
<1>6. F \subseteq st.queued /\ F \in SUBSET Ids BY <1>0, <1>3 DEF Fits
<1>7. /\ s.pending = st.pending \cup F /\ s.active = st.active /\ s.req = st.req /\ s.cancelled = st.cancelled
  BY <1>0, <1>6 DEF StartDequeued, States
<1> HIDE DEF F, s
<1>8. Running(s, p) = Running(st, p) \cup begun
  BY <1>0, <1>6, <1>7 DEF Running, QueuedTasks
<1>9. Running(st, p) \cap begun = {} BY <1>0, <1>6 DEF Running, Placed
<1>10. Cardinality(Running(s, p)) = Load(st, p) + Cardinality(begun)
  <2>1. IsFiniteSet(Running(st, p)) BY <1>0, LoadNat
  <2>2. IsFiniteSet(begun) BY <1>6, FiniteIds
  <2>3. Cardinality({}) = 0 BY FS_EmptySet
  <2>4. Cardinality(Running(st, p)) \in Nat /\ Cardinality(begun) \in Nat BY <2>1, <2>2, FS_CardinalityType
  <2> HIDE DEF begun, p
  <2>5. Cardinality(Running(st, p) \cup begun) = Cardinality(Running(st, p)) + Cardinality(begun)
    <3>1. Cardinality(Running(st, p) \cup begun)
            = Cardinality(Running(st, p)) + Cardinality(begun) - Cardinality(Running(st, p) \cap begun)
      BY <2>1, <2>2, FS_Union, Zenon
    <3>2. Cardinality(Running(st, p) \cap begun) = 0 BY <1>9, <2>3, Zenon
    <3> QED BY <2>4, <3>1, <3>2
  <2> QED BY <1>8, <2>5 DEF Load
<1>11. i \in Fits(st, T) <=> i \notin s.cancelled /\ HasCapacity(Cardinality(Running(s, s.req[i].parent)))
  BY <1>4, <1>5, <1>7, <1>10
<1>12. CASE i \in Fits(st, T)
  <2>1. Fits(st, T) = F \cup {i} BY <1>4, <1>12
  <2>2. StartDequeued(s, {i}) = StartDequeued(st, F \cup {i}) BY <1>0, <1>3, <1>6, StartOneMore DEF s
  <2>3. Turn(s, i) = StartDequeued(s, {i}) BY <1>11, <1>12 DEF Turn
  <2>4. StartDequeued(st, Fits(st, T)) = Turn(s, i) BY <2>1, <2>2, <2>3
  <2> QED BY <2>4 DEF s, F, P, i
<1>13. CASE i \notin Fits(st, T)
  <2>1. Fits(st, T) = F BY <1>4, <1>13
  <2>2. Turn(s, i) = s BY <1>11, <1>13 DEF Turn
  <2>3. StartDequeued(st, Fits(st, T)) = Turn(s, i) BY <2>1, <2>2 DEF s
  <2> QED BY <2>3 DEF s, F, P, i
<1> QED BY <1>12, <1>13

\* The equation of the loop; it has one solution.
Unrolls(st, v) ==
  v = [T \in SUBSET st.queued |->
         IF T = {} THEN st ELSE Turn(v[T \ {LastOf(st, T)}], LastOf(st, T))]

LEMMA LoopUnique ==
  ASSUME NEW st, Sweepable(st), NEW v, NEW w, Unrolls(st, v), Unrolls(st, w)
  PROVE  \A T \in SUBSET st.queued : v[T] = w[T]
<1> DEFINE D == {T \in SUBSET st.queued : v[T] # w[T]}
           N == {Cardinality(T) : T \in D}
           R == OpToRel(<, Nat)
<1> SUFFICES ASSUME D # {} PROVE FALSE OBVIOUS
<1>1. st.queued \in SUBSET Ids BY DEF Sweepable, States
<1>2. \A T \in SUBSET st.queued : IsFiniteSet(T) /\ Cardinality(T) \in Nat BY <1>1, FiniteIds
<1>3. N \subseteq Nat /\ N # {} BY <1>2
<1>4. PICK n \in N : \A m \in N : <<m, n>> \notin R BY <1>3, NatLessThanWellFounded, WFMin
<1>5. \A m \in N : ~(m < n) BY <1>3, <1>4 DEF OpToRel
<1>6. PICK T \in D : n = Cardinality(T) BY <1>4
<1> DEFINE i == LastOf(st, T)
<1>7. T # {} 
  <2> SUFFICES ASSUME T = {} PROVE FALSE OBVIOUS
  <2>1. v[T] = st /\ w[T] = st BY <1>6 DEF Unrolls
  <2> QED BY <1>6, <2>1
<1>8. i \in T BY <1>6, <1>7, LastExists
<1>9. T \in SUBSET st.queued BY <1>6
<1>10. v[T] = Turn(v[T \ {i}], i) /\ w[T] = Turn(w[T \ {i}], i) BY <1>7, <1>9 DEF Unrolls
<1>11. T \ {i} \in SUBSET st.queued BY <1>9
<1>12. Cardinality(T \ {i}) < n
  <2>1. IsFiniteSet(T) /\ Cardinality(T) \in Nat BY <1>2, <1>9
  <2>2. Cardinality(T \ {i}) = Cardinality(T) - 1 BY <1>8, <2>1, FS_RemoveElement
  <2> QED BY <1>6, <2>1, <2>2
<1>13. T \ {i} \notin D BY <1>5, <1>12
<1>14. v[T \ {i}] = w[T \ {i}] BY <1>11, <1>13
<1> QED BY <1>6, <1>10, <1>14

LEMMA LoopIsClosedForm ==
  ASSUME NEW st, Sweepable(st)
  PROVE  StartDequeued(st, WithinCapacity(st)) = SweepLoop(st)
<1> DEFINE w == [T \in SUBSET st.queued |-> StartDequeued(st, Fits(st, T))]
           visited == CHOOSE v : Unrolls(st, v)
<1>0. st \in States BY DEF Sweepable
<1>1. Unrolls(st, w)
  <2>1. ASSUME NEW T \in SUBSET st.queued
        PROVE  w[T] = IF T = {} THEN st ELSE Turn(w[T \ {LastOf(st, T)}], LastOf(st, T))
    <3>1. CASE T = {}
      <4>1. Fits(st, T) = {} BY <3>1 DEF Fits
      <4> QED BY <1>0, <3>1, <4>1, StartNone
    <3>2. CASE T # {}
      <4>1. T \ {LastOf(st, T)} \in SUBSET st.queued OBVIOUS
      <4> QED BY <3>2, <4>1, ClosedFormTurns
    <3> QED BY <3>1, <3>2
  <2>2. w = [T \in SUBSET st.queued |-> w[T]] OBVIOUS
  <2> HIDE DEF w
  <2> QED BY <2>1, <2>2 DEF Unrolls
<1>2. Unrolls(st, visited) BY <1>1, Zenon
<1>3. \A T \in SUBSET st.queued : visited[T] = w[T]
  <2> HIDE DEF visited, w
  <2> QED BY <1>1, <1>2, LoopUnique
<1>4. visited[st.queued] = StartDequeued(st, Fits(st, st.queued)) BY <1>3
<1>5. Fits(st, st.queued) = WithinCapacity(st) BY DEF Fits, AheadIn, WithinCapacity, Load
<1>6. SweepLoop(st) = visited[st.queued] BY Zenon DEF SweepLoop, Unrolls, Turn, LastOf
<1> QED BY <1>4, <1>5, <1>6

(***************************************************************************)
(* The theorems.                                                           *)
(***************************************************************************)
\* No step starts a task spawn while an earlier one stays parked for the same
\* session: neither the sweep after an end, nor a fresh spawn, nor one step that
\* frees several slots.
THEOREM QueueIsFifo == Spec => NoOvertaking
<1> DEFINE A == \A i \in co'.pending \ co.pending, j \in co.queued \cap co'.queued :
                  co'.req[i].parent = co.req[j].parent /\ co'.req[i].owner = Task
                    => i \in co.queued /\ co.at[i] < co.at[j]
<1>1. IInv /\ [Next]_vars => [A]_vars
  <2> SUFFICES ASSUME IInv, Next PROVE A BY DEF vars
  <2>1. Ordered(fresh, co') BY CommandOrdered, OtherOrdered
  <2>2. co \in States BY DEF IInv, Good, Sound
  <2>3. /\ fresh.pending = co.pending /\ fresh.queued = co.queued
        /\ fresh.at = co.at /\ fresh.req = co.req
    BY <2>2 DEF fresh, States
  <2> QED BY <2>1, <2>3 DEF Ordered
<1> QED BY <1>1, AdmissionInvariant, PTL DEF Spec, NoOvertaking

\* In every state of the coordinator, whichever children end and whichever parked
\* entries are cancelled, the closed form that the model uses for
\* start_queued_within_capacity is the loop of the source.
THEOREM SweepIsTheLoop == Spec => []ClosedFormIsLoop
<1>1. IInv => ClosedFormIsLoop
  <2> SUFFICES ASSUME IInv, NEW ended \in SUBSET co.active, NEW dead \in SUBSET co.queued
               PROVE  LET st == [co EXCEPT !.active = @ \ ended, !.cancelled = @ \cup dead]
                      IN StartDequeued(st, WithinCapacity(st)) = SweepLoop(st)
    BY DEF ClosedFormIsLoop
  <2> DEFINE st == [co EXCEPT !.active = @ \ ended, !.cancelled = @ \cup dead]
  <2>1. co \in States /\ Placed(co) /\ QueuedTasks(co) /\ Stamped(co)
    BY DEF IInv, Good, Sound
  <2>2. st \in States
    <3> DEFINE a == co.active \ ended  c == co.cancelled \cup dead
    <3>1. a \in SUBSET Ids /\ c \in SUBSET Ids BY <2>1 DEF States
    <3> HIDE DEF a, c
    <3>2. [co EXCEPT !.active = a, !.cancelled = c] \in States BY <2>1, <3>1, ZenonT(60) DEF States
    <3> QED BY <3>2, Zenon DEF a, c
  <2>3. /\ st.queued = co.queued /\ st.pending = co.pending /\ st.active \subseteq co.active
        /\ st.completed = co.completed /\ st.req = co.req /\ st.at = co.at /\ st.clock = co.clock
    BY <2>1 DEF States
  <2> HIDE DEF st
  <2>4. Sweepable(st) BY <2>1, <2>2, <2>3 DEF Sweepable, Placed, QueuedTasks, Stamped
  <2>5. StartDequeued(st, WithinCapacity(st)) = SweepLoop(st) BY <2>4, LoopIsClosedForm
  <2> QED BY <2>5 DEF st
<1> QED BY <1>1, AdmissionInvariant, PTL
=============================================================================
