--------------------- MODULE SubagentCoordinatorProofs ---------------------
(***************************************************************************)
(* Admission control of the subagent coordinator, for every number of ids, *)
(* sessions, runs and clients and every limit: the maps are well typed, an *)
(* id is in one place, no session exceeds its limit, and a spawn is parked *)
(* only while its session is full.                                         *)
(*                                                                         *)
(* The last two need each other and the stamps.  A slot is given away in   *)
(* two ways, to a fresh spawn and to a parked one.  A fresh spawn cannot   *)
(* take a slot a parked one waits for because parked spawns exist only for *)
(* full sessions (Full); and when a child ends, at most one slot of one    *)
(* session is free (AlmostFull), so that the sweep starts at most the entry*)
(* with the least stamp, which is unique (Stamped).                        *)
(***************************************************************************)
EXTENDS SubagentCoordinator, FiniteSetTheorems, WellFoundedInduction, TLAPS

(***************************************************************************)
(* The inductive invariant, as a predicate of states so that the handlers  *)
(* can be proved about one by one.                                         *)
(***************************************************************************)
Placed(st) ==
  /\ st.queued \cap (st.pending \cup st.active \cup st.completed) = {}
  /\ st.pending \cap (st.active \cup st.completed) = {}
  /\ st.active \cap st.completed = {}

Load(st, s) == Cardinality(Running(st, s))

Limit(st) == \A s \in Sessions : Load(st, s) <= MaxConcurrent

QueuedTasks(st) == \A i \in st.queued : st.req[i].owner = Task

Stamped(st) ==
  \A i \in st.queued :
    st.at[i] <= st.clock /\ \A j \in st.queued : st.at[i] = st.at[j] => i = j

Full(st) == \A i \in st.queued : Load(st, st.req[i].parent) = MaxConcurrent

AlmostFull(st) == \A i \in st.queued : Load(st, st.req[i].parent) >= MaxConcurrent - 1

Sound(st) ==
  st \in States /\ Placed(st) /\ Limit(st) /\ QueuedTasks(st) /\ Stamped(st)

Good(st) == Sound(st) /\ Full(st)

IInv == Good(co)

(***************************************************************************)
(* Counting.                                                               *)
(***************************************************************************)
LEMMA FiniteIds == \A S \in SUBSET Ids : IsFiniteSet(S) /\ Cardinality(S) \in Nat
BY IdsAssumption, FS_Subset, FS_CardinalityType

LEMMA LoadNat ==
  ASSUME NEW st \in States, NEW s
  PROVE  /\ Running(st, s) \in SUBSET Ids
         /\ IsFiniteSet(Running(st, s))
         /\ Load(st, s) \in Nat
<1>1. Running(st, s) \in SUBSET Ids BY DEF Running, States
<1> QED BY <1>1, FiniteIds DEF Load

LEMMA LeastStamp ==
  ASSUME NEW f \in [Ids -> Nat], NEW T \in SUBSET Ids, T # {}
  PROVE  \E m \in T : \A j \in T : f[m] <= f[j]
<1> DEFINE V == {f[i] : i \in T}
           less == {ss \in Nat \X Nat : ss[1] < ss[2]}
<1>1. V \subseteq Nat /\ V # {} OBVIOUS
<1>2. IsWellFoundedOn(less, Nat)
  BY NatLessThanWellFounded, Zenon DEF OpToRel
<1>3. PICK x \in V : \A y \in V : ~(<<y, x>> \in less)
  BY <1>1, <1>2, WFMin, Zenon
<1>4. \A y \in V : <<y, x>> \in Nat \X Nat BY <1>1
<1>5. \A y \in V : ~(y < x)
  <2> SUFFICES ASSUME NEW y \in V, y < x PROVE FALSE OBVIOUS
  <2>1. <<y, x>> \in less BY <1>4
  <2> QED BY <1>3, <2>1, Zenon
<1>6. \A y \in V : x <= y
  <2> HIDE DEF V
  <2> QED BY <1>1, <1>5
<1> QED BY <1>6

(***************************************************************************)
(* Types of what the handlers build.                                       *)
(***************************************************************************)
LEMMA SetType ==
  ASSUME NEW V, NEW f \in [Ids -> V], NEW S \in SUBSET Ids, NEW v \in V
  PROVE  Set(f, S, v) \in [Ids -> V]
BY DEF Set

LEMMA TheElement == ASSUME NEW x PROVE The({x}) = x
BY DEF The

LEMMA BlankType == Blank \in Requests
BY NonEmpty DEF Blank, Requests, Sessions, Owners

LEMMA BehindNat ==
  ASSUME NEW st, NEW i, NEW S \in SUBSET Ids
  PROVE  Behind(st, i, S) \in Nat
BY FiniteIds DEF Behind

LEMMA BufferedType ==
  ASSUME NEW st \in States, NEW S \in SUBSET Ids
  PROVE  Buffered(st, S) \in SUBSET [id : Ids, parent : Sessions, age : Nat, tornDown : BOOLEAN]
<1> DEFINE kept == {i \in S : BufferCompletions /\ st.req[i].surface /\ st.req[i].owner = Task}
           B == [id : Ids, parent : Sessions, age : Nat, tornDown : BOOLEAN]
<1>1. kept \in SUBSET Ids /\ Cardinality(kept) \in Nat BY FiniteIds
<1>2. \A b \in st.buffer : [b EXCEPT !.age = @ + Cardinality(kept)] \in B
  BY <1>1 DEF States
<1>3. \A i \in kept : st.req[i].parent \in Sessions /\ Behind(st, i, kept) \in Nat
  BY <1>1, BehindNat DEF States, Requests
<1>4. \A i \in kept : [id |-> i, parent |-> st.req[i].parent, age |-> Behind(st, i, kept),
                       tornDown |-> i \in st.tornDown] \in B
  BY <1>3
<1> HIDE DEF B
<1>5. \A b \in Buffered(st, S) : b \in B
  BY <1>2, <1>4, Zenon DEF Buffered
<1> QED BY <1>5 DEF B

LEMMA ReportType ==
  ASSUME NEW st \in States, NEW i \in Ids, NEW rc \in BOOLEAN
  PROVE  Report(st, i, rc) \in Reports
<1> DEFINE owed == st.req[i].surface /\ ~rc /\ i \notin st.killed
<1>1. Destinations(st, i, owed) \in SUBSET Channels BY Zenon DEF Destinations
<1> QED BY <1>1 DEF Report, Reports

LEMMA CompleteType ==
  ASSUME NEW st \in States, NEW S \in SUBSET Ids, NEW rc \in BOOLEAN
  PROVE  Complete(st, S, rc) \in States
<1> DEFINE gone == st.gone \ UNION {st.waiters[i] : i \in S}
           report == st.report \cup {Report(st, i, rc) : i \in S}
           at == Set(st.at, S, 0)
           reply == Set(st.reply, S, "none")
           cw == ResolveCancelWaiters(st, S, (st.pending \cup st.active) \ S)
           q == st.queued \ S  p == st.pending \ S  a == st.active \ S  c == st.completed \cup S
           ho == st.handleOnly \ S  dl == st.deadline \ S  ki == st.killed \ S
           ca == st.cancelled \ S  td == st.tornDown \ S
           age == Aged(st, S)  wa == AnswerWaiters(st, S)  bu == Buffered(st, S)
<1>1. at \in [Ids -> Nat] BY SetType DEF States
<1>2. wa \in [Ids -> SUBSET Clients] BY SetType DEF States, AnswerWaiters
<1>3. reply \in [Ids -> Replies] BY SetType DEF States, Replies
<1>4. cw \in [Runs -> SUBSET Clients] BY DEF ResolveCancelWaiters, States
<1>5. age \in [Ids -> Nat] BY FiniteIds, BehindNat DEF Aged, States
<1>6. bu \in SUBSET [id : Ids, parent : Sessions, age : Nat, tornDown : BOOLEAN]
  BY BufferedType
<1>7. gone \in SUBSET Clients BY DEF States
<1>8. report \in SUBSET Reports
  <2>1. \A x \in report : x \in Reports BY ReportType DEF States
  <2> QED BY <2>1
<1>9. /\ q \in SUBSET Ids /\ p \in SUBSET Ids /\ a \in SUBSET Ids /\ c \in SUBSET Ids
      /\ ho \in SUBSET Ids /\ dl \in SUBSET Ids /\ ki \in SUBSET Ids
      /\ ca \in SUBSET Ids /\ td \in SUBSET Ids
  BY DEF States
<1>10. Complete(st, S, rc) =
  [st EXCEPT
     !.queued = q, !.pending = p, !.active = a, !.completed = c,
     !.age = age, !.at = at, !.waiters = wa, !.gone = gone, !.reply = reply,
     !.handleOnly = ho, !.deadline = dl, !.killed = ki, !.cancelled = ca,
     !.tornDown = td, !.buffer = bu, !.cancelWaiters = cw, !.report = report]
  BY Zenon DEF Complete
<1> HIDE DEF gone, report, at, reply, cw, q, p, a, c, ho, dl, ki, ca, td, age, wa, bu
<1>11. [st EXCEPT
     !.queued = q, !.pending = p, !.active = a, !.completed = c,
     !.age = age, !.at = at, !.waiters = wa, !.gone = gone, !.reply = reply,
     !.handleOnly = ho, !.deadline = dl, !.killed = ki, !.cancelled = ca,
     !.tornDown = td, !.buffer = bu, !.cancelWaiters = cw, !.report = report]
    \in States
  BY <1>1, <1>2, <1>3, <1>4, <1>5, <1>6, <1>7, <1>8, <1>9, ZenonT(60) DEF States
<1> QED BY <1>10, <1>11, Zenon

\* What Complete does to the fields that admission looks at.
LEMMA CompleteFields ==
  ASSUME NEW st \in States, NEW S \in SUBSET Ids, NEW rc \in BOOLEAN
  PROVE  LET r == Complete(st, S, rc)
         IN /\ r.queued = st.queued \ S /\ r.pending = st.pending \ S
            /\ r.active = st.active \ S /\ r.completed = st.completed \cup S
            /\ r.req = st.req /\ r.clock = st.clock /\ r.at = Set(st.at, S, 0)
BY DEF Complete, States

LEMMA StartDequeuedType ==
  ASSUME NEW st \in States, NEW S \in SUBSET Ids
  PROVE  StartDequeued(st, S) \in States
<1> DEFINE at == Set(st.at, S, 0)
           ho == st.handleOnly \cup {i \in S : st.reply[i] = "none"}
           q == st.queued \ S  p == st.pending \cup S
<1>1. at \in [Ids -> Nat] BY SetType DEF States
<1>2. ho \in SUBSET Ids /\ q \in SUBSET Ids /\ p \in SUBSET Ids BY DEF States
<1>3. StartDequeued(st, S) = [st EXCEPT !.queued = q, !.pending = p, !.handleOnly = ho, !.at = at]
  BY Zenon DEF StartDequeued
<1> HIDE DEF at, ho, q, p
<1>4. [st EXCEPT !.queued = q, !.pending = p, !.handleOnly = ho, !.at = at] \in States
  BY <1>1, <1>2, ZenonT(60) DEF States
<1> QED BY <1>3, <1>4, Zenon

LEMMA StartDequeuedFields ==
  ASSUME NEW st \in States, NEW S \in SUBSET Ids
  PROVE  LET r == StartDequeued(st, S)
         IN /\ r.queued = st.queued \ S /\ r.pending = st.pending \cup S
            /\ r.active = st.active /\ r.completed = st.completed
            /\ r.req = st.req /\ r.clock = st.clock /\ r.at = Set(st.at, S, 0)
BY DEF StartDequeued, States

(***************************************************************************)
(* The sweep.  With at most one slot free in a session that has parked     *)
(* spawns, start_queued_within_capacity fills it and no more.              *)
(***************************************************************************)
\* The sweep in one step, without the singleton it is computed through.
LEMMA SweepIs ==
  ASSUME NEW st
  PROVE  StartQueuedWithinCapacity(st) =
           Complete(StartDequeued(st, WithinCapacity(st)), st.queued \cap st.cancelled, TRUE)
<1> DEFINE d == st.queued \cap st.cancelled
           a == StartDequeued(st, WithinCapacity(st))
<1>1. {Complete(s, d, TRUE) : s \in {a}} = {Complete(a, d, TRUE)} OBVIOUS
<1> QED BY <1>1, TheElement, Zenon DEF StartQueuedWithinCapacity, FinishCancelledQueued

LEMMA SweepFields ==
  ASSUME NEW st \in States, Placed(st)
  PROVE  LET r == StartQueuedWithinCapacity(st)
             W == WithinCapacity(st)
             d == st.queued \cap st.cancelled
         IN /\ r \in States
            /\ W \subseteq st.queued \ st.cancelled
            /\ r.queued = (st.queued \ W) \ d /\ r.pending = st.pending \cup W
            /\ r.active = st.active /\ r.completed = st.completed \cup d
            /\ r.req = st.req /\ r.clock = st.clock
            /\ \A i \in r.queued : r.at[i] = st.at[i]
<1> DEFINE W == WithinCapacity(st)
           d == st.queued \cap st.cancelled
           a == StartDequeued(st, W)
           r == Complete(a, d, TRUE)
<1>1. W \subseteq st.queued \ st.cancelled BY DEF WithinCapacity
<1>2. st.queued \in SUBSET Ids /\ d \in SUBSET Ids /\ W \in SUBSET Ids
  BY <1>1 DEF States
<1>3. a \in States BY <1>2, StartDequeuedType
<1>4. r \in States BY <1>2, <1>3, CompleteType
<1>5. /\ a.queued = st.queued \ W /\ a.pending = st.pending \cup W
      /\ a.active = st.active /\ a.completed = st.completed
      /\ a.req = st.req /\ a.clock = st.clock /\ a.at = Set(st.at, W, 0)
  BY <1>2, StartDequeuedFields
<1>6. /\ r.queued = a.queued \ d /\ r.pending = a.pending \ d
      /\ r.active = a.active \ d /\ r.completed = a.completed \cup d
      /\ r.req = a.req /\ r.clock = a.clock /\ r.at = Set(a.at, d, 0)
  BY <1>2, <1>3, CompleteFields
<1>7. (st.pending \cup W) \ d = st.pending \cup W /\ st.active \ d = st.active
  BY <1>1 DEF Placed
<1>8. \A i \in r.queued : r.at[i] = st.at[i]
  <2> SUFFICES ASSUME NEW i \in r.queued PROVE r.at[i] = st.at[i] OBVIOUS
  <2> HIDE DEF W, d, a, r
  <2>1. i \in Ids /\ i \notin W /\ i \notin d BY <1>2, <1>5, <1>6
  <2>2. r.at[i] = a.at[i] BY <1>6, <2>1 DEF Set
  <2>3. a.at[i] = st.at[i] BY <1>5, <2>1 DEF Set
  <2> QED BY <2>2, <2>3
<1>9. StartQueuedWithinCapacity(st) = r BY SweepIs, Zenon
<1> HIDE DEF W, d, a, r
<1>10. /\ r.queued = (st.queued \ W) \ d /\ r.pending = st.pending \cup W
       /\ r.active = st.active /\ r.completed = st.completed \cup d
       /\ r.req = st.req /\ r.clock = st.clock
  BY <1>5, <1>6, <1>7
<1> QED BY <1>1, <1>4, <1>8, <1>9, <1>10, Zenon DEF W, d

LEMMA SweepFills ==
  ASSUME NEW st, Sound(st), AlmostFull(st)
  PROVE  Good(StartQueuedWithinCapacity(st))
<1> DEFINE W == WithinCapacity(st)
           r == StartQueuedWithinCapacity(st)
           d == st.queued \cap st.cancelled
           waiting == st.queued \ st.cancelled
           ahead(i) == {j \in waiting : st.at[j] < st.at[i]
                                         /\ st.req[j].parent = st.req[i].parent}
<1> USE LimitAssumption
<1>0. st \in States /\ Placed(st) /\ Limit(st) /\ QueuedTasks(st) /\ Stamped(st)
  BY DEF Sound
<1>1. /\ r \in States
      /\ W \subseteq waiting
      /\ r.queued = (st.queued \ W) \ d /\ r.pending = st.pending \cup W
      /\ r.active = st.active /\ r.completed = st.completed \cup d
      /\ r.req = st.req /\ r.clock = st.clock
      /\ \A i \in r.queued : r.at[i] = st.at[i]
  BY <1>0, SweepFields
<1>2. /\ st.queued \in SUBSET Ids /\ waiting \in SUBSET Ids /\ W \in SUBSET Ids
      /\ \A i \in Ids : st.at[i] \in Nat /\ st.req[i].parent \in Sessions
      /\ st.at \in [Ids -> Nat]
  BY <1>0, <1>1 DEF States, Requests
<1>3. \A s : Load(st, s) \in Nat BY <1>0, LoadNat
<1>4. \A i \in waiting : IsFiniteSet(ahead(i)) /\ Cardinality(ahead(i)) \in Nat
                           /\ (Cardinality(ahead(i)) = 0 <=> ahead(i) = {})
  BY <1>2, FiniteIds, FS_EmptySet
<1>5. \A i \in waiting : i \in W <=> Load(st, st.req[i].parent) + Cardinality(ahead(i)) < MaxConcurrent
  BY DEF WithinCapacity, HasCapacity, Load
<1>6. \A i \in waiting : i \in W <=> /\ Load(st, st.req[i].parent) = MaxConcurrent - 1
                                        /\ ahead(i) = {}
  <2> SUFFICES ASSUME NEW i \in waiting
               PROVE  i \in W <=> /\ Load(st, st.req[i].parent) = MaxConcurrent - 1
                                  /\ ahead(i) = {}
    OBVIOUS
  <2>1. /\ Load(st, st.req[i].parent) \in Nat
        /\ Load(st, st.req[i].parent) <= MaxConcurrent
        /\ Load(st, st.req[i].parent) >= MaxConcurrent - 1
    BY <1>0, <1>2, <1>3 DEF Limit, AlmostFull
  <2> HIDE DEF ahead
  <2> QED BY <1>4, <1>5, <2>1
<1>7. \A s : Running(r, s) = Running(st, s) \cup {i \in W : st.req[i].parent = s}
  BY <1>0, <1>1 DEF Running, QueuedTasks
<1>8. \A i, j \in W : st.req[i].parent = st.req[j].parent => i = j
  <2> SUFFICES ASSUME NEW i \in W, NEW j \in W, st.req[i].parent = st.req[j].parent
               PROVE  i = j
    OBVIOUS
  <2>1. ahead(i) = {} /\ ahead(j) = {} BY <1>1, <1>6
  <2>2. ~(st.at[i] < st.at[j]) /\ ~(st.at[j] < st.at[i]) BY <1>1, <2>1
  <2>3. st.at[i] = st.at[j] BY <1>1, <1>2, <2>2
  <2> QED BY <1>0, <1>1, <2>3 DEF Stamped
\* What starts in a session is nothing, or one child when one slot is free.
<1>9. ASSUME NEW s \in Sessions
      PROVE  \/ Running(r, s) = Running(st, s) /\ (\A i \in W : st.req[i].parent # s)
             \/ /\ Load(st, s) = MaxConcurrent - 1 /\ Load(r, s) = MaxConcurrent
                /\ \E i \in W : st.req[i].parent = s
  <2>1. CASE \A i \in W : st.req[i].parent # s
    BY <1>7, <2>1
  <2>2. CASE \E i \in W : st.req[i].parent = s
    <3>1. PICK i \in W : st.req[i].parent = s BY <2>2
    <3>2. {j \in W : st.req[j].parent = s} = {i} BY <1>8, <3>1
    <3>3. Running(r, s) = Running(st, s) \cup {i} BY <1>7, <3>2
    <3>4. i \notin Running(st, s) BY <1>0, <1>1 DEF Running, Placed
    <3>5. Load(st, s) = MaxConcurrent - 1 BY <1>1, <1>6, <3>1
    <3>6. IsFiniteSet(Running(st, s)) BY <1>0, LoadNat
    <3>7. Load(r, s) = Load(st, s) + 1 BY <3>3, <3>4, <3>6, FS_AddElement DEF Load
    <3> QED BY <1>3, <3>1, <3>5, <3>7
  <2> QED BY <2>1, <2>2
<1>10. Limit(r)
  <2> SUFFICES ASSUME NEW s \in Sessions PROVE Load(r, s) <= MaxConcurrent BY DEF Limit
  <2>1. Load(st, s) <= MaxConcurrent BY <1>0 DEF Limit
  <2> QED BY <1>9, <2>1 DEF Load
<1>11. Full(r)
  <2> SUFFICES ASSUME NEW j \in r.queued
               PROVE  Load(r, st.req[j].parent) = MaxConcurrent
    BY <1>1 DEF Full
  <2> DEFINE s == st.req[j].parent
             mine == {i \in waiting : st.req[i].parent = s}
  <2>1. j \in waiting /\ j \in st.queued /\ j \in mine BY <1>1
  <2>2. s \in Sessions /\ mine \in SUBSET Ids BY <1>2, <2>1
  <2>3. Load(st, s) \in Nat /\ Load(st, s) <= MaxConcurrent /\ Load(st, s) >= MaxConcurrent - 1
    BY <1>0, <1>3, <2>1, <2>2 DEF Limit, AlmostFull
  <2>4. CASE Load(st, s) = MaxConcurrent
    BY <1>9, <2>2, <2>4 DEF Load
  <2>5. CASE Load(st, s) = MaxConcurrent - 1
    <3>1. PICK m \in mine : \A i \in mine : st.at[m] <= st.at[i]
      BY <1>2, <2>1, <2>2, LeastStamp
    <3>2. ahead(m) = {} BY <1>2, <3>1
    <3>3. m \in W BY <1>6, <2>5, <3>1, <3>2
    <3> QED BY <1>9, <2>2, <3>1, <3>3
  <2> QED BY <2>3, <2>4, <2>5
<1>12. Placed(r) BY <1>0, <1>1 DEF Placed
<1>13. QueuedTasks(r) BY <1>0, <1>1 DEF QueuedTasks
<1>14. Stamped(r) BY <1>0, <1>1 DEF Stamped
<1> QED BY <1>1, <1>10, <1>11, <1>12, <1>13, <1>14 DEF Good, Sound

(***************************************************************************)
(* finish_child and remove_queued.                                         *)
(***************************************************************************)
LEMMA FinishIs ==
  ASSUME NEW st, NEW i, NEW rc
  PROVE  FinishChild(st, i, rc) = StartQueuedWithinCapacity(Complete(st, {i}, rc))
<1>1. {StartQueuedWithinCapacity(s) : s \in {Complete(st, {i}, rc)}}
      = {StartQueuedWithinCapacity(Complete(st, {i}, rc))}
  OBVIOUS
<1> QED BY <1>1, TheElement, Zenon DEF FinishChild

\* When a child ends, the sessions with parked spawns are full or one short.
LEMMA FinishGood ==
  ASSUME NEW st, Good(st), NEW i \in st.pending \cup st.active, NEW rc \in BOOLEAN
  PROVE  Good(FinishChild(st, i, rc))
<1> DEFINE c == Complete(st, {i}, rc)
<1> USE LimitAssumption
<1>0. st \in States /\ Placed(st) /\ Limit(st) /\ QueuedTasks(st) /\ Stamped(st) /\ Full(st)
  BY DEF Good, Sound
<1>1. {i} \in SUBSET Ids BY <1>0 DEF States
<1>2. /\ c \in States
      /\ c.queued = st.queued /\ c.pending = st.pending \ {i}
      /\ c.active = st.active \ {i} /\ c.completed = st.completed \cup {i}
      /\ c.req = st.req /\ c.clock = st.clock
      /\ \A j \in c.queued : c.at[j] = st.at[j]
  <2>1. i \notin st.queued BY <1>0 DEF Placed
  <2>2. st.queued \in SUBSET Ids BY <1>0 DEF States
  <2>3. c \in States BY <1>0, <1>1, CompleteType
  <2>4. /\ c.queued = st.queued \ {i} /\ c.pending = st.pending \ {i}
        /\ c.active = st.active \ {i} /\ c.completed = st.completed \cup {i}
        /\ c.req = st.req /\ c.clock = st.clock /\ c.at = Set(st.at, {i}, 0)
    BY <1>0, <1>1 DEF Complete, States
  <2> HIDE DEF c
  <2>5. c.queued = st.queued BY <2>1, <2>4
  <2>6. \A j \in c.queued : c.at[j] = st.at[j] BY <2>1, <2>2, <2>4, <2>5 DEF Set
  <2> QED BY <2>3, <2>4, <2>5, <2>6
<1> HIDE DEF c
<1>3. \A s : Running(c, s) = Running(st, s) \ {i} BY <1>2 DEF Running
<1>4. \A s : /\ Load(st, s) \in Nat /\ Load(c, s) \in Nat
             /\ Load(c, s) <= Load(st, s) /\ Load(c, s) >= Load(st, s) - 1
  <2> SUFFICES ASSUME NEW s
               PROVE  /\ Load(st, s) \in Nat /\ Load(c, s) \in Nat
                      /\ Load(c, s) <= Load(st, s) /\ Load(c, s) >= Load(st, s) - 1
    OBVIOUS
  <2>1. IsFiniteSet(Running(st, s)) /\ Load(st, s) \in Nat /\ Load(c, s) \in Nat
    BY <1>0, <1>2, LoadNat
  <2>2. Load(c, s) = IF i \in Running(st, s) THEN Load(st, s) - 1 ELSE Load(st, s)
    BY <1>3, <2>1, FS_RemoveElement DEF Load
  <2> QED BY <2>1, <2>2
<1>5. Limit(c) BY <1>0, <1>4 DEF Limit
<1>6. AlmostFull(c) BY <1>0, <1>2, <1>4 DEF AlmostFull, Full
<1>7. Sound(c) BY <1>0, <1>2, <1>5 DEF Sound, Placed, QueuedTasks, Stamped
<1> QED BY <1>6, <1>7, SweepFills, FinishIs DEF c

LEMMA RemoveQueuedIs ==
  ASSUME NEW st, NEW S, S # {}
  PROVE  RemoveQueued(st, S) = StartQueuedWithinCapacity(Complete(st, S, TRUE))
<1>1. {StartQueuedWithinCapacity(s) : s \in {Complete(st, S, TRUE)}}
      = {StartQueuedWithinCapacity(Complete(st, S, TRUE))}
  OBVIOUS
<1> QED BY <1>1, TheElement, Zenon DEF RemoveQueued, FinishCancelledQueued

LEMMA RemoveQueuedGood ==
  ASSUME NEW st, Good(st), NEW S \in SUBSET st.queued
  PROVE  Good(RemoveQueued(st, S))
<1> DEFINE c == Complete(st, S, TRUE)
<1> USE LimitAssumption
<1>0. st \in States /\ Placed(st) /\ Limit(st) /\ QueuedTasks(st) /\ Stamped(st) /\ Full(st)
  BY DEF Good, Sound
<1>1. S \in SUBSET Ids /\ st.queued \in SUBSET Ids BY <1>0 DEF States
<1>2. /\ c \in States
      /\ c.queued = st.queued \ S /\ c.pending = st.pending
      /\ c.active = st.active /\ c.completed = st.completed \cup S
      /\ c.req = st.req /\ c.clock = st.clock
      /\ \A j \in c.queued : c.at[j] = st.at[j]
  <2>1. st.pending \ S = st.pending /\ st.active \ S = st.active BY <1>0 DEF Placed
  <2>2. c \in States BY <1>0, <1>1, CompleteType
  <2>3. /\ c.queued = st.queued \ S /\ c.pending = st.pending \ S
        /\ c.active = st.active \ S /\ c.completed = st.completed \cup S
        /\ c.req = st.req /\ c.clock = st.clock /\ c.at = Set(st.at, S, 0)
    BY <1>0, <1>1, CompleteFields, Zenon
  <2> HIDE DEF c
  <2>4. \A j \in c.queued : c.at[j] = st.at[j] BY <1>1, <2>3 DEF Set
  <2> QED BY <2>1, <2>2, <2>3, <2>4
<1> HIDE DEF c
<1>3. \A s : Running(c, s) = Running(st, s) BY <1>2 DEF Running
<1>4. \A s : Load(c, s) = Load(st, s) BY <1>3 DEF Load
<1>5. Limit(c) BY <1>0, <1>4 DEF Limit
<1>6. AlmostFull(c) BY <1>0, <1>2, <1>4 DEF AlmostFull, Full
<1>7. Sound(c) BY <1>0, <1>2, <1>5 DEF Sound, Placed, QueuedTasks, Stamped
<1>8. CASE S = {} BY <1>8 DEF RemoveQueued
<1>9. CASE S # {} BY <1>6, <1>7, <1>9, SweepFills, RemoveQueuedIs DEF c
<1> QED BY <1>8, <1>9

(***************************************************************************)
(* Steps that leave admission alone.  A state that differs from a good one *)
(* only where admission does not look is good.                             *)
(***************************************************************************)
Alike(st, r) ==
  /\ r.queued = st.queued /\ r.pending = st.pending /\ r.active = st.active
  /\ r.completed \subseteq st.completed
  /\ \A i \in Live(st) : r.req[i].parent = st.req[i].parent /\ r.req[i].owner = st.req[i].owner
  /\ \A i \in st.queued : r.at[i] = st.at[i]
  /\ st.queued # {} => r.clock = st.clock

LEMMA AlikeGood ==
  ASSUME NEW st, Good(st), NEW r \in States, Alike(st, r)
  PROVE  Good(r)
<1>0. st \in States /\ Placed(st) /\ Limit(st) /\ QueuedTasks(st) /\ Stamped(st) /\ Full(st)
  BY DEF Good, Sound
<1>1. \A s : Running(r, s) = Running(st, s) BY DEF Alike, Running, Live
<1>2. \A s : Load(r, s) = Load(st, s) BY <1>1 DEF Load
<1>3. Limit(r) BY <1>0, <1>2 DEF Limit
<1>4. Full(r) BY <1>0, <1>2 DEF Full, Alike, Live
<1>5. Placed(r) BY <1>0 DEF Placed, Alike
<1>6. QueuedTasks(r) BY <1>0 DEF QueuedTasks, Alike, Live
<1>7. Stamped(r) BY <1>0 DEF Stamped, Alike
<1> QED BY <1>3, <1>4, <1>5, <1>6, <1>7 DEF Good, Sound

LEMMA EvictGood == ASSUME NEW st, Good(st) PROVE Good(Evict(st))
<1> DEFINE kept == {i \in st.completed : st.age[i] < CompletedCap}
           age == [i \in Ids |-> IF i \in kept THEN st.age[i] ELSE 0]
           req == [i \in Ids |-> IF i \in Live(st) THEN st.req[i] ELSE Blank]
           clock == IF st.queued = {} THEN 0 ELSE st.clock
           r == [st EXCEPT !.completed = kept, !.age = age, !.req = req, !.clock = clock]
<1>0. st \in States BY DEF Good, Sound
<1>1. kept \in SUBSET Ids /\ age \in [Ids -> Nat] /\ clock \in Nat BY <1>0 DEF States
<1>2. req \in [Ids -> Requests] BY <1>0, BlankType DEF States
<1>3. Evict(st) = r BY Zenon DEF Evict
<1>4. Live(st) \in SUBSET Ids /\ kept \subseteq st.completed BY <1>0 DEF States, Live
<1>5. \A i \in Live(st) : req[i] = st.req[i] BY <1>4
<1>6. st.queued # {} => clock = st.clock OBVIOUS
<1> HIDE DEF kept, age, req, clock
<1>7. r \in States BY <1>0, <1>1, <1>2, ZenonT(60) DEF States
<1>8. Alike(st, r) BY <1>0, <1>4, <1>5, <1>6 DEF Alike, States
<1> QED BY <1>3, <1>7, <1>8, AlikeGood

\* The updates of a single field, one fact per field.
LEMMA FieldGood ==
  ASSUME NEW st, Good(st)
  PROVE  /\ \A v \in SUBSET Ids : Good([st EXCEPT !.cancelled = v])
         /\ \A v \in SUBSET Ids : Good([st EXCEPT !.killed = v])
         /\ \A v \in SUBSET Sessions : Good([st EXCEPT !.blocked = v])
         /\ \A v \in SUBSET Clients : Good([st EXCEPT !.gone = v])
         /\ \A v \in SUBSET st.buffer : Good([st EXCEPT !.buffer = v])
         /\ \A v \in [Ids -> SUBSET Clients] : Good([st EXCEPT !.waiters = v])
         /\ Good([st EXCEPT !.report = {}])
<1>0. st \in States BY DEF Good, Sound
<1>1. ASSUME NEW v \in SUBSET Ids PROVE Good([st EXCEPT !.cancelled = v])
  <2>1. [st EXCEPT !.cancelled = v] \in States BY <1>0, Zenon DEF States
  <2>2. Alike(st, [st EXCEPT !.cancelled = v]) BY <1>0 DEF Alike, States
  <2> QED BY <2>1, <2>2, AlikeGood
<1>2. ASSUME NEW v \in SUBSET Ids PROVE Good([st EXCEPT !.killed = v])
  <2>1. [st EXCEPT !.killed = v] \in States BY <1>0, Zenon DEF States
  <2>2. Alike(st, [st EXCEPT !.killed = v]) BY <1>0 DEF Alike, States
  <2> QED BY <2>1, <2>2, AlikeGood
<1>3. ASSUME NEW v \in SUBSET Sessions PROVE Good([st EXCEPT !.blocked = v])
  <2>1. [st EXCEPT !.blocked = v] \in States BY <1>0, Zenon DEF States
  <2>2. Alike(st, [st EXCEPT !.blocked = v]) BY <1>0 DEF Alike, States
  <2> QED BY <2>1, <2>2, AlikeGood
<1>4. ASSUME NEW v \in SUBSET Clients PROVE Good([st EXCEPT !.gone = v])
  <2>1. [st EXCEPT !.gone = v] \in States BY <1>0, Zenon DEF States
  <2>2. Alike(st, [st EXCEPT !.gone = v]) BY <1>0 DEF Alike, States
  <2> QED BY <2>1, <2>2, AlikeGood
<1>5. ASSUME NEW v \in SUBSET st.buffer PROVE Good([st EXCEPT !.buffer = v])
  <2>1. v \in SUBSET [id : Ids, parent : Sessions, age : Nat, tornDown : BOOLEAN]
    BY <1>0 DEF States
  <2>2. [st EXCEPT !.buffer = v] \in States BY <1>0, <2>1, Zenon DEF States
  <2>3. Alike(st, [st EXCEPT !.buffer = v]) BY <1>0 DEF Alike, States
  <2> QED BY <2>2, <2>3, AlikeGood
<1>6. ASSUME NEW v \in [Ids -> SUBSET Clients] PROVE Good([st EXCEPT !.waiters = v])
  <2>1. [st EXCEPT !.waiters = v] \in States BY <1>0, Zenon DEF States
  <2>2. Alike(st, [st EXCEPT !.waiters = v]) BY <1>0 DEF Alike, States
  <2> QED BY <2>1, <2>2, AlikeGood
<1>7. Good([st EXCEPT !.report = {}])
  <2>1. {} \in SUBSET Reports OBVIOUS
  <2>2. [st EXCEPT !.report = {}] \in States BY <1>0, <2>1, Zenon DEF States
  <2>3. Alike(st, [st EXCEPT !.report = {}]) BY <1>0 DEF Alike, States
  <2> QED BY <2>2, <2>3, AlikeGood
<1> QED BY <1>1, <1>2, <1>3, <1>4, <1>5, <1>6, <1>7

(***************************************************************************)
(* The handlers.                                                           *)
(***************************************************************************)
LEMMA ReapGood == ASSUME NEW st, Good(st) PROVE Good(Reap(st))
<1> DEFINE abandoned == {i \in st.pending \cup st.active :
                           i \notin st.handleOnly /\ st.reply[i] = "closed"}
           tasks == {i \in abandoned : ~IsWorkflow(st, i)}
           parked == {i \in st.queued : st.reply[i] = "closed"}
           reply == Set(st.reply, abandoned \cup parked, "none")
           ho == st.handleOnly \cup tasks
           dl == st.deadline \ (tasks \cup parked)
           ca == st.cancelled \cup (abandoned \ tasks)
           r == [st EXCEPT !.reply = reply, !.handleOnly = ho, !.deadline = dl, !.cancelled = ca]
<1>0. st \in States BY DEF Good, Sound
<1>1. abandoned \in SUBSET Ids /\ parked \in SUBSET Ids /\ tasks \in SUBSET Ids
  BY <1>0 DEF States
<1>2. reply \in [Ids -> Replies] BY <1>0, <1>1, SetType DEF States, Replies
<1>3. ho \in SUBSET Ids /\ dl \in SUBSET Ids /\ ca \in SUBSET Ids BY <1>0, <1>1 DEF States
<1>4. {RemoveQueued(s, s.queued \cap s.cancelled) : s \in {r}}
      = {RemoveQueued(r, r.queued \cap r.cancelled)}
  OBVIOUS
<1>5. Reap(st) = RemoveQueued(r, r.queued \cap r.cancelled)
  BY <1>4, TheElement, Zenon DEF Reap
<1> HIDE DEF reply, ho, dl, ca
<1>6. r \in States BY <1>0, <1>2, <1>3, ZenonT(60) DEF States
<1>7. Alike(st, r) BY <1>0 DEF Alike, States
<1> HIDE DEF r
<1>8. Good(r) BY <1>6, <1>7, AlikeGood
<1>9. Good(RemoveQueued(r, r.queued \cap r.cancelled)) BY <1>8, RemoveQueuedGood
<1> QED BY <1>5, <1>9, Zenon

LEMMA ProcessDeadlinesGood ==
  ASSUME NEW st, Good(st), NEW due, NEW late
  PROVE  Good(ProcessDeadlines(st, due, late))
<1> DEFINE D == due \cap st.deadline
           reply == Set(st.reply, D, "none")
           ho == st.handleOnly \cup (D \ st.queued)
           dl == st.deadline \ D
           wa == [i \in Ids |-> st.waiters[i] \ late]
           go == st.gone \ late
           r == [st EXCEPT !.reply = reply, !.handleOnly = ho, !.deadline = dl,
                           !.waiters = wa, !.gone = go]
<1>0. st \in States BY DEF Good, Sound
<1>1. D \in SUBSET Ids BY <1>0 DEF States
<1>2. reply \in [Ids -> Replies] BY <1>0, <1>1, SetType DEF States, Replies
<1>3. /\ ho \in SUBSET Ids /\ dl \in SUBSET Ids
      /\ wa \in [Ids -> SUBSET Clients] /\ go \in SUBSET Clients
  BY <1>0, <1>1 DEF States
<1>4. ProcessDeadlines(st, due, late) = r BY Zenon DEF ProcessDeadlines
<1> HIDE DEF reply, ho, dl, wa, go
<1>5. r \in States BY <1>0, <1>2, <1>3, ZenonT(60) DEF States
<1>6. Alike(st, r) BY <1>0 DEF Alike, States
<1> QED BY <1>4, <1>5, <1>6, AlikeGood

LEMMA CancelAllGood ==
  ASSUME NEW st, Good(st), NEW S PROVE Good(CancelAll(st, S))
<1> DEFINE ca == st.cancelled \cup (S \cap (st.pending \cup st.active))
           r == [st EXCEPT !.cancelled = ca]
<1>0. st \in States BY DEF Good, Sound
<1>1. ca \in SUBSET Ids BY <1>0 DEF States
<1>2. Good(r) BY <1>1, FieldGood, Zenon
<1>3. S \cap st.queued \in SUBSET r.queued BY <1>0 DEF States
<1>4. CancelAll(st, S) = RemoveQueued(r, S \cap st.queued) BY Zenon DEF CancelAll
<1> HIDE DEF r
<1> QED BY <1>2, <1>3, <1>4, RemoveQueuedGood, Zenon

LEMMA CancelOneGood ==
  ASSUME NEW st, Good(st), NEW i, NEW scope PROVE Good(CancelOne(st, i, scope))
<1> DEFINE ki == st.killed \cup ({i} \cap (st.pending \cup st.active))
           r == [st EXCEPT !.killed = ki]
<1>0. st \in States BY DEF Good, Sound
<1>1. ki \in SUBSET Ids BY <1>0 DEF States
<1>2. Good(r) BY <1>1, FieldGood, Zenon
<1>3. CancelOne(st, i, scope) \in {CancelAll(r, {i}), st} BY Zenon DEF CancelOne
<1> HIDE DEF r
<1>4. Good(CancelAll(r, {i})) BY <1>2, CancelAllGood
<1> QED BY <1>3, <1>4

LEMMA CancelParentSessionGood ==
  ASSUME NEW st, Good(st), NEW s \in Sessions PROVE Good(CancelParentSession(st, s))
<1> DEFINE bl == st.blocked \cup {s}
           r == [st EXCEPT !.blocked = bl]
           S == {i \in Live(st) : st.req[i].parent = s /\ ~IsWorkflow(st, i)}
<1>0. st \in States BY DEF Good, Sound
<1>1. bl \in SUBSET Sessions BY <1>0 DEF States
<1>2. Good(r) BY <1>1, FieldGood, Zenon
<1>3. CancelParentSession(st, s) = CancelAll(r, S) BY Zenon DEF CancelParentSession
<1> HIDE DEF r, S
<1> QED BY <1>2, <1>3, CancelAllGood, Zenon

LEMMA CancelWorkflowRunGood ==
  ASSUME NEW st, Good(st), NEW w \in Runs, NEW c \in Clients, NEW scope
  PROVE  Good(CancelWorkflowRun(st, w, c, scope))
<1> DEFINE S == {i \in WorkflowOutstanding(st, w) : Belongs(st, i, scope)}
           ca == st.cancelled \cup S
           a == [st EXCEPT !.cancelled = ca]
           cw == [a.cancelWaiters EXCEPT ![w] = @ \cup {c}]
           r == [a EXCEPT !.cancelWaiters = cw]
<1>0. st \in States BY DEF Good, Sound
<1>1. ca \in SUBSET Ids BY <1>0 DEF States, WorkflowOutstanding
<1>2. Good(a) BY <1>1, FieldGood, Zenon
<1>3. CancelWorkflowRun(st, w, c, scope) \in {a, r} BY Zenon DEF CancelWorkflowRun
<1> HIDE DEF a
<1>4. a \in States BY <1>2 DEF Good, Sound
<1>5. cw \in [Runs -> SUBSET Clients] BY <1>4 DEF States
<1> HIDE DEF cw
<1>6. r \in States BY <1>4, <1>5, Zenon DEF States
<1>7. Alike(a, r) BY <1>4 DEF Alike, States
<1> QED BY <1>2, <1>3, <1>6, <1>7, AlikeGood

LEMMA TeardownSessionGood ==
  ASSUME NEW st, Good(st), NEW s PROVE Good(TeardownSession(st, s))
<1> DEFINE children == {i \in Live(st) : st.req[i].parent = s}
           bu == {b \in st.buffer : b.parent # s}
           bl == st.blocked \ {s}
           req == [i \in Ids |-> IF i \in children
                     THEN [st.req[i] EXCEPT !.surface = FALSE] ELSE st.req[i]]
           td == st.tornDown \cup children
           r == [st EXCEPT !.buffer = bu, !.blocked = bl, !.req = req, !.tornDown = td]
<1>0. st \in States BY DEF Good, Sound
<1>1. bu \in SUBSET [id : Ids, parent : Sessions, age : Nat, tornDown : BOOLEAN]
  BY <1>0 DEF States
<1>2. bl \in SUBSET Sessions /\ td \in SUBSET Ids BY <1>0 DEF States, Live
<1>3. req \in [Ids -> Requests]
  <2>1. \A q \in Requests : [q EXCEPT !.surface = FALSE] \in Requests BY DEF Requests
  <2>2. \A i \in Ids : st.req[i] \in Requests BY <1>0 DEF States
  <2> QED BY <2>1, <2>2, Zenon
<1>4. \A i \in Ids : req[i].parent = st.req[i].parent /\ req[i].owner = st.req[i].owner
  BY <1>0 DEF States, Requests
<1>5. Live(st) \in SUBSET Ids BY <1>0 DEF States, Live
<1>6. TeardownSession(st, s) = CancelAll(r, children) BY Zenon DEF TeardownSession
<1> HIDE DEF bu, bl, req, td, children
<1>7. r \in States BY <1>0, <1>1, <1>2, <1>3, ZenonT(60) DEF States
<1>8. Alike(st, r) BY <1>0, <1>4, <1>5 DEF Alike, States
<1>9. Good(r) BY <1>7, <1>8, AlikeGood
<1> HIDE DEF r
<1> QED BY <1>6, <1>9, CancelAllGood, Zenon

LEMMA HandleQueryGood ==
  ASSUME NEW st, Good(st), NEW c \in Clients, NEW i, NEW scope
  PROVE  Good(HandleQuery(st, c, i, scope))
<1> DEFINE wa == [st.waiters EXCEPT ![i] = @ \cup {c}]
           r == [st EXCEPT !.waiters = wa]
<1>0. st \in States BY DEF Good, Sound
<1>1. wa \in [Ids -> SUBSET Clients] BY <1>0 DEF States
<1>2. Good(r) BY <1>1, FieldGood, Zenon
<1>3. HandleQuery(st, c, i, scope) \in {r, st} BY Zenon DEF HandleQuery
<1> HIDE DEF r
<1> QED BY <1>2, <1>3

LEMMA DrainCompletionsGood ==
  ASSUME NEW st, Good(st), NEW scope PROVE Good(DrainCompletions(st, scope))
<1> DEFINE bu == {b \in st.buffer : scope # "any" /\ b.parent # scope}
<1>1. bu \in SUBSET st.buffer OBVIOUS
<1>2. DrainCompletions(st, scope) = [st EXCEPT !.buffer = bu] BY Zenon DEF DrainCompletions
<1> HIDE DEF bu
<1>3. Good([st EXCEPT !.buffer = bu]) BY <1>1, FieldGood
<1> QED BY <1>2, <1>3, Zenon

(***************************************************************************)
(* handle_spawn.                                                           *)
(***************************************************************************)
LEMMA ReparentType ==
  ASSUME NEW st \in States, NEW q \in Requests PROVE Reparent(st, q) \in Requests
<1>1. CASE q.spawner \in st.active
  <2> DEFINE o == IF q.owner = Task THEN st.req[q.spawner].owner ELSE q.owner
             p == st.req[q.spawner].parent
  <2>1. st.req[q.spawner] \in Requests BY <1>1 DEF States
  <2>2. o \in Owners /\ p \in Sessions BY <2>1 DEF Requests
  <2>3. Reparent(st, q) = [q EXCEPT !.parent = p, !.surface = FALSE, !.owner = o]
    BY <1>1, Zenon DEF Reparent
  <2> HIDE DEF o, p
  <2> QED BY <2>2, <2>3 DEF Requests
<1>2. CASE q.spawner \notin st.active BY <1>2 DEF Reparent
<1> QED BY <1>1, <1>2

LEMMA AdmitType ==
  ASSUME NEW st \in States, NEW i \in Ids, NEW q \in Requests
  PROVE  LET n == Admit(st, i, q)
         IN /\ n \in States
            /\ n.queued = st.queued /\ n.pending = st.pending /\ n.active = st.active
            /\ n.completed = st.completed /\ n.at = st.at /\ n.clock = st.clock
            /\ n.req = [st.req EXCEPT ![i] = q]
<1> DEFINE req == [st.req EXCEPT ![i] = q]
           reply == [st.reply EXCEPT ![i] = "open"]
           ho == IF q.kind = "background" THEN st.handleOnly \cup {i} ELSE st.handleOnly \ {i}
           dl == IF q.kind = "foreground" THEN st.deadline \cup {i} ELSE st.deadline \ {i}
           ro == [st.root EXCEPT ![i] = IF q.spawner \in Ids THEN st.root[q.spawner] ELSE q.spawner]
           bo == st.born \ {i}
           n == [st EXCEPT !.req = req, !.reply = reply, !.handleOnly = ho, !.deadline = dl,
                           !.root = ro, !.born = bo]
<1>1. req \in [Ids -> Requests] BY DEF States
<1>2. reply \in [Ids -> Replies] BY DEF States, Replies
<1>3. ho \in SUBSET Ids /\ dl \in SUBSET Ids /\ bo \in SUBSET Ids BY DEF States
<1>4. ro \in [Ids -> Sessions] BY DEF States, Requests, Sessions
<1>5. Admit(st, i, q) = n BY Zenon DEF Admit
<1> HIDE DEF reply, ho, dl, ro, bo, req
<1>6. n \in States BY <1>1, <1>2, <1>3, <1>4, ZenonT(60) DEF States
<1>7. /\ n.queued = st.queued /\ n.pending = st.pending /\ n.active = st.active
      /\ n.completed = st.completed /\ n.at = st.at /\ n.clock = st.clock
      /\ n.req = req
  BY DEF States
<1> QED BY <1>5, <1>6, <1>7, Zenon DEF req

\* A spawn is started in a session that has a free slot, and no parked spawn
\* waits for such a session.
LEMMA DirectStartGood ==
  ASSUME NEW st, Good(st), NEW i \in Ids, ~Known(st, i), NEW q \in Requests,
         q.owner # Task \/ Load(st, q.parent) < MaxConcurrent,
         NEW r \in States,
         r.queued = st.queued, r.pending = st.pending \cup {i}, r.active = st.active,
         r.completed = st.completed, r.at = st.at, r.clock = st.clock,
         r.req = [st.req EXCEPT ![i] = q]
  PROVE  Good(r)
<1> USE LimitAssumption
<1>0. st \in States /\ Placed(st) /\ Limit(st) /\ QueuedTasks(st) /\ Stamped(st) /\ Full(st)
  BY DEF Good, Sound
<1>1. i \notin Live(st) /\ i \notin st.completed /\ Live(st) \in SUBSET Ids
  BY <1>0 DEF Known, Live, States
<1>2. r.req[i] = q /\ \A j \in Live(st) : r.req[j] = st.req[j] BY <1>0, <1>1 DEF States
<1>3. ASSUME NEW s, ~(q.parent = s /\ q.owner = Task) PROVE Load(r, s) = Load(st, s)
  <2>1. Running(r, s) = Running(st, s) BY <1>1, <1>2, <1>3 DEF Running, Live
  <2> QED BY <2>1 DEF Load
<1>4. ASSUME q.owner = Task PROVE Load(r, q.parent) = Load(st, q.parent) + 1
  <2>1. Running(r, q.parent) = Running(st, q.parent) \cup {i}
    BY <1>1, <1>2, <1>4 DEF Running, Live
  <2>2. i \notin Running(st, q.parent) /\ IsFiniteSet(Running(st, q.parent))
    BY <1>0, <1>1, LoadNat DEF Running, Live
  <2> QED BY <2>1, <2>2, FS_AddElement DEF Load
<1>5. Limit(r)
  <2> SUFFICES ASSUME NEW s \in Sessions PROVE Load(r, s) <= MaxConcurrent BY DEF Limit
  <2>1. Load(st, s) <= MaxConcurrent /\ Load(st, s) \in Nat BY <1>0, LoadNat DEF Limit
  <2>2. CASE q.parent = s /\ q.owner = Task BY <1>4, <2>1, <2>2
  <2>3. CASE ~(q.parent = s /\ q.owner = Task) BY <1>3, <2>1, <2>3
  <2> QED BY <2>2, <2>3
<1>6. Full(r)
  <2> SUFFICES ASSUME NEW j \in st.queued
               PROVE  Load(r, st.req[j].parent) = MaxConcurrent
    BY <1>2 DEF Full, Live
  <2>1. Load(st, st.req[j].parent) = MaxConcurrent BY <1>0 DEF Full
  <2>2. ~(q.parent = st.req[j].parent /\ q.owner = Task) BY <2>1
  <2> QED BY <1>3, <2>1, <2>2
<1>7. Placed(r) BY <1>0, <1>1 DEF Placed, Live
<1>8. QueuedTasks(r) BY <1>0, <1>2 DEF QueuedTasks, Live
<1>9. Stamped(r) BY <1>0 DEF Stamped
<1> QED BY <1>5, <1>6, <1>7, <1>8, <1>9 DEF Good, Sound

\* A spawn that is parked gets a stamp above all others and waits for a session
\* that is full.
LEMMA ParkGood ==
  ASSUME NEW st, Good(st), NEW i \in Ids, ~Known(st, i), NEW q \in Requests,
         q.owner = Task, ~(Load(st, q.parent) < MaxConcurrent),
         NEW r \in States,
         r.queued = st.queued \cup {i}, r.pending = st.pending, r.active = st.active,
         r.completed = st.completed, r.at = [st.at EXCEPT ![i] = st.clock + 1],
         r.clock = st.clock + 1, r.req = [st.req EXCEPT ![i] = q]
  PROVE  Good(r)
<1> USE LimitAssumption
<1>0. st \in States /\ Placed(st) /\ Limit(st) /\ QueuedTasks(st) /\ Stamped(st) /\ Full(st)
  BY DEF Good, Sound
<1>1. i \notin Live(st) /\ i \notin st.completed /\ Live(st) \in SUBSET Ids
  BY <1>0 DEF Known, Live, States
<1>2. r.req[i] = q /\ \A j \in Live(st) : r.req[j] = st.req[j] BY <1>0, <1>1 DEF States
<1>3. \A s : Running(r, s) = Running(st, s) BY <1>1, <1>2 DEF Running, Live
<1>4. \A s : Load(r, s) = Load(st, s) BY <1>3 DEF Load
<1>5. Limit(r) BY <1>0, <1>4 DEF Limit
<1>6. Load(st, q.parent) = MaxConcurrent
  <2>1. q.parent \in Sessions BY DEF Requests
  <2>2. Load(st, q.parent) <= MaxConcurrent /\ Load(st, q.parent) \in Nat
    BY <1>0, <2>1, LoadNat DEF Limit
  <2> QED BY <2>2
<1>7. Full(r) BY <1>0, <1>2, <1>4, <1>6 DEF Full, Live
<1>8. Placed(r) BY <1>0, <1>1 DEF Placed, Live
<1>9. QueuedTasks(r) BY <1>0, <1>2 DEF QueuedTasks, Live
<1>10. Stamped(r)
  <2>1. st.clock \in Nat /\ st.at \in [Ids -> Nat] /\ st.queued \in SUBSET Ids BY <1>0 DEF States
  <2>2. r.at[i] = st.clock + 1 /\ \A j \in st.queued : r.at[j] = st.at[j] /\ st.at[j] \in Nat
    BY <1>1, <2>1 DEF Live
  <2>3. \A j \in st.queued : st.at[j] <= st.clock BY <1>0 DEF Stamped
  <2> QED BY <1>0, <2>1, <2>2, <2>3 DEF Stamped
<1> QED BY <1>5, <1>7, <1>8, <1>9, <1>10 DEF Good, Sound

\* A spawn that the limit rejects is recorded as completed; it frees no slot.
LEMMA RejectGood ==
  ASSUME NEW st, Good(st), NEW i \in Ids, ~Known(st, i), NEW q \in Requests,
         NEW m \in States,
         m.queued = st.queued, m.pending = st.pending \cup {i}, m.active = st.active,
         m.completed = st.completed, m.at = st.at, m.clock = st.clock,
         m.req = [st.req EXCEPT ![i] = q]
  PROVE  Good(FinishChild(m, i, FALSE))
<1> DEFINE c == Complete(m, {i}, FALSE)
<1> USE LimitAssumption
<1>0. st \in States /\ Placed(st) /\ Limit(st) /\ QueuedTasks(st) /\ Stamped(st) /\ Full(st)
  BY DEF Good, Sound
<1>1. i \notin Live(st) /\ i \notin st.completed /\ Live(st) \in SUBSET Ids
  BY <1>0 DEF Known, Live, States
<1>2. {i} \in SUBSET Ids /\ FALSE \in BOOLEAN OBVIOUS
<1>3. c \in States BY <1>2, CompleteType
<1>4. /\ c.queued = m.queued \ {i} /\ c.pending = m.pending \ {i}
      /\ c.active = m.active \ {i} /\ c.completed = m.completed \cup {i}
      /\ c.req = m.req /\ c.clock = m.clock /\ c.at = Set(m.at, {i}, 0)
  BY <1>2 DEF Complete, States
<1> HIDE DEF c
<1>5. /\ c.queued = st.queued /\ c.pending = st.pending /\ c.active = st.active
      /\ c.completed = st.completed \cup {i} /\ c.clock = st.clock
  BY <1>1, <1>4 DEF Live
<1>6. \A j \in st.queued : c.at[j] = st.at[j] BY <1>1, <1>4 DEF Set, Live
<1>7. \A j \in Live(st) : c.req[j] = st.req[j] BY <1>0, <1>1, <1>4 DEF States
<1>8. \A s : Running(c, s) = Running(st, s) BY <1>5, <1>7 DEF Running, Live
<1>9. \A s : Load(c, s) = Load(st, s) BY <1>8 DEF Load
<1>10. Limit(c) BY <1>0, <1>9 DEF Limit
<1>11. AlmostFull(c) BY <1>0, <1>5, <1>7, <1>9 DEF AlmostFull, Full, Live
<1>12. Placed(c) BY <1>0, <1>1, <1>5 DEF Placed, Live
<1>13. QueuedTasks(c) BY <1>0, <1>5, <1>7 DEF QueuedTasks, Live
<1>14. Stamped(c) BY <1>0, <1>5, <1>6 DEF Stamped
<1>15. Sound(c) BY <1>3, <1>10, <1>12, <1>13, <1>14 DEF Sound
<1> QED BY <1>11, <1>15, SweepFills, FinishIs DEF c

LEMMA HandleSpawnGood ==
  ASSUME NEW st, Good(st), NEW i \in Ids, NEW request \in Requests
  PROVE  Good(HandleSpawn(st, i, request))
<1> DEFINE q == Reparent(st, request)
           new == Admit(st, i, q)
           started == [new EXCEPT !.pending = @ \cup {i}]
           parked == [new EXCEPT !.queued = @ \cup {i}, !.at[i] = st.clock + 1, !.clock = @ + 1]
           refused == [new EXCEPT !.pending = @ \cup {i}, !.deadline = @ \ {i}]
<1>0. st \in States BY DEF Good, Sound
<1>1. q \in Requests BY <1>0, ReparentType
<1>2. HandleSpawn(st, i, request) =
        IF Refused(st, i, request) THEN st
        ELSE IF q.owner # Task \/ Load(st, q.parent) < MaxConcurrent THEN started
        ELSE IF QueueAtLimit THEN parked ELSE FinishChild(refused, i, FALSE)
  BY Zenon DEF HandleSpawn, HasCapacity, Load
<1>3. ~Refused(st, i, request) => ~Known(st, i) BY DEF Refused
<1> HIDE DEF q
<1>4. /\ new \in States
      /\ new.queued = st.queued /\ new.pending = st.pending /\ new.active = st.active
      /\ new.completed = st.completed /\ new.at = st.at /\ new.clock = st.clock
      /\ new.req = [st.req EXCEPT ![i] = q]
  BY <1>0, <1>1, AdmitType
<1> HIDE DEF new
<1>5. CASE Refused(st, i, request) BY <1>2, <1>5
<1>6. CASE ~Refused(st, i, request) /\ (q.owner # Task \/ Load(st, q.parent) < MaxConcurrent)
  <2> DEFINE p == new.pending \cup {i}
  <2>1. p \in SUBSET Ids BY <1>4 DEF States
  <2>2. started = [new EXCEPT !.pending = p] BY Zenon
  <2> HIDE DEF p
  <2>3. [new EXCEPT !.pending = p] \in States BY <1>4, <2>1, Zenon DEF States
  <2>4. started \in States BY <2>2, <2>3, Zenon
  <2>5. /\ started.queued = st.queued /\ started.pending = st.pending \cup {i}
        /\ started.active = st.active /\ started.completed = st.completed
        /\ started.at = st.at /\ started.clock = st.clock
        /\ started.req = [st.req EXCEPT ![i] = q]
    BY <1>4 DEF States
  <2> HIDE DEF started
  <2>6. Good(started) BY <1>1, <1>3, <1>6, <2>4, <2>5, DirectStartGood
  <2> QED BY <1>2, <1>6, <2>6
<1>7. CASE /\ ~Refused(st, i, request) /\ QueueAtLimit
           /\ ~(q.owner # Task \/ Load(st, q.parent) < MaxConcurrent)
  <2> DEFINE qu == new.queued \cup {i}
             at == [new.at EXCEPT ![i] = st.clock + 1]
             cl == new.clock + 1
  <2>1. qu \in SUBSET Ids /\ at \in [Ids -> Nat] /\ cl \in Nat BY <1>0, <1>4 DEF States
  <2>2. parked = [new EXCEPT !.queued = qu, !.at = at, !.clock = cl] BY Zenon
  <2> HIDE DEF qu, at, cl
  <2>3. [new EXCEPT !.queued = qu, !.at = at, !.clock = cl] \in States
    BY <1>4, <2>1, Zenon DEF States
  <2>4. parked \in States BY <2>2, <2>3, Zenon
  <2>5. /\ parked.queued = st.queued \cup {i} /\ parked.pending = st.pending
        /\ parked.active = st.active /\ parked.completed = st.completed
        /\ parked.at = [st.at EXCEPT ![i] = st.clock + 1] /\ parked.clock = st.clock + 1
        /\ parked.req = [st.req EXCEPT ![i] = q]
    BY <1>4 DEF States
  <2> HIDE DEF parked
  <2>6. q.owner = Task /\ ~(Load(st, q.parent) < MaxConcurrent) BY <1>7
  <2>7. Good(parked) BY <1>1, <1>3, <1>7, <2>4, <2>5, <2>6, ParkGood
  <2> QED BY <1>2, <1>7, <2>7
<1>8. CASE /\ ~Refused(st, i, request) /\ ~QueueAtLimit
           /\ ~(q.owner # Task \/ Load(st, q.parent) < MaxConcurrent)
  <2> DEFINE p == new.pending \cup {i}
             dl == new.deadline \ {i}
  <2>1. p \in SUBSET Ids /\ dl \in SUBSET Ids BY <1>4 DEF States
  <2>2. refused = [new EXCEPT !.pending = p, !.deadline = dl] BY Zenon
  <2> HIDE DEF p, dl
  <2>3. [new EXCEPT !.pending = p, !.deadline = dl] \in States BY <1>4, <2>1, Zenon DEF States
  <2>4. refused \in States BY <2>2, <2>3, Zenon
  <2>5. /\ refused.queued = st.queued /\ refused.pending = st.pending \cup {i}
        /\ refused.active = st.active /\ refused.completed = st.completed
        /\ refused.at = st.at /\ refused.clock = st.clock
        /\ refused.req = [st.req EXCEPT ![i] = q]
    BY <1>4 DEF States
  <2> HIDE DEF refused
  <2>6. Good(FinishChild(refused, i, FALSE)) BY <1>1, <1>3, <1>8, <2>4, <2>5, RejectGood
  <2> QED BY <1>2, <1>8, <2>6
<1> QED BY <1>5, <1>6, <1>7, <1>8

(***************************************************************************)
(* Steps of the actor and of the parties around it.                        *)
(***************************************************************************)
LEMMA InitStateGood == Good(InitState)
<1> DEFINE req == [i \in Ids |-> Blank]      reply == [i \in Ids |-> "none"]
           zero == [i \in Ids |-> 0]         wa == [i \in Ids |-> {}]
           cw == [r \in Runs |-> {}]         ro == [i \in Ids |-> Blank.parent]
<1>1. req \in [Ids -> Requests] BY BlankType
<1>2. ro \in [Ids -> Sessions] BY BlankType DEF Requests
<1>3. /\ reply \in [Ids -> Replies] /\ zero \in [Ids -> Nat] /\ 0 \in Nat
      /\ wa \in [Ids -> SUBSET Clients] /\ cw \in [Runs -> SUBSET Clients]
      /\ "running" \in {"running", "closed", "exited", "dropped"}
  BY DEF Replies
<1>4. InitState \in States
  <2>1. InitState =
        [queued |-> {}, pending |-> {}, active |-> {}, completed |-> {},
         req |-> req, reply |-> reply,
         handleOnly |-> {}, deadline |-> {}, killed |-> {}, cancelled |-> {},
         at |-> zero, clock |-> 0, age |-> zero,
         waiters |-> wa, cancelWaiters |-> cw,
         gone |-> {}, blocked |-> {}, buffer |-> {}, mode |-> "running",
         report |-> {}, born |-> {}, root |-> ro,
         tornDown |-> {}]
    BY Zenon DEF InitState
  <2> HIDE DEF req, reply, zero, wa, cw, ro
  <2> QED BY <1>1, <1>2, <1>3, <2>1, SMT DEF States
<1>5. /\ InitState.queued = {} /\ InitState.pending = {} /\ InitState.active = {}
      /\ InitState.completed = {}
  BY DEF InitState
<1> HIDE DEF InitState
<1>6. \A s : Running(InitState, s) = {} BY <1>5 DEF Running
<1>7. \A s : Load(InitState, s) = 0 BY <1>6, FS_EmptySet DEF Load
<1>8. Limit(InitState) BY <1>7, LimitAssumption DEF Limit
<1> QED BY <1>4, <1>5, <1>8 DEF Good, Sound, Placed, QueuedTasks, Stamped, Full

LEMMA CommandGood ==
  ASSUME IInv, CommandStep PROVE IInv'
<1> DEFINE f == Reap(fresh)
<1>1. Good(fresh) BY FieldGood, Zenon DEF IInv, fresh
<1>2. Good(f) BY <1>1, ReapGood
<1>3. f \in States BY <1>2 DEF Good, Sound
<1> SUFFICES ASSUME NEW st, Good(st), co' = Evict(st) PROVE Good(co')
  <2>1. SUFFICES \E st : Good(st) /\ co' = Evict(st) BY <2>1 DEF IInv
  <2> HIDE DEF f
  <2>2. Reaped = {f} BY Zenon DEF Reaped, f
  <2>3. ASSUME NEW i \in Ids, NEW from \in Sessions, NEW kind \in Kinds, NEW owner \in Owners,
               NEW p \in Prompts, Spawn(i, from, kind, owner, p)
        PROVE  \E st : Good(st) /\ co' = Evict(st)
    <3> DEFINE request == [parent |-> from, spawner |-> from, owner |-> owner, kind |-> kind,
                           prompt |-> p, surface |-> kind # "workflow"]
    <3>1. request \in Requests BY KindsAssumption DEF Requests
    <3>2. Good(HandleSpawn(f, i, request)) BY <1>2, <3>1, HandleSpawnGood
    <3>3. co' = Evict(HandleSpawn(f, i, request)) BY <2>2, <2>3, Zenon DEF Spawn, Command
    <3> QED BY <3>2, <3>3, Zenon
  <2>4. ASSUME NEW c \in Clients, NEW i \in Ids, NEW scope \in Scopes, Query(c, i, scope)
        PROVE  \E st : Good(st) /\ co' = Evict(st)
    <3>1. Good(HandleQuery(f, c, i, scope)) BY <1>2, HandleQueryGood
    <3>2. co' = Evict(HandleQuery(f, c, i, scope)) BY <2>2, <2>4, Zenon DEF Query, Command
    <3> QED BY <3>1, <3>2, Zenon
  <2>5. ASSUME NEW i \in Ids, NEW scope \in Scopes, Cancel(i, scope)
        PROVE  \E st : Good(st) /\ co' = Evict(st)
    <3>1. Good(CancelOne(f, i, scope)) BY <1>2, CancelOneGood
    <3>2. co' = Evict(CancelOne(f, i, scope)) BY <2>2, <2>5, Zenon DEF Cancel, Command
    <3> QED BY <3>1, <3>2, Zenon
  <2>6. ASSUME NEW p \in Prompts, NEW scope \in Scopes, CancelPrompt(p, scope)
        PROVE  \E st : Good(st) /\ co' = Evict(st)
    <3>1. Good(CancelParentPrompt(f, p, scope)) BY <1>2, CancelAllGood DEF CancelParentPrompt
    <3>2. co' = Evict(CancelParentPrompt(f, p, scope))
      BY <2>2, <2>6, Zenon DEF CancelPrompt, Command
    <3> QED BY <3>1, <3>2, Zenon
  <2>7. ASSUME NEW s \in Sessions, Stop(s)
        PROVE  \E st : Good(st) /\ co' = Evict(st)
    <3>1. Good(CancelParentSession(f, s)) BY <1>2, CancelParentSessionGood
    <3>2. co' = Evict(CancelParentSession(f, s)) BY <2>2, <2>7, Zenon DEF Stop, Command
    <3> QED BY <3>1, <3>2, Zenon
  <2>8. ASSUME NEW s \in Roots, Teardown(s)
        PROVE  \E st : Good(st) /\ co' = Evict(st)
    <3>1. Good(TeardownSession(f, s)) BY <1>2, TeardownSessionGood
    <3>2. co' = Evict(TeardownSession(f, s)) BY <2>2, <2>8, Zenon DEF Teardown, Command
    <3> QED BY <3>1, <3>2, Zenon
  <2>9. ASSUME NEW s \in Sessions, OpenSpawnAdmission(s)
        PROVE  \E st : Good(st) /\ co' = Evict(st)
    <3>1. f.blocked \ {s} \in SUBSET Sessions BY <1>3 DEF States
    <3>2. Good([f EXCEPT !.blocked = f.blocked \ {s}]) BY <1>2, <3>1, FieldGood
    <3>3. co' = Evict([f EXCEPT !.blocked = f.blocked \ {s}])
      BY <2>2, <2>9, Zenon DEF OpenSpawnAdmission, Command
    <3> QED BY <3>2, <3>3, Zenon
  <2>10. ASSUME NEW w \in Runs, NEW c \in Clients, NEW scope \in Scopes, CancelRun(w, c, scope)
         PROVE  \E st : Good(st) /\ co' = Evict(st)
    <3>1. Good(CancelWorkflowRun(f, w, c, scope)) BY <1>2, CancelWorkflowRunGood
    <3>2. co' = Evict(CancelWorkflowRun(f, w, c, scope))
      BY <2>2, <2>10, Zenon DEF CancelRun, Command
    <3> QED BY <3>1, <3>2, Zenon
  <2>11. ASSUME NEW scope \in Scopes, Completions(scope)
         PROVE  \E st : Good(st) /\ co' = Evict(st)
    <3>1. Good(DrainCompletions(f, scope)) BY <1>2, DrainCompletionsGood
    <3>2. co' = Evict(DrainCompletions(f, scope)) BY <2>2, <2>11, Zenon DEF Completions, Command
    <3> QED BY <3>1, <3>2, Zenon
  <2>12. ASSUME Read PROVE \E st : Good(st) /\ co' = Evict(st)
    BY <1>2, <2>2, <2>12, Zenon DEF Read, Command
  <2> QED BY <2>3, <2>4, <2>5, <2>6, <2>7, <2>8, <2>9, <2>10, <2>11, <2>12, Zenon DEF CommandStep
<1> QED BY EvictGood

LEMMA OtherGood ==
  ASSUME IInv, Next, ~CommandStep PROVE IInv'
<1>0. Good(fresh) BY FieldGood, Zenon DEF IInv, fresh
<1>1. /\ co \in States /\ fresh \in States
      /\ Placed(fresh) /\ Limit(fresh) /\ QueuedTasks(fresh) /\ Stamped(fresh) /\ Full(fresh)
  BY <1>0 DEF IInv, Good, Sound
<1>2. /\ fresh.pending = co.pending /\ fresh.active = co.active /\ fresh.queued = co.queued
      /\ fresh.cancelled = co.cancelled /\ fresh.gone = co.gone /\ fresh.reply = co.reply
      /\ fresh.born = co.born /\ fresh.completed = co.completed
  BY <1>1 DEF fresh, States
<1>3. ASSUME NEW i \in Ids, Started(i) PROVE IInv'
  <2> DEFINE p == fresh.pending \ {i}  a == fresh.active \cup {i}  b == fresh.born \cup {i}
             r == [fresh EXCEPT !.pending = p, !.active = a, !.born = b]
  <2>1. p \in SUBSET Ids /\ a \in SUBSET Ids /\ b \in SUBSET Ids BY <1>1 DEF States
  <2>2. co' = r /\ i \in fresh.pending BY <1>2, <1>3, Zenon DEF Started
  <2> HIDE DEF p, a, b
  <2>3. r \in States BY <1>1, <2>1, ZenonT(60) DEF States
  <2>4. /\ r.pending = p /\ r.active = a /\ r.queued = fresh.queued /\ r.completed = fresh.completed
        /\ r.req = fresh.req /\ r.at = fresh.at /\ r.clock = fresh.clock
    BY <1>1 DEF States
  <2> HIDE DEF r
  <2>5. r.pending \cup r.active = fresh.pending \cup fresh.active BY <2>2, <2>4 DEF p, a
  <2>6. \A s : Running(r, s) = Running(fresh, s) BY <2>4, <2>5 DEF Running
  <2>7. \A s : Load(r, s) = Load(fresh, s) BY <2>6 DEF Load
  <2>8. Limit(r) /\ Full(r) BY <1>1, <2>4, <2>7 DEF Limit, Full
  <2>9. Placed(r) BY <1>1, <2>2, <2>4 DEF Placed, p, a
  <2>10. QueuedTasks(r) /\ Stamped(r) BY <1>1, <2>4 DEF QueuedTasks, Stamped
  <2>11. Good(r) BY <2>3, <2>8, <2>9, <2>10 DEF Good, Sound
  <2> QED BY <2>2, <2>11 DEF IInv
<1>4. ASSUME NEW i \in Ids, CancelToken(i) PROVE IInv'
  <2>1. fresh.cancelled \cup {i} \in SUBSET Ids BY <1>1 DEF States
  <2>2. Good([fresh EXCEPT !.cancelled = fresh.cancelled \cup {i}]) BY <1>0, <2>1, FieldGood
  <2>3. co' = [fresh EXCEPT !.cancelled = fresh.cancelled \cup {i}]
    BY <1>4, Zenon DEF CancelToken
  <2> QED BY <2>2, <2>3, Zenon DEF IInv
<1>5. ASSUME NEW i \in Ids, DropCaller(i) PROVE IInv'
  <2> DEFINE rp == [fresh.reply EXCEPT ![i] = "closed"]
             ca == IF co.req[i].kind = "workflow" THEN fresh.cancelled \cup {i} ELSE fresh.cancelled
             r == [fresh EXCEPT !.reply = rp, !.cancelled = ca]
  <2>1. rp \in [Ids -> Replies] BY <1>1 DEF States, Replies
  <2>2. ca \in SUBSET Ids BY <1>1 DEF States
  <2>3. co' = r BY <1>5, Zenon DEF DropCaller
  <2> HIDE DEF rp, ca
  <2>4. r \in States BY <1>1, <2>1, <2>2, Zenon DEF States
  <2>5. Alike(fresh, r) BY <1>1 DEF Alike, States
  <2>6. Good(r) BY <1>0, <2>4, <2>5, AlikeGood
  <2> QED BY <2>3, <2>6, Zenon DEF IInv
<1>6. ASSUME NEW i \in Ids, NEW rc \in BOOLEAN, Finish(i, rc) PROVE IInv'
  <2>1. i \in fresh.pending \cup fresh.active BY <1>2, <1>6 DEF Finish
  <2>2. Good(FinishChild(fresh, i, rc)) BY <1>0, <2>1, FinishGood
  <2>3. co' = Evict(FinishChild(fresh, i, rc)) BY <1>6, Zenon DEF Finish
  <2> QED BY <2>2, <2>3, EvictGood, Zenon DEF IInv
<1>7. ASSUME NEW due, NEW late, Deadlines(due, late) PROVE IInv'
  <2> DEFINE f == Reap(fresh)
  <2>1. Good(f) BY <1>0, ReapGood
  <2>2. co' = Evict(ProcessDeadlines(f, due, late)) BY <1>7, Zenon DEF Deadlines, Reaped
  <2> HIDE DEF f
  <2>3. Good(ProcessDeadlines(f, due, late)) BY <2>1, ProcessDeadlinesGood
  <2> QED BY <2>2, <2>3, EvictGood, Zenon DEF IInv
<1>8. ASSUME NEW c \in Clients, DropClient(c) PROVE IInv'
  <2>1. fresh.gone \cup {c} \in SUBSET Clients BY <1>1 DEF States
  <2>2. Good([fresh EXCEPT !.gone = fresh.gone \cup {c}]) BY <1>0, <2>1, FieldGood
  <2>3. co' = [fresh EXCEPT !.gone = fresh.gone \cup {c}] BY <1>8, Zenon DEF DropClient
  <2> QED BY <2>2, <2>3, Zenon DEF IInv
<1>9. ASSUME CloseCommands \/ Exit PROVE IInv'
  <2>1. PICK m \in {"closed", "exited"} : co' = [fresh EXCEPT !.mode = m]
    BY <1>9, Zenon DEF CloseCommands, Exit
  <2> DEFINE r == [fresh EXCEPT !.mode = m]
  <2>2. m \in {"running", "closed", "exited", "dropped"} OBVIOUS
  <2>3. r \in States BY <1>1, <2>2, Zenon DEF States
  <2>4. Alike(fresh, r) BY <1>1 DEF Alike, States
  <2>5. Good(r) BY <1>0, <2>3, <2>4, AlikeGood
  <2> QED BY <2>1, <2>5, Zenon DEF IInv
<1>10. ASSUME Drop PROVE IInv'
  <2> DEFINE ca == co.cancelled \cup Live(co)
             m == "dropped"
             r == [InitState EXCEPT !.mode = m, !.cancelled = ca]
  <2>1. ca \in SUBSET Ids /\ m \in {"running", "closed", "exited", "dropped"}
    BY <1>1 DEF States, Live
  <2>2. co' = r BY <1>10, Zenon DEF Drop
  <2> HIDE DEF ca, m
  <2>3. Good(InitState) BY InitStateGood
  <2>4. InitState \in States BY <2>3 DEF Good, Sound
  <2>5. r \in States BY <2>1, <2>4, Zenon DEF States
  <2>6. Alike(InitState, r) BY <2>4 DEF Alike, States
  <2>7. Good(r) BY <2>3, <2>5, <2>6, AlikeGood
  <2> QED BY <2>2, <2>7, Zenon DEF IInv
<1>11. ASSUME Ended PROVE IInv' BY <1>11 DEF Ended, vars, IInv
<1> QED BY <1>3, <1>4, <1>5, <1>6, <1>7, <1>8, <1>9, <1>10, <1>11, Zenon DEF Next

\* Every state the coordinator reaches is well typed, keeps an id in one place,
\* respects every session's limit, parks task-owned spawns only, stamps them in
\* the order of their arrival and parks them only while their session is full.
THEOREM AdmissionInvariant == Spec => []IInv
<1>1. IInv /\ [Next]_vars => IInv'
  <2> SUFFICES ASSUME IInv, [Next]_vars PROVE IInv' OBVIOUS
  <2>1. CASE CommandStep BY <2>1, CommandGood
  <2>2. CASE Next /\ ~CommandStep BY <2>2, OtherGood
  <2>3. CASE UNCHANGED vars BY <2>3 DEF vars, IInv
  <2> QED BY <2>1, <2>2, <2>3
<1>2. Init => IInv BY InitStateGood DEF Init, IInv
<1> QED BY <1>1, <1>2, PTL DEF Spec

\* The maps of the coordinator keep their types.
THEOREM TypeCorrect == Spec => []TypeOK
<1>1. IInv => TypeOK BY DEF IInv, Good, Sound, TypeOK
<1> QED BY <1>1, AdmissionInvariant, PTL

\* A subagent id is in at most one of the four maps: the duplicate check and the
\* moves between the maps never leave two records of one id.
THEOREM IdInOnePlace == Spec => []OnePlace
<1>1. IInv => OnePlace BY DEF IInv, Good, Sound, Placed, OnePlace
<1> QED BY <1>1, AdmissionInvariant, PTL

\* No session runs more task-owned children than its limit, for every limit and
\* every number of spawns and sessions, with queueing and with rejection.
THEOREM LimitRespected == Spec => []SessionLimit
<1>1. IInv => SessionLimit BY DEF IInv, Good, Sound, Limit, Load, SessionLimit
<1> QED BY <1>1, AdmissionInvariant, PTL

\* "queued non-empty means some session is at capacity" (coordinator.rs:135): no
\* parked spawn is left behind by a slot that was freed.
THEOREM NoSlotLost == Spec => []QueuedAtCapacity
<1>1. IInv => QueuedAtCapacity
  BY DEF IInv, Good, Sound, QueuedTasks, Full, Load, QueuedAtCapacity
<1> QED BY <1>1, AdmissionInvariant, PTL
=============================================================================
