---------------------------- MODULE SchedulerProofs ----------------------------
(***************************************************************************)
(* What Scheduler guarantees for any tasks, any number of loop iterations  *)
(* and any bound of the writer's queue: types, fresh reservations, versions*)
(* that advance, final deletes, one iteration of a loop at a time and      *)
(* transcripts of one prompt.                                              *)
(***************************************************************************)
EXTENDS Scheduler, SequenceTheorems, FiniteSetTheorems, TLAPS

-----------------------------------------------------------------------------
(***************************************************************************)
(* The inductive invariant, by what it is about.                           *)
(***************************************************************************)
IdsIn(s) == {s[k].id : k \in DOMAIN s}

Unique(s) == \A k, l \in DOMAIN s : s[k].id = s[l].id => k = l

Listings == {s \in Seq(TaskRecords) : Unique(s)}

Entries == [snapshot : Listings, flush : BOOLEAN, mine : BOOLEAN]

RunRecords == [task : Ids, state : {"sent", "live", "ok", "failed", "gone"},
               brood : {"none", "marked", "stray", "over"}, error : BOOLEAN, watch : BOOLEAN,
               prompt : BOOLEAN, from : 0..MaxRuns]

RunMessages == [kind : {"query", "spawn", "nest"}, run : 1..MaxRuns]
UnitMessages == [kind : {"unit"}, task : Ids]
Messages == RunMessages \cup UnitMessages

\* Every list of tasks there is: in memory, in the file, on its way to it.
Snapshots == {tasks, disk} \cup draft \cup {queue[k].snapshot : k \in DOMAIN queue}

Removing == at \in {"save", "tombstone"}
Looping  == at \in {"query", "unit"}
Expiry   == Removing /\ job.kind = "expiry"

PlainTypes ==
  /\ due \in SUBSET Ids /\ expired \in SUBSET Ids /\ fresh \in SUBSET Ids /\ blocked \in SUBSET Ids
  /\ shown \in SUBSET Ids /\ deleted \in SUBSET Ids
  /\ clock \in Versions /\ pending \in Removals \cup {Nothing}
  /\ stopping \in BOOLEAN /\ target \in BOOLEAN /\ hub \in BOOLEAN
  /\ at \in {"idle", "save", "tombstone", "query", "unit", "stopped"}

JobTypes ==
  /\ at \in {"idle", "stopped"} => job = Nothing
  /\ Removing => job \in DeleteJobs \cup ExpiryJobs
  /\ Looping => job \in LoopJobs
  /\ at = "tombstone" => job.answer = "saved"
  /\ at = "query" => job.held.anchor # 0 /\ job.answer \in {"wait", "lost", "running", "none", "ok", "failed"}
  /\ at = "unit" => job.answer \in {"wait", "lost", "active", "inactive"}

ListTypes == queue \in Seq(Entries) /\ Snapshots \subseteq Listings

\* A handler that waits for the writer has one entry in its queue.
MineInv ==
  /\ \A k \in DOMAIN queue : queue[k].mine => queue[k].flush /\ at = "save" /\ job.answer = "wait"
  /\ \A k, l \in DOMAIN queue : queue[k].mine /\ queue[l].mine => k = l

RunTypes ==
  /\ runs \in Seq(RunRecords) /\ Len(runs) <= MaxRuns
  /\ \A n \in DOMAIN runs :
       /\ runs[n].from < n
       /\ runs[n].watch => runs[n].error
       /\ Running(n) => ~runs[n].error
  /\ Looping => Len(runs) < MaxRuns

ChanTypes ==
  /\ chan \in Seq(Messages)
  /\ \A k \in DOMAIN chan : chan[k].kind # "unit" => chan[k].run \in DOMAIN runs

\* A handler that waits for the coordinator has one question in its channel,
\* and nothing is spawned behind the question.
AskInv ==
  /\ \A k \in DOMAIN chan :
       /\ chan[k].kind = "query" => at = "query" /\ job.answer = "wait" /\ chan[k].run = job.held.anchor
       /\ chan[k].kind = "unit" => at = "unit" /\ job.answer = "wait" /\ chan[k].task = job.held.id
  /\ \A k, l \in DOMAIN chan :
       /\ chan[k].kind \in {"query", "unit"} /\ chan[l].kind \in {"query", "unit"} => k = l
       /\ chan[k].kind = "query" /\ chan[l].kind = "spawn" => l < k

\* A request that is sent and not admitted is in the channel, once.
SpawnInv ==
  /\ \A k \in DOMAIN chan : chan[k].kind = "spawn" => runs[chan[k].run].state = "sent"
  /\ \A k, l \in DOMAIN chan :
       chan[k].kind = "spawn" /\ chan[l].kind = "spawn" /\ chan[k].run = chan[l].run => k = l
  /\ \A n \in DOMAIN runs : runs[n].state = "sent" =>
       \E k \in DOMAIN chan : chan[k].kind = "spawn" /\ chan[k].run = n

\* The anchor of a task is an iteration of it, of its prompt unless a reset is pending.
Linked(t, rs) ==
  t.anchor # 0 =>
    /\ t.anchor <= Len(rs) /\ rs[t.anchor].task = t.id
    /\ ~t.reset => rs[t.anchor].prompt = t.prompt

LinkInv ==
  /\ \A s \in Snapshots : \A k \in DOMAIN s : Linked(s[k], runs)
  /\ Expiry \/ Looping => Linked(job.held, runs)

\* A task that leaves the list is on hold until its handler ends.
HeldInv ==
  /\ \A s \in Snapshots : IdsIn(s) \cap fresh = {}
  /\ \A n \in DOMAIN runs : runs[n].task \notin fresh
  /\ pending # Nothing => pending.task \notin IdsIn(tasks) \cup fresh
  /\ Removing /\ ~Expiry => pending # Nothing /\ pending.task = job.task
  /\ Expiry => /\ job.held.id = job.task /\ job.task \notin IdsIn(tasks) \cup fresh
               /\ job.index <= Len(tasks) + 1

LoopHeldInv ==
  Looping =>
    /\ job.held.id \in IdsIn(tasks)
    /\ \A k \in DOMAIN tasks : tasks[k].id = job.held.id =>
         /\ tasks[k].prompt = job.held.prompt /\ tasks[k].reset = job.held.reset
         /\ \/ tasks[k].anchor = job.held.anchor /\ tasks[k].iters = job.held.iters
            \/ tasks[k].anchor = 0 /\ tasks[k].iters = 0

ClockInv == ReservationFresh /\ (Expiry \/ Looping => pending = Nothing)

GoneInv ==
  /\ \A i \in deleted :
       /\ i \notin shown \cup fresh
       /\ \A s \in Snapshots : i \notin IdsIn(s)
       /\ pending # Nothing => pending.task # i
       /\ Expiry => job.task # i
  /\ Removing /\ job.answer = "saved" => \A s \in Snapshots : job.task \notin IdsIn(s)
  /\ Removing /\ job.answer = "wait" =>
       \E k \in DOMAIN queue :
         queue[k].mine /\ \A l \in k..Len(queue) : job.task \notin IdsIn(queue[l].snapshot)

Restless(r) == r.state \in {"sent", "live"} \/ r.brood = "marked"

\* What is alive of a task and did not fail is its anchor.
Attached(t, rs) ==
  \A n \in DOMAIN rs : rs[n].task = t.id /\ Restless(rs[n]) /\ ~rs[n].error => t.anchor = n

LoopInv ==
  /\ \A k \in DOMAIN tasks : Attached(tasks[k], runs)
  /\ Expiry => Attached(job.held, runs)
  /\ at = "query" /\ job.answer \in {"ok", "failed", "none"} => ~Running(job.held.anchor)
  /\ at = "unit" /\ job.held.anchor # 0 => ~Running(job.held.anchor)
  /\ at = "unit" /\ job.held.anchor # 0 /\ job.answer = "inactive" => ~Restless(runs[job.held.anchor])

Inv ==
  /\ PlainTypes /\ JobTypes /\ ListTypes /\ MineInv /\ RunTypes /\ ChanTypes /\ AskInv /\ SpawnInv
  /\ LinkInv /\ HeldInv /\ LoopHeldInv /\ ClockInv /\ GoneInv /\ LoopInv
  /\ LoopSingleFlight /\ OverlapOnlyAfterFailure /\ ChainKeepsPrompt

-----------------------------------------------------------------------------
(***************************************************************************)
(* Lists of tasks.                                                         *)
(***************************************************************************)
LEMMA RemoveAtIs ==
  ASSUME NEW S, NEW s \in Seq(S), NEW k \in 1..Len(s)
  PROVE  /\ RemoveAt(s, k) \in Seq(S) /\ Len(RemoveAt(s, k)) = Len(s) - 1
         /\ \A l \in 1..(Len(s) - 1) : RemoveAt(s, k)[l] = IF l < k THEN s[l] ELSE s[l + 1]
<1> DEFINE front == SubSeq(s, 1, k - 1)
           back == SubSeq(s, k + 1, Len(s))
<1>1. /\ front \in Seq(S) /\ Len(front) = k - 1
      /\ \A l \in 1..(k - 1) : front[l] = s[l]
  <2>1. \A i \in 1..(k - 1) : s[i] \in S
    OBVIOUS
  <2>. QED
    BY <2>1, SubSeqProperties
<1>2. /\ back \in Seq(S) /\ Len(back) = Len(s) - k
      /\ \A l \in 1..(Len(s) - k) : back[l] = s[k + l]
  <2>1. \A i \in (k + 1)..Len(s) : s[i] \in S
    OBVIOUS
  <2>. QED
    BY <2>1, SubSeqProperties
<1>3. RemoveAt(s, k) = front \o back
  BY DEF RemoveAt
<1> HIDE DEF front, back
<1>4. /\ front \o back \in Seq(S) /\ Len(front \o back) = Len(front) + Len(back)
      /\ \A i \in 1..(Len(front) + Len(back)) :
           (front \o back)[i] = IF i <= Len(front) THEN front[i] ELSE back[i - Len(front)]
  BY <1>1, <1>2, ConcatProperties
<1>5. Len(s) \in Nat
  OBVIOUS
<1>6. ASSUME NEW l \in 1..(Len(s) - 1) PROVE RemoveAt(s, k)[l] = IF l < k THEN s[l] ELSE s[l + 1]
  <2>1. CASE l < k
    BY <1>1, <1>2, <1>3, <1>4, <1>5, <1>6, <2>1
  <2>2. CASE l >= k
    <3>1. l - (k - 1) \in 1..(Len(s) - k) /\ k + (l - (k - 1)) = l + 1
      BY <1>5, <1>6, <2>2
    <3>2. back[l - (k - 1)] = s[l + 1]
      BY <1>2, <3>1
    <3>3. (front \o back)[l] = back[l - (k - 1)]
      BY <1>1, <1>2, <1>4, <1>5, <1>6, <2>2
    <3>. QED
      BY <1>3, <1>5, <1>6, <2>2, <3>2, <3>3
  <2>. QED
    BY <1>5, <1>6, <2>1, <2>2
<1>. QED
  BY <1>1, <1>2, <1>3, <1>4, <1>5, <1>6

LEMMA InsertAtIs ==
  ASSUME NEW S, NEW s \in Seq(S), NEW k \in 1..(Len(s) + 1), NEW e \in S
  PROVE  /\ InsertAt(s, k, e) \in Seq(S) /\ Len(InsertAt(s, k, e)) = Len(s) + 1
         /\ \A l \in 1..(Len(s) + 1) :
              InsertAt(s, k, e)[l] = IF l < k THEN s[l] ELSE IF l = k THEN e ELSE s[l - 1]
<1> DEFINE front == SubSeq(s, 1, k - 1)
           back == SubSeq(s, k, Len(s))
           head == front \o <<e>>
<1>1. /\ front \in Seq(S) /\ Len(front) = k - 1
      /\ \A l \in 1..(k - 1) : front[l] = s[l]
  <2>1. \A i \in 1..(k - 1) : s[i] \in S
    OBVIOUS
  <2>. QED
    BY <2>1, SubSeqProperties
<1>2. /\ back \in Seq(S) /\ Len(back) = Len(s) - k + 1
      /\ \A l \in 1..(Len(s) - k + 1) : back[l] = s[k + l - 1]
  <2>1. \A i \in k..Len(s) : s[i] \in S
    OBVIOUS
  <2>. QED
    BY <2>1, SubSeqProperties
<1>3. InsertAt(s, k, e) = head \o back
  BY DEF InsertAt
<1>4. <<e>> \in Seq(S) /\ Len(<<e>>) = 1 /\ <<e>>[1] = e
  OBVIOUS
<1> HIDE DEF front, back
<1>5. /\ head \in Seq(S) /\ Len(head) = k
      /\ \A l \in 1..k : head[l] = IF l < k THEN s[l] ELSE e
  BY <1>1, <1>4, ConcatProperties
<1> HIDE DEF head
<1>6. /\ head \o back \in Seq(S) /\ Len(head \o back) = Len(head) + Len(back)
      /\ \A i \in 1..(Len(head) + Len(back)) :
           (head \o back)[i] = IF i <= Len(head) THEN head[i] ELSE back[i - Len(head)]
  BY <1>2, <1>5, ConcatProperties
<1>7. Len(s) \in Nat
  OBVIOUS
<1>8. ASSUME NEW l \in 1..(Len(s) + 1)
      PROVE  InsertAt(s, k, e)[l] = IF l < k THEN s[l] ELSE IF l = k THEN e ELSE s[l - 1]
  <2>1. CASE l <= k
    BY <1>2, <1>3, <1>5, <1>6, <1>7, <1>8, <2>1
  <2>2. CASE l > k
    <3>1. l - k \in 1..(Len(s) - k + 1) /\ k + (l - k) - 1 = l - 1
      BY <1>7, <1>8, <2>2
    <3>2. back[l - k] = s[l - 1]
      BY <1>2, <3>1
    <3>3. (head \o back)[l] = back[l - k]
      BY <1>2, <1>5, <1>6, <1>7, <1>8, <2>2
    <3>. QED
      BY <1>3, <1>7, <1>8, <2>2, <3>2, <3>3
  <2>. QED
    BY <1>7, <1>8, <2>1, <2>2
<1>. QED
  BY <1>2, <1>3, <1>5, <1>6, <1>7, <1>8

LEMMA RemoveListing ==
  ASSUME NEW s \in Listings, NEW k \in DOMAIN s
  PROVE  /\ RemoveAt(s, k) \in Listings /\ Len(RemoveAt(s, k)) = Len(s) - 1
         /\ IdsIn(RemoveAt(s, k)) = IdsIn(s) \ {s[k].id}
         /\ \A l \in DOMAIN RemoveAt(s, k) : \E m \in DOMAIN s : RemoveAt(s, k)[l] = s[m]
<1> DEFINE r == RemoveAt(s, k)
<1>1. s \in Seq(TaskRecords) /\ Unique(s) /\ k \in 1..Len(s)
  BY DEF Listings
<1>2. /\ r \in Seq(TaskRecords) /\ Len(r) = Len(s) - 1
      /\ \A l \in 1..(Len(s) - 1) : r[l] = IF l < k THEN s[l] ELSE s[l + 1]
  BY <1>1, RemoveAtIs
<1> HIDE DEF r
<1>3. Unique(r)
  <2> DEFINE old(l) == IF l < k THEN l ELSE l + 1
  <2>1. \A l \in DOMAIN r : r[l] = s[old(l)] /\ old(l) \in DOMAIN s
    BY <1>1, <1>2
  <2>2. \A l, m \in DOMAIN r : old(l) = old(m) => l = m
    BY <1>1, <1>2
  <2> HIDE DEF old
  <2>. QED
    BY <1>1, <2>1, <2>2 DEF Unique
<1>4. \A l \in DOMAIN r : \E m \in DOMAIN s : r[l] = s[m] /\ m # k
  BY <1>1, <1>2
<1>5. IdsIn(r) \subseteq IdsIn(s) \ {s[k].id}
  BY <1>1, <1>4 DEF IdsIn, Unique
<1>6. ASSUME NEW m \in DOMAIN s, s[m].id # s[k].id PROVE s[m].id \in IdsIn(r)
  <2>1. CASE m < k
    <3>1. m \in DOMAIN r /\ r[m] = s[m]
      BY <1>1, <1>2, <2>1
    <3>. QED
      BY <3>1 DEF IdsIn
  <2>2. CASE m > k
    <3>1. m - 1 \in DOMAIN r /\ r[m - 1] = s[m]
      BY <1>1, <1>2, <2>2
    <3>. QED
      BY <3>1 DEF IdsIn
  <2>. QED
    BY <1>1, <1>6, <2>1, <2>2
<1>7. IdsIn(r) = IdsIn(s) \ {s[k].id}
  BY <1>5, <1>6 DEF IdsIn
<1>. QED
  BY <1>2, <1>3, <1>4, <1>7 DEF Listings, r

LEMMA InsertListing ==
  ASSUME NEW s \in Listings, NEW k \in 1..(Len(s) + 1), NEW t \in TaskRecords, t.id \notin IdsIn(s)
  PROVE  /\ InsertAt(s, k, t) \in Listings
         /\ IdsIn(InsertAt(s, k, t)) = IdsIn(s) \cup {t.id}
         /\ \A l \in DOMAIN InsertAt(s, k, t) :
              InsertAt(s, k, t)[l] = t \/ \E m \in DOMAIN s : InsertAt(s, k, t)[l] = s[m]
<1> DEFINE r == InsertAt(s, k, t)
<1>1. s \in Seq(TaskRecords) /\ Unique(s)
  BY DEF Listings
<1>2. /\ r \in Seq(TaskRecords) /\ Len(r) = Len(s) + 1
      /\ \A l \in 1..(Len(s) + 1) : r[l] = IF l < k THEN s[l] ELSE IF l = k THEN t ELSE s[l - 1]
  <2>0. \A S, z : z \in Seq(S) => \A j \in 1..(Len(z) + 1), e \in S :
          InsertAt(z, j, e) \in Seq(S) /\ Len(InsertAt(z, j, e)) = Len(z) + 1
    BY InsertAtIs
  <2>1. r \in Seq(TaskRecords) /\ Len(r) = Len(s) + 1
    BY <1>1, <2>0, Zenon
  <2>2. ASSUME NEW l \in 1..(Len(s) + 1)
        PROVE  r[l] = IF l < k THEN s[l] ELSE IF l = k THEN t ELSE s[l - 1]
    BY <1>1, <2>2, InsertAtIs
  <2>. QED
    BY <2>1, <2>2
<1> HIDE DEF r
<1>3. \A m \in DOMAIN s : s[m].id # t.id
  BY DEF IdsIn
<1>4. Unique(r)
  <2> DEFINE old(l) == IF l < k THEN l ELSE l - 1
  <2>1. r[k] = t /\ \A l \in DOMAIN r \ {k} : r[l] = s[old(l)] /\ old(l) \in DOMAIN s
    BY <1>1, <1>2
  <2>2. \A l, m \in DOMAIN r \ {k} : old(l) = old(m) => l = m
    BY <1>1, <1>2
  <2> HIDE DEF old
  <2>. QED
    BY <1>1, <1>3, <2>1, <2>2 DEF Unique
<1>5. \A l \in DOMAIN r : r[l] = t \/ \E m \in DOMAIN s : r[l] = s[m]
  BY <1>1, <1>2
<1>6. IdsIn(r) \subseteq IdsIn(s) \cup {t.id}
  BY <1>5 DEF IdsIn
<1>7. ASSUME NEW m \in DOMAIN s PROVE s[m].id \in IdsIn(r)
  <2>1. CASE m < k
    <3>1. m \in DOMAIN r /\ r[m] = s[m]
      BY <1>1, <1>2, <2>1
    <3>. QED
      BY <3>1 DEF IdsIn
  <2>2. CASE m >= k
    <3>1. m + 1 \in DOMAIN r /\ r[m + 1] = s[m]
      BY <1>1, <1>2, <2>2
    <3>. QED
      BY <3>1 DEF IdsIn
  <2>. QED
    BY <1>1, <2>1, <2>2
<1>8. t.id \in IdsIn(r)
  <2>1. k \in DOMAIN r /\ r[k] = t
    BY <1>1, <1>2
  <2>. QED
    BY <2>1 DEF IdsIn
<1>9. IdsIn(r) = IdsIn(s) \cup {t.id}
  BY <1>6, <1>7, <1>8 DEF IdsIn
<1>. QED
  BY <1>2, <1>4, <1>5, <1>9 DEF Listings, r

LEMMA AppendListing ==
  ASSUME NEW s \in Listings, NEW t \in TaskRecords, t.id \notin IdsIn(s)
  PROVE  /\ Append(s, t) \in Listings /\ IdsIn(Append(s, t)) = IdsIn(s) \cup {t.id}
         /\ \A l \in DOMAIN Append(s, t) : Append(s, t)[l] = t \/ \E m \in DOMAIN s : Append(s, t)[l] = s[m]
<1>1. s \in Seq(TaskRecords) /\ Unique(s)
  BY DEF Listings
<1> DEFINE r == Append(s, t)
<1>2. /\ r \in Seq(TaskRecords) /\ DOMAIN r = 1..(Len(s) + 1) /\ DOMAIN s = 1..Len(s)
      /\ \A l \in 1..(Len(s) + 1) : r[l] = IF l <= Len(s) THEN s[l] ELSE t
  BY <1>1
<1>3. Len(s) \in Nat
  BY <1>1
<1> HIDE DEF r
<1>4. Unique(r)
  BY <1>1, <1>2, <1>3 DEF Unique, IdsIn
<1>5. IdsIn(r) \subseteq IdsIn(s) \cup {t.id}
  BY <1>2, <1>3 DEF IdsIn
<1>6. \A m \in DOMAIN s : r[m] = s[m] /\ m \in DOMAIN r
  BY <1>2, <1>3
<1>7. IdsIn(s) \subseteq IdsIn(r)
  BY <1>6 DEF IdsIn
<1>8. t.id \in IdsIn(r)
  <2>1. Len(s) + 1 \in DOMAIN r /\ r[Len(s) + 1] = t
    BY <1>2, <1>3
  <2>. QED
    BY <2>1 DEF IdsIn
<1>9. \A l \in DOMAIN r : r[l] = t \/ \E m \in DOMAIN s : r[l] = s[m]
  BY <1>2, <1>3
<1>. QED
  BY <1>2, <1>4, <1>5, <1>7, <1>8, <1>9 DEF Listings, r

LEMMA ChangeListing ==
  ASSUME NEW s \in Listings, NEW k \in DOMAIN s, NEW t \in TaskRecords, t.id = s[k].id
  PROVE  /\ [s EXCEPT ![k] = t] \in Listings
         /\ IdsIn([s EXCEPT ![k] = t]) = IdsIn(s)
         /\ DOMAIN [s EXCEPT ![k] = t] = DOMAIN s
         /\ \A l \in DOMAIN s : [s EXCEPT ![k] = t][l] = IF l = k THEN t ELSE s[l]
<1>1. s \in Seq(TaskRecords) /\ Unique(s)
  BY DEF Listings
<1> DEFINE r == [s EXCEPT ![k] = t]
<1>2. /\ r \in Seq(TaskRecords) /\ DOMAIN r = DOMAIN s
      /\ \A l \in DOMAIN s : r[l] = IF l = k THEN t ELSE s[l]
  BY <1>1
<1> HIDE DEF r
<1>3. \A l \in DOMAIN s : r[l].id = s[l].id
  BY <1>2
<1>4. Unique(r) /\ IdsIn(r) = IdsIn(s)
  BY <1>1, <1>2, <1>3 DEF Unique, IdsIn
<1>. QED
  BY <1>2, <1>4 DEF Listings, r

LEMMA IndexOfIs ==
  ASSUME NEW i \in IdsIn(tasks)
  PROVE  IndexOf(i) \in DOMAIN tasks /\ tasks[IndexOf(i)].id = i
BY DEF IdsIn, IndexOf

LEMMA HeldIs == Held = IdsIn(tasks)
BY DEF Held, IdsIn

-----------------------------------------------------------------------------
(***************************************************************************)
(* The lists there are: a step adds the new list of tasks at most.         *)
(***************************************************************************)
LEMMA StoreKept ==
  ASSUME UNCHANGED store
  PROVE  Snapshots' \subseteq Snapshots \cup {tasks'}
BY DEF store, Snapshots

LEMMA Enqueued ==
  ASSUME ListTypes, NEW s, NEW f, NEW m,
         queue' = Append(queue, [snapshot |-> s, flush |-> f, mine |-> m])
  PROVE  /\ Len(queue') = Len(queue) + 1 /\ DOMAIN queue = 1..Len(queue) /\ DOMAIN queue' = 1..(Len(queue) + 1)
         /\ \A k \in DOMAIN queue : queue'[k] = queue[k]
         /\ queue'[Len(queue) + 1] = [snapshot |-> s, flush |-> f, mine |-> m]
         /\ Len(queue) \in Nat
BY DEF ListTypes

LEMMA Dequeued ==
  ASSUME ListTypes, queue # <<>>, queue' = Tail(queue)
  PROVE  /\ Len(queue') = Len(queue) - 1 /\ Len(queue) \in Nat \ {0} /\ Head(queue) = queue[1]
         /\ DOMAIN queue = 1..Len(queue) /\ DOMAIN queue' = 1..(Len(queue) - 1)
         /\ \A k \in DOMAIN queue' : queue'[k] = queue[k + 1] /\ k + 1 \in DOMAIN queue
         /\ 1 \in DOMAIN queue
BY DEF ListTypes

LEMMA Forgotten ==
  ASSUME ListTypes, Forget
  PROVE  /\ DOMAIN queue' = DOMAIN queue /\ queue' \in Seq(Entries) /\ Len(queue') = Len(queue)
         /\ \A k \in DOMAIN queue : /\ queue'[k].snapshot = queue[k].snapshot
                                    /\ queue'[k].flush = queue[k].flush /\ queue'[k].mine = FALSE
<1>1. queue \in Seq(Entries) /\ DOMAIN queue = 1..Len(queue) /\ Len(queue) \in Nat
  BY DEF ListTypes
<1>2. \A k \in DOMAIN queue : queue[k] \in Entries
  BY <1>1
<1>3. DOMAIN queue' = DOMAIN queue /\ \A k \in DOMAIN queue : queue'[k] = [queue[k] EXCEPT !.mine = FALSE]
  BY DEF Forget
<1>4. \A k \in DOMAIN queue : /\ queue'[k].snapshot = queue[k].snapshot /\ queue'[k] \in Entries
                              /\ queue'[k].flush = queue[k].flush /\ queue'[k].mine = FALSE
  BY <1>2, <1>3 DEF Entries
<1>5. queue' \in Seq(Entries) /\ Len(queue') = Len(queue)
  BY <1>1, <1>3, <1>4 DEF Forget
<1>. QED
  BY <1>3, <1>4, <1>5

LEMMA SnapshotsStep ==
  ASSUME Inv, [Next]_vars
  PROVE  Snapshots' \subseteq Snapshots \cup {tasks'}
<1>0. ListTypes
  BY DEF Inv
<1>1. ASSUME NEW s, NEW f, NEW m, s \in {tasks, tasks'}, UNCHANGED <<draft, disk>>,
             queue' = Append(queue, [snapshot |-> s, flush |-> f, mine |-> m])
      PROVE  Snapshots' \subseteq Snapshots \cup {tasks'}
  <2>1. \A k \in DOMAIN queue' : queue'[k].snapshot = s \/ \E l \in DOMAIN queue : queue'[k].snapshot = queue[l].snapshot
    BY <1>0, <1>1, Enqueued
  <2>. QED
    BY <1>1, <2>1 DEF Snapshots
<1>2. ASSUME queue # <<>>, queue' = Tail(queue),
             draft' \subseteq draft \cup {Head(queue).snapshot}, disk' \in {disk, Head(queue).snapshot},
             UNCHANGED tasks
      PROVE  Snapshots' \subseteq Snapshots
  <2>1. \A k \in DOMAIN queue' : \E l \in DOMAIN queue : queue'[k].snapshot = queue[l].snapshot
    BY <1>0, <1>2, Dequeued
  <2>2. Head(queue).snapshot \in Snapshots
    BY <1>0, <1>2, Dequeued DEF Snapshots
  <2>3. \A s \in Snapshots' : s \in {tasks, disk, Head(queue).snapshot} \cup draft \/ \E k \in DOMAIN queue' : s = queue'[k].snapshot
    BY <1>2 DEF Snapshots
  <2>. QED
    BY <2>1, <2>2, <2>3 DEF Snapshots
<1>3. CASE Command
  <2>1. ASSUME NEW i \in Ids, Delete(i) PROVE Snapshots' \subseteq Snapshots \cup {tasks'}
    <3>1. /\ queue' = Append(queue, [snapshot |-> tasks', flush |-> TRUE, mine |-> TRUE])
          /\ UNCHANGED <<draft, disk>>
      BY <2>1 DEF Delete, SaveAndFlush
    <3>. QED
      BY <1>1, <3>1
  <2>2. CASE \E i \in Ids : Create(i)
    BY <2>2, StoreKept DEF Create
  <2>3. CASE \E i \in Ids, p, v \in BOOLEAN : Update(i, p, v)
    BY <2>3, StoreKept DEF Update
  <2>. QED
    BY <1>3, <2>1, <2>2, <2>3, StoreKept DEF Command, AbandonRemoval
<1>4. CASE Fire
  BY <1>1, <1>4, StoreKept DEF Fire, ExpireDurable, ExpirePlain, FireInline, FireLoop, SaveAndFlush
<1>5. CASE Proceed
  <2>1. CASE SaveUnknown
    <3>1. \A k \in DOMAIN queue' : \E l \in DOMAIN queue : queue'[k].snapshot = queue[l].snapshot
      BY <1>0, <2>1, Forgotten DEF SaveUnknown
    <3>. QED
      BY <2>1, <3>1 DEF SaveUnknown, Snapshots
  <2>. QED
    BY <1>5, <2>1, StoreKept DEF Proceed, AskUnit, Skip, Spawn, Saved, SaveFailed, Acknowledged, Unacknowledged
<1>6. CASE Writer
  <2>1. CASE Save
    BY <1>1, <2>1 DEF Save
  <2>2. CASE TakeSave
    BY <1>2, <1>6, <2>2 DEF TakeSave, Writer
  <2>3. CASE Debounce
    BY <1>6, <2>3 DEF Debounce, Writer, Snapshots
  <2>4. ASSUME NEW renamed \in BOOLEAN, NEW synced \in BOOLEAN, TakeFlush(renamed, synced)
        PROVE  Snapshots' \subseteq Snapshots \cup {tasks'}
    BY <1>2, <1>6, <2>4 DEF TakeFlush, Writer
  <2>. QED
    BY <1>6, <2>1, <2>2, <2>3, <2>4 DEF Writer
<1>7. CASE Restart
  BY <1>7 DEF Restart, Snapshots
<1>8. CASE Coordinator \/ HubCloses \/ (\E n \in DOMAIN runs : Watch(n)) \/ (\E i \in Ids : Elapse(i))
  BY <1>8, StoreKept DEF Coordinator, HubCloses, Watch, Elapse
<1>9. CASE Cancel \/ Shutdown \/ CloseTarget
  BY <1>9, StoreKept DEF Cancel, Shutdown, CloseTarget
<1>10. CASE UNCHANGED vars
  BY <1>10, StoreKept DEF vars, store
<1>. QED
  BY <1>3, <1>4, <1>5, <1>6, <1>7, <1>8, <1>9, <1>10 DEF Next

-----------------------------------------------------------------------------
(***************************************************************************)
(* What each action makes of the list of tasks.                            *)
(***************************************************************************)
LEMMA TasksTyped ==
  ASSUME Inv
  PROVE  /\ tasks \in Listings /\ disk \in Listings /\ tasks \in Seq(TaskRecords) /\ Unique(tasks)
         /\ DOMAIN tasks = 1..Len(tasks) /\ Len(tasks) \in Nat
         /\ \A k \in DOMAIN tasks : tasks[k] \in TaskRecords /\ tasks[k].id \in IdsIn(tasks)
<1>1. tasks \in Listings /\ disk \in Listings
  BY DEF Inv, ListTypes, Snapshots
<1>2. tasks \in Seq(TaskRecords) /\ Unique(tasks)
  BY <1>1 DEF Listings
<1>3. DOMAIN tasks = 1..Len(tasks) /\ Len(tasks) \in Nat /\ \A k \in DOMAIN tasks : tasks[k] \in TaskRecords
  BY <1>2
<1>4. \A k \in DOMAIN tasks : tasks[k].id \in IdsIn(tasks)
  BY DEF IdsIn
<1>. QED
  BY <1>1, <1>2, <1>3, <1>4

LEMMA CreateTasks ==
  ASSUME Inv, NEW i \in Ids, Create(i)
  PROVE  /\ tasks' \in Listings /\ IdsIn(tasks') = IdsIn(tasks) \cup {i} /\ i \notin IdsIn(tasks)
         /\ \A k \in DOMAIN tasks' : tasks'[k] = Task(i) \/ \E m \in DOMAIN tasks : tasks'[k] = tasks[m]
<1>1. i \notin IdsIn(tasks)
  BY DEF Inv, HeldInv, Snapshots, Create
<1>2. Task(i) \in TaskRecords /\ Task(i).id = i
  BY SchedulerAssumption DEF Task, TaskRecords
<1>. QED
  BY <1>1, <1>2, TasksTyped, AppendListing DEF Create

LEMMA UpdateTasks ==
  ASSUME Inv, NEW i \in Ids, NEW p \in BOOLEAN, NEW v \in BOOLEAN, Update(i, p, v)
  PROVE  /\ tasks' \in Listings /\ IdsIn(tasks') = IdsIn(tasks) /\ DOMAIN tasks' = DOMAIN tasks
         /\ \A k \in DOMAIN tasks :
              \/ tasks'[k] = tasks[k]
              \/ /\ tasks'[k].id = tasks[k].id /\ tasks'[k].anchor = tasks[k].anchor
                 /\ tasks'[k].reset /\ tasks'[k] \in TaskRecords
<1>1. CASE tasks' = tasks
  BY <1>1, TasksTyped
<1>2. CASE tasks' = [tasks EXCEPT ![IndexOf(i)] = Reworded(tasks[IndexOf(i)])]
  <2>1. IndexOf(i) \in DOMAIN tasks /\ tasks[IndexOf(i)] \in TaskRecords
    BY IndexOfIs, HeldIs, TasksTyped DEF Update
  <2> DEFINE t == Reworded(tasks[IndexOf(i)])
  <2>2. t \in TaskRecords /\ t.id = tasks[IndexOf(i)].id /\ t.anchor = tasks[IndexOf(i)].anchor /\ t.reset
    <3>1. 0 \in 0..FreshEvery
      BY SchedulerAssumption
    <3>2. PICK b \in BOOLEAN : b = ~tasks[IndexOf(i)].prompt
      OBVIOUS
    <3>3. t = [tasks[IndexOf(i)] EXCEPT !.prompt = b, !.reset = TRUE, !.iters = 0]
      BY <3>2, Zenon DEF Reworded
    <3> HIDE DEF t
    <3>. QED
      BY <2>1, <3>1, <3>3 DEF TaskRecords
  <2>3. tasks' = [tasks EXCEPT ![IndexOf(i)] = t]
    BY <1>2
  <2> HIDE DEF t
  <2>. QED
    BY <2>1, <2>2, <2>3, ChangeListing, TasksTyped
<1>. QED
  BY <1>1, <1>2 DEF Update

LEMMA RemoveTasks ==
  ASSUME Inv, NEW k \in DOMAIN tasks, tasks' = RemoveAt(tasks, k)
  PROVE  /\ tasks' \in Listings /\ IdsIn(tasks') = IdsIn(tasks) \ {tasks[k].id}
         /\ Len(tasks') = Len(tasks) - 1
         /\ \A l \in DOMAIN tasks' : \E m \in DOMAIN tasks : tasks'[l] = tasks[m]
<1>1. \A s \in Listings : \A l \in DOMAIN s :
        /\ RemoveAt(s, l) \in Listings /\ Len(RemoveAt(s, l)) = Len(s) - 1
        /\ IdsIn(RemoveAt(s, l)) = IdsIn(s) \ {s[l].id}
        /\ \A m \in DOMAIN RemoveAt(s, l) : \E n \in DOMAIN s : RemoveAt(s, l)[m] = s[n]
  BY RemoveListing
<1>2. tasks \in Listings /\ k \in DOMAIN tasks
  BY TasksTyped
<1>3. /\ RemoveAt(tasks, k) \in Listings /\ Len(RemoveAt(tasks, k)) = Len(tasks) - 1
      /\ IdsIn(RemoveAt(tasks, k)) = IdsIn(tasks) \ {tasks[k].id}
      /\ \A m \in DOMAIN RemoveAt(tasks, k) : \E n \in DOMAIN tasks : RemoveAt(tasks, k)[m] = tasks[n]
  BY <1>1, <1>2, Zenon
<1>. QED
  BY <1>3, Zenon

LEMMA LoopJob ==
  ASSUME Inv, Looping
  PROVE  /\ job \in LoopJobs /\ job.held \in TaskRecords /\ job.source \in Versions
         /\ IndexOf(job.held.id) \in DOMAIN tasks /\ tasks[IndexOf(job.held.id)].id = job.held.id
         /\ Len(runs) < MaxRuns /\ Len(runs) \in Nat /\ runs \in Seq(RunRecords) /\ DOMAIN runs = 1..Len(runs)
<1>1. job \in LoopJobs
  BY DEF Inv, JobTypes
<1>2. job.held.id \in IdsIn(tasks)
  BY DEF Inv, LoopHeldInv
<1>. QED
  BY <1>1, <1>2, IndexOfIs DEF LoopJobs, Inv, RunTypes

LEMMA SpawnTasks ==
  ASSUME Inv, Spawn
  PROVE  /\ tasks' \in Listings /\ IdsIn(tasks') = IdsIn(tasks) /\ DOMAIN tasks' = DOMAIN tasks
         /\ \A k \in DOMAIN tasks : tasks[k].id # job.held.id => tasks'[k] = tasks[k]
         /\ \A k \in DOMAIN tasks : tasks[k].id = job.held.id =>
              /\ tasks'[k].id = tasks[k].id /\ tasks'[k].prompt = tasks[k].prompt
              /\ hub => tasks'[k].anchor = Len(runs) + 1 /\ tasks'[k].reset = FALSE
              /\ ~hub => tasks'[k].anchor = job.held.anchor /\ tasks'[k].reset = job.held.reset
<1> DEFINE k == IndexOf(job.held.id)
<1>1. /\ job \in LoopJobs /\ job.held \in TaskRecords /\ k \in DOMAIN tasks /\ tasks[k].id = job.held.id
      /\ Len(runs) < MaxRuns /\ Len(runs) \in Nat /\ tasks[k] \in TaskRecords
  BY LoopJob, TasksTyped DEF Spawn, Looping
<1>2. \E t \in TaskRecords :
        /\ tasks' = [tasks EXCEPT ![k] = t]
        /\ t.id = tasks[k].id /\ t.prompt = tasks[k].prompt
        /\ hub => t.anchor = Len(runs) + 1 /\ t.reset = FALSE
        /\ ~hub => t.anchor = job.held.anchor /\ t.reset = job.held.reset
  <2>1. CASE hub
    <3>1. Len(runs) + 1 \in 0..MaxRuns
      BY <1>1, SchedulerAssumption
    <3>2. (IF Resumes THEN job.held.iters + 1 ELSE 1) \in 0..FreshEvery
      BY <1>1, SchedulerAssumption DEF Resumes, TaskRecords
    <3>3. /\ Advanced(tasks[k]) \in TaskRecords
          /\ Advanced(tasks[k]).id = tasks[k].id /\ Advanced(tasks[k]).prompt = tasks[k].prompt
          /\ Advanced(tasks[k]).anchor = Len(runs) + 1 /\ Advanced(tasks[k]).reset = FALSE
      BY <1>1, <3>1, <3>2 DEF Advanced, TaskRecords
    <3>4. tasks' = [tasks EXCEPT ![k] = Advanced(tasks[k])]
      BY <2>1 DEF Spawn
    <3>. QED
      BY <2>1, <3>3, <3>4
  <2>2. CASE ~hub
    <3> DEFINE t == [tasks[k] EXCEPT !.anchor = job.held.anchor, !.iters = job.held.iters, !.reset = job.held.reset]
    <3>1. t \in TaskRecords /\ t.id = tasks[k].id /\ t.prompt = tasks[k].prompt
          /\ t.anchor = job.held.anchor /\ t.reset = job.held.reset
      BY <1>1 DEF TaskRecords
    <3>2. tasks' = [tasks EXCEPT ![k] = t]
      BY <2>2 DEF Spawn
    <3> HIDE DEF t
    <3>. QED
      BY <2>2, <3>1, <3>2
  <2>. QED
    BY <2>1, <2>2
<1>3. \A l \in DOMAIN tasks : tasks[l].id = job.held.id => l = k
  BY <1>1, TasksTyped DEF Unique
<1> HIDE DEF k
<1>4. PICK t \in TaskRecords :
        /\ tasks' = [tasks EXCEPT ![k] = t]
        /\ t.id = tasks[k].id /\ t.prompt = tasks[k].prompt
        /\ hub => t.anchor = Len(runs) + 1 /\ t.reset = FALSE
        /\ ~hub => t.anchor = job.held.anchor /\ t.reset = job.held.reset
  BY <1>2
<1>5. /\ tasks' \in Listings /\ IdsIn(tasks') = IdsIn(tasks) /\ DOMAIN tasks' = DOMAIN tasks
      /\ \A l \in DOMAIN tasks : tasks'[l] = IF l = k THEN t ELSE tasks[l]
  BY <1>1, <1>4, ChangeListing, TasksTyped
<1>. QED
  BY <1>1, <1>3, <1>4, <1>5

LEMMA ExpiryJob ==
  ASSUME Inv, Expiry
  PROVE  /\ job \in ExpiryJobs /\ job.held \in TaskRecords /\ job.held.id = job.task
         /\ job.index \in 1..(Len(tasks) + 1) /\ job.task \notin IdsIn(tasks) \cup fresh
<1>1. job \in ExpiryJobs
  BY DEF Inv, JobTypes, Expiry, DeleteJobs
<1>. QED
  BY <1>1, TasksTyped DEF Inv, HeldInv, ExpiryJobs

LEMMA SaveFailedTasks ==
  ASSUME Inv, SaveFailed
  PROVE  /\ tasks' \in Listings
         /\ \/ Expiry /\ IdsIn(tasks') = IdsIn(tasks) \cup {job.held.id}
            \/ ~Expiry /\ tasks' = tasks
         /\ \A k \in DOMAIN tasks' :
              \/ Expiry /\ tasks'[k] = job.held
              \/ \E m \in DOMAIN tasks : tasks'[k] = tasks[m]
<1>1. CASE Expiry
  BY <1>1, ExpiryJob, InsertListing, TasksTyped DEF SaveFailed, Expiry
<1>2. CASE ~Expiry
  BY <1>2, TasksTyped DEF SaveFailed, Expiry, Removing
<1>. QED
  BY <1>1, <1>2

LEMMA WatchTasks ==
  ASSUME Inv, NEW n \in DOMAIN runs, Watch(n)
  PROVE  /\ tasks' \in Listings /\ IdsIn(tasks') = IdsIn(tasks) /\ DOMAIN tasks' = DOMAIN tasks
         /\ \A k \in DOMAIN tasks :
              \/ tasks'[k] = tasks[k] /\ tasks[k].anchor # n
              \/ /\ tasks[k].anchor = n /\ tasks'[k].id = tasks[k].id /\ tasks'[k].prompt = tasks[k].prompt
                 /\ tasks'[k].reset = tasks[k].reset /\ tasks'[k].anchor = 0 /\ tasks'[k].iters = 0
<1>1. \A k \in DOMAIN tasks : tasks[k] \in TaskRecords
  BY TasksTyped
<1>2. DOMAIN tasks' = DOMAIN tasks
  BY DEF Watch
<1>3. \A k \in DOMAIN tasks : /\ tasks'[k] \in TaskRecords
        /\ \/ tasks'[k] = tasks[k] /\ tasks[k].anchor # n
           \/ /\ tasks[k].anchor = n /\ tasks'[k].id = tasks[k].id /\ tasks'[k].prompt = tasks[k].prompt
              /\ tasks'[k].reset = tasks[k].reset /\ tasks'[k].anchor = 0 /\ tasks'[k].iters = 0
  <2>1. 0 \in 0..FreshEvery /\ 0 \in 0..MaxRuns
    BY SchedulerAssumption
  <2>2. \A k \in DOMAIN tasks :
          tasks'[k] = IF tasks[k].anchor = n THEN [tasks[k] EXCEPT !.anchor = 0, !.iters = 0] ELSE tasks[k]
    BY DEF Watch
  <2>3. ASSUME NEW k \in DOMAIN tasks, tasks[k].anchor = n
        PROVE  /\ tasks'[k] \in TaskRecords /\ tasks'[k].id = tasks[k].id /\ tasks'[k].prompt = tasks[k].prompt
               /\ tasks'[k].reset = tasks[k].reset /\ tasks'[k].anchor = 0 /\ tasks'[k].iters = 0
    <3>1. tasks[k] \in TaskRecords /\ tasks'[k] = [tasks[k] EXCEPT !.anchor = 0, !.iters = 0]
      BY <1>1, <2>2, <2>3
    <3>. QED
      BY <2>1, <3>1 DEF TaskRecords
  <2>4. \A k \in DOMAIN tasks : tasks[k].anchor # n => tasks'[k] = tasks[k]
    BY <2>2
  <2>. QED
    BY <1>1, <2>3, <2>4, Zenon
<1>4. tasks' \in Seq(TaskRecords)
  <2>1. tasks' = [k \in 1..Len(tasks) |-> tasks'[k]]
    BY <1>2, TasksTyped DEF Watch
  <2>. QED
    BY <1>2, <1>3, <2>1, TasksTyped
<1>5. \A k \in DOMAIN tasks : tasks'[k].id = tasks[k].id
  BY <1>3
<1>6. Unique(tasks') /\ IdsIn(tasks') = IdsIn(tasks)
  BY <1>2, <1>5, TasksTyped DEF Unique, IdsIn
<1>. QED
  BY <1>2, <1>3, <1>4, <1>6 DEF Listings

-----------------------------------------------------------------------------
(***************************************************************************)
(* The clock.                                                              *)
(***************************************************************************)
LEMMA VersionMoves ==
  ASSUME NEW v \in Versions, NEW count \in Nat \ {0}
  PROVE  VersionAt(v, count, count) \in Versions /\ Newer(VersionAt(v, count, count), v)
<1>1. v.gen \in Nat /\ v.rev \in Nat
  BY DEF Versions
<1>2. CASE v.rev + count > MaxRevision
  <2>1. VersionAt(v, count, count) = [gen |-> v.gen + 1, rev |-> 1 + count - 1]
    BY <1>2 DEF VersionAt, Reserve
  <2>. QED
    BY <1>1, <2>1 DEF Versions, Newer
<1>3. CASE ~(v.rev + count > MaxRevision)
  <2>1. VersionAt(v, count, count) = [gen |-> v.gen, rev |-> v.rev + 1 + count - 1]
    <3>1. Reserve(v, count) = [gen |-> v.gen, rev |-> v.rev + 1]
      BY <1>1, <1>3 DEF Reserve, Versions
    <3>. QED
      BY <3>1 DEF VersionAt
  <2>. QED
    BY <1>1, <2>1 DEF Versions, Newer
<1>. QED
  BY <1>2, <1>3

\* What a step may do to the clock.
ClockMoves == clock' \in Versions /\ (clock' # clock => Newer(clock', clock))

LEMMA CommitMoves ==
  ASSUME clock \in Versions, NEW count \in Nat \ {0}, Commit(clock, count)
  PROVE  ClockMoves
BY VersionMoves DEF Commit, ClockMoves

LEMMA ClockStep ==
  ASSUME Inv, [Next]_vars
  PROVE  ClockMoves
<1>1. clock \in Versions
  BY DEF Inv, PlainTypes
<1>2. UNCHANGED clock => ClockMoves
  BY <1>1 DEF ClockMoves
<1>3. Commit(clock, 1) \/ Commit(clock, 2) => ClockMoves
  BY <1>1, CommitMoves
<1>4. CASE Command
  <2>1. CASE \E i \in Ids : Create(i)
    BY <1>3, <2>1 DEF Create
  <2>2. CASE \E i \in Ids : Delete(i)
    BY <1>2, <2>2 DEF Delete
  <2>3. CASE \E i \in Ids, p, v \in BOOLEAN : Update(i, p, v)
    BY <1>3, <2>3 DEF Update
  <2>. QED
    BY <1>2, <1>4, <2>1, <2>2, <2>3 DEF Command, AbandonRemoval
<1>5. CASE Fire
  BY <1>2, <1>3, <1>5 DEF Fire, ExpireDurable, ExpirePlain, FireInline, FireLoop
<1>6. CASE Proceed
  <2>1. CASE Spawn
    <3>1. job.source = clock
      BY <2>1 DEF Inv, ClockInv, ReservationFresh, Spawn
    <3>. QED
      BY <1>3, <2>1, <3>1 DEF Spawn
  <2>2. CASE Acknowledged
    <3>1. job.kind = "delete" => pending # Nothing /\ at # "stopped"
      BY <2>2 DEF Inv, HeldInv, Acknowledged, Expiry, Removing
    <3>2. job.kind # "delete" => job.source = clock
      <4>1. job \in DeleteJobs \cup ExpiryJobs
        BY <2>2 DEF Inv, JobTypes, Removing, Acknowledged
      <4>. QED
        BY <2>2, <4>1 DEF Inv, ClockInv, ReservationFresh, Acknowledged, DeleteJobs, ExpiryJobs
    <3>3. job.kind = "delete" => pending.source = clock
      BY <3>1 DEF Inv, ClockInv, ReservationFresh
    <3>. QED
      BY <1>3, <2>2, <3>2, <3>3 DEF Acknowledged
  <2>. QED
    BY <1>2, <1>6, <2>1, <2>2 DEF Proceed, AskUnit, Skip, Saved, SaveFailed, SaveUnknown, Unacknowledged
<1>7. CASE Shutdown
  <2>1. CASE tasks = <<>>
    BY <1>2, <1>7, <2>1 DEF Shutdown
  <2>2. CASE tasks # <<>>
    <3>1. Len(tasks) \in Nat \ {0}
      BY <2>2, TasksTyped
    <3>. QED
      BY <1>1, <1>7, <2>2, <3>1, CommitMoves DEF Shutdown
  <2>. QED
    BY <2>1, <2>2
<1>8. CASE Restart
  <2>1. clock.gen \in Nat /\ clock.rev \in Nat /\ clock' = [gen |-> clock.gen + 1, rev |-> 0]
    BY <1>1, <1>8 DEF Restart, Versions
  <2>. QED
    BY <2>1 DEF ClockMoves, Newer, Versions
<1>9. CASE \/ Writer \/ Coordinator \/ HubCloses \/ (\E n \in DOMAIN runs : Watch(n))
           \/ (\E i \in Ids : Elapse(i)) \/ Cancel \/ CloseTarget
  BY <1>2, <1>9 DEF Writer, Coordinator, HubCloses, Watch, Elapse, Cancel, CloseTarget
<1>. QED
  BY <1>2, <1>4, <1>5, <1>6, <1>7, <1>8, <1>9 DEF Next, vars

-----------------------------------------------------------------------------
(***************************************************************************)
(* Types.                                                                  *)
(***************************************************************************)
LEMMA IdsTyped ==
  ASSUME NEW s \in Listings
  PROVE  IdsIn(s) \subseteq Ids
<1>1. \A k \in DOMAIN s : s[k] \in TaskRecords
  BY DEF Listings
<1>. QED
  BY <1>1 DEF IdsIn, TaskRecords

LEMMA JobTyped ==
  ASSUME Inv
  PROVE  /\ Removing => job \in DeleteJobs \cup ExpiryJobs /\ job.task \in Ids
         /\ Looping => job \in LoopJobs /\ job.held.id \in Ids
BY DEF Inv, JobTypes, DeleteJobs, ExpiryJobs, LoopJobs, TaskRecords

LEMMA PlainStep ==
  ASSUME Inv, [Next]_vars
  PROVE  PlainTypes'
<1> USE DEF PlainTypes
<1>0. PlainTypes /\ clock' \in Versions
  BY ClockStep DEF Inv, ClockMoves
<1>1. IdsIn(tasks) \subseteq Ids /\ IdsIn(disk) \subseteq Ids /\ Held = IdsIn(tasks)
  BY TasksTyped, IdsTyped, HeldIs
<1>2. ASSUME NEW k \in DOMAIN tasks PROVE tasks[k].id \in Ids
  BY <1>1, <1>2, TasksTyped
<1>3. OneShots \subseteq Ids
  BY SchedulerAssumption
<1>4. CASE Command
  <2>1. ASSUME NEW i \in Ids, Create(i) PROVE PlainTypes'
    BY <1>0, <2>1 DEF Create, Announce, coord
  <2>2. ASSUME NEW i \in Ids, Delete(i) PROVE PlainTypes'
    <3>1. pending' \in Removals \cup {Nothing} /\ due' \in SUBSET Ids
      BY <1>0, <2>2 DEF Delete, Removals
    <3>. QED
      BY <1>0, <2>2, <3>1 DEF Delete, SaveAndFlush, coord
  <2>3. ASSUME NEW i \in Ids, NEW p \in BOOLEAN, NEW v \in BOOLEAN, Update(i, p, v) PROVE PlainTypes'
    BY <1>0, <2>3 DEF Update, Announce, coord
  <2>4. CASE AbandonRemoval
    BY <1>0, <2>4 DEF AbandonRemoval, coord, times
  <2>. QED
    BY <1>4, <2>1, <2>2, <2>3, <2>4 DEF Command
<1>5. CASE Fire
  <2>1. ASSUME NEW k \in DOMAIN tasks, ExpireDurable(k) PROVE PlainTypes'
    BY <1>0, <1>2, <2>1 DEF ExpireDurable, SaveAndFlush, coord, store
  <2>2. ASSUME NEW k \in DOMAIN tasks, ExpirePlain(k) \/ FireInline(k) PROVE PlainTypes'
    BY <1>0, <1>2, <2>2 DEF ExpirePlain, FireInline, Retract, coord
  <2>3. ASSUME NEW k \in DOMAIN tasks, FireLoop(k) PROVE PlainTypes'
    BY <1>0, <1>2, <2>3 DEF FireLoop
  <2>. QED
    BY <1>5, <2>1, <2>2, <2>3 DEF Fire
<1>6. CASE Proceed
  <2>1. CASE AskUnit \/ Skip \/ Spawn
    BY <1>0, <1>1, <2>1 DEF AskUnit, Skip, Spawn, Announce, Idle, times
  <2>2. CASE Saved \/ SaveUnknown \/ Unacknowledged
    BY <1>0, <2>2 DEF Saved, SaveUnknown, Unacknowledged, Idle, times, coord
  <2>3. CASE SaveFailed
    BY <1>0, <2>3, JobTyped DEF SaveFailed, Removing, Idle, coord
  <2>4. CASE Acknowledged
    BY <1>0, <2>4, JobTyped DEF Acknowledged, Removing, Idle, times, coord
  <2>. QED
    BY <1>6, <2>1, <2>2, <2>3, <2>4 DEF Proceed
<1>7. CASE Writer \/ Coordinator
  BY <1>0, <1>7 DEF Writer, Coordinator, times, coord
<1>8. CASE HubCloses \/ (\E n \in DOMAIN runs : Watch(n)) \/ (\E i \in Ids : Elapse(i))
  BY <1>0, <1>8 DEF HubCloses, Watch, Elapse, times, coord
<1>9. CASE Cancel \/ CloseTarget \/ Shutdown
  BY <1>0, <1>1, <1>9 DEF Cancel, CloseTarget, Shutdown, Retract, times, coord
<1>10. CASE Restart
  <2>1. shown' \in SUBSET Ids
    BY <1>0, <1>1, <1>10 DEF Restart, IdsIn
  <2>. QED
    BY <1>0, <1>10, <2>1 DEF Restart
<1>11. CASE UNCHANGED vars
  BY <1>0, <1>11 DEF vars
<1>. QED
  BY <1>4, <1>5, <1>6, <1>7, <1>8, <1>9, <1>10, <1>11 DEF Next

LEMMA JobStep ==
  ASSUME Inv, [Next]_vars
  PROVE  JobTypes'
<1> USE DEF JobTypes, Removing, Looping
<1>0. JobTypes /\ PlainTypes
  BY DEF Inv
<1>1. UNCHANGED <<at, job>> => JobTypes'
  BY <1>0
<1>2. Idle => JobTypes'
  BY DEF Idle
<1>3. CASE Command
  <2>1. ASSUME NEW i \in Ids, Delete(i) PROVE JobTypes'
    BY <2>1 DEF Delete, SaveAndFlush, DeleteJobs
  <2>2. CASE (\E i \in Ids : Create(i)) \/ AbandonRemoval
    BY <1>1, <2>2 DEF Create, AbandonRemoval
  <2>3. CASE \E i \in Ids, p, v \in BOOLEAN : Update(i, p, v)
    BY <1>1, <2>3 DEF Update
  <2>. QED
    BY <1>3, <2>1, <2>2, <2>3 DEF Command
<1>4. CASE Fire
  <2>1. ASSUME NEW k \in DOMAIN tasks, ExpireDurable(k) PROVE JobTypes'
    <3>1. tasks[k] \in TaskRecords /\ tasks[k].id \in Ids /\ k \in Nat \ {0} /\ clock \in Versions
      BY <1>0, <2>1, TasksTyped DEF PlainTypes, TaskRecords
    <3>2. CASE target
      <4>1. /\ at' = "save" 
            /\ job' = [kind |-> "expiry", task |-> tasks[k].id, held |-> tasks[k],
                       index |-> k, source |-> clock, answer |-> "wait"]
        BY <2>1, <3>2 DEF ExpireDurable, SaveAndFlush
      <4>2. job' \in ExpiryJobs
        BY <3>1, <4>1 DEF ExpiryJobs
      <4>. QED
        BY <4>1, <4>2
    <3>. QED
      BY <1>1, <2>1, <3>2 DEF ExpireDurable
  <2>2. ASSUME NEW k \in DOMAIN tasks, ExpirePlain(k) \/ FireInline(k) PROVE JobTypes'
    BY <1>1, <2>2 DEF ExpirePlain, FireInline
  <2>3. ASSUME NEW k \in DOMAIN tasks, FireLoop(k) PROVE JobTypes'
    <3>1. tasks[k] \in TaskRecords /\ clock \in Versions
      BY <1>0, <2>3, TasksTyped DEF PlainTypes
    <3>2. job' = [kind |-> "loop", held |-> tasks[k], source |-> clock, previous |-> "none",
                  answer |-> IF tasks[k].anchor = 0 THEN "inactive" ELSE IF hub THEN "wait" ELSE "lost"]
      BY <2>3 DEF FireLoop
    <3>3. job' \in LoopJobs
      BY <3>1, <3>2 DEF LoopJobs
    <3>. QED
      BY <2>3, <3>2, <3>3 DEF FireLoop
  <2>. QED
    BY <1>4, <2>1, <2>2, <2>3 DEF Fire
<1>5. CASE Proceed
  <2>1. CASE AskUnit
    <3>1. job \in LoopJobs
      BY <1>0, <2>1 DEF AskUnit
    <3>2. job' = [job EXCEPT !.previous = job.answer, !.answer = IF hub THEN "wait" ELSE "lost"]
      BY <2>1 DEF AskUnit
    <3>3. job' \in LoopJobs /\ job'.answer \in {"wait", "lost"}
      BY <2>1, <3>1, <3>2 DEF LoopJobs, AskUnit
    <3>. QED
      BY <2>1, <3>3 DEF AskUnit
  <2>2. CASE Saved
    BY <1>0, <2>2 DEF Saved
  <2>. QED
    BY <1>2, <1>5, <2>1, <2>2 DEF Proceed, Skip, Spawn, SaveFailed, SaveUnknown, Acknowledged, Unacknowledged
<1>6. CASE Writer
  <2>1. ASSUME NEW renamed \in BOOLEAN, NEW synced \in BOOLEAN, TakeFlush(renamed, synced) PROVE JobTypes'
    <3>1. CASE Head(queue).mine
      <4>1. at = "save"
        BY <2>1, <3>1, Dequeued DEF Inv, MineInv, TakeFlush
      <4>2. PICK a \in {"saved", "error"} : job' = [job EXCEPT !.answer = a]
        BY <2>1, <3>1 DEF TakeFlush, Report
      <4>3. job' \in DeleteJobs \cup ExpiryJobs
        BY <1>0, <4>1, <4>2 DEF DeleteJobs, ExpiryJobs
      <4>. QED
        BY <1>6, <4>1, <4>3 DEF Writer
    <3>. QED
      BY <1>1, <1>6, <2>1, <3>1 DEF TakeFlush, Report, Writer
  <2>. QED
    BY <1>1, <1>6, <2>1 DEF Writer
<1>7. CASE Coordinator
  <2>1. CASE Answer
    <3>1. chan # <<>> /\ Head(chan).kind \in {"query", "unit"}
      BY <2>1 DEF Answer, Msg
    <3>2. chan \in Seq(Messages) /\ 1 \in DOMAIN chan /\ Head(chan) = chan[1]
      BY <3>1 DEF Inv, ChanTypes
    <3>3. job \in LoopJobs /\ at' = at
      BY <1>0, <1>7, <3>1, <3>2 DEF Inv, AskInv, Coordinator
    <3>4. CASE Head(chan).kind = "unit"
      <4>1. at = "unit"
        BY <3>2, <3>4 DEF Inv, AskInv
      <4>2. PICK a \in {"active", "inactive"} : job' = [job EXCEPT !.answer = a]
        BY <2>1, <3>1, <3>4 DEF Answer, Msg
      <4>3. job' \in LoopJobs /\ job'.answer = a
        BY <3>3, <4>2 DEF LoopJobs
      <4>. QED
        BY <3>3, <4>1, <4>3
    <3>5. CASE Head(chan).kind = "query"
      <4>1. at = "query" /\ chan[1].run \in DOMAIN runs
        BY <3>2, <3>5 DEF Inv, AskInv, ChanTypes
      <4>2. runs[chan[1].run] \in RunRecords
        BY <4>1 DEF Inv, RunTypes
      <4>3. runs[chan[1].run].state # "sent"
        <5>1. SUFFICES ASSUME runs[chan[1].run].state = "sent" PROVE FALSE
          OBVIOUS
        <5>2. PICK l \in DOMAIN chan : chan[l].kind = "spawn"
          BY <4>1, <5>1 DEF Inv, SpawnInv
        <5>3. l < 1
          BY <3>2, <3>5, <5>2 DEF Inv, AskInv
        <5>. QED
          BY <3>2, <5>3
      <4>4. PICK a \in {"running", "none", "ok", "failed"} : job' = [job EXCEPT !.answer = a]
        <5> DEFINE s == runs[Head(chan).run].state
        <5>1. s \in {"live", "ok", "failed", "gone"}
          BY <3>2, <4>2, <4>3 DEF RunRecords
        <5>2. job' = [job EXCEPT !.answer = CASE s = "live" -> "running" [] s = "gone" -> "none" [] OTHER -> s]
          BY <2>1, <3>1, <3>5 DEF Answer, Msg
        <5> HIDE DEF s
        <5>3. (CASE s = "live" -> "running" [] s = "gone" -> "none" [] OTHER -> s) \in {"running", "none", "ok", "failed"}
          BY <5>1
        <5>. QED
          BY <5>2, <5>3
      <4>5. job' \in LoopJobs /\ job'.answer = a /\ job'.held = job.held
        BY <3>3, <4>4 DEF LoopJobs
      <4>. QED
        BY <1>0, <3>3, <4>1, <4>5
    <3>. QED
      BY <3>1, <3>4, <3>5
  <2>. QED
    BY <1>1, <1>7, <2>1 DEF Coordinator, Admit, TakeNested, Nest, NestEnds, Finish, Evict
<1>8. CASE HubCloses
  <2>1. CASE at \in {"query", "unit"} /\ job.answer = "wait"
    <3>1. job' = [job EXCEPT !.answer = "lost"] /\ at' = at /\ job \in LoopJobs
      BY <1>0, <1>8, <2>1 DEF HubCloses
    <3>2. job' \in LoopJobs /\ job'.answer = "lost" /\ job'.held = job.held
      BY <3>1 DEF LoopJobs
    <3>. QED
      BY <1>0, <2>1, <3>1, <3>2
  <2>. QED
    BY <1>1, <1>8, <2>1 DEF HubCloses
<1>9. CASE Shutdown
  BY <1>0, <1>9 DEF Shutdown
<1>10. CASE Restart
  BY <1>10 DEF Restart
<1>11. CASE (\E n \in DOMAIN runs : Watch(n)) \/ (\E i \in Ids : Elapse(i)) \/ Cancel \/ CloseTarget
  BY <1>1, <1>11 DEF Watch, Elapse, Cancel, CloseTarget
<1>. QED
  BY <1>1, <1>3, <1>4, <1>5, <1>6, <1>7, <1>8, <1>9, <1>10, <1>11 DEF Next, vars

-----------------------------------------------------------------------------
(***************************************************************************)
(* The lists of tasks and the queue of the writer.                         *)
(***************************************************************************)
LEMMA DeleteTasks ==
  ASSUME Inv, NEW i \in Ids, Delete(i)
  PROVE  /\ tasks' \in Listings /\ IdsIn(tasks') = IdsIn(tasks) \ {i} /\ i \notin fresh
         /\ pending = Nothing => i \in IdsIn(tasks) /\ Len(tasks') = Len(tasks) - 1
         /\ \A l \in DOMAIN tasks' : \E m \in DOMAIN tasks : tasks'[l] = tasks[m]
<1>1. CASE pending = Nothing
  <2>1. i \in IdsIn(tasks) /\ tasks' = RemoveAt(tasks, IndexOf(i))
    BY <1>1, HeldIs DEF Delete
  <2>2. IndexOf(i) \in DOMAIN tasks /\ tasks[IndexOf(i)].id = i
    BY <2>1, IndexOfIs
  <2>3. IdsIn(tasks) \cap fresh = {}
    BY DEF Inv, HeldInv, Snapshots
  <2>. QED
    BY <2>1, <2>2, <2>3, RemoveTasks
<1>2. CASE pending # Nothing
  <2>1. tasks' = tasks /\ pending.task = i
    BY <1>2 DEF Delete
  <2>2. i \notin IdsIn(tasks) \cup fresh
    BY <1>2, <2>1 DEF Inv, HeldInv
  <2>. QED
    BY <1>2, <2>1, <2>2, TasksTyped
<1>. QED
  BY <1>1, <1>2

\* A fire of a task leaves the list alone or takes the task out of it.
LEMMA FireTasks ==
  ASSUME Inv, NEW k \in DOMAIN tasks,
         ExpireDurable(k) \/ ExpirePlain(k) \/ FireInline(k) \/ FireLoop(k)
  PROVE  /\ tasks' \in Listings /\ IdsIn(tasks') \subseteq IdsIn(tasks)
         /\ tasks' # tasks => IdsIn(tasks') = IdsIn(tasks) \ {tasks[k].id} /\ Len(tasks') = Len(tasks) - 1
         /\ \A l \in DOMAIN tasks' : \E m \in DOMAIN tasks : tasks'[l] = tasks[m]
<1>1. CASE tasks' = tasks
  BY <1>1, TasksTyped
<1>2. CASE tasks' = RemoveAt(tasks, k)
  BY <1>2, RemoveTasks
<1>. QED
  BY <1>1, <1>2 DEF ExpireDurable, ExpirePlain, FireInline, FireLoop

LEMMA TasksStep ==
  ASSUME Inv, [Next]_vars
  PROVE  tasks' \in Listings
<1>1. UNCHANGED tasks => tasks' \in Listings
  BY TasksTyped
<1>2. CASE Command
  BY <1>1, <1>2, CreateTasks, DeleteTasks, UpdateTasks DEF Command, AbandonRemoval
<1>3. CASE Fire
  BY <1>3, FireTasks DEF Fire
<1>4. CASE Proceed
  BY <1>1, <1>4, SpawnTasks, SaveFailedTasks
     DEF Proceed, AskUnit, Skip, Saved, SaveUnknown, Acknowledged, Unacknowledged
<1>5. CASE \E n \in DOMAIN runs : Watch(n)
  BY <1>5, WatchTasks
<1>6. CASE Restart
  BY <1>6, TasksTyped DEF Restart
<1>7. CASE Writer \/ Coordinator \/ HubCloses \/ (\E i \in Ids : Elapse(i)) \/ Cancel \/ Shutdown \/ CloseTarget
  BY <1>1, <1>7 DEF Writer, Coordinator, HubCloses, Elapse, Cancel, Shutdown, CloseTarget
<1>. QED
  BY <1>1, <1>2, <1>3, <1>4, <1>5, <1>6, <1>7 DEF Next, vars

\* What a step does to the queue: nothing, one entry more, one less, or a
\* handler gives up on its entry; a new process starts with an empty one.
QueueMove ==
  \/ UNCHANGED queue
  \/ \E f, m \in BOOLEAN : queue' = Append(queue, [snapshot |-> tasks', flush |-> f, mine |-> m])
  \/ queue # <<>> /\ queue' = Tail(queue) /\ Writer
  \/ Forget /\ SaveUnknown
  \/ queue' = <<>> /\ Restart

LEMMA QueueStep ==
  ASSUME Inv, [Next]_vars
  PROVE  QueueMove
<1> USE DEF QueueMove, store
<1>1. CASE Command
  <2>1. ASSUME NEW i \in Ids, Delete(i) PROVE QueueMove
    BY <2>1 DEF Delete, SaveAndFlush
  <2>2. CASE (\E i \in Ids : Create(i)) \/ AbandonRemoval
    BY <2>2 DEF Create, AbandonRemoval
  <2>3. CASE \E i \in Ids, p, v \in BOOLEAN : Update(i, p, v)
    BY <2>3 DEF Update
  <2>. QED
    BY <1>1, <2>1, <2>2, <2>3 DEF Command
<1>2. CASE Fire
  <2>1. ASSUME NEW k \in DOMAIN tasks, ExpireDurable(k) PROVE QueueMove
    BY <2>1 DEF ExpireDurable, SaveAndFlush
  <2>. QED
    BY <1>2, <2>1 DEF Fire, ExpirePlain, FireInline, FireLoop
<1>3. CASE Proceed
  BY <1>3 DEF Proceed, AskUnit, Skip, Spawn, Saved, SaveFailed, SaveUnknown, Acknowledged, Unacknowledged
<1>4. CASE Writer
  <2>1. CASE Save
    <3>1. queue' = Append(queue, [snapshot |-> tasks', flush |-> FALSE, mine |-> FALSE])
      BY <1>4, <2>1 DEF Writer, Save
    <3>. QED
      BY <3>1
  <2>. QED
    BY <1>4, <2>1 DEF Writer, TakeSave, Debounce, TakeFlush
<1>5. CASE Restart
  BY <1>5 DEF Restart
<1>6. CASE \/ Coordinator \/ HubCloses \/ (\E n \in DOMAIN runs : Watch(n)) \/ (\E i \in Ids : Elapse(i))
           \/ Cancel \/ Shutdown \/ CloseTarget
  BY <1>6 DEF Coordinator, HubCloses, Watch, Elapse, Cancel, Shutdown, CloseTarget
<1>. QED
  BY <1>1, <1>2, <1>3, <1>4, <1>5, <1>6 DEF Next, vars

LEMMA ListStep ==
  ASSUME Inv, [Next]_vars
  PROVE  ListTypes'
<1>1. tasks' \in Listings /\ Snapshots \subseteq Listings /\ queue \in Seq(Entries)
  BY TasksStep DEF Inv, ListTypes
<1>2. Snapshots' \subseteq Listings
  BY <1>1, SnapshotsStep
<1>3. queue' \in Seq(Entries)
  <2>1. CASE \E f, m \in BOOLEAN : queue' = Append(queue, [snapshot |-> tasks', flush |-> f, mine |-> m])
    <3>1. PICK f \in BOOLEAN, m \in BOOLEAN : queue' = Append(queue, [snapshot |-> tasks', flush |-> f, mine |-> m])
      BY <2>1
    <3>2. [snapshot |-> tasks', flush |-> f, mine |-> m] \in Entries
      BY <1>1 DEF Entries
    <3>. QED
      BY <1>1, <3>1, <3>2
  <2>2. CASE queue # <<>> /\ queue' = Tail(queue)
    BY <1>1, <2>2
  <2>3. CASE Forget
    BY <2>3, Forgotten DEF Inv
  <2>4. CASE queue' = <<>>
    BY <2>4
  <2>5. CASE UNCHANGED queue
    BY <1>1, <2>5
  <2>6. QueueMove
    BY QueueStep
  <2>. QED
    BY <2>1, <2>2, <2>3, <2>4, <2>5, <2>6, Zenon DEF QueueMove
<1>. QED
  BY <1>2, <1>3 DEF ListTypes

-----------------------------------------------------------------------------
(***************************************************************************)
(* A handler that waits keeps its locals: what a step may do while one     *)
(* removes a task, and while one fires a loop.                             *)
(***************************************************************************)
KeepsRemoval ==
  /\ Removing /\ UNCHANGED <<pending, fresh, deleted, clock, shown>>
  /\ job' \in DeleteJobs \cup ExpiryJobs /\ job'.kind = job.kind /\ job'.task = job.task
  /\ job.kind = "expiry" => job'.held = job.held /\ job'.index = job.index /\ job'.source = job.source
  /\ IdsIn(tasks') = IdsIn(tasks) /\ Len(tasks') = Len(tasks)
  /\ \/ UNCHANGED job
     \/ Head(queue).mine /\ \E renamed, synced \in BOOLEAN : TakeFlush(renamed, synced)

LEMMA AnswerKeepsRemoval ==
  ASSUME NEW r \in DeleteJobs \cup ExpiryJobs, NEW a \in {"saved", "error"}
  PROVE  /\ [r EXCEPT !.answer = a] \in DeleteJobs \cup ExpiryJobs
         /\ [r EXCEPT !.answer = a].kind = r.kind /\ [r EXCEPT !.answer = a].task = r.task
         /\ [r EXCEPT !.answer = a].answer = a
         /\ r.kind = "expiry" => /\ [r EXCEPT !.answer = a].held = r.held
                                 /\ [r EXCEPT !.answer = a].index = r.index
                                 /\ [r EXCEPT !.answer = a].source = r.source
<1>1. CASE r \in DeleteJobs
  BY <1>1 DEF DeleteJobs
<1>2. CASE r \in ExpiryJobs
  BY <1>2 DEF ExpiryJobs
<1>. QED
  BY <1>1, <1>2

LEMMA RemovalStep ==
  ASSUME Inv, [Next]_vars, Removing'
  PROVE  \/ \E i \in Ids : Delete(i)
         \/ \E k \in DOMAIN tasks : ExpireDurable(k) /\ target
         \/ KeepsRemoval
<1> USE DEF Removing
<1>0. Removing => job \in DeleteJobs \cup ExpiryJobs
  BY JobTyped
<1>1. ASSUME Removing, UNCHANGED <<job, pending, fresh, deleted, clock, shown>>,
             IdsIn(tasks') = IdsIn(tasks), Len(tasks') = Len(tasks)
      PROVE  KeepsRemoval
  BY <1>0, <1>1 DEF KeepsRemoval
<1>2. CASE Command
  <2>1. CASE (\E i \in Ids : Create(i)) \/ AbandonRemoval
    BY <2>1 DEF Create, AbandonRemoval, Ready
  <2>2. CASE \E i \in Ids, p, v \in BOOLEAN : Update(i, p, v)
    BY <2>2 DEF Update, Ready
  <2>. QED
    BY <1>2, <2>1, <2>2 DEF Command
<1>3. CASE Fire
  BY <1>3 DEF Fire, ExpireDurable, ExpirePlain, FireInline, FireLoop, Firing, Ready
<1>4. CASE Proceed
  <2>1. CASE Saved
    BY <1>1, <2>1 DEF Saved, times
  <2>. QED
    BY <1>4, <2>1 DEF Proceed, AskUnit, Skip, Spawn, SaveFailed, SaveUnknown, Acknowledged, Unacknowledged, Idle
<1>5. CASE Writer
  <2>0. /\ UNCHANGED <<at, tasks, pending, fresh, deleted, clock, shown>> 
    BY <1>5 DEF Writer, times
  <2>1. CASE UNCHANGED job
    BY <1>1, <2>0, <2>1
  <2>2. ASSUME NEW renamed \in BOOLEAN, NEW synced \in BOOLEAN, TakeFlush(renamed, synced), ~UNCHANGED job
        PROVE  KeepsRemoval
    <3>1. PICK a \in {"saved", "error"} : job' = [job EXCEPT !.answer = a]
      BY <2>2 DEF TakeFlush, Report
    <3>2. Head(queue).mine
      BY <2>2 DEF TakeFlush, Report
    <3>. QED
      BY <1>0, <2>0, <2>2, <3>1, <3>2, AnswerKeepsRemoval DEF KeepsRemoval
  <2>. QED
    BY <1>5, <2>1, <2>2 DEF Writer
<1>6. CASE Coordinator
  <2>1. UNCHANGED <<at, tasks, pending, fresh, deleted, clock, shown>>
    BY <1>6 DEF Coordinator, times
  <2>2. ~Answer
    <3>1. SUFFICES ASSUME Answer PROVE FALSE
      OBVIOUS
    <3>2. 1 \in DOMAIN chan /\ Head(chan) = chan[1] /\ chan[1].kind \in {"query", "unit"}
      BY <3>1 DEF Answer, Msg, Inv, ChanTypes
    <3>. QED
      BY <2>1, <3>2 DEF Inv, AskInv
  <2>3. UNCHANGED job
    BY <1>6, <2>2 DEF Coordinator, Admit, TakeNested, Nest, NestEnds, Finish, Evict
  <2>. QED
    BY <1>1, <2>1, <2>3
<1>7. CASE HubCloses
  BY <1>1, <1>7 DEF HubCloses, times
<1>8. ASSUME NEW n \in DOMAIN runs, Watch(n) PROVE KeepsRemoval
  <2>1. tasks' \in Listings /\ IdsIn(tasks') = IdsIn(tasks) /\ DOMAIN tasks' = DOMAIN tasks
    BY <1>8, WatchTasks
  <2>2. Len(tasks') = Len(tasks)
    <3>1. tasks' \in Seq(TaskRecords) /\ tasks \in Seq(TaskRecords)
      BY <2>1, TasksTyped DEF Listings
    <3>. QED
      BY <2>1, <3>1
  <2>3. UNCHANGED <<at, job, pending, fresh, deleted, clock, shown>>
    BY <1>8 DEF Watch, times
  <2>. QED
    BY <1>1, <2>1, <2>2, <2>3
<1>9. CASE (\E i \in Ids : Elapse(i)) \/ Cancel \/ CloseTarget
  BY <1>1, <1>9 DEF Elapse, Cancel, CloseTarget, times
<1>10. CASE Shutdown \/ Restart
  BY <1>10 DEF Shutdown, Restart
<1>11. CASE UNCHANGED vars
  BY <1>1, <1>11 DEF vars
<1>. QED
  BY <1>2, <1>3, <1>4, <1>5, <1>6, <1>7, <1>8, <1>9, <1>10, <1>11 DEF Next

KeepsLoop ==
  /\ Looping /\ UNCHANGED <<at, pending, clock>>
  /\ job' \in LoopJobs /\ job'.held = job.held /\ job'.source = job.source
  /\ Len(runs') = Len(runs)
  /\ UNCHANGED tasks \/ \E n \in DOMAIN runs : Watch(n)
  /\ UNCHANGED job \/ (Answer /\ Coordinator) \/ job'.answer = "lost"

LEMMA AnswerKeepsLoop ==
  ASSUME NEW r \in LoopJobs,
         NEW a \in {"wait", "lost", "running", "none", "ok", "failed", "active", "inactive"}
  PROVE  /\ [r EXCEPT !.answer = a] \in LoopJobs /\ [r EXCEPT !.answer = a].held = r.held
         /\ [r EXCEPT !.answer = a].source = r.source /\ [r EXCEPT !.answer = a].answer = a
BY DEF LoopJobs

-----------------------------------------------------------------------------
(***************************************************************************)
(* The iterations.                                                         *)
(***************************************************************************)
\* What may happen to the record of an iteration in one step.
Evolves(r, q) ==
  /\ q.task = r.task /\ q.prompt = r.prompt /\ q.from = r.from
  /\ \/ q = r
     \/ /\ r.state = "sent" /\ q.state \in {"live", "failed"} /\ q.brood = r.brood
        /\ q.error = (q.state = "failed") /\ q.watch = q.error
     \/ /\ r.state = "live" /\ q.state \in {"ok", "failed"} /\ q.brood = r.brood
        /\ q.error = (q.state = "failed") /\ q.watch = q.error
     \/ /\ r.state \in {"ok", "failed"} /\ q.state = "gone" /\ q.brood = r.brood
        /\ q.error = r.error /\ q.watch = r.watch
     \/ r.state = "live" /\ q.brood = "marked" /\ q.state = r.state /\ q.error = r.error /\ q.watch = r.watch
     \/ q.brood \in {"stray", "over"} /\ q.state = r.state /\ q.error = r.error /\ q.watch = r.watch
     \/ q.state = "gone" /\ q.brood = "over" /\ q.error = r.error /\ q.watch = FALSE
     \/ q.state = r.state /\ q.brood = r.brood /\ q.error = r.error /\ q.watch = FALSE

KeepsRuns ==
  /\ runs' \in Seq(RunRecords) /\ DOMAIN runs' = DOMAIN runs /\ Len(runs') = Len(runs)
  /\ \A n \in DOMAIN runs : Evolves(runs[n], runs'[n])

LEMMA RunsTyped ==
  ASSUME Inv
  PROVE  /\ runs \in Seq(RunRecords) /\ DOMAIN runs = 1..Len(runs) /\ Len(runs) \in Nat
         /\ \A n \in DOMAIN runs : runs[n] \in RunRecords
BY DEF Inv, RunTypes

LEMMA OneRunEvolves ==
  ASSUME Inv, NEW h \in DOMAIN runs, NEW q \in RunRecords, Evolves(runs[h], q),
         runs' = [runs EXCEPT ![h] = q]
  PROVE  KeepsRuns
<1>1. /\ runs' \in Seq(RunRecords) /\ DOMAIN runs' = DOMAIN runs /\ Len(runs') = Len(runs)
      /\ \A n \in DOMAIN runs : runs'[n] = IF n = h THEN q ELSE runs[n]
  BY RunsTyped
<1>2. \A n \in DOMAIN runs : Evolves(runs[n], runs[n])
  BY DEF Evolves
<1>. QED
  BY <1>1, <1>2 DEF KeepsRuns

LEMMA AbandonKeepsRuns ==
  ASSUME Inv, Abandon
  PROVE  KeepsRuns
<1>1. DOMAIN runs' = DOMAIN runs
  BY DEF Abandon
<1>2. ASSUME NEW n \in DOMAIN runs PROVE runs'[n] \in RunRecords /\ Evolves(runs[n], runs'[n])
  <2>1. runs[n] \in RunRecords /\ runs'[n] = [runs[n] EXCEPT !.state = "gone", !.brood = "over", !.watch = FALSE]
    BY RunsTyped DEF Abandon
  <2>. QED
    BY <2>1 DEF RunRecords, Evolves
<1>3. runs' \in Seq(RunRecords) /\ Len(runs') = Len(runs)
  <2>1. runs' = [n \in 1..Len(runs) |-> runs'[n]]
    BY <1>1, RunsTyped DEF Abandon
  <2>. QED
    BY <1>1, <1>2, <2>1, RunsTyped
<1>. QED
  BY <1>1, <1>2, <1>3 DEF KeepsRuns

LEMMA CoordinatorRuns ==
  ASSUME Inv, Coordinator
  PROVE  KeepsRuns
<1>0. chan # <<>> => 1 \in DOMAIN chan /\ Head(chan) = chan[1]
  BY DEF Inv, ChanTypes
<1>1. CASE Admit
  <2> DEFINE h == Head(chan).run
  <2>1. h \in DOMAIN runs /\ runs[h].state = "sent" /\ runs[h] \in RunRecords
    BY <1>0, <1>1, RunsTyped DEF Admit, Msg, Inv, ChanTypes, SpawnInv
  <2>2. PICK refused \in BOOLEAN :
          runs' = [runs EXCEPT ![h] = Outcome(@, IF refused THEN "failed" ELSE "live", refused)]
    BY <1>1 DEF Admit
  <2> HIDE DEF h
  <2> DEFINE q == Outcome(runs[h], IF refused THEN "failed" ELSE "live", refused)
  <2>3. runs' = [runs EXCEPT ![h] = q]
    BY <2>1, <2>2, RunsTyped
  <2>4. q \in RunRecords /\ Evolves(runs[h], q)
    BY <2>1 DEF RunRecords, Evolves, Outcome
  <2> HIDE DEF q
  <2>. QED
    BY <2>1, <2>3, <2>4, OneRunEvolves
<1>2. CASE TakeNested
  <2> DEFINE h == Head(chan).run
  <2>1. h \in DOMAIN runs /\ runs[h] \in RunRecords
    BY <1>0, <1>2, RunsTyped DEF TakeNested, Msg, Inv, ChanTypes
  <2> DEFINE q == [runs[h] EXCEPT !.brood = IF runs[h].state = "live" THEN "marked" ELSE "stray"]
  <2>2. runs' = [runs EXCEPT ![h] = q]
    BY <1>2 DEF TakeNested
  <2> HIDE DEF h
  <2>3. q \in RunRecords /\ Evolves(runs[h], q)
    BY <2>1 DEF RunRecords, Evolves
  <2> HIDE DEF q
  <2>. QED
    BY <2>1, <2>2, <2>3, OneRunEvolves
<1>3. ASSUME NEW n \in DOMAIN runs, NestEnds(n) PROVE KeepsRuns
  <2> DEFINE q == [runs[n] EXCEPT !.brood = "over"]
  <2>1. runs' = [runs EXCEPT ![n] = q] /\ runs[n] \in RunRecords
    BY <1>3, RunsTyped DEF NestEnds
  <2>2. q \in RunRecords /\ Evolves(runs[n], q)
    BY <2>1 DEF RunRecords, Evolves
  <2> HIDE DEF q
  <2>. QED
    BY <2>1, <2>2, OneRunEvolves
<1>4. ASSUME NEW n \in DOMAIN runs, Finish(n) PROVE KeepsRuns
  <2>1. PICK failed \in BOOLEAN :
          runs' = [runs EXCEPT ![n] = Outcome(@, IF failed THEN "failed" ELSE "ok", failed)]
    BY <1>4 DEF Finish
  <2> DEFINE q == Outcome(runs[n], IF failed THEN "failed" ELSE "ok", failed)
  <2>3. runs' = [runs EXCEPT ![n] = q]
    BY <2>1, RunsTyped
  <2>4. runs[n].state = "live" /\ runs[n] \in RunRecords
    BY <1>4, RunsTyped DEF Finish
  <2>5. q \in RunRecords /\ Evolves(runs[n], q)
    BY <2>4 DEF RunRecords, Evolves, Outcome
  <2> HIDE DEF q
  <2>. QED
    BY <2>3, <2>5, OneRunEvolves
<1>5. ASSUME NEW n \in DOMAIN runs, Evict(n) PROVE KeepsRuns
  <2> DEFINE q == [runs[n] EXCEPT !.state = "gone"]
  <2>1. runs' = [runs EXCEPT ![n] = q] /\ runs[n] \in RunRecords /\ runs[n].state \in {"ok", "failed"}
    BY <1>5, RunsTyped DEF Evict
  <2>2. q \in RunRecords /\ Evolves(runs[n], q)
    BY <2>1 DEF RunRecords, Evolves
  <2> HIDE DEF q
  <2>. QED
    BY <2>1, <2>2, OneRunEvolves
<1>6. UNCHANGED runs => KeepsRuns
  BY RunsTyped DEF KeepsRuns, Evolves
<1>. QED
  BY <1>1, <1>2, <1>3, <1>4, <1>5, <1>6 DEF Coordinator, Answer, Nest

LEMMA RunsStep ==
  ASSUME Inv, [Next]_vars
  PROVE  KeepsRuns \/ (Spawn /\ hub)
<1>1. UNCHANGED runs => KeepsRuns
  BY RunsTyped DEF KeepsRuns, Evolves
<1> USE DEF coord
<1>2. CASE Command
  <2>1. CASE \E i \in Ids : Create(i) \/ Delete(i)
    BY <1>1, <2>1 DEF Create, Delete
  <2>2. CASE \E i \in Ids, p, v \in BOOLEAN : Update(i, p, v)
    BY <1>1, <2>2 DEF Update
  <2>. QED
    BY <1>1, <1>2, <2>1, <2>2 DEF Command, AbandonRemoval
<1>3. CASE Fire
  BY <1>1, <1>3 DEF Fire, ExpireDurable, ExpirePlain, FireInline, FireLoop
<1>4. CASE Proceed
  BY <1>1, <1>4 DEF Proceed, AskUnit, Skip, Spawn, Saved, SaveFailed, SaveUnknown, Acknowledged, Unacknowledged
<1>5. CASE HubCloses \/ Restart
  BY <1>5, AbandonKeepsRuns DEF HubCloses, Restart
<1>6. ASSUME NEW n \in DOMAIN runs, Watch(n) PROVE KeepsRuns
  <2> DEFINE q == [runs[n] EXCEPT !.watch = FALSE]
  <2>1. runs' = [runs EXCEPT ![n] = q] /\ runs[n] \in RunRecords
    BY <1>6, RunsTyped DEF Watch
  <2>2. q \in RunRecords /\ Evolves(runs[n], q)
    BY <2>1 DEF RunRecords, Evolves
  <2> HIDE DEF q
  <2>. QED
    BY <2>1, <2>2, OneRunEvolves
<1>7. CASE Writer \/ (\E i \in Ids : Elapse(i)) \/ Cancel \/ Shutdown \/ CloseTarget
  BY <1>1, <1>7 DEF Writer, Elapse, Cancel, Shutdown, CloseTarget
<1>. QED
  BY <1>1, <1>2, <1>3, <1>4, <1>5, <1>6, <1>7, CoordinatorRuns DEF Next, vars

LEMMA SpawnRuns ==
  ASSUME Inv, Spawn, hub
  PROVE  LET last == Len(runs) + 1 IN
         /\ runs' \in Seq(RunRecords) /\ Len(runs') = last /\ last <= MaxRuns /\ last \notin DOMAIN runs
         /\ DOMAIN runs' = DOMAIN runs \cup {last} /\ \A n \in DOMAIN runs : runs'[n] = runs[n] /\ n < last
         /\ runs'[last].task = job.held.id /\ runs'[last].state = "sent" /\ runs'[last].brood = "none"
         /\ runs'[last].error = FALSE /\ runs'[last].watch = FALSE /\ runs'[last].prompt = job.held.prompt
         /\ runs'[last].from \in 0..Len(runs)
         /\ runs'[last].from # 0 => Resumes /\ runs'[last].from = job.held.anchor
<1> DEFINE r == [task |-> job.held.id, state |-> "sent", brood |-> "none", error |-> FALSE,
                 watch |-> FALSE, prompt |-> job.held.prompt, from |-> IF Resumes THEN job.held.anchor ELSE 0]
<1>1. runs' = Append(runs, r)
  BY DEF Spawn
<1>2. /\ job.held \in TaskRecords /\ Len(runs) < MaxRuns /\ Len(runs) \in Nat
      /\ runs \in Seq(RunRecords) /\ DOMAIN runs = 1..Len(runs)
  BY LoopJob DEF Looping, Spawn
<1>3. r.from \in 0..Len(runs) /\ (r.from # 0 => Resumes /\ r.from = job.held.anchor)
  <2>1. Linked(job.held, runs)
    BY DEF Inv, LinkInv, Looping, Spawn
  <2>. QED
    BY <1>2, <2>1 DEF Linked, TaskRecords
<1>4. r \in RunRecords
  BY <1>2, <1>3, SchedulerAssumption DEF RunRecords, TaskRecords
<1>5. /\ r.task = job.held.id /\ r.state = "sent" /\ r.brood = "none" /\ r.error = FALSE /\ r.watch = FALSE
      /\ r.prompt = job.held.prompt
  OBVIOUS
<1> HIDE DEF r
<1>6. /\ runs' \in Seq(RunRecords) /\ Len(runs') = Len(runs) + 1 /\ DOMAIN runs' = 1..(Len(runs) + 1)
      /\ \A n \in 1..Len(runs) : runs'[n] = runs[n]
      /\ runs'[Len(runs) + 1] = r
  BY <1>1, <1>2, <1>4
<1>7. DOMAIN runs' = DOMAIN runs \cup {Len(runs) + 1} /\ Len(runs) + 1 \notin DOMAIN runs
  BY <1>2, <1>6
<1>8. Len(runs) + 1 <= MaxRuns /\ \A n \in DOMAIN runs : n < Len(runs) + 1
  BY <1>2, SchedulerAssumption
<1>. QED
  BY <1>2, <1>3, <1>5, <1>6, <1>7, <1>8

LEMMA LoopStep ==
  ASSUME Inv, [Next]_vars, Looping'
  PROVE  \/ \E k \in DOMAIN tasks : FireLoop(k)
         \/ AskUnit
         \/ KeepsLoop
<1> USE DEF Looping
<1>0. Looping => job \in LoopJobs
  BY JobTyped
<1>1. ASSUME UNCHANGED <<at, job, pending, clock>>, Len(runs') = Len(runs),
             UNCHANGED tasks \/ \E n \in DOMAIN runs : Watch(n)
      PROVE  KeepsLoop
  BY <1>0, <1>1 DEF KeepsLoop
<1>2. CASE Command
  <2>1. CASE (\E i \in Ids : Create(i) \/ Delete(i)) \/ AbandonRemoval
    BY <2>1 DEF Create, Delete, SaveAndFlush, AbandonRemoval, Ready
  <2>2. CASE \E i \in Ids, p, v \in BOOLEAN : Update(i, p, v)
    BY <2>2 DEF Update, Ready
  <2>. QED
    BY <1>2, <2>1, <2>2 DEF Command
<1>3. CASE Fire
  BY <1>3 DEF Fire, ExpireDurable, SaveAndFlush, ExpirePlain, FireInline, Firing, Ready
<1>4. CASE Proceed
  BY <1>4 DEF Proceed, Skip, Spawn, Saved, SaveFailed, SaveUnknown, Acknowledged, Unacknowledged, Idle
<1>5. CASE Writer
  <2>1. UNCHANGED <<at, pending, clock, runs, tasks>>
    BY <1>5 DEF Writer, coord
  <2>2. ASSUME NEW renamed \in BOOLEAN, NEW synced \in BOOLEAN, TakeFlush(renamed, synced) PROVE UNCHANGED job
    <3>1. ~Head(queue).mine
      BY <2>1, <2>2, Dequeued DEF Inv, MineInv, TakeFlush
    <3>. QED
      BY <2>2, <3>1 DEF TakeFlush, Report
  <2>. QED
    BY <1>1, <1>5, <2>1, <2>2 DEF Writer
<1>6. CASE Coordinator
  <2>1. UNCHANGED <<at, pending, clock, tasks>> /\ Len(runs') = Len(runs)
    BY <1>6, CoordinatorRuns DEF Coordinator, KeepsRuns
  <2>2. CASE UNCHANGED job
    BY <1>1, <2>1, <2>2
  <2>3. CASE ~UNCHANGED job
    <3>1. Answer
      BY <1>6, <2>3 DEF Coordinator, Admit, TakeNested, Nest, NestEnds, Finish, Evict
    <3>2. \E a : job' = [job EXCEPT !.answer = a]
      BY <3>1 DEF Answer
    <3>3. job' \in LoopJobs
      BY JobStep DEF JobTypes
    <3>4. job \in LoopJobs
      BY <1>0, <2>1
    <3>5. job'.held = job.held /\ job'.source = job.source
      BY <3>2, <3>4 DEF LoopJobs
    <3>. QED
      BY <1>6, <2>1, <3>1, <3>3, <3>5 DEF KeepsLoop
  <2>. QED
    BY <2>2, <2>3
<1>7. CASE HubCloses
  <2>1. UNCHANGED <<at, pending, clock, tasks>> /\ Len(runs') = Len(runs)
    BY <1>7, AbandonKeepsRuns DEF HubCloses, KeepsRuns
  <2>2. job \in LoopJobs
    BY <1>0, <2>1
  <2>3. CASE job' = [job EXCEPT !.answer = "lost"]
    BY <2>1, <2>2, <2>3, AnswerKeepsLoop DEF KeepsLoop
  <2>. QED
    BY <1>1, <1>7, <2>1, <2>3 DEF HubCloses
<1>8. ASSUME NEW n \in DOMAIN runs, Watch(n) PROVE KeepsLoop
  <2>1. UNCHANGED <<at, job, pending, clock>> /\ ~Spawn
    BY <1>8 DEF Watch, Spawn, Idle
  <2>2. Len(runs') = Len(runs)
    BY <2>1, RunsStep DEF KeepsRuns
  <2>. QED
    BY <1>1, <1>8, <2>1, <2>2
<1>9. CASE (\E i \in Ids : Elapse(i)) \/ Cancel \/ CloseTarget
  BY <1>1, <1>9 DEF Elapse, Cancel, CloseTarget, coord
<1>10. CASE Shutdown \/ Restart
  BY <1>10 DEF Shutdown, Restart
<1>11. CASE UNCHANGED vars
  BY <1>1, <1>11 DEF vars
<1>. QED
  BY <1>2, <1>3, <1>4, <1>5, <1>6, <1>7, <1>8, <1>9, <1>10, <1>11 DEF Next

LEMMA RunTypesStep ==
  ASSUME Inv, [Next]_vars
  PROVE  RunTypes'
<1>0. RunTypes
  BY DEF Inv
<1>1. Looping' => Len(runs') < MaxRuns
  <2>1. CASE \E k \in DOMAIN tasks : FireLoop(k)
    BY <2>1 DEF FireLoop
  <2>2. CASE AskUnit
    BY <1>0, <2>2 DEF AskUnit, Looping, RunTypes
  <2>3. CASE KeepsLoop
    BY <1>0, <2>3 DEF KeepsLoop, RunTypes
  <2>. QED
    BY <2>1, <2>2, <2>3, LoopStep
<1>2. CASE KeepsRuns
  <2>1. ASSUME NEW n \in DOMAIN runs
        PROVE  /\ runs'[n].from < n /\ (runs'[n].watch => runs'[n].error)
               /\ (Running(n)' => ~runs'[n].error)
    <3>1. /\ runs[n].from < n /\ (runs[n].watch => runs[n].error) /\ (Running(n) => ~runs[n].error)
          /\ runs[n] \in RunRecords /\ Evolves(runs[n], runs'[n])
      BY <1>0, <1>2, <2>1, RunsTyped DEF RunTypes, KeepsRuns
    <3>. QED
      BY <3>1 DEF Evolves, Running, RunRecords
  <2>. QED
    BY <1>0, <1>1, <1>2, <2>1 DEF RunTypes, KeepsRuns
<1>3. CASE Spawn /\ hub
  <2> DEFINE last == Len(runs) + 1
  <2>1. /\ runs' \in Seq(RunRecords) /\ Len(runs') = last /\ last <= MaxRuns
        /\ DOMAIN runs' = DOMAIN runs \cup {last} /\ \A n \in DOMAIN runs : runs'[n] = runs[n]
        /\ runs'[last].error = FALSE /\ runs'[last].watch = FALSE /\ runs'[last].from \in 0..Len(runs)
    BY <1>3, SpawnRuns
  <2>2. runs'[last].from < last
    BY <2>1, RunsTyped
  <2> HIDE DEF last
  <2>3. ASSUME NEW n \in DOMAIN runs'
        PROVE  /\ runs'[n].from < n /\ (runs'[n].watch => runs'[n].error)
               /\ (Running(n)' => ~runs'[n].error)
    BY <1>0, <2>1, <2>2 DEF RunTypes, Running
  <2>. QED
    BY <1>1, <2>1, <2>3 DEF RunTypes
<1>. QED
  BY <1>2, <1>3, RunsStep

-----------------------------------------------------------------------------
(***************************************************************************)
(* Ids on hold.                                                            *)
(***************************************************************************)
LEMMA FreshStep ==
  ASSUME Inv, [Next]_vars
  PROVE  fresh' \subseteq fresh /\ IdsIn(tasks') \cap fresh' = {}
<1>0. IdsIn(tasks) \cap fresh = {} /\ IdsIn(disk) \cap fresh = {}
  BY DEF Inv, HeldInv, Snapshots
<1>1. ASSUME UNCHANGED fresh, IdsIn(tasks') \subseteq IdsIn(tasks)
      PROVE  fresh' \subseteq fresh /\ IdsIn(tasks') \cap fresh' = {}
  BY <1>0, <1>1
<1> USE DEF times
<1>2. CASE Command
  <2>1. ASSUME NEW i \in Ids, Create(i) PROVE fresh' \subseteq fresh /\ IdsIn(tasks') \cap fresh' = {}
    BY <1>0, <2>1, CreateTasks DEF Create
  <2>2. ASSUME NEW i \in Ids, Delete(i) PROVE fresh' \subseteq fresh /\ IdsIn(tasks') \cap fresh' = {}
    BY <1>1, <2>2, DeleteTasks DEF Delete
  <2>3. ASSUME NEW i \in Ids, NEW p \in BOOLEAN, NEW v \in BOOLEAN, Update(i, p, v)
        PROVE  fresh' \subseteq fresh /\ IdsIn(tasks') \cap fresh' = {}
    BY <1>1, <2>3, UpdateTasks DEF Update
  <2>. QED
    BY <1>1, <1>2, <2>1, <2>2, <2>3 DEF Command, AbandonRemoval
<1>3. CASE Fire
  <2>1. UNCHANGED fresh
    BY <1>3 DEF Fire, ExpireDurable, ExpirePlain, FireInline, FireLoop
  <2>2. IdsIn(tasks') \subseteq IdsIn(tasks)
    BY <1>3, FireTasks DEF Fire
  <2>. QED
    BY <1>1, <2>1, <2>2
<1>4. CASE Proceed
  <2>1. CASE Spawn
    BY <1>1, <2>1, SpawnTasks DEF Spawn
  <2>2. CASE SaveFailed
    <3>1. UNCHANGED fresh /\ (Expiry => job.held.id \notin fresh)
      BY <2>2, ExpiryJob DEF SaveFailed
    <3>. QED
      BY <1>0, <2>2, <3>1, SaveFailedTasks
  <2>. QED
    BY <1>1, <1>4, <2>1, <2>2 DEF Proceed, AskUnit, Skip, Saved, SaveUnknown, Acknowledged, Unacknowledged
<1>5. CASE Restart
  BY <1>0, <1>5 DEF Restart
<1>6. ASSUME NEW n \in DOMAIN runs, Watch(n) PROVE fresh' \subseteq fresh /\ IdsIn(tasks') \cap fresh' = {}
  BY <1>1, <1>6, WatchTasks DEF Watch
<1>7. CASE Writer \/ Coordinator \/ HubCloses \/ (\E i \in Ids : Elapse(i)) \/ Cancel \/ Shutdown \/ CloseTarget
  BY <1>1, <1>7 DEF Writer, Coordinator, HubCloses, Elapse, Cancel, Shutdown, CloseTarget
<1>. QED
  BY <1>1, <1>2, <1>3, <1>4, <1>5, <1>6, <1>7 DEF Next, vars

\* A removal that is pending, and a list that can only lose tasks meanwhile.
LEMMA PendingStep ==
  ASSUME Inv, [Next]_vars, pending' # Nothing
  PROVE  \/ pending = Nothing /\ \E i \in Ids : Delete(i) /\ pending' = [task |-> i, source |-> clock]
         \/ pending' = pending /\ IdsIn(tasks') \subseteq IdsIn(tasks)
<1>1. CASE Command
  <2>1. CASE \E i \in Ids : Create(i)
    BY <2>1 DEF Create
  <2>2. ASSUME NEW i \in Ids, Delete(i)
        PROVE  \/ pending = Nothing /\ pending' = [task |-> i, source |-> clock]
               \/ pending' = pending /\ IdsIn(tasks') \subseteq IdsIn(tasks)
    <3>1. CASE pending = Nothing
      BY <2>2, <3>1 DEF Delete
    <3>2. CASE pending # Nothing
      BY <2>2, <3>2 DEF Delete
    <3>. QED
      BY <3>1, <3>2
  <2>3. CASE \E i \in Ids, p, v \in BOOLEAN : Update(i, p, v)
    BY <2>3 DEF Update
  <2>4. CASE AbandonRemoval
    BY <2>4 DEF AbandonRemoval
  <2>. QED
    BY <1>1, <2>1, <2>2, <2>3, <2>4 DEF Command
<1>2. CASE Fire
  <2>1. UNCHANGED pending
    BY <1>2 DEF Fire, ExpireDurable, ExpirePlain, FireInline, FireLoop
  <2>. QED
    BY <1>2, <2>1, FireTasks DEF Fire
<1>3. CASE Proceed
  <2>1. CASE Spawn
    BY <2>1, SpawnTasks DEF Spawn
  <2>2. CASE SaveFailed
    <3>1. UNCHANGED pending
      BY <2>2 DEF SaveFailed
    <3>2. ~Expiry
      BY <3>1 DEF Inv, ClockInv
    <3>. QED
      BY <2>2, <3>1, <3>2, SaveFailedTasks
  <2>. QED
    BY <1>3, <2>1, <2>2 DEF Proceed, AskUnit, Skip, Saved, SaveUnknown, Acknowledged, Unacknowledged
<1>4. CASE Restart
  BY <1>4 DEF Restart
<1>5. ASSUME NEW n \in DOMAIN runs, Watch(n) PROVE pending' = pending /\ IdsIn(tasks') \subseteq IdsIn(tasks)
  BY <1>5, WatchTasks DEF Watch
<1>6. CASE Writer \/ Coordinator \/ HubCloses \/ (\E i \in Ids : Elapse(i)) \/ Cancel \/ Shutdown \/ CloseTarget
  BY <1>6 DEF Writer, Coordinator, HubCloses, Elapse, Cancel, Shutdown, CloseTarget
<1>. QED
  BY <1>1, <1>2, <1>3, <1>4, <1>5, <1>6 DEF Next, vars

\* The locals of a Delete and of an expiry when they begin to wait.
LEMMA DeleteBegins ==
  ASSUME Inv, NEW i \in Ids, Delete(i)
  PROVE  /\ at' = "save" /\ job' = [kind |-> "delete", task |-> i, answer |-> "wait"] /\ at = "idle"
         /\ pending' # Nothing /\ pending'.task = i /\ ~Expiry'
         /\ pending = Nothing => pending'.source = clock
         /\ pending # Nothing => pending' = pending
         /\ UNCHANGED <<fresh, clock, deleted, shown>>
<1>1. CASE pending = Nothing
  <2>1. pending' = [task |-> i, source |-> clock]
    BY <1>1 DEF Delete
  <2>2. pending' \in Removals
    BY <2>1 DEF Removals, Inv, PlainTypes
  <2>3. pending' # Nothing
    BY <2>2, NothingAssumption
  <2>. QED
    BY <1>1, <2>1, <2>3 DEF Delete, SaveAndFlush, Ready, Expiry
<1>2. CASE pending # Nothing
  BY <1>2 DEF Delete, SaveAndFlush, Ready, Expiry
<1>. QED
  BY <1>1, <1>2

LEMMA ExpiryBegins ==
  ASSUME Inv, NEW k \in DOMAIN tasks, ExpireDurable(k), target
  PROVE  /\ at' = "save" /\ at = "idle" /\ pending = Nothing /\ pending' = Nothing /\ Expiry'
         /\ job' = [kind |-> "expiry", task |-> tasks[k].id, held |-> tasks[k],
                    index |-> k, source |-> clock, answer |-> "wait"]
         /\ tasks' = RemoveAt(tasks, k) /\ IdsIn(tasks') = IdsIn(tasks) \ {tasks[k].id}
         /\ Len(tasks') = Len(tasks) - 1 /\ tasks' \in Listings
         /\ UNCHANGED <<fresh, clock, deleted, shown, runs>>
<1>1. tasks' = RemoveAt(tasks, k)
  BY DEF ExpireDurable
<1>2. IdsIn(tasks') = IdsIn(tasks) \ {tasks[k].id} /\ Len(tasks') = Len(tasks) - 1 /\ tasks' \in Listings
  BY <1>1, RemoveTasks
<1>. QED
  BY <1>1, <1>2 DEF ExpireDurable, SaveAndFlush, Firing, Ready, Expiry, Removing, coord

LEMMA HeldStep ==
  ASSUME Inv, [Next]_vars
  PROVE  HeldInv'
<1>0. HeldInv
  BY DEF Inv
<1>1. \A s \in Snapshots' : IdsIn(s) \cap fresh' = {}
  BY <1>0, SnapshotsStep, FreshStep DEF HeldInv
<1>2. \A n \in DOMAIN runs' : runs'[n].task \notin fresh'
  <2>1. CASE KeepsRuns
    BY <1>0, <2>1, FreshStep DEF KeepsRuns, Evolves, HeldInv
  <2>2. CASE Spawn /\ hub
    <3>1. job.held.id \in IdsIn(tasks)
      BY <2>2, HeldIs DEF Spawn
    <3>2. job.held.id \notin fresh
      BY <1>0, <3>1 DEF HeldInv, Snapshots
    <3>. QED
      BY <1>0, <2>2, <3>2, SpawnRuns, FreshStep DEF HeldInv
  <2>. QED
    BY <2>1, <2>2, RunsStep
<1>3. ASSUME pending' # Nothing PROVE pending'.task \notin IdsIn(tasks') \cup fresh'
  <2>1. ASSUME NEW i \in Ids, Delete(i), pending' = [task |-> i, source |-> clock]
        PROVE  pending'.task \notin IdsIn(tasks') \cup fresh'
    BY <2>1, DeleteTasks, FreshStep
  <2>2. CASE pending' = pending /\ IdsIn(tasks') \subseteq IdsIn(tasks)
    BY <1>0, <1>3, <2>2, FreshStep DEF HeldInv
  <2>. QED
    BY <1>3, <2>1, <2>2, PendingStep
<1>4. ASSUME Removing'
      PROVE  /\ ~Expiry' => pending' # Nothing /\ pending'.task = job'.task
             /\ Expiry' => /\ job'.held.id = job'.task /\ job'.task \notin IdsIn(tasks') \cup fresh'
                           /\ job'.index <= Len(tasks') + 1
  <2>1. ASSUME NEW i \in Ids, Delete(i) PROVE ~Expiry' /\ pending' # Nothing /\ pending'.task = job'.task
    BY <2>1, DeleteBegins
  <2>2. ASSUME NEW k \in DOMAIN tasks, ExpireDurable(k), target
        PROVE  /\ Expiry' /\ job'.held.id = job'.task /\ job'.task \notin IdsIn(tasks') \cup fresh'
               /\ job'.index <= Len(tasks') + 1
    <3>1. /\ job'.held = tasks[k] /\ job'.task = tasks[k].id /\ job'.index = k /\ fresh' = fresh /\ Expiry'
          /\ IdsIn(tasks') = IdsIn(tasks) \ {tasks[k].id} /\ Len(tasks') = Len(tasks) - 1
      BY <2>2, ExpiryBegins
    <3>2. tasks[k].id \notin fresh
      BY <1>0, TasksTyped DEF HeldInv, Snapshots
    <3>. QED
      BY <3>1, <3>2, TasksTyped
  <2>3. CASE KeepsRemoval
    BY <1>0, <1>4, <2>3 DEF KeepsRemoval, HeldInv, Expiry
  <2>. QED
    BY <1>4, <2>1, <2>2, <2>3, RemovalStep
<1>5. Expiry' => Removing'
  BY DEF Expiry
<1>. QED
  BY <1>2, <1>1, <1>3, <1>4, <1>5 DEF HeldInv

-----------------------------------------------------------------------------
(***************************************************************************)
(* Reservations.                                                           *)
(***************************************************************************)
LEMMA PendingHoldsClock ==
  ASSUME Inv, [Next]_vars, pending' # Nothing, at' # "stopped"
  PROVE  at # "stopped" /\ clock' = clock
<1>0. Looping \/ Expiry => pending = Nothing
  BY DEF Inv, ClockInv
<1>1. CASE Command
  <2>1. CASE (\E i \in Ids : Create(i)) \/ AbandonRemoval
    BY <2>1 DEF Create, AbandonRemoval
  <2>2. CASE \E i \in Ids : Delete(i)
    BY <2>2 DEF Delete, Ready
  <2>3. CASE \E i \in Ids, p, v \in BOOLEAN : Update(i, p, v)
    BY <2>3 DEF Update
  <2>. QED
    BY <1>1, <2>1, <2>2, <2>3 DEF Command
<1>2. CASE Fire
  BY <1>2 DEF Fire, ExpireDurable, ExpirePlain, FireInline, FireLoop, Firing
<1>3. CASE Proceed
  <2>1. CASE Spawn
    BY <1>0, <2>1 DEF Spawn, Looping
  <2>2. CASE Acknowledged
    <3>1. job \in DeleteJobs \cup ExpiryJobs
      BY <2>2, JobTyped DEF Acknowledged, Removing
    <3>2. job.kind = "delete" \/ Expiry
      BY <2>2, <3>1 DEF Acknowledged, Expiry, Removing, DeleteJobs, ExpiryJobs
    <3>. QED
      BY <1>0, <2>2, <3>2 DEF Acknowledged, Expiry
  <2>. QED
    BY <1>3, <2>1, <2>2 DEF Proceed, AskUnit, Skip, Saved, SaveFailed, SaveUnknown, Unacknowledged
<1>4. CASE Writer \/ Coordinator \/ HubCloses \/ Shutdown \/ Restart
  BY <1>4 DEF Writer, Coordinator, HubCloses, Shutdown, Restart
<1>5. CASE (\E n \in DOMAIN runs : Watch(n)) \/ (\E i \in Ids : Elapse(i)) \/ Cancel \/ CloseTarget
  BY <1>5 DEF Watch, Elapse, Cancel, CloseTarget
<1>. QED
  BY <1>1, <1>2, <1>3, <1>4, <1>5 DEF Next, vars

LEMMA ClockInvStep ==
  ASSUME Inv, [Next]_vars
  PROVE  ClockInv'
<1>0. ReservationFresh /\ (Expiry \/ Looping => pending = Nothing)
  BY DEF Inv, ClockInv
<1>1. ASSUME pending' # Nothing, at' # "stopped" PROVE pending'.source = clock'
  <2>1. at # "stopped" /\ clock' = clock
    BY <1>1, PendingHoldsClock
  <2>2. CASE pending' = pending
    BY <1>0, <1>1, <2>1, <2>2 DEF ReservationFresh
  <2>3. CASE \E i \in Ids : pending' = [task |-> i, source |-> clock]
    BY <2>1, <2>3
  <2>. QED
    BY <1>1, <2>2, <2>3, PendingStep
<1>2. ASSUME Looping' PROVE job'.source = clock' /\ pending' = Nothing
  <2>1. ASSUME NEW k \in DOMAIN tasks, FireLoop(k) PROVE job'.source = clock' /\ pending' = Nothing
    BY <2>1 DEF FireLoop, Firing
  <2>2. CASE AskUnit
    <3>1. job \in LoopJobs /\ Looping
      BY <2>2, JobTyped DEF AskUnit, Looping
    <3>2. job'.source = job.source
      BY <2>2, <3>1 DEF AskUnit, LoopJobs
    <3>. QED
      BY <1>0, <2>2, <3>1, <3>2 DEF AskUnit, ReservationFresh
  <2>3. CASE KeepsLoop
    BY <1>0, <2>3 DEF KeepsLoop, ReservationFresh, Looping
  <2>. QED
    BY <1>2, <2>1, <2>2, <2>3, LoopStep
<1>3. ASSUME Expiry' PROVE job'.source = clock' /\ pending' = Nothing
  <2>1. ASSUME NEW i \in Ids, Delete(i) PROVE FALSE
    BY <1>3, <2>1, DeleteBegins
  <2>2. ASSUME NEW k \in DOMAIN tasks, ExpireDurable(k), target PROVE job'.source = clock' /\ pending' = Nothing
    BY <2>2, ExpiryBegins
  <2>3. CASE KeepsRemoval
    BY <1>0, <1>3, <2>3 DEF KeepsRemoval, ReservationFresh, Expiry, Removing
  <2>. QED
    BY <1>3, <2>1, <2>2, <2>3, RemovalStep DEF Expiry
<1>. QED
  BY <1>1, <1>2, <1>3 DEF ClockInv, ReservationFresh, Looping, Expiry, Removing

-----------------------------------------------------------------------------
(***************************************************************************)
(* The entry a handler waits for.                                          *)
(***************************************************************************)
LEMMA MineStep ==
  ASSUME Inv, [Next]_vars
  PROVE  MineInv'
<1>0. MineInv /\ ListTypes
  BY DEF Inv
<1> DEFINE noMine == \A k \in DOMAIN queue : ~queue[k].mine
<1>1. at # "save" \/ job.answer # "wait" => noMine
  BY <1>0 DEF MineInv
<1>2. ASSUME UNCHANGED queue, UNCHANGED <<at, job>> \/ at # "save" \/ job.answer # "wait" PROVE MineInv'
  BY <1>0, <1>1, <1>2 DEF MineInv
<1>3. ASSUME NEW s, queue' = Append(queue, [snapshot |-> s, flush |-> TRUE, mine |-> TRUE]), at = "idle",
             at' = "save", job'.answer = "wait"
      PROVE  MineInv'
  <2>1. noMine
    BY <1>1, <1>3
  <2> HIDE DEF noMine
  <2>2. /\ DOMAIN queue' = DOMAIN queue \cup {Len(queue) + 1}
        /\ \A k \in DOMAIN queue : queue'[k] = queue[k]
        /\ queue'[Len(queue) + 1].flush = TRUE
    BY <1>0, <1>3, Enqueued
  <2>. QED
    BY <1>3, <2>1, <2>2 DEF MineInv, noMine
<1>4. ASSUME queue # <<>>, queue' = Tail(queue), UNCHANGED at, UNCHANGED job \/ Head(queue).mine
      PROVE  MineInv'
  <2>1. /\ Head(queue) = queue[1] /\ 1 \in DOMAIN queue
        /\ \A k \in DOMAIN queue' : queue'[k] = queue[k + 1] /\ k + 1 \in DOMAIN queue /\ k \in Nat \ {0}
    BY <1>0, <1>4, Dequeued
  <2>2. CASE Head(queue).mine
    <3>1. \A k \in DOMAIN queue' : ~queue'[k].mine
      <4>1. SUFFICES ASSUME NEW k \in DOMAIN queue', queue'[k].mine PROVE FALSE
        OBVIOUS
      <4>2. k + 1 \in DOMAIN queue /\ queue[k + 1].mine /\ queue[1].mine /\ k + 1 # 1
        BY <2>1, <2>2, <4>1
      <4>. QED
        BY <1>0, <2>1, <4>2 DEF MineInv
    <3>. QED
      BY <3>1 DEF MineInv
  <2>3. CASE UNCHANGED job
    <3>1. \A k \in DOMAIN queue' : queue'[k].mine => queue'[k].flush /\ at' = "save" /\ job'.answer = "wait"
      BY <1>0, <1>4, <2>1, <2>3 DEF MineInv
    <3>2. ASSUME NEW k \in DOMAIN queue', NEW l \in DOMAIN queue', queue'[k].mine, queue'[l].mine PROVE k = l
      <4>1. k + 1 = l + 1
        BY <1>0, <2>1, <3>2 DEF MineInv
      <4>. QED
        BY <2>1, <4>1
    <3>. QED
      BY <3>1, <3>2 DEF MineInv
  <2>. QED
    BY <1>4, <2>2, <2>3
<1> HIDE DEF noMine
<1> USE DEF store
<1>5. CASE Command
  <2>1. ASSUME NEW i \in Ids, Delete(i) PROVE MineInv'
    BY <1>3, <2>1, DeleteBegins DEF Delete, SaveAndFlush
  <2>2. CASE (\E i \in Ids : Create(i)) \/ AbandonRemoval
    BY <1>2, <2>2 DEF Create, AbandonRemoval
  <2>3. CASE \E i \in Ids, p, v \in BOOLEAN : Update(i, p, v)
    BY <1>2, <2>3 DEF Update
  <2>. QED
    BY <1>5, <2>1, <2>2, <2>3 DEF Command
<1>6. CASE Fire
  <2>1. ASSUME NEW k \in DOMAIN tasks, ExpireDurable(k), target PROVE MineInv'
    <3>1. queue' = Append(queue, [snapshot |-> tasks', flush |-> TRUE, mine |-> TRUE])
      BY <2>1 DEF ExpireDurable, SaveAndFlush
    <3>2. at = "idle" /\ at' = "save" /\ job'.answer = "wait"
      BY <2>1, ExpiryBegins
    <3>. QED
      BY <1>3, <3>1, <3>2
  <2>2. ASSUME NEW k \in DOMAIN tasks, ExpireDurable(k), ~target PROVE MineInv'
    BY <1>2, <2>2 DEF ExpireDurable
  <2>3. ASSUME NEW k \in DOMAIN tasks, ExpirePlain(k) \/ FireInline(k) \/ FireLoop(k) PROVE MineInv'
    BY <1>2, <2>3 DEF ExpirePlain, FireInline, FireLoop, Firing, Ready
  <2>. QED
    BY <1>6, <2>1, <2>2, <2>3 DEF Fire
<1>7. CASE Proceed
  <2>1. CASE SaveUnknown
    <3>1. \A k \in DOMAIN queue' : ~queue'[k].mine
      BY <1>0, <2>1, Forgotten DEF SaveUnknown
    <3>. QED
      BY <3>1 DEF MineInv
  <2>2. CASE AskUnit \/ Skip \/ Spawn
    BY <1>2, <2>2 DEF AskUnit, Skip, Spawn
  <2>3. CASE Saved \/ SaveFailed \/ Acknowledged \/ Unacknowledged
    BY <1>2, <2>3 DEF Saved, SaveFailed, Acknowledged, Unacknowledged
  <2>. QED
    BY <1>7, <2>1, <2>2, <2>3 DEF Proceed
<1>8. CASE Writer
  <2>0. UNCHANGED at
    BY <1>8 DEF Writer
  <2>1. CASE Save /\ UNCHANGED job
    <3>1. /\ DOMAIN queue' = DOMAIN queue \cup {Len(queue) + 1}
          /\ \A k \in DOMAIN queue : queue'[k] = queue[k]
          /\ queue'[Len(queue) + 1].mine = FALSE
      BY <1>0, <2>1, Enqueued DEF Save
    <3>. QED
      BY <1>0, <2>0, <2>1, <3>1 DEF MineInv
  <2>2. CASE TakeSave /\ UNCHANGED job
    BY <1>4, <2>0, <2>2 DEF TakeSave
  <2>3. CASE Debounce /\ UNCHANGED job
    BY <1>2, <2>0, <2>3 DEF Debounce
  <2>4. ASSUME NEW renamed \in BOOLEAN, NEW synced \in BOOLEAN, TakeFlush(renamed, synced) PROVE MineInv'
    BY <1>4, <2>0, <2>4 DEF TakeFlush, Report
  <2>. QED
    BY <1>8, <2>1, <2>2, <2>3, <2>4 DEF Writer
<1>9. CASE Coordinator
  <2>1. UNCHANGED <<queue, at>>
    BY <1>9 DEF Coordinator
  <2>2. CASE Answer
    <3>1. 1 \in DOMAIN chan /\ chan[1].kind \in {"query", "unit"}
      BY <2>2 DEF Answer, Msg, Inv, ChanTypes
    <3>. QED
      BY <1>2, <2>1, <3>1 DEF Inv, AskInv
  <2>3. CASE ~Answer
    BY <1>2, <1>9, <2>1, <2>3 DEF Coordinator, Admit, TakeNested, Nest, NestEnds, Finish, Evict
  <2>. QED
    BY <2>2, <2>3
<1>10. CASE HubCloses
  BY <1>2, <1>10 DEF HubCloses
<1>11. CASE Shutdown
  BY <1>2, <1>11 DEF Shutdown
<1>12. CASE Restart
  BY <1>12 DEF Restart, MineInv
<1>13. CASE (\E n \in DOMAIN runs : Watch(n)) \/ (\E i \in Ids : Elapse(i)) \/ Cancel \/ CloseTarget
  BY <1>2, <1>13 DEF Watch, Elapse, Cancel, CloseTarget
<1>. QED
  BY <1>2, <1>5, <1>6, <1>7, <1>8, <1>9, <1>10, <1>11, <1>12, <1>13 DEF Next, vars

-----------------------------------------------------------------------------
(***************************************************************************)
(* The channel of the coordinator.                                         *)
(***************************************************************************)
LEMMA ChanTyped ==
  ASSUME Inv
  PROVE  /\ chan \in Seq(Messages) /\ DOMAIN chan = 1..Len(chan) /\ Len(chan) \in Nat
         /\ \A k \in DOMAIN chan : chan[k] \in Messages
BY DEF Inv, ChanTypes

LEMMA ChanGrows ==
  ASSUME Inv, NEW msg \in Messages, chan' = Append(chan, msg)
  PROVE  /\ chan' \in Seq(Messages) /\ DOMAIN chan' = DOMAIN chan \cup {Len(chan) + 1}
         /\ chan'[Len(chan) + 1] = msg
         /\ \A k \in DOMAIN chan : chan'[k] = chan[k] /\ k < Len(chan) + 1 /\ k # Len(chan) + 1
BY ChanTyped

LEMMA ChanShrinks ==
  ASSUME Inv, chan # <<>>, chan' = Tail(chan)
  PROVE  /\ chan' \in Seq(Messages) /\ Head(chan) = chan[1] /\ 1 \in DOMAIN chan
         /\ \A k \in DOMAIN chan' : /\ k \in Nat \ {0} /\ k + 1 \in DOMAIN chan /\ k + 1 # 1
                                    /\ chan'[k] = chan[k + 1]
         /\ \A k \in DOMAIN chan \ {1} : k - 1 \in DOMAIN chan' /\ chan'[k - 1] = chan[k]
BY ChanTyped

LEMMA Withdrawn ==
  ASSUME Inv, chan' = Withdraw
  PROVE  /\ chan' \in Seq(Messages)
         /\ \A l \in DOMAIN chan' : /\ chan'[l].kind \notin {"query", "unit"}
                                    /\ \E m \in DOMAIN chan : chan'[l] = chan[m]
         /\ \A m \in DOMAIN chan : chan[m].kind \notin {"query", "unit"} =>
              \E l \in DOMAIN chan' : chan'[l] = chan[m]
         /\ \A l, m \in DOMAIN chan' :
              chan'[l].kind = "spawn" /\ chan'[m].kind = "spawn" /\ chan'[l].run = chan'[m].run => l = m
<1>0. SpawnInv /\ AskInv
  BY DEF Inv
<1>1. CASE Questions = {}
  <2>1. chan' = chan
    BY <1>1 DEF Withdraw
  <2>. QED
    BY <1>0, <1>1, <2>1, ChanTyped DEF Questions, SpawnInv
<1>2. CASE Questions # {}
  <2> DEFINE q == CHOOSE k \in Questions : TRUE
  <2>1. q \in Questions
    BY <1>2
  <2>2. chan' = RemoveAt(chan, q)
    BY <1>2 DEF Withdraw
  <2> HIDE DEF q
  <2>3. q \in DOMAIN chan /\ chan[q].kind \in {"query", "unit"} /\ q \in 1..Len(chan)
    BY <2>1, ChanTyped DEF Questions
  <2>4. /\ chan' \in Seq(Messages) /\ Len(chan') = Len(chan) - 1
        /\ \A l \in 1..(Len(chan) - 1) : chan'[l] = IF l < q THEN chan[l] ELSE chan[l + 1]
    BY <2>2, <2>3, ChanTyped, RemoveAtIs
  <2> DEFINE old(l) == IF l < q THEN l ELSE l + 1
  <2>5. \A l \in DOMAIN chan' : old(l) \in DOMAIN chan /\ old(l) # q /\ chan'[l] = chan[old(l)]
    BY <2>3, <2>4, ChanTyped
  <2>6. \A l, m \in DOMAIN chan' : old(l) = old(m) => l = m
    BY <2>3, <2>4, ChanTyped
  <2>7. ASSUME NEW m \in DOMAIN chan, m # q PROVE \E l \in DOMAIN chan' : chan'[l] = chan[m]
    <3>1. CASE m < q
      BY <2>3, <2>4, <3>1, ChanTyped
    <3>2. CASE m > q
      <4>1. m - 1 \in DOMAIN chan' /\ chan'[m - 1] = chan[m]
        BY <2>3, <2>4, <2>7, <3>2, ChanTyped
      <4>. QED
        BY <4>1
    <3>. QED
      BY <2>3, <2>7, <3>1, <3>2, ChanTyped
  <2> HIDE DEF old
  <2>8. ASSUME NEW l \in DOMAIN chan'
        PROVE  chan'[l].kind \notin {"query", "unit"} /\ \E m \in DOMAIN chan : chan'[l] = chan[m]
    <3>1. old(l) \in DOMAIN chan /\ old(l) # q /\ chan'[l] = chan[old(l)]
      BY <2>5
    <3>. QED
      BY <1>0, <2>3, <3>1 DEF AskInv
  <2>9. ASSUME NEW l \in DOMAIN chan', NEW m \in DOMAIN chan',
               chan'[l].kind = "spawn", chan'[m].kind = "spawn", chan'[l].run = chan'[m].run
        PROVE  l = m
    <3>1. old(l) = old(m)
      BY <1>0, <2>5, <2>9 DEF SpawnInv
    <3>. QED
      BY <2>6, <3>1
  <2>. QED
    BY <2>3, <2>4, <2>7, <2>8, <2>9
<1>. QED
  BY <1>1, <1>2

\* What a step does to the channel.
ChanMove ==
  \/ UNCHANGED chan
  \/ \E k \in DOMAIN tasks :
       FireLoop(k) /\ tasks[k].anchor # 0 /\ chan' = Append(chan, [kind |-> "query", run |-> tasks[k].anchor])
  \/ AskUnit /\ chan' = Append(chan, [kind |-> "unit", task |-> job.held.id])
  \/ Spawn /\ hub
  \/ \E n \in DOMAIN runs : Nest(n) /\ Coordinator
  \/ (Admit \/ TakeNested \/ Answer) /\ Coordinator
  \/ Skip
  \/ chan' = <<>> /\ Abandon /\ (HubCloses \/ Restart)

LEMMA ChanStep ==
  ASSUME Inv, [Next]_vars
  PROVE  ChanMove
<1> USE DEF ChanMove, coord
<1>1. CASE Command
  <2>1. CASE \E i \in Ids : Create(i) \/ Delete(i)
    BY <2>1 DEF Create, Delete
  <2>2. CASE \E i \in Ids, p, v \in BOOLEAN : Update(i, p, v)
    BY <2>2 DEF Update
  <2>. QED
    BY <1>1, <2>1, <2>2 DEF Command, AbandonRemoval
<1>2. CASE Fire
  <2>1. ASSUME NEW k \in DOMAIN tasks, FireLoop(k) PROVE ChanMove
    BY <2>1 DEF FireLoop
  <2>2. ASSUME NEW k \in DOMAIN tasks, ExpireDurable(k) \/ ExpirePlain(k) \/ FireInline(k) PROVE ChanMove
    BY <2>2 DEF ExpireDurable, ExpirePlain, FireInline
  <2>. QED
    BY <1>2, <2>1, <2>2 DEF Fire
<1>3. CASE Proceed
  <2>1. CASE AskUnit
    BY <2>1 DEF AskUnit
  <2>2. CASE Spawn
    BY <2>2 DEF Spawn
  <2>. QED
    BY <1>3, <2>1, <2>2 DEF Proceed, Saved, SaveFailed, SaveUnknown, Acknowledged, Unacknowledged
<1>4. CASE Coordinator
  <2>1. CASE \E n \in DOMAIN runs : NestEnds(n) \/ Finish(n) \/ Evict(n)
    BY <2>1 DEF NestEnds, Finish, Evict
  <2>. QED
    BY <1>4, <2>1 DEF Coordinator
<1>5. CASE HubCloses \/ Restart
  BY <1>5 DEF HubCloses, Restart
<1>6. CASE Writer \/ (\E n \in DOMAIN runs : Watch(n)) \/ (\E i \in Ids : Elapse(i)) \/ Cancel \/ Shutdown \/ CloseTarget
  BY <1>6 DEF Writer, Watch, Elapse, Cancel, Shutdown, CloseTarget
<1>. QED
  BY <1>1, <1>2, <1>3, <1>4, <1>5, <1>6 DEF Next, vars

\* The question that FireLoop or AskUnit appends, and the request of Spawn.
LEMMA MessagesTyped ==
  ASSUME Inv
  PROVE  /\ \A k \in DOMAIN tasks : tasks[k].anchor # 0 =>
              [kind |-> "query", run |-> tasks[k].anchor] \in Messages /\ tasks[k].anchor \in DOMAIN runs
         /\ Looping => [kind |-> "unit", task |-> job.held.id] \in Messages
         /\ Spawn /\ hub => [kind |-> "spawn", run |-> Len(runs) + 1] \in Messages
         /\ \A n \in DOMAIN runs : [kind |-> "nest", run |-> n] \in Messages
<1>1. ASSUME NEW k \in DOMAIN tasks, tasks[k].anchor # 0
      PROVE  [kind |-> "query", run |-> tasks[k].anchor] \in Messages /\ tasks[k].anchor \in DOMAIN runs
  <2>1. tasks[k] \in TaskRecords /\ Linked(tasks[k], runs)
    BY TasksTyped DEF Inv, LinkInv, Snapshots
  <2>2. tasks[k].anchor \in 1..MaxRuns /\ tasks[k].anchor \in DOMAIN runs
    BY <1>1, <2>1, RunsTyped, SchedulerAssumption DEF TaskRecords, Linked
  <2>. QED
    BY <2>2 DEF Messages, RunMessages
<1>2. Looping => [kind |-> "unit", task |-> job.held.id] \in Messages
  BY JobTyped DEF Messages, UnitMessages
<1>3. ASSUME Spawn, hub PROVE [kind |-> "spawn", run |-> Len(runs) + 1] \in Messages
  <2>1. Len(runs) + 1 \in 1..MaxRuns
    BY <1>3, LoopJob, SchedulerAssumption DEF Spawn, Looping
  <2>. QED
    BY <2>1 DEF Messages, RunMessages
<1>4. ASSUME NEW n \in DOMAIN runs PROVE [kind |-> "nest", run |-> n] \in Messages
  <2>1. n \in 1..MaxRuns
    BY RunsTyped, SchedulerAssumption DEF Inv, RunTypes
  <2>. QED
    BY <2>1 DEF Messages, RunMessages
<1>. QED
  BY <1>1, <1>2, <1>3, <1>4

LEMMA ChanTypesStep ==
  ASSUME Inv, [Next]_vars
  PROVE  ChanTypes'
<1>0. ChanTypes
  BY DEF Inv
<1>1. DOMAIN runs \subseteq DOMAIN runs'
  BY RunsStep, SpawnRuns DEF KeepsRuns
<1>2. ASSUME NEW msg \in Messages, chan' = Append(chan, msg), msg.kind # "unit" => msg.run \in DOMAIN runs'
      PROVE  ChanTypes'
  BY <1>0, <1>1, <1>2, ChanGrows DEF ChanTypes
<1>3. CASE UNCHANGED chan
  BY <1>0, <1>1, <1>3 DEF ChanTypes
<1>4. ASSUME NEW k \in DOMAIN tasks, tasks[k].anchor # 0,
             chan' = Append(chan, [kind |-> "query", run |-> tasks[k].anchor])
      PROVE  ChanTypes'
  <2>1. [kind |-> "query", run |-> tasks[k].anchor] \in Messages /\ tasks[k].anchor \in DOMAIN runs'
    BY <1>1, <1>4, MessagesTyped
  <2>. QED
    BY <1>2, <1>4, <2>1
<1>5. CASE AskUnit /\ chan' = Append(chan, [kind |-> "unit", task |-> job.held.id])
  <2>1. [kind |-> "unit", task |-> job.held.id] \in Messages
    BY <1>5, MessagesTyped DEF AskUnit, Looping
  <2>. QED
    BY <1>2, <1>5, <2>1
<1>6. CASE Spawn /\ hub
  <2>1. [kind |-> "spawn", run |-> Len(runs) + 1] \in Messages /\ Len(runs) + 1 \in DOMAIN runs'
    BY <1>6, MessagesTyped, SpawnRuns
  <2>2. chan' = Append(chan, [kind |-> "spawn", run |-> Len(runs) + 1])
    BY <1>6 DEF Spawn
  <2>. QED
    BY <1>2, <2>1, <2>2
<1>7. ASSUME NEW n \in DOMAIN runs, Nest(n) PROVE ChanTypes'
  <2>1. [kind |-> "nest", run |-> n] \in Messages /\ chan' = Append(chan, [kind |-> "nest", run |-> n])
    BY <1>7, MessagesTyped DEF Nest
  <2>. QED
    BY <1>1, <1>2, <2>1
<1>8. CASE Admit \/ TakeNested \/ Answer
  <2>1. chan # <<>> /\ chan' = Tail(chan)
    BY <1>8 DEF Admit, TakeNested, Answer, Msg
  <2>. QED
    BY <1>0, <1>1, <2>1, ChanShrinks DEF ChanTypes
<1>9. CASE Skip
  <2>1. chan' = Withdraw
    BY <1>9 DEF Skip
  <2>2. /\ chan' \in Seq(Messages)
        /\ \A l \in DOMAIN chan' : \E m \in DOMAIN chan : chan'[l] = chan[m]
    BY <2>1, Withdrawn
  <2>. QED
    BY <1>0, <1>1, <2>2 DEF ChanTypes
<1>10. CASE chan' = <<>>
  BY <1>10 DEF ChanTypes
<1>. QED
  BY <1>3, <1>4, <1>5, <1>6, <1>7, <1>8, <1>9, <1>10, ChanStep DEF ChanMove

\* Without a handler that waits for the coordinator no question is in the channel.
NoQuestion == \A k \in DOMAIN chan : chan[k].kind \notin {"query", "unit"}

\* A step that keeps the channel keeps the handler that waits for its answer.
LEMMA QuietChan ==
  ASSUME Inv, [Next]_vars, UNCHANGED chan
  PROVE  UNCHANGED <<at, job>> \/ NoQuestion
<1>1. ~(Looping /\ job.answer = "wait") => NoQuestion
  BY DEF Inv, AskInv, NoQuestion, Looping
<1> USE DEF Looping
<1>2. CASE Command
  <2>1. CASE (\E i \in Ids : Create(i) \/ Delete(i)) \/ AbandonRemoval
    BY <1>1, <2>1 DEF Create, Delete, AbandonRemoval, Ready
  <2>2. CASE \E i \in Ids, p, v \in BOOLEAN : Update(i, p, v)
    BY <2>2 DEF Update
  <2>. QED
    BY <1>2, <2>1, <2>2 DEF Command
<1>3. CASE Fire
  <2>1. at = "idle"
    BY <1>3 DEF Fire, ExpireDurable, ExpirePlain, FireInline, FireLoop, Firing, Ready
  <2>. QED
    BY <1>1, <2>1
<1>4. CASE Proceed
  <2>1. CASE Skip
    <3>1. \A l \in DOMAIN chan' : chan'[l].kind \notin {"query", "unit"}
      BY <2>1, Withdrawn DEF Skip
    <3>. QED
      BY <3>1 DEF NoQuestion
  <2>2. CASE AskUnit \/ Spawn
    BY <1>1, <2>2 DEF AskUnit, Spawn
  <2>3. CASE Saved \/ SaveFailed \/ SaveUnknown \/ Acknowledged \/ Unacknowledged
    BY <1>1, <2>3 DEF Saved, SaveFailed, SaveUnknown, Acknowledged, Unacknowledged
  <2>. QED
    BY <1>4, <2>1, <2>2, <2>3 DEF Proceed
<1>5. CASE Writer
  <2>1. ASSUME NEW renamed \in BOOLEAN, NEW synced \in BOOLEAN, TakeFlush(renamed, synced)
        PROVE  UNCHANGED job \/ at = "save"
    BY <2>1, Dequeued DEF TakeFlush, Report, Inv, MineInv
  <2>. QED
    BY <1>1, <1>5, <2>1 DEF Writer
<1>6. CASE Coordinator
  <2>1. CASE Answer
    <3>1. chan # <<>> /\ chan' = Tail(chan)
      BY <2>1 DEF Answer, Msg
    <3>2. Len(chan') = Len(chan) - 1
      BY <3>1, ChanTyped
    <3>. QED
      BY <3>2, ChanTyped
  <2>. QED
    BY <1>6, <2>1 DEF Coordinator, Admit, TakeNested, Nest, NestEnds, Finish, Evict
<1>7. CASE HubCloses \/ Restart
  <2>1. DOMAIN chan = {}
    BY <1>7 DEF HubCloses, Restart
  <2>. QED
    BY <2>1 DEF NoQuestion
<1>8. CASE Shutdown
  BY <1>1, <1>8 DEF Shutdown
<1>9. CASE (\E n \in DOMAIN runs : Watch(n)) \/ (\E i \in Ids : Elapse(i)) \/ Cancel \/ CloseTarget
  BY <1>9 DEF Watch, Elapse, Cancel, CloseTarget
<1>. QED
  BY <1>2, <1>3, <1>4, <1>5, <1>6, <1>7, <1>8, <1>9 DEF Next, vars

LEMMA AskStep ==
  ASSUME Inv, [Next]_vars
  PROVE  AskInv'
<1>0. AskInv
  BY DEF Inv
<1>1. ~(Looping /\ job.answer = "wait") => NoQuestion
  BY <1>0 DEF AskInv, NoQuestion, Looping
<1>2. ASSUME \A k \in DOMAIN chan' : chan'[k].kind \notin {"query", "unit"} PROVE AskInv'
  BY <1>2 DEF AskInv
<1>3. CASE UNCHANGED chan
  <2>1. CASE UNCHANGED <<at, job>>
    BY <1>0, <1>3, <2>1 DEF AskInv
  <2>2. CASE NoQuestion
    BY <1>2, <1>3, <2>2 DEF NoQuestion
  <2>. QED
    BY <1>3, <2>1, <2>2, QuietChan
<1>4. ASSUME NEW msg \in Messages, NoQuestion, chan' = Append(chan, msg),
             msg.kind = "query" => at' = "query" /\ job'.answer = "wait" /\ msg.run = job'.held.anchor,
             msg.kind = "unit" => at' = "unit" /\ job'.answer = "wait" /\ msg.task = job'.held.id
      PROVE  AskInv'
  <2> DEFINE last == Len(chan) + 1
  <2>1. /\ DOMAIN chan' = DOMAIN chan \cup {last} /\ chan'[last] = msg
        /\ \A k \in DOMAIN chan : chan'[k] = chan[k] /\ k < last
    BY <1>4, ChanGrows
  <2> HIDE DEF last
  <2>. QED
    BY <1>4, <2>1 DEF AskInv, NoQuestion
<1>5. ASSUME NEW k \in DOMAIN tasks, FireLoop(k), tasks[k].anchor # 0,
             chan' = Append(chan, [kind |-> "query", run |-> tasks[k].anchor])
      PROVE  AskInv'
  <2>1. [kind |-> "query", run |-> tasks[k].anchor] \in Messages
    BY <1>5, MessagesTyped
  <2>2. NoQuestion
    BY <1>1, <1>5 DEF FireLoop, Firing, Ready, Looping
  <2>3. at' = "query" /\ job'.held = tasks[k]
    BY <1>5 DEF FireLoop
  <2>4. job'.answer = "wait"
    <3>1. hub
      <4>1. SUFFICES ASSUME ~hub PROVE FALSE
        OBVIOUS
      <4>2. chan' = chan
        BY <1>5, <4>1 DEF FireLoop
      <4>3. Len(chan') = Len(chan) + 1
        BY <1>5, <2>1, ChanTyped
      <4>. QED
        BY <4>2, <4>3, ChanTyped
    <3>. QED
      BY <1>5, <3>1 DEF FireLoop
  <2>. QED
    BY <1>4, <1>5, <2>1, <2>2, <2>3, <2>4
<1>6. CASE AskUnit /\ chan' = Append(chan, [kind |-> "unit", task |-> job.held.id])
  <2>1. [kind |-> "unit", task |-> job.held.id] \in Messages /\ job \in LoopJobs
    BY <1>6, MessagesTyped, JobTyped DEF AskUnit, Looping
  <2>2. NoQuestion
    BY <1>1, <1>6 DEF AskUnit
  <2>3. at' = "unit" /\ job'.held = job.held
    BY <1>6, <2>1 DEF AskUnit, LoopJobs
  <2>4. hub
    <3>1. SUFFICES ASSUME ~hub PROVE FALSE
      OBVIOUS
    <3>2. chan' = chan
      BY <1>6, <3>1 DEF AskUnit
    <3>3. Len(chan') = Len(chan) + 1
      BY <1>6, <2>1, ChanTyped
    <3>. QED
      BY <3>2, <3>3, ChanTyped
  <2>5. job'.answer = "wait"
    BY <1>6, <2>1, <2>4 DEF AskUnit, LoopJobs
  <2>. QED
    BY <1>4, <1>6, <2>1, <2>2, <2>3, <2>5
<1>7. CASE Spawn /\ hub
  <2>1. [kind |-> "spawn", run |-> Len(runs) + 1] \in Messages
    BY <1>7, MessagesTyped
  <2>2. NoQuestion
    BY <1>1, <1>7 DEF Spawn
  <2>3. chan' = Append(chan, [kind |-> "spawn", run |-> Len(runs) + 1])
    BY <1>7 DEF Spawn
  <2>. QED
    BY <1>4, <2>1, <2>2, <2>3
<1>8. ASSUME NEW n \in DOMAIN runs, Nest(n), Coordinator PROVE AskInv'
  <2>1. [kind |-> "nest", run |-> n] \in Messages /\ chan' = Append(chan, [kind |-> "nest", run |-> n])
    BY <1>8, MessagesTyped DEF Nest
  <2>2. UNCHANGED <<at, job>>
    BY <1>8 DEF Nest, Coordinator
  <2> DEFINE last == Len(chan) + 1
  <2>3. /\ DOMAIN chan' = DOMAIN chan \cup {last} /\ chan'[last] = [kind |-> "nest", run |-> n]
        /\ \A k \in DOMAIN chan : chan'[k] = chan[k] /\ k < last
    BY <2>1, ChanGrows
  <2> HIDE DEF last
  <2>. QED
    BY <1>0, <2>2, <2>3 DEF AskInv
<1>9. ASSUME Admit \/ TakeNested, Coordinator PROVE AskInv'
  <2>1. chan # <<>> /\ chan' = Tail(chan) /\ UNCHANGED <<at, job>>
    BY <1>9 DEF Admit, TakeNested, Coordinator, Msg
  <2>2. \A k \in DOMAIN chan' : k \in Nat /\ k + 1 \in DOMAIN chan /\ chan'[k] = chan[k + 1]
    BY <2>1, ChanShrinks
  <2>3. ASSUME NEW k \in DOMAIN chan'
        PROVE  /\ chan'[k].kind = "query" => at' = "query" /\ job'.answer = "wait" /\ chan'[k].run = job'.held.anchor
               /\ chan'[k].kind = "unit" => at' = "unit" /\ job'.answer = "wait" /\ chan'[k].task = job'.held.id
    BY <1>0, <2>1, <2>2 DEF AskInv
  <2>4. ASSUME NEW k \in DOMAIN chan', NEW l \in DOMAIN chan'
        PROVE  /\ chan'[k].kind \in {"query", "unit"} /\ chan'[l].kind \in {"query", "unit"} => k = l
               /\ chan'[k].kind = "query" /\ chan'[l].kind = "spawn" => l < k
    <3>1. /\ chan'[k].kind \in {"query", "unit"} /\ chan'[l].kind \in {"query", "unit"} => k + 1 = l + 1
          /\ chan'[k].kind = "query" /\ chan'[l].kind = "spawn" => l + 1 < k + 1
      BY <1>0, <2>2 DEF AskInv
    <3>. QED
      BY <2>2, <3>1
  <2>. QED
    BY <2>3, <2>4 DEF AskInv
<1>10. CASE Answer
  <2>1. chan # <<>> /\ chan' = Tail(chan) /\ Head(chan).kind \in {"query", "unit"}
    BY <1>10 DEF Answer, Msg
  <2>2. /\ chan[1].kind \in {"query", "unit"} /\ 1 \in DOMAIN chan
        /\ \A k \in DOMAIN chan' : k + 1 \in DOMAIN chan /\ k + 1 # 1 /\ chan'[k] = chan[k + 1]
    BY <2>1, ChanShrinks
  <2>3. \A k \in DOMAIN chan' : chan'[k].kind \notin {"query", "unit"}
    BY <1>0, <2>2 DEF AskInv
  <2>. QED
    BY <1>2, <2>3
<1>11. CASE Skip
  <2>1. \A k \in DOMAIN chan' : chan'[k].kind \notin {"query", "unit"}
    BY <1>11, Withdrawn DEF Skip
  <2>. QED
    BY <1>2, <2>1
<1>12. CASE chan' = <<>>
  BY <1>12 DEF AskInv
<1>. QED
  BY <1>3, <1>5, <1>6, <1>7, <1>8, <1>9, <1>10, <1>11, <1>12, ChanStep DEF ChanMove

-----------------------------------------------------------------------------
(***************************************************************************)
(* Requests that are sent and not admitted yet.                            *)
(***************************************************************************)
SentKept == \A n \in DOMAIN runs : runs'[n].state = "sent" <=> runs[n].state = "sent"

LEMMA SentStep ==
  ASSUME Inv, [Next]_vars, ~Admit, ~HubCloses, ~Restart
  PROVE  SentKept
<1>1. UNCHANGED runs => SentKept
  BY DEF SentKept
<1> USE DEF coord
<1>2. CASE Command
  <2>1. CASE \E i \in Ids : Create(i) \/ Delete(i)
    BY <1>1, <2>1 DEF Create, Delete
  <2>2. CASE \E i \in Ids, p, v \in BOOLEAN : Update(i, p, v)
    BY <1>1, <2>2 DEF Update
  <2>. QED
    BY <1>1, <1>2, <2>1, <2>2 DEF Command, AbandonRemoval
<1>3. CASE Fire
  BY <1>1, <1>3 DEF Fire, ExpireDurable, ExpirePlain, FireInline, FireLoop
<1>4. CASE Proceed
  <2>1. CASE Spawn /\ hub
    BY <2>1, SpawnRuns DEF SentKept
  <2>. QED
    BY <1>1, <1>4, <2>1 DEF Proceed, AskUnit, Skip, Spawn, Saved, SaveFailed, SaveUnknown, Acknowledged, Unacknowledged
<1>5. CASE Coordinator
  <2>1. CASE TakeNested
    <3>1. PICK h, b : runs' = [runs EXCEPT ![h].brood = b]
      BY <2>1 DEF TakeNested
    <3>. QED
      BY <3>1, RunsTyped DEF SentKept, RunRecords
  <2>2. ASSUME NEW n \in DOMAIN runs, NestEnds(n) PROVE SentKept
    BY <2>2, RunsTyped DEF NestEnds, SentKept, RunRecords
  <2>3. ASSUME NEW n \in DOMAIN runs, Evict(n) PROVE SentKept
    BY <2>3, RunsTyped DEF Evict, SentKept, RunRecords
  <2>4. ASSUME NEW n \in DOMAIN runs, Finish(n) PROVE SentKept
    <3>1. KeepsRuns /\ runs[n].state = "live"
      BY <1>5, <2>4, CoordinatorRuns DEF Finish
    <3>2. \A m \in DOMAIN runs \ {n} : runs'[m] = runs[m]
      BY <2>4, RunsTyped DEF Finish
    <3>3. runs'[n].state # "sent"
      BY <3>1 DEF KeepsRuns, Evolves
    <3>. QED
      BY <3>1, <3>2, <3>3 DEF SentKept
  <2>. QED
    BY <1>1, <1>5, <2>1, <2>2, <2>3, <2>4 DEF Coordinator, Answer, Nest
<1>6. ASSUME NEW n \in DOMAIN runs, Watch(n) PROVE SentKept
  BY <1>6, RunsTyped DEF Watch, SentKept, RunRecords
<1>7. CASE Writer \/ (\E i \in Ids : Elapse(i)) \/ Cancel \/ Shutdown \/ CloseTarget
  BY <1>1, <1>7 DEF Writer, Elapse, Cancel, Shutdown, CloseTarget
<1>. QED
  BY <1>1, <1>2, <1>3, <1>4, <1>5, <1>6, <1>7 DEF Next, vars

LEMMA SpawnInvStep ==
  ASSUME Inv, [Next]_vars
  PROVE  SpawnInv'
<1>0. SpawnInv /\ ChanTypes
  BY DEF Inv
<1>1. CASE Admit
  <2> DEFINE h == chan[1].run
  <2>1. /\ chan # <<>> /\ chan' = Tail(chan) /\ Head(chan).kind = "spawn"
        /\ \E refused \in BOOLEAN : runs' =
             [runs EXCEPT ![Head(chan).run] = Outcome(@, IF refused THEN "failed" ELSE "live", refused)]
    BY <1>1 DEF Admit, Msg
  <2>2. /\ Head(chan) = chan[1] /\ 1 \in DOMAIN chan
        /\ \A k \in DOMAIN chan' : k \in Nat /\ k + 1 \in DOMAIN chan /\ k + 1 # 1 /\ chan'[k] = chan[k + 1]
        /\ \A k \in DOMAIN chan \ {1} : k - 1 \in DOMAIN chan' /\ chan'[k - 1] = chan[k]
    BY <2>1, ChanShrinks
  <2>3. h \in DOMAIN runs /\ chan[1].kind = "spawn"
    BY <1>0, <2>1, <2>2 DEF ChanTypes
  <2>4. PICK refused \in BOOLEAN : runs' =
             [runs EXCEPT ![h] = Outcome(@, IF refused THEN "failed" ELSE "live", refused)]
    BY <2>1, <2>2
  <2> HIDE DEF h
  <2>5. /\ DOMAIN runs' = DOMAIN runs /\ runs'[h].state # "sent" 
        /\ \A n \in DOMAIN runs \ {h} : runs'[n] = runs[n]
    <3>1. runs[h] \in RunRecords /\ runs'[h] = Outcome(runs[h], IF refused THEN "failed" ELSE "live", refused)
      BY <2>3, <2>4, RunsTyped
    <3>2. runs'[h].state = IF refused THEN "failed" ELSE "live"
      BY <3>1 DEF Outcome, RunRecords
    <3>. QED
      BY <2>3, <2>4, <3>2, RunsTyped
  <2>6. \A k \in DOMAIN chan \ {1} : chan[k].kind = "spawn" => chan[k].run # h /\ chan[k].run \in DOMAIN runs
    BY <1>0, <2>2, <2>3 DEF SpawnInv, ChanTypes, h
  <2>7. \A k \in DOMAIN chan' : chan'[k].kind = "spawn" => runs'[chan'[k].run].state = "sent"
    BY <1>0, <2>2, <2>5, <2>6 DEF SpawnInv
  <2>8. ASSUME NEW k \in DOMAIN chan', NEW l \in DOMAIN chan',
               chan'[k].kind = "spawn", chan'[l].kind = "spawn", chan'[k].run = chan'[l].run
        PROVE  k = l
    <3>1. k + 1 = l + 1
      BY <1>0, <2>2, <2>8 DEF SpawnInv
    <3>. QED
      BY <2>2, <3>1
  <2>9. ASSUME NEW n \in DOMAIN runs', runs'[n].state = "sent"
        PROVE  \E k \in DOMAIN chan' : chan'[k].kind = "spawn" /\ chan'[k].run = n
    <3>1. n # h /\ n \in DOMAIN runs /\ runs[n].state = "sent"
      BY <2>5, <2>9
    <3>2. PICK k \in DOMAIN chan : chan[k].kind = "spawn" /\ chan[k].run = n
      BY <1>0, <3>1 DEF SpawnInv
    <3>3. k # 1
      BY <3>1, <3>2 DEF h
    <3>. QED
      BY <2>2, <3>2, <3>3
  <2>. QED
    BY <2>7, <2>8, <2>9 DEF SpawnInv
<1>2. CASE HubCloses \/ Restart
  <2>1. chan' = <<>> /\ Abandon
    BY <1>2 DEF HubCloses, Restart
  <2>2. DOMAIN runs' = DOMAIN runs /\ \A n \in DOMAIN runs : runs'[n].state = "gone"
    BY <2>1, RunsTyped DEF Abandon, RunRecords
  <2>. QED
    BY <2>1, <2>2 DEF SpawnInv
<1>3. CASE ~Admit /\ ~HubCloses /\ ~Restart /\ ~(Spawn /\ hub)
  <2>1. SentKept /\ DOMAIN runs' = DOMAIN runs
    BY <1>3, SentStep, RunsStep DEF KeepsRuns
  <2>2. ASSUME \A l \in DOMAIN chan' : chan'[l].kind = "spawn" => \E m \in DOMAIN chan : chan'[l] = chan[m],
               \A m \in DOMAIN chan : chan[m].kind = "spawn" => \E l \in DOMAIN chan' : chan'[l] = chan[m],
               \A l, m \in DOMAIN chan' :
                 chan'[l].kind = "spawn" /\ chan'[m].kind = "spawn" /\ chan'[l].run = chan'[m].run => l = m
        PROVE  SpawnInv'
    <3>1. \A k \in DOMAIN chan' : chan'[k].kind = "spawn" => runs'[chan'[k].run].state = "sent"
      <4>1. SUFFICES ASSUME NEW k \in DOMAIN chan', chan'[k].kind = "spawn" PROVE runs'[chan'[k].run].state = "sent"
        OBVIOUS
      <4>2. PICK m \in DOMAIN chan : chan'[k] = chan[m]
        BY <2>2, <4>1
      <4>. QED
        BY <1>0, <2>1, <4>1, <4>2 DEF SpawnInv, SentKept, ChanTypes
    <3>2. ASSUME NEW n \in DOMAIN runs', runs'[n].state = "sent"
          PROVE  \E k \in DOMAIN chan' : chan'[k].kind = "spawn" /\ chan'[k].run = n
      <4>1. n \in DOMAIN runs /\ runs[n].state = "sent"
        BY <2>1, <3>2 DEF SentKept
      <4>2. PICK m \in DOMAIN chan : chan[m].kind = "spawn" /\ chan[m].run = n
        BY <1>0, <4>1 DEF SpawnInv
      <4>3. PICK l \in DOMAIN chan' : chan'[l] = chan[m]
        BY <2>2, <4>2
      <4>. QED
        BY <4>2, <4>3
    <3>. QED
      BY <2>2, <3>1, <3>2 DEF SpawnInv
  <2>3. CASE UNCHANGED chan
    BY <1>0, <2>2, <2>3 DEF SpawnInv
  <2>4. ASSUME NEW msg \in Messages, msg.kind # "spawn", chan' = Append(chan, msg) PROVE SpawnInv'
    <3> DEFINE last == Len(chan) + 1
    <3>1. /\ DOMAIN chan' = DOMAIN chan \cup {last} /\ chan'[last] = msg
          /\ \A k \in DOMAIN chan : chan'[k] = chan[k]
      BY <2>4, ChanGrows
    <3> HIDE DEF last
    <3>2. \A l \in DOMAIN chan' : chan'[l].kind = "spawn" => l \in DOMAIN chan /\ chan'[l] = chan[l]
      BY <2>4, <3>1
    <3>3. \A l, m \in DOMAIN chan' :
            chan'[l].kind = "spawn" /\ chan'[m].kind = "spawn" /\ chan'[l].run = chan'[m].run => l = m
      BY <1>0, <3>2 DEF SpawnInv
    <3>. QED
      BY <2>2, <3>1, <3>2, <3>3
  <2>5. ASSUME NEW k \in DOMAIN tasks, tasks[k].anchor # 0,
               chan' = Append(chan, [kind |-> "query", run |-> tasks[k].anchor])
        PROVE  SpawnInv'
    <3>1. [kind |-> "query", run |-> tasks[k].anchor] \in Messages
      BY <2>5, MessagesTyped
    <3>. QED
      BY <2>4, <2>5, <3>1
  <2>6. CASE AskUnit /\ chan' = Append(chan, [kind |-> "unit", task |-> job.held.id])
    <3>1. [kind |-> "unit", task |-> job.held.id] \in Messages
      BY <2>6, MessagesTyped DEF AskUnit, Looping
    <3>. QED
      BY <2>4, <2>6, <3>1
  <2>7. ASSUME NEW n \in DOMAIN runs, Nest(n) PROVE SpawnInv'
    <3>1. [kind |-> "nest", run |-> n] \in Messages /\ chan' = Append(chan, [kind |-> "nest", run |-> n])
      BY <2>7, MessagesTyped DEF Nest
    <3>. QED
      BY <2>4, <3>1
  <2>8. CASE TakeNested \/ Answer
    <3>1. chan # <<>> /\ chan' = Tail(chan) /\ Head(chan).kind # "spawn"
      BY <2>8 DEF TakeNested, Answer, Msg
    <3>2. /\ chan[1].kind # "spawn"
          /\ \A k \in DOMAIN chan' : k \in Nat /\ k + 1 \in DOMAIN chan /\ chan'[k] = chan[k + 1]
          /\ \A k \in DOMAIN chan \ {1} : k - 1 \in DOMAIN chan' /\ chan'[k - 1] = chan[k]
      BY <3>1, ChanShrinks
    <3>3. ASSUME NEW k \in DOMAIN chan', NEW l \in DOMAIN chan',
                 chan'[k].kind = "spawn", chan'[l].kind = "spawn", chan'[k].run = chan'[l].run
          PROVE  k = l
      <4>1. k + 1 = l + 1
        BY <1>0, <3>2, <3>3 DEF SpawnInv
      <4>. QED
        BY <3>2, <4>1
    <3>4. \A m \in DOMAIN chan : chan[m].kind = "spawn" => \E l \in DOMAIN chan' : chan'[l] = chan[m]
      BY <3>2
    <3>. QED
      BY <2>2, <3>2, <3>3, <3>4
  <2>9. CASE Skip
    BY <2>2, <2>9, Withdrawn DEF Skip
  <2>. QED
    BY <1>3, <2>3, <2>5, <2>6, <2>7, <2>8, <2>9, ChanStep DEF ChanMove
<1>4. CASE Spawn /\ hub
  <2> DEFINE last == Len(chan) + 1
             new == Len(runs) + 1
  <2>1. /\ DOMAIN runs' = DOMAIN runs \cup {new} /\ \A n \in DOMAIN runs : runs'[n] = runs[n]
        /\ new \notin DOMAIN runs /\ runs'[new].state = "sent"
    BY <1>4, SpawnRuns
  <2>2. /\ chan' = Append(chan, [kind |-> "spawn", run |-> new])
        /\ [kind |-> "spawn", run |-> new] \in Messages
    BY <1>4, MessagesTyped DEF Spawn
  <2>3. /\ DOMAIN chan' = DOMAIN chan \cup {last} /\ chan'[last] = [kind |-> "spawn", run |-> new]
        /\ \A k \in DOMAIN chan : chan'[k] = chan[k]
    BY <2>2, ChanGrows
  <2> HIDE DEF last, new
  <2>4. \A k \in DOMAIN chan : chan[k].kind = "spawn" => chan[k].run \in DOMAIN runs /\ chan[k].run # new
    BY <1>0, <2>1 DEF ChanTypes
  <2>5. \A k \in DOMAIN chan' : chan'[k].kind = "spawn" => runs'[chan'[k].run].state = "sent"
    BY <1>0, <2>1, <2>3, <2>4 DEF SpawnInv
  <2>6. \A k, l \in DOMAIN chan' :
          chan'[k].kind = "spawn" /\ chan'[l].kind = "spawn" /\ chan'[k].run = chan'[l].run => k = l
    BY <1>0, <2>3, <2>4 DEF SpawnInv
  <2>7. \A n \in DOMAIN runs' : runs'[n].state = "sent" =>
          \E k \in DOMAIN chan' : chan'[k].kind = "spawn" /\ chan'[k].run = n
    BY <1>0, <2>1, <2>3 DEF SpawnInv
  <2>. QED
    BY <2>5, <2>6, <2>7 DEF SpawnInv
<1>. QED
  BY <1>1, <1>2, <1>3, <1>4

-----------------------------------------------------------------------------
(***************************************************************************)
(* Tasks and their iterations.                                             *)
(***************************************************************************)
LEMMA LinksKept ==
  ASSUME Inv, [Next]_vars, NEW t \in TaskRecords, Linked(t, runs)
  PROVE  Linked(t, runs')
<1>1. SUFFICES ASSUME t.anchor # 0
               PROVE  /\ t.anchor <= Len(runs') /\ runs'[t.anchor].task = t.id
                      /\ ~t.reset => runs'[t.anchor].prompt = t.prompt
  BY DEF Linked
<1>2. t.anchor \in DOMAIN runs /\ t.anchor <= Len(runs)
  BY <1>1, RunsTyped DEF Linked, TaskRecords
<1>3. CASE KeepsRuns
  BY <1>1, <1>2, <1>3 DEF KeepsRuns, Linked, Evolves
<1>4. CASE Spawn /\ hub
  <2>1. runs'[t.anchor] = runs[t.anchor] /\ t.anchor <= Len(runs')
    BY <1>2, <1>4, SpawnRuns
  <2>. QED
    BY <1>1, <2>1 DEF Linked
<1>. QED
  BY <1>3, <1>4, RunsStep

LEMMA LinkedTasks ==
  ASSUME Inv, [Next]_vars, NEW k \in DOMAIN tasks'
  PROVE  Linked(tasks'[k], runs')
<1>0. /\ \A m \in DOMAIN tasks : tasks[m] \in TaskRecords /\ Linked(tasks[m], runs)
      /\ \A m \in DOMAIN disk : disk[m] \in TaskRecords /\ Linked(disk[m], runs)
  <2>1. tasks \in Seq(TaskRecords) /\ disk \in Seq(TaskRecords)
    BY TasksTyped DEF Listings
  <2>2. /\ \A m \in DOMAIN tasks : Linked(tasks[m], runs)
        /\ \A m \in DOMAIN disk : Linked(disk[m], runs)
    BY DEF Inv, LinkInv, Snapshots
  <2>. QED
    BY <2>1, <2>2
<1>1. ASSUME \E m \in DOMAIN tasks : tasks'[k] = tasks[m] PROVE Linked(tasks'[k], runs')
  <2>1. PICK m \in DOMAIN tasks : tasks'[k] = tasks[m]
    BY <1>1
  <2>2. Linked(tasks[m], runs')
    BY <1>0, LinksKept
  <2>. QED
    BY <2>1, <2>2
<1>2. UNCHANGED tasks => Linked(tasks'[k], runs')
  BY <1>1
<1>3. ASSUME tasks'[k].anchor = 0 PROVE Linked(tasks'[k], runs')
  BY <1>3 DEF Linked
<1>4. CASE Command
  <2>1. ASSUME NEW i \in Ids, Create(i) PROVE Linked(tasks'[k], runs')
    <3>1. tasks'[k] = Task(i) \/ \E m \in DOMAIN tasks : tasks'[k] = tasks[m]
      BY <2>1, CreateTasks
    <3>. QED
      BY <1>1, <1>3, <3>1 DEF Task
  <2>2. ASSUME NEW i \in Ids, Delete(i) PROVE Linked(tasks'[k], runs')
    BY <1>1, <2>2, DeleteTasks
  <2>3. ASSUME NEW i \in Ids, NEW p \in BOOLEAN, NEW v \in BOOLEAN, Update(i, p, v) PROVE Linked(tasks'[k], runs')
    <3>1. /\ k \in DOMAIN tasks
          /\ \/ tasks'[k] = tasks[k]
             \/ tasks'[k].id = tasks[k].id /\ tasks'[k].anchor = tasks[k].anchor /\ tasks'[k].reset
      BY <2>3, UpdateTasks
    <3>2. Linked(tasks[k], runs')
      BY <1>0, <3>1, LinksKept
    <3>. QED
      BY <3>1, <3>2 DEF Linked
  <2>. QED
    BY <1>2, <1>4, <2>1, <2>2, <2>3 DEF Command, AbandonRemoval
<1>5. CASE Fire
  BY <1>1, <1>5, FireTasks DEF Fire
<1>6. CASE Proceed
  <2>1. CASE Spawn
    <3>1. /\ k \in DOMAIN tasks /\ (tasks[k].id # job.held.id => tasks'[k] = tasks[k])
          /\ tasks[k].id = job.held.id =>
               /\ tasks'[k].id = tasks[k].id /\ tasks'[k].prompt = tasks[k].prompt
               /\ hub => tasks'[k].anchor = Len(runs) + 1 /\ tasks'[k].reset = FALSE
               /\ ~hub => tasks'[k].anchor = job.held.anchor /\ tasks'[k].reset = job.held.reset
      BY <2>1, SpawnTasks
    <3>2. CASE tasks[k].id # job.held.id
      BY <1>1, <3>1, <3>2
    <3>3. CASE tasks[k].id = job.held.id
      <4>1. tasks[k].prompt = job.held.prompt /\ job.held \in TaskRecords /\ Linked(job.held, runs)
        BY <2>1, <3>1, <3>3, LoopJob DEF Inv, LoopHeldInv, LinkInv, Looping, Spawn
      <4>2. CASE hub
        <5>1. /\ Len(runs') = Len(runs) + 1 /\ Len(runs) \in Nat
              /\ runs'[Len(runs) + 1].task = job.held.id /\ runs'[Len(runs) + 1].prompt = job.held.prompt
          BY <2>1, <4>2, SpawnRuns, RunsTyped
        <5>. QED
          BY <3>1, <3>3, <4>1, <4>2, <5>1 DEF Linked
      <4>3. CASE ~hub
        <5>1. Linked(job.held, runs')
          BY <4>1, LinksKept
        <5>. QED
          BY <3>1, <3>3, <4>1, <4>3, <5>1 DEF Linked
      <4>. QED
        BY <4>2, <4>3
    <3>. QED
      BY <3>2, <3>3
  <2>2. CASE SaveFailed
    <3>1. (Expiry /\ tasks'[k] = job.held) \/ \E m \in DOMAIN tasks : tasks'[k] = tasks[m]
      BY <2>2, SaveFailedTasks
    <3>2. CASE Expiry /\ tasks'[k] = job.held
      <4>1. job.held \in TaskRecords /\ Linked(job.held, runs)
        BY <3>2, ExpiryJob DEF Inv, LinkInv
      <4>2. Linked(job.held, runs')
        BY <4>1, LinksKept
      <4>. QED
        BY <3>2, <4>2
    <3>. QED
      BY <1>1, <3>1, <3>2
  <2>. QED
    BY <1>2, <1>6, <2>1, <2>2 DEF Proceed, AskUnit, Skip, Saved, SaveUnknown, Acknowledged, Unacknowledged
<1>7. CASE Restart
  <2>1. tasks' = disk
    BY <1>7 DEF Restart
  <2>2. Linked(disk[k], runs')
    BY <1>0, <2>1, LinksKept
  <2>. QED
    BY <2>1, <2>2
<1>8. ASSUME NEW n \in DOMAIN runs, Watch(n) PROVE Linked(tasks'[k], runs')
  <2>1. k \in DOMAIN tasks /\ (tasks'[k] = tasks[k] \/ tasks'[k].anchor = 0)
    BY <1>8, WatchTasks
  <2>. QED
    BY <1>1, <1>3, <2>1
<1>9. CASE Writer \/ Coordinator \/ HubCloses \/ (\E i \in Ids : Elapse(i)) \/ Cancel \/ Shutdown \/ CloseTarget
  BY <1>2, <1>9 DEF Writer, Coordinator, HubCloses, Elapse, Cancel, Shutdown, CloseTarget
<1>. QED
  BY <1>2, <1>4, <1>5, <1>6, <1>7, <1>8, <1>9 DEF Next, vars

\* Where the task a handler holds comes from.
LEMMA HeldTaskStep ==
  ASSUME Inv, [Next]_vars, Expiry' \/ Looping'
  PROVE  \/ (Expiry \/ Looping) /\ job'.held = job.held
         \/ \E k \in DOMAIN tasks : job'.held = tasks[k]
<1>1. CASE Expiry'
  <2>1. ASSUME NEW i \in Ids, Delete(i) PROVE FALSE
    BY <1>1, <2>1, DeleteBegins
  <2>2. ASSUME NEW k \in DOMAIN tasks, ExpireDurable(k), target PROVE job'.held = tasks[k]
    BY <2>2, ExpiryBegins
  <2>3. CASE KeepsRemoval
    BY <1>1, <2>3 DEF KeepsRemoval, Expiry
  <2>. QED
    BY <1>1, <2>1, <2>2, <2>3, RemovalStep DEF Expiry
<1>2. CASE Looping'
  <2>1. ASSUME NEW k \in DOMAIN tasks, FireLoop(k) PROVE job'.held = tasks[k]
    BY <2>1 DEF FireLoop
  <2>2. CASE AskUnit
    <3>1. Looping /\ job \in LoopJobs
      BY <2>2, JobTyped DEF AskUnit, Looping
    <3>. QED
      BY <2>2, <3>1 DEF AskUnit, LoopJobs
  <2>3. CASE KeepsLoop
    BY <2>3 DEF KeepsLoop
  <2>. QED
    BY <1>2, <2>1, <2>2, <2>3, LoopStep
<1>. QED
  BY <1>1, <1>2

LEMMA HeldTyped ==
  ASSUME Inv, Expiry \/ Looping
  PROVE  job.held \in TaskRecords
BY ExpiryJob, LoopJob

LEMMA LinkStep ==
  ASSUME Inv, [Next]_vars
  PROVE  LinkInv'
<1>1. ASSUME NEW s \in Snapshots', NEW k \in DOMAIN s PROVE Linked(s[k], runs')
  <2>1. CASE s = tasks'
    BY <2>1, LinkedTasks
  <2>2. CASE s \in Snapshots
    <3>1. s \in Listings /\ Linked(s[k], runs)
      BY <2>2 DEF Inv, ListTypes, LinkInv
    <3>2. s[k] \in TaskRecords
      BY <3>1 DEF Listings
    <3>. QED
      BY <3>1, <3>2, LinksKept
  <2>. QED
    BY <1>1, <2>1, <2>2, SnapshotsStep
<1>2. ASSUME Expiry' \/ Looping' PROVE Linked(job'.held, runs')
  <2>1. CASE (Expiry \/ Looping) /\ job'.held = job.held
    <3>1. job.held \in TaskRecords /\ Linked(job.held, runs)
      BY <2>1, HeldTyped DEF Inv, LinkInv
    <3>2. Linked(job.held, runs')
      BY <3>1, LinksKept
    <3>. QED
      BY <2>1, <3>2
  <2>2. ASSUME NEW k \in DOMAIN tasks, job'.held = tasks[k] PROVE Linked(job'.held, runs')
    <3>1. tasks[k] \in TaskRecords /\ Linked(tasks[k], runs)
      BY TasksTyped DEF Inv, LinkInv, Snapshots
    <3>2. Linked(tasks[k], runs')
      BY <3>1, LinksKept
    <3>. QED
      BY <2>2, <3>2
  <2>. QED
    BY <1>2, <2>1, <2>2, HeldTaskStep
<1>. QED
  BY <1>1, <1>2 DEF LinkInv

LEMMA LoopHeldStep ==
  ASSUME Inv, [Next]_vars
  PROVE  LoopHeldInv'
<1>0. LoopHeldInv
  BY DEF Inv
<1>1. SUFFICES ASSUME Looping' PROVE LoopHeldInv'
  BY DEF LoopHeldInv
<1>2. ASSUME NEW j \in DOMAIN tasks, FireLoop(j) PROVE LoopHeldInv'
  <2>1. tasks' = tasks /\ job'.held = tasks[j]
    BY <1>2 DEF FireLoop
  <2>. QED
    BY <2>1, TasksTyped DEF LoopHeldInv, Unique
<1>3. CASE AskUnit
  <2>1. Looping /\ job \in LoopJobs /\ tasks' = tasks
    BY <1>3, JobTyped DEF AskUnit, Looping
  <2>2. job'.held = job.held
    BY <1>3, <2>1 DEF AskUnit, LoopJobs
  <2>. QED
    BY <1>0, <2>1, <2>2 DEF LoopHeldInv
<1>4. CASE KeepsLoop
  <2>1. Looping /\ job'.held = job.held
    BY <1>4 DEF KeepsLoop
  <2>2. CASE UNCHANGED tasks
    BY <1>0, <2>1, <2>2 DEF LoopHeldInv
  <2>3. ASSUME NEW n \in DOMAIN runs, Watch(n) PROVE LoopHeldInv'
    BY <1>0, <2>1, <2>3, WatchTasks DEF LoopHeldInv
  <2>. QED
    BY <1>4, <2>2, <2>3 DEF KeepsLoop
<1>. QED
  BY <1>1, <1>2, <1>3, <1>4, LoopStep

-----------------------------------------------------------------------------
(***************************************************************************)
(* What is alive of a task.                                                *)
(***************************************************************************)
\* A step leaves no iteration more alive than it was.
LEMMA NothingRevives ==
  ASSUME Inv, KeepsRuns, NEW n \in DOMAIN runs
  PROVE  /\ runs'[n].state \in {"sent", "live"} => Running(n)
         /\ Restless(runs'[n]) => Restless(runs[n])
         /\ Restless(runs'[n]) /\ ~runs'[n].error => ~runs[n].error
         /\ runs[n].error => runs'[n].error
         /\ runs'[n].brood = "marked" => runs[n].brood = "marked" \/ Running(n)
         /\ runs'[n].task = runs[n].task
<1>1. runs[n] \in RunRecords /\ Evolves(runs[n], runs'[n]) /\ (Running(n) => ~runs[n].error)
  BY RunsTyped DEF KeepsRuns, Inv, RunTypes
<1>. QED
  BY <1>1 DEF Evolves, Running, Restless, RunRecords

LEMMA AttachedKept ==
  ASSUME Inv, KeepsRuns, NEW t, Attached(t, runs)
  PROVE  Attached(t, runs')
<1>1. SUFFICES ASSUME NEW n \in DOMAIN runs', runs'[n].task = t.id, Restless(runs'[n]), ~runs'[n].error
               PROVE  t.anchor = n
  BY DEF Attached
<1>2. n \in DOMAIN runs
  BY DEF KeepsRuns
<1>3. runs[n].task = t.id /\ Restless(runs[n]) /\ ~runs[n].error
  BY <1>1, <1>2, NothingRevives
<1>. QED
  BY <1>2, <1>3 DEF Attached

\* Nothing of the task is alive when its next iteration is spawned, but for
\* what an iteration left behind that failed.
LEMMA SpawnClear ==
  ASSUME Inv, Spawn, NEW n \in DOMAIN runs, runs[n].task = job.held.id, Restless(runs[n])
  PROVE  runs[n].error
<1>1. SUFFICES ASSUME ~runs[n].error PROVE FALSE
  OBVIOUS
<1> DEFINE k == IndexOf(job.held.id)
<1>2. k \in DOMAIN tasks /\ tasks[k].id = job.held.id /\ job.held \in TaskRecords
  BY LoopJob DEF Spawn, Looping
<1> HIDE DEF k
<1>3. tasks[k].anchor = n
  BY <1>1, <1>2 DEF Inv, LoopInv, Attached
<1>4. n # 0
  BY RunsTyped
<1>5. job.held.anchor = n
  BY <1>2, <1>3, <1>4 DEF Inv, LoopHeldInv, Looping, Spawn
<1>6. ~Restless(runs[job.held.anchor])
  BY <1>4, <1>5 DEF Inv, LoopInv, Spawn
<1>. QED
  BY <1>5, <1>6

LEMMA AttachedTasks ==
  ASSUME Inv, [Next]_vars, NEW k \in DOMAIN tasks'
  PROVE  Attached(tasks'[k], runs')
<1>0. \A m \in DOMAIN tasks : Attached(tasks[m], runs)
  BY DEF Inv, LoopInv
<1>1. ASSUME KeepsRuns, \E m \in DOMAIN tasks : tasks'[k].id = tasks[m].id /\ tasks'[k].anchor = tasks[m].anchor
      PROVE  Attached(tasks'[k], runs')
  <2>1. PICK m \in DOMAIN tasks : tasks'[k].id = tasks[m].id /\ tasks'[k].anchor = tasks[m].anchor
    BY <1>1
  <2>2. Attached(tasks[m], runs')
    BY <1>0, <1>1, AttachedKept
  <2>. QED
    BY <2>1, <2>2 DEF Attached
<1>2. UNCHANGED tasks /\ KeepsRuns => Attached(tasks'[k], runs')
  BY <1>1
<1>3. ~(Spawn /\ hub) => KeepsRuns
  BY RunsStep
<1>4. CASE Command
  <2>0. KeepsRuns
    BY <1>3, <1>4 DEF Command, Create, Delete, Update, AbandonRemoval, Ready, Spawn
  <2>1. ASSUME NEW i \in Ids, Create(i) PROVE Attached(tasks'[k], runs')
    <3>1. tasks'[k] = Task(i) \/ \E m \in DOMAIN tasks : tasks'[k] = tasks[m]
      BY <2>1, CreateTasks
    <3>2. CASE tasks'[k] = Task(i)
      <4>1. \A n \in DOMAIN runs' : runs'[n].task # i
        BY <2>0, <2>1 DEF KeepsRuns, Evolves, Create, Inv, HeldInv
      <4>. QED
        BY <3>2, <4>1 DEF Attached, Task
    <3>. QED
      BY <1>1, <2>0, <3>1, <3>2
  <2>2. ASSUME NEW i \in Ids, Delete(i) PROVE Attached(tasks'[k], runs')
    BY <1>1, <2>0, <2>2, DeleteTasks
  <2>3. ASSUME NEW i \in Ids, NEW p \in BOOLEAN, NEW v \in BOOLEAN, Update(i, p, v) PROVE Attached(tasks'[k], runs')
    BY <1>1, <2>0, <2>3, UpdateTasks
  <2>. QED
    BY <1>2, <1>4, <2>0, <2>1, <2>2, <2>3 DEF Command, AbandonRemoval
<1>5. CASE Fire
  <2>1. KeepsRuns
    BY <1>3, <1>5 DEF Fire, ExpireDurable, ExpirePlain, FireInline, FireLoop, Firing, Ready, Spawn
  <2>. QED
    BY <1>1, <1>5, <2>1, FireTasks DEF Fire
<1>6. CASE Spawn
  <2>1. /\ k \in DOMAIN tasks /\ (tasks[k].id # job.held.id => tasks'[k] = tasks[k])
        /\ tasks[k].id = job.held.id =>
             /\ tasks'[k].id = tasks[k].id
             /\ hub => tasks'[k].anchor = Len(runs) + 1
             /\ ~hub => tasks'[k].anchor = job.held.anchor
    BY <1>6, SpawnTasks
  <2>2. CASE hub
    <3> DEFINE last == Len(runs) + 1
    <3>1. /\ DOMAIN runs' = DOMAIN runs \cup {last} /\ \A n \in DOMAIN runs : runs'[n] = runs[n]
          /\ runs'[last].task = job.held.id
      BY <1>6, <2>2, SpawnRuns
    <3> HIDE DEF last
    <3>2. CASE tasks[k].id = job.held.id
      <4>1. \A n \in DOMAIN runs : runs[n].task = job.held.id /\ Restless(runs[n]) => runs[n].error
        BY <1>6, SpawnClear
      <4>. QED
        BY <2>1, <2>2, <3>1, <3>2, <4>1 DEF Attached, last
    <3>3. CASE tasks[k].id # job.held.id
      BY <1>0, <2>1, <3>1, <3>3 DEF Attached
    <3>. QED
      BY <3>2, <3>3
  <2>3. CASE ~hub
    <3>1. KeepsRuns
      BY <1>3, <2>3
    <3>2. CASE tasks[k].id = job.held.id
      <4>1. \A n \in DOMAIN runs : runs[n].task = job.held.id /\ Restless(runs[n]) => runs[n].error
        BY <1>6, SpawnClear
      <4>2. Attached(job.held, runs)
        BY <4>1 DEF Attached
      <4>3. Attached(job.held, runs')
        BY <3>1, <4>2, AttachedKept
      <4>. QED
        BY <2>1, <2>3, <3>2, <4>3 DEF Attached
    <3>. QED
      BY <1>1, <2>1, <3>1, <3>2
  <2>. QED
    BY <2>2, <2>3
<1>7. CASE Proceed /\ ~Spawn
  <2>1. KeepsRuns
    BY <1>3, <1>7
  <2>2. CASE SaveFailed
    <3>1. (Expiry /\ tasks'[k] = job.held) \/ \E m \in DOMAIN tasks : tasks'[k] = tasks[m]
      BY <2>2, SaveFailedTasks
    <3>2. CASE Expiry /\ tasks'[k] = job.held
      <4>1. Attached(job.held, runs')
        BY <2>1, <3>2, AttachedKept DEF Inv, LoopInv
      <4>. QED
        BY <3>2, <4>1
    <3>. QED
      BY <1>1, <2>1, <3>1, <3>2
  <2>. QED
    BY <1>2, <1>7, <2>1, <2>2 DEF Proceed, AskUnit, Skip, Saved, SaveUnknown, Acknowledged, Unacknowledged
<1>8. CASE Restart
  <2>1. DOMAIN runs' = DOMAIN runs /\ \A n \in DOMAIN runs : runs'[n].state = "gone" /\ runs'[n].brood = "over"
    BY <1>8, RunsTyped DEF Restart, Abandon, RunRecords
  <2>. QED
    BY <2>1 DEF Attached, Restless
<1>9. ASSUME NEW n \in DOMAIN runs, Watch(n) PROVE Attached(tasks'[k], runs')
  <2>1. KeepsRuns
    BY <1>3, <1>9 DEF Watch, Spawn, Idle
  <2>2. /\ k \in DOMAIN tasks /\ tasks'[k].id = tasks[k].id
        /\ \/ tasks'[k].anchor = tasks[k].anchor
           \/ tasks[k].anchor = n
    BY <1>9, WatchTasks
  <2>3. CASE tasks'[k].anchor = tasks[k].anchor
    BY <1>1, <2>1, <2>2, <2>3
  <2>4. CASE tasks[k].anchor = n
    <3>1. Attached(tasks[k], runs')
      BY <1>0, <2>1, <2>2, AttachedKept
    <3>2. runs[n].error
      BY <1>9 DEF Watch, Inv, RunTypes
    <3>3. runs'[n].error
      BY <2>1, <3>2, NothingRevives
    <3>. QED
      BY <2>2, <2>4, <3>1, <3>3 DEF Attached
  <2>. QED
    BY <2>2, <2>3, <2>4
<1>10. CASE Writer \/ Coordinator \/ HubCloses \/ (\E i \in Ids : Elapse(i)) \/ Cancel \/ Shutdown \/ CloseTarget
  <2>1. UNCHANGED <<tasks, at>> \/ Shutdown
    BY <1>10 DEF Writer, Coordinator, HubCloses, Elapse, Cancel, CloseTarget
  <2>2. KeepsRuns /\ UNCHANGED tasks
    BY <1>3, <2>1 DEF Spawn, Idle, Shutdown
  <2>. QED
    BY <1>2, <2>2
<1>11. CASE UNCHANGED vars
  BY <1>2, <1>3, <1>11 DEF vars, Spawn, Idle
<1>. QED
  BY <1>4, <1>5, <1>6, <1>7, <1>8, <1>9, <1>10, <1>11 DEF Next, Proceed

LEMMA AnswerTells ==
  ASSUME Inv, Coordinator, Answer
  PROVE  /\ UNCHANGED <<at, runs>> /\ Looping /\ job'.held = job.held
         /\ at = "query" /\ job'.answer \in {"ok", "failed", "none"} => ~Running(job.held.anchor)
         /\ at = "unit" /\ job'.answer = "inactive" =>
              \A n \in DOMAIN runs : runs[n].task = job.held.id => runs[n].state # "live" /\ runs[n].brood # "marked"
<1>1. chan # <<>> /\ Head(chan).kind \in {"query", "unit"}
  BY DEF Answer, Msg
<1>2. 1 \in DOMAIN chan /\ Head(chan) = chan[1]
  BY <1>1, ChanTyped
<1>3. Looping /\ job \in LoopJobs
  BY <1>1, <1>2, JobTyped DEF Inv, AskInv, Looping
<1>4. UNCHANGED <<at, runs>>
  BY DEF Answer, Coordinator
<1>5. \E a : job' = [job EXCEPT !.answer = a]
  BY DEF Answer
<1>6. job'.held = job.held
  BY <1>3, <1>5 DEF LoopJobs
<1>7. ASSUME at = "query", job'.answer \in {"ok", "failed", "none"} PROVE ~Running(job.held.anchor)
  <2>1. Head(chan).kind = "query" /\ Head(chan).run = job.held.anchor
    BY <1>1, <1>2, <1>7 DEF Inv, AskInv
  <2>2. job.held.anchor \in DOMAIN runs
    BY <1>2, <2>1 DEF Inv, ChanTypes
  <2> DEFINE s == runs[job.held.anchor].state
  <2>3. s \in {"sent", "live", "ok", "failed", "gone"}
    BY <2>2, RunsTyped DEF RunRecords
  <2>4. job' = [job EXCEPT !.answer = CASE s = "live" -> "running" [] s = "gone" -> "none" [] OTHER -> s]
    BY <1>1, <2>1 DEF Answer, Msg
  <2> HIDE DEF s
  <2>5. job'.answer = CASE s = "live" -> "running" [] s = "gone" -> "none" [] OTHER -> s
    BY <1>3, <2>4 DEF LoopJobs
  <2>6. s \notin {"sent", "live"}
    BY <1>7, <2>3, <2>5
  <2>. QED
    BY <2>6 DEF Running, s
<1>8. ASSUME at = "unit", job'.answer = "inactive", NEW n \in DOMAIN runs, runs[n].task = job.held.id
      PROVE  runs[n].state # "live" /\ runs[n].brood # "marked"
  <2>1. Head(chan).kind = "unit" /\ Head(chan).task = job.held.id
    BY <1>1, <1>2, <1>8 DEF Inv, AskInv
  <2>2. job' = [job EXCEPT !.answer = IF UnitActive(job.held.id) THEN "active" ELSE "inactive"]
    BY <1>1, <2>1 DEF Answer, Msg
  <2>3. ~UnitActive(job.held.id)
    BY <1>3, <1>8, <2>2 DEF LoopJobs
  <2>. QED
    BY <1>8, <2>3 DEF UnitActive
<1>. QED
  BY <1>3, <1>4, <1>6, <1>7, <1>8

LEMMA LoopInvStep ==
  ASSUME Inv, [Next]_vars
  PROVE  LoopInv'
<1>0. LoopInv
  BY DEF Inv
<1>1. \A k \in DOMAIN tasks' : Attached(tasks'[k], runs')
  BY AttachedTasks
<1>2. ASSUME Expiry' PROVE Attached(job'.held, runs')
  <2>1. KeepsRuns
    BY <1>2, RunsStep DEF Spawn, Idle, Expiry, Removing
  <2>2. CASE Expiry /\ job'.held = job.held
    BY <1>0, <2>1, <2>2, AttachedKept DEF LoopInv
  <2>3. ASSUME NEW k \in DOMAIN tasks, job'.held = tasks[k] PROVE Attached(job'.held, runs')
    BY <1>0, <2>1, <2>3, AttachedKept DEF LoopInv
  <2>4. ~Looping \/ ~(job'.held = job.held) \/ Expiry
    <3>1. CASE KeepsRemoval
      BY <1>2, <3>1 DEF KeepsRemoval, Expiry
    <3>2. CASE (\E i \in Ids : Delete(i)) \/ (\E k \in DOMAIN tasks : ExpireDurable(k))
      BY <3>2 DEF Delete, ExpireDurable, Firing, Ready, Looping
    <3>. QED
      BY <1>2, <3>1, <3>2, RemovalStep DEF Expiry
  <2>. QED
    BY <1>2, <2>2, <2>3, <2>4, HeldTaskStep
<1>3. ASSUME Looping', job'.held.anchor # 0
      PROVE  /\ at' = "query" /\ job'.answer \in {"ok", "failed", "none"} => runs'[job'.held.anchor].state \notin {"sent", "live"}
             /\ at' = "unit" => runs'[job'.held.anchor].state \notin {"sent", "live"}
             /\ at' = "unit" /\ job'.answer = "inactive" => ~Restless(runs'[job'.held.anchor])
  <2>1. ASSUME NEW k \in DOMAIN tasks, FireLoop(k) PROVE at' = "query" /\ job'.answer \in {"wait", "lost"}
    BY <1>3, <2>1 DEF FireLoop
  <2>2. CASE AskUnit
    <3>1. Looping /\ job \in LoopJobs /\ UNCHANGED runs /\ at' = "unit" /\ at = "query"
      BY <2>2, JobTyped DEF AskUnit, Looping
    <3>2. job'.held = job.held /\ job'.answer \in {"wait", "lost"}
      BY <2>2, <3>1 DEF AskUnit, LoopJobs
    <3>3. ~Running(job.held.anchor)
      BY <1>0, <2>2 DEF LoopInv, AskUnit
    <3>. QED
      BY <3>1, <3>2, <3>3 DEF Running
  <2>3. CASE KeepsLoop
    <3>1. Looping /\ at' = at /\ job'.held = job.held
      BY <2>3 DEF KeepsLoop
    <3> DEFINE h == job.held.anchor
    <3>2. h \in DOMAIN runs /\ runs[h].task = job.held.id
      <4>1. Linked(job.held, runs) /\ job.held \in TaskRecords
        BY <3>1, LoopJob DEF Inv, LinkInv
      <4>. QED
        BY <1>3, <3>1, <4>1, RunsTyped DEF Linked, TaskRecords
    <3> HIDE DEF h
    <3>3. KeepsRuns
      BY <1>3, RunsStep DEF Spawn, Idle, Looping
    <3>4. /\ runs'[h].state \in {"sent", "live"} => Running(h)
          /\ Restless(runs'[h]) => Restless(runs[h])
      BY <3>2, <3>3, NothingRevives
    <3>5. at = "unit" => ~Running(h)
      BY <1>0, <1>3, <3>1 DEF LoopInv, h
    <3>6. CASE UNCHANGED job
      <4>1. /\ at = "query" /\ job.answer \in {"ok", "failed", "none"} => ~Running(h)
            /\ at = "unit" /\ job.answer = "inactive" => ~Restless(runs[h])
        BY <1>0, <1>3, <3>1 DEF LoopInv, h
      <4>. QED
        BY <3>1, <3>4, <3>5, <3>6, <4>1 DEF Running, h
    <3>7. CASE job'.answer = "lost"
      BY <3>1, <3>4, <3>5, <3>7 DEF Running, h
    <3>8. CASE Answer /\ Coordinator
      <4>1. /\ UNCHANGED runs
            /\ at = "query" /\ job'.answer \in {"ok", "failed", "none"} => ~Running(h)
            /\ at = "unit" /\ job'.answer = "inactive" => runs[h].state # "live" /\ runs[h].brood # "marked"
        BY <3>2, <3>8, AnswerTells DEF h
      <4>. QED
        BY <3>1, <3>5, <4>1 DEF Running, Restless, h
    <3>. QED
      BY <2>3, <3>6, <3>7, <3>8 DEF KeepsLoop
  <2>. QED
    BY <1>3, <2>1, <2>2, <2>3, LoopStep
<1>4. at' = "query" => job'.held.anchor # 0
  BY JobStep DEF JobTypes
<1>. QED
  BY <1>1, <1>2, <1>3, <1>4 DEF LoopInv, Looping, Running

LEMMA FlightStep ==
  ASSUME Inv, [Next]_vars
  PROVE  LoopSingleFlight' /\ OverlapOnlyAfterFailure'
<1>0. LoopSingleFlight /\ OverlapOnlyAfterFailure
  BY DEF Inv
<1> DEFINE Now(n) == runs'[n].state \in {"sent", "live"}
<1>1. CASE KeepsRuns
  <2>0. DOMAIN runs' = DOMAIN runs
    BY <1>1 DEF KeepsRuns
  <2>1. \A n \in DOMAIN runs : /\ Now(n) => Running(n) 
                               /\ runs'[n].task = runs[n].task /\ (runs[n].error => runs'[n].error)
                               /\ runs'[n].brood = "marked" => runs[n].brood = "marked" \/ Running(n)
    BY <1>1, NothingRevives
  <2>2. ASSUME NEW m \in DOMAIN runs, NEW n \in DOMAIN runs, Now(m), Now(n), runs'[m].task = runs'[n].task
        PROVE  m = n
    BY <1>0, <2>1, <2>2 DEF LoopSingleFlight
  <2>3. ASSUME NEW m \in DOMAIN runs, NEW n \in DOMAIN runs, m < n, Now(n),
               runs'[m].task = runs'[n].task, runs'[m].brood = "marked"
        PROVE  runs'[m].error
    <3>1. Running(n) /\ runs[m].task = runs[n].task /\ (runs[m].brood = "marked" \/ Running(m))
      BY <2>1, <2>3
    <3>2. ~Running(m)
      <4>1. m # n
        BY <2>3, RunsTyped
      <4>. QED
        BY <1>0, <3>1, <4>1 DEF LoopSingleFlight
    <3>. QED
      BY <1>0, <2>1, <2>3, <3>1, <3>2 DEF OverlapOnlyAfterFailure
  <2>. QED
    BY <2>0, <2>2, <2>3 DEF LoopSingleFlight, OverlapOnlyAfterFailure, Running
<1>2. CASE Spawn /\ hub
  <2> DEFINE last == Len(runs) + 1
  <2>1. /\ DOMAIN runs' = DOMAIN runs \cup {last} /\ last \notin DOMAIN runs
        /\ \A n \in DOMAIN runs : runs'[n] = runs[n] /\ n < last /\ ~(last < n)
        /\ runs'[last].task = job.held.id /\ runs'[last].brood = "none"
    BY <1>2, SpawnRuns, RunsTyped
  <2> HIDE DEF last
  <2>2. \A n \in DOMAIN runs : runs[n].task = job.held.id /\ Restless(runs[n]) => runs[n].error
    BY <1>2, SpawnClear
  <2>3. \A n \in DOMAIN runs : Now(n) => Running(n) /\ ~runs[n].error /\ Restless(runs[n])
    BY <2>1 DEF Running, Inv, RunTypes, Restless
  <2>4. ASSUME NEW m \in DOMAIN runs', NEW n \in DOMAIN runs', Now(m), Now(n), runs'[m].task = runs'[n].task
        PROVE  m = n
    BY <1>0, <2>1, <2>2, <2>3, <2>4 DEF LoopSingleFlight
  <2>5. ASSUME NEW m \in DOMAIN runs', NEW n \in DOMAIN runs', m < n, Now(n),
               runs'[m].task = runs'[n].task, runs'[m].brood = "marked"
        PROVE  runs'[m].error
    <3>1. m \in DOMAIN runs /\ runs'[m] = runs[m] /\ Restless(runs[m])
      BY <2>1, <2>5 DEF Restless
    <3>2. CASE n = last
      BY <2>1, <2>2, <2>5, <3>1, <3>2
    <3>3. CASE n \in DOMAIN runs
      BY <1>0, <2>1, <2>3, <2>5, <3>1, <3>3 DEF OverlapOnlyAfterFailure
    <3>. QED
      BY <2>1, <3>2, <3>3
  <2>. QED
    BY <2>4, <2>5 DEF LoopSingleFlight, OverlapOnlyAfterFailure, Running
<1>. QED
  BY <1>1, <1>2, RunsStep

LEMMA ChainStep ==
  ASSUME Inv, [Next]_vars
  PROVE  ChainKeepsPrompt'
<1>0. ChainKeepsPrompt /\ \A n \in DOMAIN runs : runs[n].from # 0 => runs[n].from \in DOMAIN runs
  <2>1. ASSUME NEW n \in DOMAIN runs, runs[n].from # 0 PROVE runs[n].from \in DOMAIN runs
    <3>1. runs[n] \in RunRecords /\ runs[n].from < n
      BY RunsTyped DEF Inv, RunTypes
    <3>. QED
      BY <2>1, <3>1, RunsTyped DEF RunRecords
  <2>. QED
    BY <2>1 DEF Inv
<1>1. CASE KeepsRuns
  BY <1>0, <1>1 DEF KeepsRuns, Evolves, ChainKeepsPrompt
<1>2. CASE Spawn /\ hub
  <2> DEFINE last == Len(runs) + 1
  <2>1. /\ DOMAIN runs' = DOMAIN runs \cup {last} /\ \A n \in DOMAIN runs : runs'[n] = runs[n]
        /\ runs'[last].prompt = job.held.prompt
        /\ runs'[last].from # 0 => Resumes /\ runs'[last].from = job.held.anchor
    BY <1>2, SpawnRuns
  <2> HIDE DEF last
  <2>2. ASSUME runs'[last].from # 0 PROVE runs'[runs'[last].from].prompt = runs'[last].prompt
    <3>1. job.held.anchor # 0 /\ ~job.held.reset /\ job.held \in TaskRecords /\ Linked(job.held, runs)
      BY <1>2, <2>1, <2>2, LoopJob DEF Resumes, Inv, LinkInv, Looping, Spawn
    <3>2. job.held.anchor \in DOMAIN runs /\ runs[job.held.anchor].prompt = job.held.prompt
      BY <3>1, RunsTyped DEF Linked, TaskRecords
    <3>. QED
      BY <2>1, <2>2, <3>2
  <2>. QED
    BY <1>0, <2>1, <2>2 DEF ChainKeepsPrompt
<1>. QED
  BY <1>1, <1>2, RunsStep

-----------------------------------------------------------------------------
(***************************************************************************)
(* Tasks that are gone.                                                    *)
(***************************************************************************)
LEMMA ShownStep ==
  ASSUME Inv, [Next]_vars
  PROVE  shown' \subseteq shown \cup IdsIn(tasks')
<1> USE DEF Announce, Retract
<1>1. CASE Command
  <2>1. ASSUME NEW i \in Ids, Create(i) PROVE shown' \subseteq shown \cup IdsIn(tasks')
    BY <2>1, CreateTasks DEF Create
  <2>2. ASSUME NEW i \in Ids, Delete(i) PROVE shown' \subseteq shown \cup IdsIn(tasks')
    BY <2>2 DEF Delete
  <2>3. ASSUME NEW i \in Ids, NEW p \in BOOLEAN, NEW v \in BOOLEAN, Update(i, p, v)
        PROVE  shown' \subseteq shown \cup IdsIn(tasks')
    <3>1. i \in IdsIn(tasks')
      BY <2>3, UpdateTasks, HeldIs DEF Update
    <3>. QED
      BY <2>3, <3>1 DEF Update
  <2>. QED
    BY <1>1, <2>1, <2>2, <2>3 DEF Command, AbandonRemoval
<1>2. CASE Fire
  BY <1>2 DEF Fire, ExpireDurable, ExpirePlain, FireInline, FireLoop
<1>3. CASE Proceed
  <2>1. CASE Skip
    BY <2>1, HeldIs DEF Skip
  <2>. QED
    BY <1>3, <2>1 DEF Proceed, AskUnit, Spawn, Saved, SaveFailed, SaveUnknown, Acknowledged, Unacknowledged
<1>4. CASE Restart
  BY <1>4 DEF Restart, IdsIn
<1>5. CASE Writer \/ Coordinator \/ HubCloses \/ Shutdown
  BY <1>5 DEF Writer, Coordinator, HubCloses, Shutdown
<1>6. CASE (\E n \in DOMAIN runs : Watch(n)) \/ (\E i \in Ids : Elapse(i)) \/ Cancel \/ CloseTarget
  BY <1>6 DEF Watch, Elapse, Cancel, CloseTarget
<1>. QED
  BY <1>1, <1>2, <1>3, <1>4, <1>5, <1>6 DEF Next, vars

\* A task comes to the list when it is created, when it is restored from the
\* file, or when its expiry fails.
LEMMA IdsStep ==
  ASSUME Inv, [Next]_vars, NEW i \in IdsIn(tasks')
  PROVE  i \in IdsIn(tasks) \cup IdsIn(disk) \cup fresh \/ (Expiry /\ i = job.task)
<1>1. CASE Command
  <2>1. ASSUME NEW j \in Ids, Create(j) PROVE i \in IdsIn(tasks) \cup fresh
    BY <2>1, CreateTasks DEF Create
  <2>2. ASSUME NEW j \in Ids, Delete(j) PROVE i \in IdsIn(tasks)
    BY <2>2, DeleteTasks
  <2>3. ASSUME NEW j \in Ids, NEW p \in BOOLEAN, NEW v \in BOOLEAN, Update(j, p, v) PROVE i \in IdsIn(tasks)
    BY <2>3, UpdateTasks
  <2>. QED
    BY <1>1, <2>1, <2>2, <2>3 DEF Command, AbandonRemoval
<1>2. CASE Fire
  BY <1>2, FireTasks DEF Fire
<1>3. CASE Proceed
  <2>1. CASE Spawn
    BY <2>1, SpawnTasks
  <2>2. CASE SaveFailed
    BY <2>2, SaveFailedTasks, ExpiryJob
  <2>. QED
    BY <1>3, <2>1, <2>2 DEF Proceed, AskUnit, Skip, Saved, SaveUnknown, Acknowledged, Unacknowledged
<1>4. CASE Restart
  BY <1>4 DEF Restart
<1>5. CASE \E n \in DOMAIN runs : Watch(n)
  BY <1>5, WatchTasks
<1>6. CASE Writer \/ Coordinator \/ HubCloses \/ (\E j \in Ids : Elapse(j)) \/ Cancel \/ Shutdown \/ CloseTarget
  BY <1>6 DEF Writer, Coordinator, HubCloses, Elapse, Cancel, Shutdown, CloseTarget
<1>. QED
  BY <1>1, <1>2, <1>3, <1>4, <1>5, <1>6 DEF Next, vars

LEMMA DeletedStep ==
  ASSUME Inv, [Next]_vars
  PROVE  deleted' = deleted \/ (Acknowledged /\ job.kind = "delete" /\ deleted' = deleted \cup {job.task})
<1>1. CASE Command
  <2>1. CASE \E i \in Ids : Create(i) \/ Delete(i)
    BY <2>1 DEF Create, Delete
  <2>2. CASE \E i \in Ids, p, v \in BOOLEAN : Update(i, p, v)
    BY <2>2 DEF Update
  <2>. QED
    BY <1>1, <2>1, <2>2 DEF Command, AbandonRemoval
<1>2. CASE Fire
  BY <1>2 DEF Fire, ExpireDurable, ExpirePlain, FireInline, FireLoop
<1>3. CASE Proceed
  BY <1>3 DEF Proceed, AskUnit, Skip, Spawn, Saved, SaveFailed, SaveUnknown, Acknowledged, Unacknowledged
<1>4. CASE Writer \/ Coordinator \/ HubCloses \/ Shutdown \/ Restart
  BY <1>4 DEF Writer, Coordinator, HubCloses, Shutdown, Restart
<1>5. CASE (\E n \in DOMAIN runs : Watch(n)) \/ (\E i \in Ids : Elapse(i)) \/ Cancel \/ CloseTarget
  BY <1>5 DEF Watch, Elapse, Cancel, CloseTarget
<1>. QED
  BY <1>1, <1>2, <1>3, <1>4, <1>5 DEF Next, vars

LEMMA RemovedIsOut ==
  ASSUME Inv, Removing
  PROVE  job.task \notin IdsIn(tasks) \cup fresh
BY DEF Inv, HeldInv

\* A task whose Delete returned stays away.
LEMMA GoneStays ==
  ASSUME Inv, [Next]_vars, NEW i \in deleted
  PROVE  /\ i \notin shown' \cup fresh'
         /\ \A s \in Snapshots' : i \notin IdsIn(s)
         /\ pending' # Nothing => pending'.task # i
         /\ Expiry' => job'.task # i
<1>0. /\ i \notin shown \cup fresh /\ \A s \in Snapshots : i \notin IdsIn(s)
      /\ pending # Nothing => pending.task # i
      /\ Expiry => job.task # i
  BY DEF Inv, GoneInv
<1>1. i \notin IdsIn(tasks) /\ i \notin IdsIn(disk)
  BY <1>0 DEF Snapshots
<1>2. i \notin IdsIn(tasks')
  BY <1>0, <1>1, IdsStep
<1>3. \A s \in Snapshots' : i \notin IdsIn(s)
  BY <1>0, <1>2, SnapshotsStep
<1>4. i \notin shown' \cup fresh'
  BY <1>0, <1>2, ShownStep, FreshStep
<1>5. ASSUME pending' # Nothing PROVE pending'.task # i
  <2>1. ASSUME NEW j \in Ids, Delete(j), pending = Nothing, pending' = [task |-> j, source |-> clock]
        PROVE  pending'.task # i
    BY <1>1, <2>1, DeleteTasks
  <2>. QED
    BY <1>0, <1>5, <2>1, PendingStep
<1>6. ASSUME Expiry' PROVE job'.task # i
  <2>1. ASSUME NEW j \in Ids, Delete(j) PROVE FALSE
    BY <1>6, <2>1, DeleteBegins
  <2>2. ASSUME NEW k \in DOMAIN tasks, ExpireDurable(k), target PROVE job'.task # i
    <3>1. job'.task = tasks[k].id
      BY <2>2, ExpiryBegins
    <3>2. tasks[k].id \in IdsIn(tasks)
      BY TasksTyped
    <3>. QED
      BY <1>1, <3>1, <3>2
  <2>3. CASE KeepsRemoval
    BY <1>0, <1>6, <2>3 DEF KeepsRemoval, Expiry
  <2>. QED
    BY <1>6, <2>1, <2>2, <2>3, RemovalStep DEF Expiry
<1>. QED
  BY <1>3, <1>4, <1>5, <1>6

\* The answer of the writer: what it wrote, and everything still on its way,
\* is without the task.
LEMMA SavedIsClean ==
  ASSUME Inv, [Next]_vars, Removing', job'.answer = "saved", NEW s \in Snapshots'
  PROVE  job'.task \notin IdsIn(s)
<1>1. KeepsRemoval
  BY RemovalStep, DeleteBegins, ExpiryBegins
<1>2. /\ Removing /\ job'.task = job.task /\ job.task \notin IdsIn(tasks) /\ job.task \notin IdsIn(tasks')
  BY <1>1, RemovedIsOut DEF KeepsRemoval
<1>3. CASE UNCHANGED job
  BY <1>2, <1>3, SnapshotsStep DEF Inv, GoneInv
<1>4. ASSUME NEW renamed \in BOOLEAN, NEW synced \in BOOLEAN, TakeFlush(renamed, synced), Head(queue).mine
      PROVE  job.task \notin IdsIn(s)
  <2>1. /\ Head(queue) = queue[1] /\ 1 \in DOMAIN queue /\ DOMAIN queue = 1..Len(queue) /\ Len(queue) \in Nat \ {0}
        /\ \A k \in DOMAIN queue' : queue'[k] = queue[k + 1] /\ k + 1 \in DOMAIN queue
    BY <1>4, Dequeued DEF TakeFlush, Inv
  <2>2. job.answer = "wait"
    BY <1>4, <2>1 DEF Inv, MineInv
  <2>3. PICK k \in DOMAIN queue : queue[k].mine /\ \A l \in k..Len(queue) : job.task \notin IdsIn(queue[l].snapshot)
    BY <1>2, <2>2 DEF Inv, GoneInv
  <2>4. k = 1
    BY <1>4, <2>1, <2>3 DEF Inv, MineInv
  <2>5. \A l \in DOMAIN queue : job.task \notin IdsIn(queue[l].snapshot)
    BY <2>1, <2>3, <2>4
  <2>6. synced
    <3>1. job \in DeleteJobs \cup ExpiryJobs
      BY <1>2, JobTyped
    <3>2. ~synced => job' = [job EXCEPT !.answer = "error"]
      BY <1>4 DEF TakeFlush, Report
    <3>. QED
      BY <3>1, <3>2, AnswerKeepsRemoval
  <2>7. disk' = queue[1].snapshot /\ draft' = {}
    BY <1>4, <2>1, <2>6 DEF TakeFlush
  <2>8. s = tasks' \/ s = disk' \/ \E l \in DOMAIN queue' : s = queue'[l].snapshot
    BY <2>7 DEF Snapshots
  <2>. QED
    BY <1>2, <2>1, <2>5, <2>7, <2>8
<1>. QED
  BY <1>1, <1>2, <1>3, <1>4 DEF KeepsRemoval

\* From the entry a handler waits for on, the queue is without the task.
LEMMA WaitIsClean ==
  ASSUME Inv, [Next]_vars, Removing', job'.answer = "wait"
  PROVE  \E k \in DOMAIN queue' :
           queue'[k].mine /\ \A l \in k..Len(queue') : job'.task \notin IdsIn(queue'[l].snapshot)
<1>0. ListTypes
  BY DEF Inv
<1>1. ASSUME queue' = Append(queue, [snapshot |-> tasks', flush |-> TRUE, mine |-> TRUE]),
             job'.task \notin IdsIn(tasks')
      PROVE  \E k \in DOMAIN queue' :
               queue'[k].mine /\ \A l \in k..Len(queue') : job'.task \notin IdsIn(queue'[l].snapshot)
  <2> DEFINE last == Len(queue) + 1
  <2>1. Len(queue') = last /\ last \in DOMAIN queue' /\ last \in Nat
        /\ queue'[last].mine = TRUE /\ queue'[last].snapshot = tasks'
    BY <1>0, <1>1, Enqueued
  <2> HIDE DEF last
  <2>2. \A l \in last..Len(queue') : l = last
    BY <2>1
  <2>. QED
    BY <1>1, <2>1, <2>2
<1>2. ASSUME NEW i \in Ids, Delete(i)
      PROVE  \E k \in DOMAIN queue' :
               queue'[k].mine /\ \A l \in k..Len(queue') : job'.task \notin IdsIn(queue'[l].snapshot)
  <2>1. queue' = Append(queue, [snapshot |-> tasks', flush |-> TRUE, mine |-> TRUE])
    BY <1>2 DEF Delete, SaveAndFlush
  <2>2. job'.task \notin IdsIn(tasks')
    BY <1>2, DeleteBegins, DeleteTasks
  <2>. QED
    BY <1>1, <2>1, <2>2
<1>3. ASSUME NEW j \in DOMAIN tasks, ExpireDurable(j), target
      PROVE  \E k \in DOMAIN queue' :
               queue'[k].mine /\ \A l \in k..Len(queue') : job'.task \notin IdsIn(queue'[l].snapshot)
  <2>1. queue' = Append(queue, [snapshot |-> tasks', flush |-> TRUE, mine |-> TRUE])
    BY <1>3 DEF ExpireDurable, SaveAndFlush
  <2>2. job'.task \notin IdsIn(tasks')
    BY <1>3, ExpiryBegins
  <2>. QED
    BY <1>1, <2>1, <2>2
<1>4. CASE KeepsRemoval
  <2>1. /\ Removing /\ job'.task = job.task /\ job.task \notin IdsIn(tasks')
    BY <1>4, RemovedIsOut DEF KeepsRemoval
  <2>2. job \in DeleteJobs \cup ExpiryJobs
    BY <2>1, JobTyped
  <2>3. ASSUME NEW renamed \in BOOLEAN, NEW synced \in BOOLEAN, TakeFlush(renamed, synced) PROVE ~Head(queue).mine
    <3>1. SUFFICES ASSUME Head(queue).mine PROVE FALSE
      OBVIOUS
    <3>2. PICK a \in {"saved", "error"} : job' = [job EXCEPT !.answer = a]
      BY <2>3, <3>1 DEF TakeFlush, Report
    <3>. QED
      BY <2>2, <3>2, AnswerKeepsRemoval
  <2>4. job' = job
    BY <1>4, <2>3 DEF KeepsRemoval
  <2>5. PICK k \in DOMAIN queue : queue[k].mine /\ \A l \in k..Len(queue) : job.task \notin IdsIn(queue[l].snapshot)
    BY <2>1, <2>4 DEF Inv, GoneInv
  <2>6. CASE UNCHANGED queue
    BY <2>4, <2>5, <2>6
  <2>7. ASSUME NEW f, NEW m, queue' = Append(queue, [snapshot |-> tasks', flush |-> f, mine |-> m])
        PROVE  \E j \in DOMAIN queue' :
                 queue'[j].mine /\ \A l \in j..Len(queue') : job'.task \notin IdsIn(queue'[l].snapshot)
    <3> DEFINE last == Len(queue) + 1
    <3>1. /\ Len(queue') = last /\ DOMAIN queue = 1..Len(queue) /\ DOMAIN queue' = 1..last
          /\ \A l \in DOMAIN queue : queue'[l] = queue[l]
          /\ queue'[last].snapshot = tasks' /\ Len(queue) \in Nat
      BY <1>0, <2>7, Enqueued
    <3>2. \A l \in k..Len(queue') : (l \in k..Len(queue) /\ l \in DOMAIN queue) \/ l = last
      BY <3>1
    <3> HIDE DEF last
    <3>3. \A l \in k..Len(queue') : job'.task \notin IdsIn(queue'[l].snapshot)
      BY <2>1, <2>4, <2>5, <3>1, <3>2
    <3>4. k \in DOMAIN queue' /\ queue'[k].mine
      BY <2>5, <3>1 DEF last
    <3>. QED
      BY <3>3, <3>4
  <2>8. ASSUME queue # <<>>, queue' = Tail(queue), Writer
        PROVE  \E j \in DOMAIN queue' :
                 queue'[j].mine /\ \A l \in j..Len(queue') : job'.task \notin IdsIn(queue'[l].snapshot)
    <3>1. /\ Len(queue') = Len(queue) - 1 /\ Len(queue) \in Nat \ {0} /\ Head(queue) = queue[1]
          /\ DOMAIN queue = 1..Len(queue) /\ DOMAIN queue' = 1..(Len(queue) - 1)
          /\ \A l \in DOMAIN queue' : queue'[l] = queue[l + 1]
      BY <1>0, <2>8, Dequeued
    <3>2. k # 1
      <4>1. SUFFICES ASSUME k = 1 PROVE FALSE
        OBVIOUS
      <4>2. Head(queue).mine /\ Head(queue).flush
        BY <2>5, <3>1, <4>1 DEF Inv, MineInv
      <4>3. CASE Save
        <5>1. Len(queue') = Len(queue) + 1
          BY <1>0, <4>3 DEF Save, ListTypes
        <5>. QED
          BY <3>1, <5>1
      <4>4. CASE Debounce
        BY <3>1, <4>4 DEF Debounce
      <4>. QED
        BY <2>3, <2>8, <4>2, <4>3, <4>4 DEF Writer, TakeSave
    <3>3. k - 1 \in DOMAIN queue' /\ queue'[k - 1] = queue[k]
      BY <3>1, <3>2
    <3>4. \A l \in (k - 1)..Len(queue') : l \in DOMAIN queue' /\ l + 1 \in k..Len(queue)
      BY <3>1, <3>2
    <3>5. \A l \in (k - 1)..Len(queue') : job'.task \notin IdsIn(queue'[l].snapshot)
      BY <2>4, <2>5, <3>1, <3>4
    <3>. QED
      BY <2>5, <3>3, <3>5
  <2>9. ~SaveUnknown /\ ~Restart
    BY DEF Removing, SaveUnknown, Restart, Idle
  <2>10. QueueMove
    BY QueueStep
  <2>. QED
    BY <2>6, <2>7, <2>8, <2>9, <2>10, Zenon DEF QueueMove
<1>. QED
  BY <1>2, <1>3, <1>4, RemovalStep

LEMMA GoneStep ==
  ASSUME Inv, [Next]_vars
  PROVE  GoneInv'
<1>1. ASSUME NEW i \in deleted'
      PROVE  /\ i \notin shown' \cup fresh'
             /\ \A s \in Snapshots' : i \notin IdsIn(s)
             /\ pending' # Nothing => pending'.task # i
             /\ Expiry' => job'.task # i
  <2>1. CASE i \in deleted
    BY <2>1, GoneStays
  <2>2. CASE Acknowledged /\ job.kind = "delete" /\ i = job.task
    <3>1. Removing /\ job.answer = "saved"
      BY <2>2 DEF Acknowledged, Removing, Inv, JobTypes
    <3>2. \A s \in Snapshots : i \notin IdsIn(s)
      BY <2>2, <3>1 DEF Inv, GoneInv
    <3>3. UNCHANGED <<tasks, queue, draft, disk, fresh>> /\ shown' = shown \ {i} /\ pending' = Nothing /\ at' = "idle"
      BY <2>2 DEF Acknowledged, times, store, Idle
    <3>4. i \notin fresh
      BY <2>2, <3>1, RemovedIsOut
    <3>5. Snapshots' = Snapshots
      BY <3>3 DEF Snapshots
    <3>. QED
      BY <3>2, <3>3, <3>4, <3>5 DEF Expiry, Removing
  <2>. QED
    BY <1>1, <2>1, <2>2, DeletedStep
<1>. QED
  BY <1>1, SavedIsClean, WaitIsClean DEF GoneInv

-----------------------------------------------------------------------------
(***************************************************************************)
(* The tasks a session is restored with.                                   *)
(***************************************************************************)
LEMMA InitTasks ==
  ASSUME Init
  PROVE  /\ tasks \in Listings /\ IdsIn(tasks) \subseteq OneShots
         /\ \A k \in DOMAIN tasks : tasks[k].anchor = 0
<1> DEFINE S == {Task(i) : i \in OneShots}
           f == [i \in OneShots |-> Task(i)]
<1>1. IsFiniteSet(S)
  <2>1. f \in [OneShots -> S] /\ \A i, j \in OneShots : f[i] = f[j] => i = j
    BY DEF Task
  <2>2. \A t \in S : \E i \in OneShots : f[i] = t
    OBVIOUS
  <2>3. f \in Bijection(OneShots, S)
    BY <2>1, <2>2 DEF Bijection, Injection, Surjection, IsInjective
  <2>4. ExistsBijection(OneShots, S)
    BY <2>3 DEF ExistsBijection
  <2>. QED
    BY <2>4, FS_Bijection, SchedulerAssumption
<1>2. Cardinality(S) \in Nat /\ \E g \in [1..Cardinality(S) -> S] : IsInjective(g)
  BY <1>1, FS_CardinalityType DEF ExistsBijection, Bijection, Injection
<1>3. tasks \in [1..Cardinality(S) -> S] /\ IsInjective(tasks)
  BY <1>2 DEF Init, SetToSeq
<1>0. \A i \in OneShots : Task(i) \in TaskRecords /\ Task(i).id = i /\ Task(i).anchor = 0
  BY SchedulerAssumption DEF Task, TaskRecords
<1>4. \A t \in S : t \in TaskRecords /\ t.id \in OneShots /\ t.anchor = 0
  <2>1. SUFFICES ASSUME NEW t \in S
                 PROVE  t \in TaskRecords /\ t.id \in OneShots /\ t.anchor = 0
    OBVIOUS
  <2>2. PICK i \in OneShots : t = Task(i)
    BY <2>1
  <2>. QED
    BY <1>0, <2>2
<1>5. \A t, u \in S : t.id = u.id => t = u
  <2>1. SUFFICES ASSUME NEW t \in S, NEW u \in S, t.id = u.id
                 PROVE  t = u
    OBVIOUS
  <2>2. PICK i \in OneShots : t = Task(i)
    BY <2>1
  <2>3. PICK j \in OneShots : u = Task(j)
    BY <2>1
  <2>. QED
    BY <1>0, <2>1, <2>2, <2>3
<1> HIDE DEF S
<1>6. tasks \in Seq(TaskRecords)
  BY <1>2, <1>3, <1>4
<1>7. \A k \in DOMAIN tasks : tasks[k] \in S
  BY <1>3
<1>8. Unique(tasks)
  BY <1>3, <1>5, <1>7 DEF Unique, IsInjective
<1>. QED
  BY <1>4, <1>6, <1>7, <1>8 DEF Listings, IdsIn

LEMMA InitInv ==
  ASSUME Init
  PROVE  Inv
<1>0. /\ tasks \in Listings /\ IdsIn(tasks) \subseteq OneShots /\ \A k \in DOMAIN tasks : tasks[k].anchor = 0
      /\ OneShots \subseteq Ids
  BY InitTasks, SchedulerAssumption
<1>1. Snapshots = {tasks}
  BY DEF Init, Snapshots
<1>2. PlainTypes /\ JobTypes
  BY <1>0 DEF Init, PlainTypes, JobTypes, Versions, Removing, Looping
<1>3. ListTypes /\ MineInv
  BY <1>0, <1>1 DEF Init, ListTypes, MineInv
<1>4. RunTypes /\ ChanTypes /\ AskInv /\ SpawnInv
  BY SchedulerAssumption DEF Init, RunTypes, ChanTypes, AskInv, SpawnInv, Looping
<1>5. LinkInv /\ HeldInv
  BY <1>0, <1>1 DEF Init, LinkInv, Linked, HeldInv, Expiry, Removing, Looping
<1>6. LoopHeldInv /\ ClockInv /\ GoneInv
  BY <1>0, <1>1 DEF Init, LoopHeldInv, ClockInv, ReservationFresh, GoneInv, Expiry, Removing, Looping
<1>7. LoopInv /\ LoopSingleFlight /\ OverlapOnlyAfterFailure /\ ChainKeepsPrompt
  BY DEF Init, LoopInv, Attached, Expiry, Removing, LoopSingleFlight, OverlapOnlyAfterFailure, ChainKeepsPrompt
<1>. QED
  BY <1>2, <1>3, <1>4, <1>5, <1>6, <1>7 DEF Inv

-----------------------------------------------------------------------------
(***************************************************************************)
(* The theorems.                                                           *)
(***************************************************************************)
\* The inductive invariant of the actor, its writer and its coordinator.
THEOREM SchedulerInvariant == Spec => []Inv
<1>1. Init => Inv
  BY InitInv
<1>2. Inv /\ [Next]_vars => Inv'
  <2>1. SUFFICES ASSUME Inv, [Next]_vars PROVE Inv'
    OBVIOUS
  <2>2. PlainTypes' /\ JobTypes' /\ ListTypes' /\ MineInv'
    BY <2>1, PlainStep, JobStep, ListStep, MineStep
  <2>3. RunTypes' /\ ChanTypes' /\ AskInv' /\ SpawnInv'
    BY <2>1, RunTypesStep, ChanTypesStep, AskStep, SpawnInvStep
  <2>4. LinkInv' /\ HeldInv' /\ LoopHeldInv' /\ ClockInv'
    BY <2>1, LinkStep, HeldStep, LoopHeldStep, ClockInvStep
  <2>5. GoneInv' /\ LoopInv' /\ LoopSingleFlight' /\ OverlapOnlyAfterFailure' /\ ChainKeepsPrompt'
    BY <2>1, GoneStep, LoopInvStep, FlightStep, ChainStep
  <2>. QED
    BY <2>2, <2>3, <2>4, <2>5 DEF Inv
<1>. QED
  BY <1>1, <1>2, PTL DEF Spec

\* Every variable has its type in every state, and no id is listed twice,
\* whatever waits, fails or restarts.
THEOREM TypeCorrect == Spec => []TypeOK
<1>1. Inv => TypeOK
  <2>1. SUFFICES ASSUME Inv PROVE TypeOK
    OBVIOUS
  <2>2. tasks \in Seq(TaskRecords) /\ disk \in Seq(TaskRecords) /\ Unique(tasks)
    BY <2>1, TasksTyped DEF Listings
  <2>3. PlainTypes /\ JobTypes
    BY <2>1 DEF Inv
  <2>4. ASSUME NEW n \in DOMAIN runs
        PROVE  /\ runs[n].task \in Ids /\ runs[n].from \in 0..(n - 1)
               /\ runs[n].state \in {"sent", "live", "ok", "failed", "gone"}
               /\ runs[n].brood \in {"none", "marked", "stray", "over"}
               /\ runs[n].watch => runs[n].error
    <3>1. runs[n] \in RunRecords /\ runs[n].from < n /\ (runs[n].watch => runs[n].error) /\ n \in Nat
      BY <2>1, RunsTyped DEF Inv, RunTypes
    <3>. QED
      BY <3>1 DEF RunRecords
  <2>5. CASE at \in {"idle", "stopped"}
    BY <2>2, <2>3, <2>4, <2>5 DEF TypeOK, PlainTypes, JobTypes, Unique
  <2>6. CASE at \in {"save", "tombstone"}
    BY <2>2, <2>3, <2>4, <2>6 DEF TypeOK, PlainTypes, JobTypes, Unique, Removing
  <2>7. CASE at \in {"query", "unit"}
    BY <2>2, <2>3, <2>4, <2>7 DEF TypeOK, PlainTypes, JobTypes, Unique, Looping
  <2>. QED
    BY <2>3, <2>5, <2>6, <2>7 DEF PlainTypes
<1>. QED
  BY <1>1, SchedulerInvariant, PTL

\* A Delete that returned Ok(true) is final, in the list, in the file and in
\* the session's log, for any number of snapshots on their way and restarts.
THEOREM DeletesAreFinal == Spec => []DeletedStaysDeleted
<1>1. Inv => DeletedStaysDeleted
  <2>1. SUFFICES ASSUME Inv, NEW i \in deleted PROVE i \notin Held /\ ~Named(disk, i) /\ i \notin shown
    BY DEF DeletedStaysDeleted
  <2>2. i \notin shown /\ i \notin IdsIn(tasks) /\ i \notin IdsIn(disk)
    BY <2>1 DEF Inv, GoneInv, Snapshots
  <2>. QED
    BY <2>2 DEF Held, Named, IdsIn
<1>. QED
  BY <1>1, SchedulerInvariant, PTL

\* A reservation held across a wait is never overtaken (the assertions of commit_next).
THEOREM ReservationsStayFresh == Spec => []ReservationFresh
<1>1. Inv => ReservationFresh
  BY DEF Inv, ClockInv
<1>. QED
  BY <1>1, SchedulerInvariant, PTL

\* The clock never goes back and no version is given out twice.
THEOREM ClockAdvances == Spec => VersionsAdvance
<1>1. Inv /\ [Next]_vars => [clock' # clock => Newer(clock', clock)]_vars
  BY ClockStep DEF ClockMoves
<1>. QED
  BY <1>1, SchedulerInvariant, PTL DEF Spec, VersionsAdvance

\* At most one iteration of a task is on its way to the coordinator or at it.
THEOREM OneIterationAtATime == Spec => []LoopSingleFlight
<1>1. Inv => LoopSingleFlight
  BY DEF Inv
<1>. QED
  BY <1>1, SchedulerInvariant, PTL

\* An iteration overlaps a descendant of an earlier one only when that one failed.
THEOREM OverlapNeedsFailure == Spec => []OverlapOnlyAfterFailure
<1>1. Inv => OverlapOnlyAfterFailure
  BY DEF Inv
<1>. QED
  BY <1>1, SchedulerInvariant, PTL

\* A transcript is continued by an iteration of the same prompt only.
THEOREM TranscriptsKeepPrompt == Spec => []ChainKeepsPrompt
<1>1. Inv => ChainKeepsPrompt
  BY DEF Inv
<1>. QED
  BY <1>1, SchedulerInvariant, PTL

=============================================================================
