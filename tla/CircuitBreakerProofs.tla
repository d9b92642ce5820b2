------------------------ MODULE CircuitBreakerProofs ------------------------
(***************************************************************************)
(* Proofs about the circuit breaker, for any number of threads, any window,*)
(* any durations, any width of the slot counter and every interleaving of  *)
(* check() and record().                                                   *)
(*                                                                         *)
(* The breaker has no lock, so the invariant says what a thread may still  *)
(* rely on between two of its accesses: the claim it is about to take over *)
(* (Leased), the slots handed out against those still being given back     *)
(* (Counted), the age of what it loaded against the age of the Open state  *)
(* (Cooling), and the window of a breaker that has closed (Clean).         *)
(***************************************************************************)
EXTENDS CircuitBreaker, SequenceTheorems, FiniteSetTheorems, WellFoundedInduction, TLAPS

Windows == [entries : Seq(Samples), failures : Int]

\* No sample of a window was in it when the breaker closed.
NoStale(w) == \A k \in DOMAIN w.entries : ~w.entries[k].stale

\* What the threads hold, and what they share.
ThreadTypes ==
  /\ pc \in [Threads -> Steps] /\ at \in [Threads -> 0..MaxStall] /\ seen \in [Threads -> 0..AgeCap]
  /\ failed \subseteq Threads
SlotRange == (0 - Cardinality(Threads))..(MaxProbes + 1)
SharedTypes ==
  /\ state \in {"Closed", "Open", "HalfOpen"} /\ openFast \in BOOLEAN
  /\ openedAt \in 0..OpenDuration /\ claimedAt \in 0..AgeCap /\ probes \in 0..(2^Width - 1)
  /\ slots \in SlotRange /\ openFor \in 0..OpenDuration /\ raced \in BOOLEAN
Types == ThreadTypes /\ SharedTypes /\ window \in Windows

\* The claim a thread is about to take over was expired when it was loaded.
Leased == \A t \in Threads : pc[t] = "takeover" => seen[t] - at[t] >= OpenDuration

\* A small integer as the counter holds it.
Wrapped(n) == IF n >= 0 THEN n ELSE n + 2^Width

\* The counter holds the slots handed out and the increments still to be taken
\* back, below zero when a store of 0 came before the fetch_sub of an increment.
Counted ==
  /\ slots <= MaxProbes
  /\ probes = Wrapped(slots + Cardinality(Subtracting))

\* Unless a call ran across the stores of trip(), the time stamp a thread goes by
\* is no older than the Open state itself.  Until trip() has stored its stamp the
\* old one is there, and nobody is about to load it.
Cooling ==
  state = "Open" /\ ~raced =>
    /\ \A t \in Threads : pc[t] = "tripOpened" => openFor >= Capped(at[t], OpenDuration)
    /\ \/ openFor >= openedAt
       \/ Stamping # {} /\ \A t \in Threads : pc[t] # "opened"
    /\ \A t \in Threads : pc[t] = "elapsed" => openFor >= seen[t]
    /\ \A t \in Threads : pc[t] = "cas" => openFor >= OpenDuration

\* Old samples survive only until close() clears the window.
Clean == (\A t \in Threads : pc[t] # "closeWindow") => NoStale(window)

Inv == Types /\ Leased /\ Counted /\ Cooling /\ Clean

-----------------------------------------------------------------------------
(***************************************************************************)
(* Arithmetic and the window.                                              *)
(***************************************************************************)
LEMMA Caps ==
  /\ AgeCap \in Nat /\ SampleCap \in Nat
  /\ 0..OpenDuration \subseteq 0..AgeCap /\ 0..MaxStall \subseteq 0..AgeCap /\ 0..MaxStall \subseteq 0..SampleCap
  /\ 0 \in 0..MaxStall /\ 0 \in 0..OpenDuration
  /\ \A a \in Nat, c \in Nat : Older(a, c) \in 0..c /\ Capped(a, c) \in 0..c
  BY BreakerAssumption DEF AgeCap, SampleCap, Older, Capped

LEMMA Modulo ==
  ASSUME NEW a \in Int
  PROVE  /\ a % 2^Width \in 0..(2^Width - 1)
         /\ a \in 0..(2^Width - 1) => a % 2^Width = a
         /\ a = 2^Width => a % 2^Width = 0
         /\ a = 0 - 1 => a % 2^Width = 2^Width - 1
<1> DEFINE m == 2^Width
<1>1. m \in Nat /\ m > 0
  BY BreakerAssumption, FS_CardinalityType
<1> HIDE DEF m
<1>2. a % m \in 0..(m - 1) /\ (a \in 0..(m - 1) => a % m = a)
  BY <1>1
<1>3. a = m => a % m = 0
  BY <1>1
<1>4. a = 0 - 1 => a % m = m - 1
  BY <1>1
<1>. QED
  BY <1>2, <1>3, <1>4 DEF m

\* fetch_add and fetch_sub of the counter, below zero too.
LEMMA Wrapping ==
  ASSUME NEW n \in Int, 0 - 2^Width < n, n < 2^Width
  PROVE  /\ Wrapped(n) \in 0..(2^Width - 1)
         /\ n + 1 < 2^Width => (Wrapped(n) + 1) % 2^Width = Wrapped(n + 1)
         /\ (Wrapped(n) - 1) % 2^Width = Wrapped(n - 1)
<1> DEFINE m == 2^Width
<1>1. m \in Nat /\ m > 0
  BY BreakerAssumption, FS_CardinalityType
<1>2. \A a \in Int : /\ a \in 0..(m - 1) => a % m = a
                     /\ a = m => a % m = 0
                     /\ a = 0 - 1 => a % m = m - 1
  BY Modulo
<1>3. Wrapped(n) = (IF n >= 0 THEN n ELSE n + m) /\ 0 - m < n /\ n < m
      /\ Wrapped(n + 1) = (IF n + 1 >= 0 THEN n + 1 ELSE n + 1 + m)
      /\ Wrapped(n - 1) = (IF n - 1 >= 0 THEN n - 1 ELSE n - 1 + m)
  BY DEF Wrapped
<1> HIDE DEF m
<1>4. Wrapped(n) \in 0..(m - 1)
  BY <1>1, <1>3
<1>5. ASSUME n + 1 < m PROVE (Wrapped(n) + 1) % m = Wrapped(n + 1)
  <2>1. CASE n = 0 - 1
    BY <1>1, <1>2, <1>3, <2>1
  <2>2. CASE n # 0 - 1
    <3>1. Wrapped(n) + 1 = Wrapped(n + 1) /\ Wrapped(n) + 1 \in 0..(m - 1)
      BY <1>1, <1>3, <1>5, <2>2
    <3>. QED
      BY <1>2, <3>1
  <2>. QED
    BY <2>1, <2>2
<1>6. (Wrapped(n) - 1) % m = Wrapped(n - 1)
  <2>1. CASE n = 0
    BY <1>1, <1>2, <1>3, <2>1
  <2>2. CASE n # 0
    <3>1. Wrapped(n) - 1 = Wrapped(n - 1) /\ Wrapped(n) - 1 \in 0..(m - 1)
      BY <1>1, <1>3, <2>2
    <3>. QED
      BY <1>2, <3>1
  <2>. QED
    BY <2>1, <2>2
<1>. QED
  BY <1>4, <1>5, <1>6 DEF m

\* How many threads can owe the counter a fetch_sub.
LEMMA Owing ==
  /\ IsFiniteSet(Subtracting) /\ Cardinality(Threads) \in Nat
  /\ Cardinality(Subtracting) \in 0..Cardinality(Threads)
  /\ MaxProbes \in Nat /\ MaxProbes > 0 /\ 2^Width \in Nat
  /\ MaxProbes + Cardinality(Threads) < 2^Width
<1>1. Subtracting \subseteq Threads
  BY DEF Subtracting
<1>2. Cardinality(Subtracting) <= Cardinality(Threads) /\ IsFiniteSet(Subtracting)
  BY <1>1, FS_Subset, BreakerAssumption
<1>. QED
  BY <1>2, FS_CardinalityType, BreakerAssumption

LEMMA PushType ==
  ASSUME NEW w \in Windows, NEW b \in BOOLEAN, NEW a \in 0..SampleCap
  PROVE  Push(w, b, a) \in Windows /\ (NoStale(w) => NoStale(Push(w, b, a)))
<1> DEFINE room == IF Len(w.entries) >= MaxEntries THEN Popped(w) ELSE w
           s == [age |-> a, failure |-> b, stale |-> FALSE]
<1>1. w.entries \in Seq(Samples) /\ w.failures \in Int
  BY DEF Windows
<1>2. room \in Windows /\ (NoStale(w) => NoStale(room))
  <2>1. CASE Len(w.entries) >= MaxEntries
    <3>1. w.entries # <<>>
      BY <1>1, <2>1, BreakerAssumption
    <3>2. /\ Tail(w.entries) \in Seq(Samples) /\ Head(w.entries) \in Samples
          /\ Len(Tail(w.entries)) = Len(w.entries) - 1
          /\ \A k \in 1..Len(Tail(w.entries)) : Tail(w.entries)[k] = w.entries[k + 1]
      BY <1>1, <3>1, HeadTailProperties
    <3>3. Count(Head(w.entries).failure) \in Int
      BY <3>2 DEF Samples, Count
    <3>4. room = [entries |-> Tail(w.entries),
                  failures |-> w.failures - Count(Head(w.entries).failure)]
      BY <2>1 DEF Popped
    <3> HIDE DEF room
    <3>5. room \in Windows
      <4>1. w.failures - Count(Head(w.entries).failure) \in Int
        BY <1>1, <3>3
      <4>. QED
        BY <3>2, <4>1, <3>4 DEF Windows
    <3>6. ASSUME NoStale(w) PROVE NoStale(room)
      BY <1>1, <3>2, <3>4, <3>6 DEF NoStale
    <3>. QED
      BY <3>5, <3>6
  <2>2. CASE ~(Len(w.entries) >= MaxEntries)
    BY <2>2
  <2>. QED
    BY <2>1, <2>2
<1>3. Push(w, b, a) = [entries |-> Append(room.entries, s), failures |-> room.failures + Count(b)]
  BY DEF Push
<1> HIDE DEF room
<1>4. s \in Samples /\ Count(b) \in Int /\ ~s.stale
  BY DEF Samples, Count
<1>5. room.entries \in Seq(Samples) /\ room.failures \in Int
  BY <1>2 DEF Windows
<1> HIDE DEF s
<1>6. Append(room.entries, s) \in Seq(Samples)
  BY <1>4, <1>5
<1>7. Push(w, b, a) \in Windows
  BY <1>3, <1>4, <1>5, <1>6 DEF Windows
<1>8. ASSUME NoStale(w) PROVE NoStale(Push(w, b, a))
  <2>1. NoStale(room)
    BY <1>2, <1>8
  <2>2. \A k \in DOMAIN Append(room.entries, s) :
          \/ k \in DOMAIN room.entries /\ Append(room.entries, s)[k] = room.entries[k]
          \/ Append(room.entries, s)[k] = s
    BY <1>4, <1>5
  <2>. QED
    BY <1>3, <1>4, <2>1, <2>2 DEF NoStale
<1>. QED
  BY <1>7, <1>8

\* The scan of evict() stops at a well-defined entry.
LEMMA DroppedType ==
  ASSUME NEW w \in Windows, NEW a
  PROVE  Dropped(w, a) \in 0..Len(w.entries)
<1> DEFINE n == Len(w.entries)
           T == {k \in 0..n : k = n \/ ~Outdated(w, a, k + 1)}
           R == OpToRel(<, Nat)
<1>1. n \in Nat
  BY DEF Windows
<1>2. T \subseteq Nat /\ T # {}
  BY <1>1
<1>3. PICK x \in T : \A y \in T : <<y, x>> \notin R
  BY <1>2, NatLessThanWellFounded, WFMin
<1>4. \A y \in T : ~(y < x)
  BY <1>2, <1>3 DEF OpToRel
<1>5. Outdated(w, a, x)
  <2>1. CASE x = 0
    BY <2>1 DEF Outdated
  <2>2. CASE x > 0
    <3>1. x - 1 \in 0..n /\ x - 1 < x /\ x - 1 # n
      BY <1>1, <2>2
    <3>2. x - 1 \notin T
      BY <1>4, <3>1
    <3>3. Outdated(w, a, (x - 1) + 1)
      BY <3>1, <3>2
    <3>4. (x - 1) + 1 = x
      BY <1>1
    <3>. QED
      BY <3>3, <3>4
  <2>. QED
    BY <1>1, <2>1, <2>2
<1>6. \E k \in 0..n : Outdated(w, a, k) /\ (k < n => ~Outdated(w, a, k + 1))
  BY <1>1, <1>5
<1>. QED
  BY <1>6 DEF Dropped

LEMMA EvictType ==
  ASSUME NEW w \in Windows, NEW a
  PROVE  Evict(w, a) \in Windows /\ (NoStale(w) => NoStale(Evict(w, a)))
<1> DEFINE d == Dropped(w, a)
           F == {k \in 1..d : w.entries[k].failure}
<1>1. w.entries \in Seq(Samples) /\ w.failures \in Int /\ d \in 0..Len(w.entries)
  BY DroppedType DEF Windows
<1>2. Evict(w, a) = [entries |-> SubSeq(w.entries, d + 1, Len(w.entries)),
                     failures |-> w.failures - Cardinality(F)]
  BY DEF Evict
<1> HIDE DEF d
<1>3. IsFiniteSet(1..d) /\ F \subseteq 1..d
  BY <1>1, FS_Interval
<1>4. Cardinality(F) \in Nat
  BY <1>3, FS_Subset, FS_CardinalityType
<1> HIDE DEF F
<1> DEFINE e == SubSeq(w.entries, d + 1, Len(w.entries))
<1>5. e \in Seq(Samples) /\ \A k \in DOMAIN e : k + d \in DOMAIN w.entries /\ e[k] = w.entries[k + d]
  BY <1>1
<1> HIDE DEF e
<1>6. Evict(w, a) = [entries |-> e, failures |-> w.failures - Cardinality(F)]
  BY <1>2 DEF e
<1>7. Evict(w, a) \in Windows
  BY <1>1, <1>4, <1>5, <1>6 DEF Windows
<1>8. ASSUME NoStale(w) PROVE NoStale(Evict(w, a))
  BY <1>5, <1>6, <1>8 DEF NoStale
<1>. QED
  BY <1>7, <1>8

LEMMA RecordedType ==
  ASSUME Types, NEW t \in Threads
  PROVE  Recorded(t) \in Windows /\ (NoStale(window) => NoStale(Recorded(t)))
<1> DEFINE w == Push(window, t \in failed, at[t])
<1>1. window \in Windows /\ at[t] \in 0..SampleCap /\ (t \in failed) \in BOOLEAN
  BY Caps DEF Types, ThreadTypes
<1>2. w \in Windows /\ (NoStale(window) => NoStale(w))
  BY <1>1, PushType
<1>3. Recorded(t) = Evict(w, at[t])
  BY DEF Recorded
<1> HIDE DEF w
<1>. QED
  BY <1>2, <1>3, EvictType

\* Ageing or marking every sample keeps the window a window.
LEMMA RewriteType ==
  ASSUME NEW w \in Windows, NEW e, e \in [DOMAIN w.entries -> Samples]
  PROVE  [w EXCEPT !.entries = e] \in Windows /\ [w EXCEPT !.entries = e].entries = e
<1>1. w.entries \in Seq(Samples)
  BY DEF Windows
<1>2. DOMAIN w.entries = 1..Len(w.entries) /\ Len(w.entries) \in Nat
  BY <1>1
<1>3. e \in Seq(Samples)
  BY <1>2
<1>. QED
  BY <1>3 DEF Windows

LEMMA SampleSteps ==
  ASSUME NEW s \in Samples
  PROVE  Tainted(s) \in Samples /\ Aged(s) \in Samples /\ Aged(s).stale = s.stale
<1>1. s.age \in Nat /\ Older(s.age, SampleCap) \in 0..SampleCap
  BY Caps DEF Samples
<1>. QED
  BY <1>1 DEF Samples, Tainted, Aged

-----------------------------------------------------------------------------
(***************************************************************************)
(* One lemma per step.                                                     *)
(***************************************************************************)
LEMMA CheckKeeps ==
  ASSUME Inv, NEW t \in Threads, Check(t)
  PROVE  Inv'
<1>0. \A u \in Threads : u # t => pc'[u] = pc[u]
  BY DEF Inv, Types, ThreadTypes, Check, Goto, Return, RecordDone, shared, history
<1>1. Types'
  <2>1. ThreadTypes'
    <3>1. pc' \in [Threads -> Steps]
      BY DEF Inv, Types, ThreadTypes, SharedTypes, Steps, CheckSteps, RecordSteps, Check, Goto,
             Return, RecordDone, shared, history
    <3>2. at' \in [Threads -> 0..MaxStall]
      BY Caps DEF Inv, Types, ThreadTypes, Check, Goto, Return, RecordDone, shared, history
    <3>3. seen' \in [Threads -> 0..AgeCap] /\ failed' \subseteq Threads
      BY Caps DEF Inv, Types, ThreadTypes, SharedTypes, Check, Goto, Return, RecordDone, shared,
                  history
    <3>. QED
      BY <3>1, <3>2, <3>3 DEF ThreadTypes
  <2>2. SharedTypes'
    BY Caps, BreakerAssumption
       DEF Inv, Types, ThreadTypes, SharedTypes, Check, Goto, Return, RecordDone, shared, history
  <2>. QED
    BY <2>1, <2>2 DEF Inv, Types, Check, Goto, Return, RecordDone, shared, history
<1>2. Leased'
  BY DEF Inv, Types, ThreadTypes, SharedTypes, Leased, Check, Goto, Return, RecordDone, shared,
         history
<1>3. Counted'
  <2>1. Subtracting' = Subtracting
    BY DEF Inv, Types, ThreadTypes, SharedTypes, Subtracting, Check, Goto, Return, RecordDone,
           shared, history
  <2>. QED
    BY <2>1 DEF Inv, Counted, Check, Goto, Return, RecordDone, shared, history
<1>4. Cooling'
  BY Caps DEF Inv, Types, ThreadTypes, SharedTypes, Cooling, Stamping, Check, Goto, Return,
              RecordDone, shared, history
<1>5. Clean'
  BY DEF Inv, Types, ThreadTypes, SharedTypes, Clean, Check, Goto, Return, RecordDone, shared,
         history
<1>. QED
  BY <1>1, <1>2, <1>3, <1>4, <1>5 DEF Inv

LEMMA LoadOpenedKeeps ==
  ASSUME Inv, NEW t \in Threads, LoadOpened(t)
  PROVE  Inv'
<1>0. \A u \in Threads : u # t => pc'[u] = pc[u]
  BY DEF Inv, Types, ThreadTypes, LoadOpened, Goto, Return, RecordDone, shared, history
<1>1. Types'
  <2>1. ThreadTypes'
    <3>1. pc' \in [Threads -> Steps]
      BY DEF Inv, Types, ThreadTypes, SharedTypes, Steps, CheckSteps, RecordSteps, LoadOpened, Goto,
             Return, RecordDone, shared, history
    <3>2. at' \in [Threads -> 0..MaxStall]
      BY Caps DEF Inv, Types, ThreadTypes, LoadOpened, Goto, Return, RecordDone, shared, history
    <3>3. seen' \in [Threads -> 0..AgeCap] /\ failed' \subseteq Threads
      BY Caps DEF Inv, Types, ThreadTypes, SharedTypes, LoadOpened, Goto, Return, RecordDone,
                  shared, history
    <3>. QED
      BY <3>1, <3>2, <3>3 DEF ThreadTypes
  <2>2. SharedTypes'
    BY Caps, BreakerAssumption
       DEF Inv, Types, ThreadTypes, SharedTypes, LoadOpened, Goto, Return, RecordDone, shared,
           history
  <2>. QED
    BY <2>1, <2>2 DEF Inv, Types, LoadOpened, Goto, Return, RecordDone, shared, history
<1>2. Leased'
  BY DEF Inv, Types, ThreadTypes, SharedTypes, Leased, LoadOpened, Goto, Return, RecordDone, shared,
         history
<1>3. Counted'
  <2>1. Subtracting' = Subtracting
    BY DEF Inv, Types, ThreadTypes, SharedTypes, Subtracting, LoadOpened, Goto, Return, RecordDone,
           shared, history
  <2>. QED
    BY <2>1 DEF Inv, Counted, LoadOpened, Goto, Return, RecordDone, shared, history
<1>4. Cooling'
  BY Caps DEF Inv, Types, ThreadTypes, SharedTypes, Cooling, Stamping, LoadOpened, Goto, Return,
              RecordDone, shared, history
<1>5. Clean'
  BY DEF Inv, Types, ThreadTypes, SharedTypes, Clean, LoadOpened, Goto, Return, RecordDone, shared,
         history
<1>. QED
  BY <1>1, <1>2, <1>3, <1>4, <1>5 DEF Inv

LEMMA ElapsedKeeps ==
  ASSUME Inv, NEW t \in Threads, Elapsed(t)
  PROVE  Inv'
<1>0. \A u \in Threads : u # t => pc'[u] = pc[u]
  BY DEF Inv, Types, ThreadTypes, Elapsed, Goto, Return, RecordDone, shared, history
<1>1. Types'
  <2>1. ThreadTypes'
    <3>1. pc' \in [Threads -> Steps]
      BY DEF Inv, Types, ThreadTypes, SharedTypes, Steps, CheckSteps, RecordSteps, Elapsed, Goto,
             Return, RecordDone, shared, history
    <3>2. at' \in [Threads -> 0..MaxStall]
      BY Caps DEF Inv, Types, ThreadTypes, Elapsed, Goto, Return, RecordDone, shared, history
    <3>3. seen' \in [Threads -> 0..AgeCap] /\ failed' \subseteq Threads
      BY Caps DEF Inv, Types, ThreadTypes, SharedTypes, Elapsed, Goto, Return, RecordDone, shared,
                  history
    <3>. QED
      BY <3>1, <3>2, <3>3 DEF ThreadTypes
  <2>2. SharedTypes'
    BY Caps, BreakerAssumption
       DEF Inv, Types, ThreadTypes, SharedTypes, Elapsed, Goto, Return, RecordDone, shared, history
  <2>. QED
    BY <2>1, <2>2 DEF Inv, Types, Elapsed, Goto, Return, RecordDone, shared, history
<1>2. Leased'
  BY DEF Inv, Types, ThreadTypes, SharedTypes, Leased, Elapsed, Goto, Return, RecordDone, shared,
         history
<1>3. Counted'
  <2>1. Subtracting' = Subtracting
    BY DEF Inv, Types, ThreadTypes, SharedTypes, Subtracting, Elapsed, Goto, Return, RecordDone,
           shared, history
  <2>. QED
    BY <2>1 DEF Inv, Counted, Elapsed, Goto, Return, RecordDone, shared, history
<1>4. Cooling'
  <2>1. /\ openFor \in 0..OpenDuration /\ OpenDuration \in Nat
        /\ \A u \in Threads : seen[u] \in 0..AgeCap /\ at[u] \in 0..MaxStall
    BY BreakerAssumption DEF Inv, Types, ThreadTypes, SharedTypes
  <2>2. /\ openFor' = openFor /\ state' = state /\ openedAt' = openedAt /\ raced' = raced
        /\ \A u \in Threads : u # t => seen'[u] = seen[u] /\ at'[u] = at[u]
    BY DEF Inv, Types, ThreadTypes, Elapsed, Goto, shared, history
  <2>3. SUFFICES ASSUME state = "Open", ~raced, Cooling PROVE Cooling'
    BY <2>2 DEF Cooling, Inv
  <2>4. \A u \in Threads : pc'[u] = "tripOpened" => openFor' >= Capped(at'[u], OpenDuration)
    BY <1>0, <2>1, <2>2, <2>3 DEF Inv, Types, ThreadTypes, Cooling, Capped, Elapsed, Goto
  <2>5. \/ openFor' >= openedAt'
        \/ Stamping' # {} /\ \A u \in Threads : pc'[u] # "opened"
    BY <1>0, <2>2, <2>3 DEF Inv, Types, ThreadTypes, Cooling, Stamping, Elapsed, Goto
  <2>6. \A u \in Threads : pc'[u] = "elapsed" => openFor' >= seen'[u]
    BY <1>0, <2>2, <2>3 DEF Inv, Types, ThreadTypes, Cooling, Elapsed, Goto
  <2>7. \A u \in Threads : pc'[u] = "cas" => openFor' >= OpenDuration
    BY <1>0, <2>1, <2>2, <2>3 DEF Inv, Types, ThreadTypes, Cooling, Elapsed, Goto
  <2>. QED
    BY <2>4, <2>5, <2>6, <2>7 DEF Cooling
<1>5. Clean'
  BY DEF Inv, Types, ThreadTypes, SharedTypes, Clean, Elapsed, Goto, Return, RecordDone, shared,
         history
<1>. QED
  BY <1>1, <1>2, <1>3, <1>4, <1>5 DEF Inv

LEMMA CasHalfOpenKeeps ==
  ASSUME Inv, NEW t \in Threads, CasHalfOpen(t)
  PROVE  Inv'
<1>0. \A u \in Threads : u # t => pc'[u] = pc[u]
  BY DEF Inv, Types, ThreadTypes, CasHalfOpen, Goto, Return, RecordDone, shared, history
<1>1. Types'
  <2>1. ThreadTypes'
    <3>1. pc' \in [Threads -> Steps]
      BY DEF Inv, Types, ThreadTypes, SharedTypes, Steps, CheckSteps, RecordSteps, CasHalfOpen,
             Goto, Return, RecordDone, shared, history
    <3>2. at' \in [Threads -> 0..MaxStall]
      BY Caps DEF Inv, Types, ThreadTypes, CasHalfOpen, Goto, Return, RecordDone, shared, history
    <3>3. seen' \in [Threads -> 0..AgeCap] /\ failed' \subseteq Threads
      BY Caps DEF Inv, Types, ThreadTypes, SharedTypes, CasHalfOpen, Goto, Return, RecordDone,
                  shared, history
    <3>. QED
      BY <3>1, <3>2, <3>3 DEF ThreadTypes
  <2>2. SharedTypes'
    BY Caps, BreakerAssumption
       DEF Inv, Types, ThreadTypes, SharedTypes, CasHalfOpen, Goto, Return, RecordDone, shared,
           history
  <2>. QED
    BY <2>1, <2>2 DEF Inv, Types, CasHalfOpen, Goto, Return, RecordDone, shared, history
<1>2. Leased'
  BY DEF Inv, Types, ThreadTypes, SharedTypes, Leased, CasHalfOpen, Goto, Return, RecordDone,
         shared, history
<1>3. Counted'
  <2>1. Subtracting' = Subtracting
    BY DEF Inv, Types, ThreadTypes, SharedTypes, Subtracting, CasHalfOpen, Goto, Return, RecordDone,
           shared, history
  <2>. QED
    BY <2>1 DEF Inv, Counted, CasHalfOpen, Goto, Return, RecordDone, shared, history
<1>4. Cooling'
  BY Caps DEF Inv, Types, ThreadTypes, SharedTypes, Cooling, Stamping, CasHalfOpen, Goto, Return,
              RecordDone, shared, history
<1>5. Clean'
  BY DEF Inv, Types, ThreadTypes, SharedTypes, Clean, CasHalfOpen, Goto, Return, RecordDone, shared,
         history
<1>. QED
  BY <1>1, <1>2, <1>3, <1>4, <1>5 DEF Inv

LEMMA UnmirrorKeeps ==
  ASSUME Inv, NEW t \in Threads, Unmirror(t)
  PROVE  Inv'
<1>0. \A u \in Threads : u # t => pc'[u] = pc[u]
  BY DEF Inv, Types, ThreadTypes, Unmirror, Goto, Return, RecordDone, shared, history
<1>1. Types'
  <2>1. ThreadTypes'
    <3>1. pc' \in [Threads -> Steps]
      BY DEF Inv, Types, ThreadTypes, SharedTypes, Steps, CheckSteps, RecordSteps, Unmirror, Goto,
             Return, RecordDone, shared, history
    <3>2. at' \in [Threads -> 0..MaxStall]
      BY Caps DEF Inv, Types, ThreadTypes, Unmirror, Goto, Return, RecordDone, shared, history
    <3>3. seen' \in [Threads -> 0..AgeCap] /\ failed' \subseteq Threads
      BY Caps DEF Inv, Types, ThreadTypes, SharedTypes, Unmirror, Goto, Return, RecordDone, shared,
                  history
    <3>. QED
      BY <3>1, <3>2, <3>3 DEF ThreadTypes
  <2>2. SharedTypes'
    BY Caps, BreakerAssumption
       DEF Inv, Types, ThreadTypes, SharedTypes, Unmirror, Goto, Return, RecordDone, shared, history
  <2>. QED
    BY <2>1, <2>2 DEF Inv, Types, Unmirror, Goto, Return, RecordDone, shared, history
<1>2. Leased'
  BY DEF Inv, Types, ThreadTypes, SharedTypes, Leased, Unmirror, Goto, Return, RecordDone, shared,
         history
<1>3. Counted'
  <2>1. Subtracting' = Subtracting
    BY DEF Inv, Types, ThreadTypes, SharedTypes, Subtracting, Unmirror, Goto, Return, RecordDone,
           shared, history
  <2>. QED
    BY <2>1 DEF Inv, Counted, Unmirror, Goto, Return, RecordDone, shared, history
<1>4. Cooling'
  BY Caps DEF Inv, Types, ThreadTypes, SharedTypes, Cooling, Stamping, Unmirror, Goto, Return,
              RecordDone, shared, history
<1>5. Clean'
  BY DEF Inv, Types, ThreadTypes, SharedTypes, Clean, Unmirror, Goto, Return, RecordDone, shared,
         history
<1>. QED
  BY <1>1, <1>2, <1>3, <1>4, <1>5 DEF Inv

LEMMA RereadKeeps ==
  ASSUME Inv, NEW t \in Threads, Reread(t)
  PROVE  Inv'
<1>0. \A u \in Threads : u # t => pc'[u] = pc[u]
  BY DEF Inv, Types, ThreadTypes, Reread, Goto, Return, RecordDone, shared, history
<1>1. Types'
  <2>1. ThreadTypes'
    <3>1. pc' \in [Threads -> Steps]
      BY DEF Inv, Types, ThreadTypes, SharedTypes, Steps, CheckSteps, RecordSteps, Reread, Goto,
             Return, RecordDone, shared, history
    <3>2. at' \in [Threads -> 0..MaxStall]
      BY Caps DEF Inv, Types, ThreadTypes, Reread, Goto, Return, RecordDone, shared, history
    <3>3. seen' \in [Threads -> 0..AgeCap] /\ failed' \subseteq Threads
      BY Caps DEF Inv, Types, ThreadTypes, SharedTypes, Reread, Goto, Return, RecordDone, shared,
                  history
    <3>. QED
      BY <3>1, <3>2, <3>3 DEF ThreadTypes
  <2>2. SharedTypes'
    BY Caps, BreakerAssumption
       DEF Inv, Types, ThreadTypes, SharedTypes, Reread, Goto, Return, RecordDone, shared, history
  <2>. QED
    BY <2>1, <2>2 DEF Inv, Types, Reread, Goto, Return, RecordDone, shared, history
<1>2. Leased'
  BY DEF Inv, Types, ThreadTypes, SharedTypes, Leased, Reread, Goto, Return, RecordDone, shared,
         history
<1>3. Counted'
  <2>1. Subtracting' = Subtracting
    BY DEF Inv, Types, ThreadTypes, SharedTypes, Subtracting, Reread, Goto, Return, RecordDone,
           shared, history
  <2>. QED
    BY <2>1 DEF Inv, Counted, Reread, Goto, Return, RecordDone, shared, history
<1>4. Cooling'
  BY Caps DEF Inv, Types, ThreadTypes, SharedTypes, Cooling, Stamping, Reread, Goto, Return,
              RecordDone, shared, history
<1>5. Clean'
  BY DEF Inv, Types, ThreadTypes, SharedTypes, Clean, Reread, Goto, Return, RecordDone, shared,
         history
<1>. QED
  BY <1>1, <1>2, <1>3, <1>4, <1>5 DEF Inv

LEMMA ProbeNowKeeps ==
  ASSUME Inv, NEW t \in Threads, ProbeNow(t)
  PROVE  Inv'
<1>0. \A u \in Threads : u # t => pc'[u] = pc[u]
  BY DEF Inv, Types, ThreadTypes, ProbeNow, Goto, Return, RecordDone, shared, history
<1>1. Types'
  <2>1. ThreadTypes'
    <3>1. pc' \in [Threads -> Steps]
      BY DEF Inv, Types, ThreadTypes, SharedTypes, Steps, CheckSteps, RecordSteps, ProbeNow, Goto,
             Return, RecordDone, shared, history
    <3>2. at' \in [Threads -> 0..MaxStall]
      BY Caps DEF Inv, Types, ThreadTypes, ProbeNow, Goto, Return, RecordDone, shared, history
    <3>3. seen' \in [Threads -> 0..AgeCap] /\ failed' \subseteq Threads
      BY Caps DEF Inv, Types, ThreadTypes, SharedTypes, ProbeNow, Goto, Return, RecordDone, shared,
                  history
    <3>. QED
      BY <3>1, <3>2, <3>3 DEF ThreadTypes
  <2>2. SharedTypes'
    BY Caps, BreakerAssumption
       DEF Inv, Types, ThreadTypes, SharedTypes, ProbeNow, Goto, Return, RecordDone, shared, history
  <2>. QED
    BY <2>1, <2>2 DEF Inv, Types, ProbeNow, Goto, Return, RecordDone, shared, history
<1>2. Leased'
  BY DEF Inv, Types, ThreadTypes, SharedTypes, Leased, ProbeNow, Goto, Return, RecordDone, shared,
         history
<1>3. Counted'
  <2>1. Subtracting' = Subtracting
    BY DEF Inv, Types, ThreadTypes, SharedTypes, Subtracting, ProbeNow, Goto, Return, RecordDone,
           shared, history
  <2>. QED
    BY <2>1 DEF Inv, Counted, ProbeNow, Goto, Return, RecordDone, shared, history
<1>4. Cooling'
  BY Caps DEF Inv, Types, ThreadTypes, SharedTypes, Cooling, Stamping, ProbeNow, Goto, Return,
              RecordDone, shared, history
<1>5. Clean'
  BY DEF Inv, Types, ThreadTypes, SharedTypes, Clean, ProbeNow, Goto, Return, RecordDone, shared,
         history
<1>. QED
  BY <1>1, <1>2, <1>3, <1>4, <1>5 DEF Inv

LEMMA ClaimKeeps ==
  ASSUME Inv, NEW t \in Threads, Claim(t)
  PROVE  Inv'
<1>0. \A u \in Threads : u # t => pc'[u] = pc[u]
  BY DEF Inv, Types, ThreadTypes, Claim, Goto, Return, RecordDone, shared, history
<1>1. Types'
  <2>1. ThreadTypes'
    <3>1. pc' \in [Threads -> Steps]
      BY DEF Inv, Types, ThreadTypes, SharedTypes, Steps, CheckSteps, RecordSteps, Claim, Goto,
             Return, RecordDone, shared, history
    <3>2. at' \in [Threads -> 0..MaxStall]
      BY Caps DEF Inv, Types, ThreadTypes, Claim, Goto, Return, RecordDone, shared, history
    <3>3. seen' \in [Threads -> 0..AgeCap] /\ failed' \subseteq Threads
      BY Caps DEF Inv, Types, ThreadTypes, SharedTypes, Claim, Goto, Return, RecordDone, shared,
                  history
    <3>. QED
      BY <3>1, <3>2, <3>3 DEF ThreadTypes
  <2>2. SharedTypes'
    BY Caps, BreakerAssumption
       DEF Inv, Types, ThreadTypes, SharedTypes, Claim, Goto, Return, RecordDone, shared, history
  <2>. QED
    BY <2>1, <2>2 DEF Inv, Types, Claim, Goto, Return, RecordDone, shared, history
<1>2. Leased'
  BY DEF Inv, Types, ThreadTypes, SharedTypes, Leased, Claim, Goto, Return, RecordDone, shared,
         history
<1>3. Counted'
  <2>1. Subtracting' = Subtracting
    BY DEF Inv, Types, ThreadTypes, SharedTypes, Subtracting, Claim, Goto, Return, RecordDone,
           shared, history
  <2>. QED
    BY <2>1 DEF Inv, Counted, Claim, Goto, Return, RecordDone, shared, history
<1>4. Cooling'
  BY Caps DEF Inv, Types, ThreadTypes, SharedTypes, Cooling, Stamping, Claim, Goto, Return,
              RecordDone, shared, history
<1>5. Clean'
  BY DEF Inv, Types, ThreadTypes, SharedTypes, Clean, Claim, Goto, Return, RecordDone, shared,
         history
<1>. QED
  BY <1>1, <1>2, <1>3, <1>4, <1>5 DEF Inv

LEMMA LeaseKeeps ==
  ASSUME Inv, NEW t \in Threads, Lease(t)
  PROVE  Inv'
<1>0. \A u \in Threads : u # t => pc'[u] = pc[u]
  BY DEF Inv, Types, ThreadTypes, Lease, Goto, Return, RecordDone, shared, history
<1>1. Types'
  <2>1. ThreadTypes'
    <3>1. pc' \in [Threads -> Steps]
      BY DEF Inv, Types, ThreadTypes, SharedTypes, Steps, CheckSteps, RecordSteps, Lease, Goto,
             Return, RecordDone, shared, history
    <3>2. at' \in [Threads -> 0..MaxStall]
      BY Caps DEF Inv, Types, ThreadTypes, Lease, Goto, Return, RecordDone, shared, history
    <3>3. seen' \in [Threads -> 0..AgeCap] /\ failed' \subseteq Threads
      BY Caps DEF Inv, Types, ThreadTypes, SharedTypes, Lease, Goto, Return, RecordDone, shared,
                  history
    <3>. QED
      BY <3>1, <3>2, <3>3 DEF ThreadTypes
  <2>2. SharedTypes'
    BY Caps, BreakerAssumption
       DEF Inv, Types, ThreadTypes, SharedTypes, Lease, Goto, Return, RecordDone, shared, history
  <2>. QED
    BY <2>1, <2>2 DEF Inv, Types, Lease, Goto, Return, RecordDone, shared, history
<1>2. Leased'
  BY DEF Inv, Types, ThreadTypes, SharedTypes, Leased, Lease, Goto, Return, RecordDone, shared,
         history
<1>3. Counted'
  <2>1. Subtracting' = Subtracting
    BY DEF Inv, Types, ThreadTypes, SharedTypes, Subtracting, Lease, Goto, Return, RecordDone,
           shared, history
  <2>. QED
    BY <2>1 DEF Inv, Counted, Lease, Goto, Return, RecordDone, shared, history
<1>4. Cooling'
  BY Caps DEF Inv, Types, ThreadTypes, SharedTypes, Cooling, Stamping, Lease, Goto, Return,
              RecordDone, shared, history
<1>5. Clean'
  BY DEF Inv, Types, ThreadTypes, SharedTypes, Clean, Lease, Goto, Return, RecordDone, shared,
         history
<1>. QED
  BY <1>1, <1>2, <1>3, <1>4, <1>5 DEF Inv

LEMMA TakeoverKeeps ==
  ASSUME Inv, NEW t \in Threads, Takeover(t)
  PROVE  Inv'
<1>0. \A u \in Threads : u # t => pc'[u] = pc[u]
  BY DEF Inv, Types, ThreadTypes, Takeover, Goto, Return, RecordDone, shared, history
<1>1. Types'
  <2>1. ThreadTypes'
    <3>1. pc' \in [Threads -> Steps]
      BY DEF Inv, Types, ThreadTypes, SharedTypes, Steps, CheckSteps, RecordSteps, Takeover, Goto,
             Return, RecordDone, shared, history
    <3>2. at' \in [Threads -> 0..MaxStall]
      BY Caps DEF Inv, Types, ThreadTypes, Takeover, Goto, Return, RecordDone, shared, history
    <3>3. seen' \in [Threads -> 0..AgeCap] /\ failed' \subseteq Threads
      BY Caps DEF Inv, Types, ThreadTypes, SharedTypes, Takeover, Goto, Return, RecordDone, shared,
                  history
    <3>. QED
      BY <3>1, <3>2, <3>3 DEF ThreadTypes
  <2>2. SharedTypes'
    BY Caps, BreakerAssumption
       DEF Inv, Types, ThreadTypes, SharedTypes, Takeover, Goto, Return, RecordDone, shared, history
  <2>. QED
    BY <2>1, <2>2 DEF Inv, Types, Takeover, Goto, Return, RecordDone, shared, history
<1>2. Leased'
  BY DEF Inv, Types, ThreadTypes, SharedTypes, Leased, Takeover, Goto, Return, RecordDone, shared,
         history
<1>3. Counted'
  <2>1. Subtracting' = Subtracting
    BY DEF Inv, Types, ThreadTypes, SharedTypes, Subtracting, Takeover, Goto, Return, RecordDone,
           shared, history
  <2>. QED
    BY <2>1 DEF Inv, Counted, Takeover, Goto, Return, RecordDone, shared, history
<1>4. Cooling'
  BY Caps DEF Inv, Types, ThreadTypes, SharedTypes, Cooling, Stamping, Takeover, Goto, Return,
              RecordDone, shared, history
<1>5. Clean'
  BY DEF Inv, Types, ThreadTypes, SharedTypes, Clean, Takeover, Goto, Return, RecordDone, shared,
         history
<1>. QED
  BY <1>1, <1>2, <1>3, <1>4, <1>5 DEF Inv

LEMMA CloseStateKeeps ==
  ASSUME Inv, NEW t \in Threads, CloseState(t)
  PROVE  Inv'
<1>0. \A u \in Threads : u # t => pc'[u] = pc[u]
  BY DEF Inv, Types, ThreadTypes, CloseState, Goto, Return, RecordDone, shared, history
<1>1. Types'
  <2>1. ThreadTypes'
    <3>1. pc' \in [Threads -> Steps]
      BY DEF Inv, Types, ThreadTypes, SharedTypes, Steps, CheckSteps, RecordSteps, CloseState, Goto,
             Return, RecordDone, shared, history
    <3>2. at' \in [Threads -> 0..MaxStall]
      BY Caps DEF Inv, Types, ThreadTypes, CloseState, Goto, Return, RecordDone, shared, history
    <3>3. seen' \in [Threads -> 0..AgeCap] /\ failed' \subseteq Threads
      BY Caps DEF Inv, Types, ThreadTypes, SharedTypes, CloseState, Goto, Return, RecordDone,
                  shared, history
    <3>. QED
      BY <3>1, <3>2, <3>3 DEF ThreadTypes
  <2>2. SharedTypes'
    BY Caps, BreakerAssumption
       DEF Inv, Types, ThreadTypes, SharedTypes, CloseState, Goto, Return, RecordDone, shared,
           history
  <2>3. window' \in Windows
    <3> DEFINE e == [k \in DOMAIN window.entries |-> Tainted(window.entries[k])]
    <3>1. \A k \in DOMAIN window.entries : window.entries[k] \in Samples
      BY DEF Inv, Types, Windows
    <3>2. e \in [DOMAIN window.entries -> Samples]
      BY <3>1, SampleSteps
    <3>3. window' = [window EXCEPT !.entries = e]
      BY DEF CloseState
    <3> HIDE DEF e
    <3>. QED
      BY <3>2, <3>3, RewriteType DEF Inv, Types
  <2>. QED
    BY <2>1, <2>2, <2>3 DEF Types
<1>2. Leased'
  BY DEF Inv, Types, ThreadTypes, SharedTypes, Leased, CloseState, Goto, Return, RecordDone, shared,
         history
<1>3. Counted'
  <2>1. Subtracting' = Subtracting
    BY DEF Inv, Types, ThreadTypes, SharedTypes, Subtracting, CloseState, Goto, Return, RecordDone,
           shared, history
  <2>. QED
    BY <2>1 DEF Inv, Counted, CloseState, Goto, Return, RecordDone, shared, history
<1>4. Cooling'
  BY Caps DEF Inv, Types, ThreadTypes, SharedTypes, Cooling, Stamping, CloseState, Goto, Return,
              RecordDone, shared, history
<1>5. Clean'
  BY DEF Inv, Types, ThreadTypes, SharedTypes, Clean, CloseState, Goto, Return, RecordDone, shared,
         history
<1>. QED
  BY <1>1, <1>2, <1>3, <1>4, <1>5 DEF Inv

LEMMA CloseWindowKeeps ==
  ASSUME Inv, NEW t \in Threads, CloseWindow(t)
  PROVE  Inv'
<1>0. \A u \in Threads : u # t => pc'[u] = pc[u]
  BY DEF Inv, Types, ThreadTypes, CloseWindow, Goto, Return, RecordDone, shared, history
<1>1. Types'
  <2>1. ThreadTypes'
    <3>1. pc' \in [Threads -> Steps]
      BY DEF Inv, Types, ThreadTypes, SharedTypes, Steps, CheckSteps, RecordSteps, CloseWindow,
             Goto, Return, RecordDone, shared, history
    <3>2. at' \in [Threads -> 0..MaxStall]
      BY Caps DEF Inv, Types, ThreadTypes, CloseWindow, Goto, Return, RecordDone, shared, history
    <3>3. seen' \in [Threads -> 0..AgeCap] /\ failed' \subseteq Threads
      BY Caps DEF Inv, Types, ThreadTypes, SharedTypes, CloseWindow, Goto, Return, RecordDone,
                  shared, history
    <3>. QED
      BY <3>1, <3>2, <3>3 DEF ThreadTypes
  <2>2. SharedTypes'
    BY Caps, BreakerAssumption
       DEF Inv, Types, ThreadTypes, SharedTypes, CloseWindow, Goto, Return, RecordDone, shared,
           history
  <2>3. window' \in Windows
    BY DEF CloseWindow, Windows
  <2>. QED
    BY <2>1, <2>2, <2>3 DEF Types
<1>2. Leased'
  BY DEF Inv, Types, ThreadTypes, SharedTypes, Leased, CloseWindow, Goto, Return, RecordDone,
         shared, history
<1>3. Counted'
  <2>1. Subtracting' = Subtracting
    BY DEF Inv, Types, ThreadTypes, SharedTypes, Subtracting, CloseWindow, Goto, Return, RecordDone,
           shared, history
  <2>. QED
    BY <2>1 DEF Inv, Counted, CloseWindow, Goto, Return, RecordDone, shared, history
<1>4. Cooling'
  BY Caps DEF Inv, Types, ThreadTypes, SharedTypes, Cooling, Stamping, CloseWindow, Goto, Return,
              RecordDone, shared, history
<1>5. Clean'
  <2>1. window'.entries = <<>>
    BY DEF CloseWindow
  <2>. QED
    BY <2>1 DEF Clean, NoStale
<1>. QED
  BY <1>1, <1>2, <1>3, <1>4, <1>5 DEF Inv

LEMMA FetchAddKeeps ==
  ASSUME Inv, NEW t \in Threads, FetchAdd(t)
  PROVE  Inv'
<1>0. \A u \in Threads : u # t => pc'[u] = pc[u]
  BY DEF Inv, Types, ThreadTypes, FetchAdd, Goto, Return, RecordDone, shared, history
<1>1. Types'
  <2>1. ThreadTypes'
    <3>1. pc' \in [Threads -> Steps]
      BY DEF Inv, Types, ThreadTypes, SharedTypes, Steps, CheckSteps, RecordSteps, FetchAdd, Goto,
             Return, RecordDone, shared, history
    <3>2. at' \in [Threads -> 0..MaxStall]
      BY Caps DEF Inv, Types, ThreadTypes, FetchAdd, Goto, Return, RecordDone, shared, history
    <3>3. seen' \in [Threads -> 0..AgeCap] /\ failed' \subseteq Threads
      BY Caps DEF Inv, Types, ThreadTypes, SharedTypes, FetchAdd, Goto, Return, RecordDone, shared,
                  history
    <3>. QED
      BY <3>1, <3>2, <3>3 DEF ThreadTypes
  <2>2. SharedTypes'
    <3>1. probes' \in 0..(2^Width - 1)
      <4>1. probes + 1 \in Int
        BY DEF Inv, Types, SharedTypes
      <4>. QED
        BY <4>1, Modulo DEF FetchAdd
    <3>2. slots' \in SlotRange
      BY Owing DEF Inv, Types, SharedTypes, SlotRange, FetchAdd, history
    <3>. QED
      BY <3>1, <3>2 DEF Inv, Types, SharedTypes, FetchAdd, history
  <2>. QED
    BY <2>1, <2>2 DEF Inv, Types, FetchAdd, Goto, Return, RecordDone, shared, history
<1>2. Leased'
  BY DEF Inv, Types, ThreadTypes, SharedTypes, Leased, FetchAdd, Goto, Return, RecordDone, shared,
         history
<1>3. Counted'
  <2> DEFINE c == Cardinality(Subtracting)
             n == Cardinality(Threads)
  <2>1. pc[t] = "add" /\ t \notin Subtracting
    BY DEF Subtracting, FetchAdd, Goto
  <2>2. /\ slots \in Int /\ 0 - n <= slots /\ slots <= MaxProbes
        /\ probes = Wrapped(slots + c) /\ probes' = (probes + 1) % 2^Width
    BY Owing DEF Inv, Types, SharedTypes, SlotRange, Counted, FetchAdd
  <2>3. /\ c \in 0..n /\ n \in Nat /\ MaxProbes \in Nat /\ MaxProbes > 0
        /\ 2^Width \in Nat /\ MaxProbes + n < 2^Width
    BY Owing
  <2>4. CASE probes < MaxProbes
    <3>1. Subtracting' = Subtracting /\ slots' = slots + 1
      BY <2>2, <2>4 DEF Inv, Types, ThreadTypes, Subtracting, FetchAdd, Goto
    <3>2. slots + 1 <= MaxProbes
      BY <2>2, <2>3, <2>4 DEF Wrapped
    <3>3. /\ slots + c \in Int /\ 0 - 2^Width < slots + c /\ slots + c + 1 < 2^Width
          /\ slots + c + 1 = slots + 1 + c /\ slots + c < 2^Width
      BY <2>2, <2>3, <3>2
    <3>4. probes' = Wrapped(slots + 1 + c)
      BY <2>2, <3>3, Wrapping
    <3>. QED
      BY <3>1, <3>2, <3>4 DEF Counted
  <2>5. CASE ~(probes < MaxProbes)
    <3>1. Subtracting' = Subtracting \cup {t} /\ slots' = slots
      BY <2>5 DEF Inv, Types, ThreadTypes, Subtracting, FetchAdd, Goto
    <3>2. Cardinality(Subtracting \cup {t}) = c + 1 /\ c + 1 <= n
      <4>1. Subtracting \cup {t} \subseteq Threads
        BY DEF Subtracting
      <4>. QED
        BY <2>1, <4>1, Owing, FS_Subset, FS_AddElement, BreakerAssumption
    <3>3. /\ slots + c \in Int /\ 0 - 2^Width < slots + c /\ slots + c + 1 < 2^Width
          /\ slots + c + 1 = slots + (c + 1) /\ slots + c < 2^Width
      BY <2>2, <2>3, <3>2
    <3>4. probes' = Wrapped(slots + (c + 1))
      BY <2>2, <3>3, Wrapping
    <3>. QED
      BY <2>2, <3>1, <3>2, <3>4 DEF Counted
  <2>. QED
    BY <2>4, <2>5
<1>4. Cooling'
  BY Caps DEF Inv, Types, ThreadTypes, SharedTypes, Cooling, Stamping, FetchAdd, Goto, Return,
              RecordDone, shared, history
<1>5. Clean'
  BY DEF Inv, Types, ThreadTypes, SharedTypes, Clean, FetchAdd, Goto, Return, RecordDone, shared,
         history
<1>. QED
  BY <1>1, <1>2, <1>3, <1>4, <1>5 DEF Inv

LEMMA FetchSubKeeps ==
  ASSUME Inv, NEW t \in Threads, FetchSub(t)
  PROVE  Inv'
<1>0. \A u \in Threads : u # t => pc'[u] = pc[u]
  BY DEF Inv, Types, ThreadTypes, FetchSub, Goto, Return, RecordDone, shared, history
<1>1. Types'
  <2>1. ThreadTypes'
    <3>1. pc' \in [Threads -> Steps]
      BY DEF Inv, Types, ThreadTypes, SharedTypes, Steps, CheckSteps, RecordSteps, FetchSub, Goto,
             Return, RecordDone, shared, history
    <3>2. at' \in [Threads -> 0..MaxStall]
      BY Caps DEF Inv, Types, ThreadTypes, FetchSub, Goto, Return, RecordDone, shared, history
    <3>3. seen' \in [Threads -> 0..AgeCap] /\ failed' \subseteq Threads
      BY Caps DEF Inv, Types, ThreadTypes, SharedTypes, FetchSub, Goto, Return, RecordDone, shared,
                  history
    <3>. QED
      BY <3>1, <3>2, <3>3 DEF ThreadTypes
  <2>2. SharedTypes'
    <3>1. probes' \in 0..(2^Width - 1)
      <4>1. probes - 1 \in Int
        BY DEF Inv, Types, SharedTypes
      <4>. QED
        BY <4>1, Modulo DEF FetchSub
    <3>2. slots' \in SlotRange
      BY Owing DEF Inv, Types, SharedTypes, SlotRange, FetchSub, history
    <3>. QED
      BY <3>1, <3>2 DEF Inv, Types, SharedTypes, FetchSub, history
  <2>. QED
    BY <2>1, <2>2 DEF Inv, Types, FetchSub, Goto, Return, RecordDone, shared, history
<1>2. Leased'
  BY DEF Inv, Types, ThreadTypes, SharedTypes, Leased, FetchSub, Goto, Return, RecordDone, shared,
         history
<1>3. Counted'
  <2> DEFINE c == Cardinality(Subtracting)
             n == Cardinality(Threads)
  <2>1. t \in Subtracting /\ Subtracting' = Subtracting \ {t}
    BY DEF Inv, Types, ThreadTypes, Subtracting, FetchSub, Goto
  <2>2. /\ slots \in Int /\ 0 - n <= slots /\ slots <= MaxProbes /\ slots' = slots
        /\ probes = Wrapped(slots + c) /\ probes' = (probes - 1) % 2^Width
    BY Owing DEF Inv, Types, SharedTypes, SlotRange, Counted, FetchSub, history
  <2>3. /\ c \in 0..n /\ n \in Nat /\ MaxProbes \in Nat
        /\ 2^Width \in Nat /\ MaxProbes + n < 2^Width
    BY Owing
  <2>4. Cardinality(Subtracting \ {t}) = c - 1
    BY <2>1, Owing, FS_RemoveElement
  <2>5. /\ slots + c \in Int /\ 0 - 2^Width < slots + c /\ slots + c < 2^Width
        /\ (slots + c) - 1 = slots + (c - 1)
    BY <2>2, <2>3
  <2>6. (Wrapped(slots + c) - 1) % 2^Width = Wrapped((slots + c) - 1)
    BY <2>5, Wrapping
  <2>7. probes' = Wrapped(slots + (c - 1))
    BY <2>2, <2>5, <2>6
  <2>. QED
    BY <2>1, <2>2, <2>4, <2>7 DEF Counted
<1>4. Cooling'
  BY Caps DEF Inv, Types, ThreadTypes, SharedTypes, Cooling, Stamping, FetchSub, Goto, Return,
              RecordDone, shared, history
<1>5. Clean'
  BY DEF Inv, Types, ThreadTypes, SharedTypes, Clean, FetchSub, Goto, Return, RecordDone, shared,
         history
<1>. QED
  BY <1>1, <1>2, <1>3, <1>4, <1>5 DEF Inv

LEMMA PushSampleKeeps ==
  ASSUME Inv, NEW t \in Threads, PushSample(t)
  PROVE  Inv'
<1>0. \A u \in Threads : u # t => pc'[u] = pc[u]
  BY DEF Inv, Types, ThreadTypes, PushSample, Goto, Return, RecordDone, shared, history
<1>1. Types'
  <2>1. ThreadTypes'
    <3>1. pc' \in [Threads -> Steps]
      BY DEF Inv, Types, ThreadTypes, SharedTypes, Steps, CheckSteps, RecordSteps, PushSample, Goto,
             Return, RecordDone, shared, history
    <3>2. at' \in [Threads -> 0..MaxStall]
      BY Caps DEF Inv, Types, ThreadTypes, PushSample, Goto, Return, RecordDone, shared, history
    <3>3. seen' \in [Threads -> 0..AgeCap] /\ failed' \subseteq Threads
      BY Caps DEF Inv, Types, ThreadTypes, SharedTypes, PushSample, Goto, Return, RecordDone,
                  shared, history
    <3>. QED
      BY <3>1, <3>2, <3>3 DEF ThreadTypes
  <2>2. SharedTypes'
    BY Caps, BreakerAssumption
       DEF Inv, Types, ThreadTypes, SharedTypes, PushSample, Goto, Return, RecordDone, shared,
           history
  <2>3. window' \in Windows
    BY RecordedType DEF Inv, PushSample
  <2>. QED
    BY <2>1, <2>2, <2>3 DEF Types
<1>2. Leased'
  BY DEF Inv, Types, ThreadTypes, SharedTypes, Leased, PushSample, Goto, Return, RecordDone, shared,
         history
<1>3. Counted'
  <2>1. Subtracting' = Subtracting
    BY DEF Inv, Types, ThreadTypes, SharedTypes, Subtracting, PushSample, Goto, Return, RecordDone,
           shared, history
  <2>. QED
    BY <2>1 DEF Inv, Counted, PushSample, Goto, Return, RecordDone, shared, history
<1>4. Cooling'
  BY Caps DEF Inv, Types, ThreadTypes, SharedTypes, Cooling, Stamping, PushSample, Goto, Return,
              RecordDone, shared, history
<1>5. Clean'
  <2>1. SUFFICES ASSUME \A u \in Threads : pc'[u] # "closeWindow"
                 PROVE  NoStale(window')
    BY DEF Clean, NoStale
  <2>2. NoStale(window)
    BY <1>0, <2>1 DEF Inv, Clean, PushSample, Goto, Return, RecordDone
  <2>. QED
    BY <2>2, RecordedType DEF Inv, PushSample
<1>. QED
  BY <1>1, <1>2, <1>3, <1>4, <1>5 DEF Inv

LEMMA ShedKeeps ==
  ASSUME Inv, NEW t \in Threads, Shed(t)
  PROVE  Inv'
<1>0. \A u \in Threads : u # t => pc'[u] = pc[u]
  BY DEF Inv, Types, ThreadTypes, Shed, Goto, Return, RecordDone, shared, history
<1>1. Types'
  <2>1. ThreadTypes'
    <3>1. pc' \in [Threads -> Steps]
      BY DEF Inv, Types, ThreadTypes, SharedTypes, Steps, CheckSteps, RecordSteps, Shed, Goto,
             Return, RecordDone, shared, history
    <3>2. at' \in [Threads -> 0..MaxStall]
      BY Caps DEF Inv, Types, ThreadTypes, Shed, Goto, Return, RecordDone, shared, history
    <3>3. seen' \in [Threads -> 0..AgeCap] /\ failed' \subseteq Threads
      BY Caps DEF Inv, Types, ThreadTypes, SharedTypes, Shed, Goto, Return, RecordDone, shared,
                  history
    <3>. QED
      BY <3>1, <3>2, <3>3 DEF ThreadTypes
  <2>2. SharedTypes'
    BY Caps, BreakerAssumption
       DEF Inv, Types, ThreadTypes, SharedTypes, Shed, Goto, Return, RecordDone, shared, history
  <2>3. window' \in Windows
    BY RecordedType DEF Inv, Shed
  <2>. QED
    BY <2>1, <2>2, <2>3 DEF Types
<1>2. Leased'
  BY DEF Inv, Types, ThreadTypes, SharedTypes, Leased, Shed, Goto, Return, RecordDone, shared,
         history
<1>3. Counted'
  <2>1. Subtracting' = Subtracting
    BY DEF Inv, Types, ThreadTypes, SharedTypes, Subtracting, Shed, Goto, Return, RecordDone,
           shared, history
  <2>. QED
    BY <2>1 DEF Inv, Counted, Shed, Goto, Return, RecordDone, shared, history
<1>4. Cooling'
  BY Caps DEF Inv, Types, ThreadTypes, SharedTypes, Cooling, Stamping, Shed, Goto, Return,
              RecordDone, shared, history
<1>5. Clean'
  <2>1. SUFFICES ASSUME \A u \in Threads : pc'[u] # "closeWindow"
                 PROVE  NoStale(window')
    BY DEF Clean, NoStale
  <2>2. NoStale(window)
    BY <1>0, <2>1 DEF Inv, Clean, Shed, Goto, Return, RecordDone
  <2>. QED
    BY <2>2, RecordedType DEF Inv, Shed
<1>. QED
  BY <1>1, <1>2, <1>3, <1>4, <1>5 DEF Inv

LEMMA LoadStateKeeps ==
  ASSUME Inv, NEW t \in Threads, LoadState(t)
  PROVE  Inv'
<1>0. \A u \in Threads : u # t => pc'[u] = pc[u]
  BY DEF Inv, Types, ThreadTypes, LoadState, Goto, Return, RecordDone, shared, history
<1>1. Types'
  <2>1. ThreadTypes'
    <3>1. pc' \in [Threads -> Steps]
      BY DEF Inv, Types, ThreadTypes, SharedTypes, Steps, CheckSteps, RecordSteps, LoadState, Goto,
             Return, RecordDone, shared, history
    <3>2. at' \in [Threads -> 0..MaxStall]
      BY Caps DEF Inv, Types, ThreadTypes, LoadState, Goto, Return, RecordDone, shared, history
    <3>3. seen' \in [Threads -> 0..AgeCap] /\ failed' \subseteq Threads
      BY Caps DEF Inv, Types, ThreadTypes, SharedTypes, LoadState, Goto, Return, RecordDone, shared,
                  history
    <3>. QED
      BY <3>1, <3>2, <3>3 DEF ThreadTypes
  <2>2. SharedTypes'
    BY Caps, BreakerAssumption
       DEF Inv, Types, ThreadTypes, SharedTypes, LoadState, Goto, Return, RecordDone, shared,
           history
  <2>. QED
    BY <2>1, <2>2 DEF Inv, Types, LoadState, Goto, Return, RecordDone, shared, history
<1>2. Leased'
  BY DEF Inv, Types, ThreadTypes, SharedTypes, Leased, LoadState, Goto, Return, RecordDone, shared,
         history
<1>3. Counted'
  <2>1. Subtracting' = Subtracting
    BY DEF Inv, Types, ThreadTypes, SharedTypes, Subtracting, LoadState, Goto, Return, RecordDone,
           shared, history
  <2>. QED
    BY <2>1 DEF Inv, Counted, LoadState, Goto, Return, RecordDone, shared, history
<1>4. Cooling'
  BY Caps DEF Inv, Types, ThreadTypes, SharedTypes, Cooling, Stamping, LoadState, Goto, Return,
              RecordDone, shared, history
<1>5. Clean'
  BY DEF Inv, Types, ThreadTypes, SharedTypes, Clean, LoadState, Goto, Return, RecordDone, shared,
         history
<1>. QED
  BY <1>1, <1>2, <1>3, <1>4, <1>5 DEF Inv

LEMMA TripStateKeeps ==
  ASSUME Inv, NEW t \in Threads, TripState(t)
  PROVE  Inv'
<1>0. \A u \in Threads : u # t => pc'[u] = pc[u]
  BY DEF Inv, Types, ThreadTypes, TripState, Goto, Return, RecordDone, shared, history
<1>1. Types'
  <2>1. ThreadTypes'
    <3>1. pc' \in [Threads -> Steps]
      BY DEF Inv, Types, ThreadTypes, SharedTypes, Steps, CheckSteps, RecordSteps, TripState, Goto,
             Return, RecordDone, shared, history
    <3>2. at' \in [Threads -> 0..MaxStall]
      BY Caps DEF Inv, Types, ThreadTypes, TripState, Goto, Return, RecordDone, shared, history
    <3>3. seen' \in [Threads -> 0..AgeCap] /\ failed' \subseteq Threads
      BY Caps DEF Inv, Types, ThreadTypes, SharedTypes, TripState, Goto, Return, RecordDone, shared,
                  history
    <3>. QED
      BY <3>1, <3>2, <3>3 DEF ThreadTypes
  <2>2. SharedTypes'
    BY Caps, BreakerAssumption
       DEF Inv, Types, ThreadTypes, SharedTypes, TripState, Goto, Return, RecordDone, shared,
           history
  <2>. QED
    BY <2>1, <2>2 DEF Inv, Types, TripState, Goto, Return, RecordDone, shared, history
<1>2. Leased'
  BY DEF Inv, Types, ThreadTypes, SharedTypes, Leased, TripState, Goto, Return, RecordDone, shared,
         history
<1>3. Counted'
  <2>1. Subtracting' = Subtracting
    BY DEF Inv, Types, ThreadTypes, SharedTypes, Subtracting, TripState, Goto, Return, RecordDone,
           shared, history
  <2>. QED
    BY <2>1 DEF Inv, Counted, TripState, Goto, Return, RecordDone, shared, history
<1>4. Cooling'
  <2>1. t \in Stamping' /\ pc'[t] = "tripNow"
    BY DEF Inv, Types, ThreadTypes, Stamping, TripState, Goto
  <2>2. CASE state = "Open"
    BY <1>0, <2>1, <2>2 DEF Inv, Cooling, TripState
  <2>3. CASE state # "Open"
    <3>1. SUFFICES ASSUME ~raced' PROVE Cooling'
      BY DEF Cooling
    <3>2. Outrunning = {}
      BY <2>3, <3>1 DEF TripState
    <3>3. \A u \in Threads : pc'[u] \notin {"opened", "elapsed", "cas", "tripOpened"}
      BY <1>0, <2>1, <3>2 DEF Outrunning
    <3>. QED
      BY <2>1, <3>3 DEF Cooling
  <2>. QED
    BY <2>2, <2>3
<1>5. Clean'
  BY DEF Inv, Types, ThreadTypes, SharedTypes, Clean, TripState, Goto, Return, RecordDone, shared,
         history
<1>. QED
  BY <1>1, <1>2, <1>3, <1>4, <1>5 DEF Inv

LEMMA TripNowKeeps ==
  ASSUME Inv, NEW t \in Threads, TripNow(t)
  PROVE  Inv'
<1>0. \A u \in Threads : u # t => pc'[u] = pc[u]
  BY DEF Inv, Types, ThreadTypes, TripNow, Goto, Return, RecordDone, shared, history
<1>1. Types'
  <2>1. ThreadTypes'
    <3>1. pc' \in [Threads -> Steps]
      BY DEF Inv, Types, ThreadTypes, SharedTypes, Steps, CheckSteps, RecordSteps, TripNow, Goto,
             Return, RecordDone, shared, history
    <3>2. at' \in [Threads -> 0..MaxStall]
      BY Caps DEF Inv, Types, ThreadTypes, TripNow, Goto, Return, RecordDone, shared, history
    <3>3. seen' \in [Threads -> 0..AgeCap] /\ failed' \subseteq Threads
      BY Caps DEF Inv, Types, ThreadTypes, SharedTypes, TripNow, Goto, Return, RecordDone, shared,
                  history
    <3>. QED
      BY <3>1, <3>2, <3>3 DEF ThreadTypes
  <2>2. SharedTypes'
    BY Caps, BreakerAssumption
       DEF Inv, Types, ThreadTypes, SharedTypes, TripNow, Goto, Return, RecordDone, shared, history
  <2>. QED
    BY <2>1, <2>2 DEF Inv, Types, TripNow, Goto, Return, RecordDone, shared, history
<1>2. Leased'
  BY DEF Inv, Types, ThreadTypes, SharedTypes, Leased, TripNow, Goto, Return, RecordDone, shared,
         history
<1>3. Counted'
  <2>1. Subtracting' = Subtracting
    BY DEF Inv, Types, ThreadTypes, SharedTypes, Subtracting, TripNow, Goto, Return, RecordDone,
           shared, history
  <2>. QED
    BY <2>1 DEF Inv, Counted, TripNow, Goto, Return, RecordDone, shared, history
<1>4. Cooling'
  <2>1. /\ openFor \in 0..OpenDuration /\ OpenDuration \in Nat
        /\ \A u \in Threads : seen[u] \in 0..AgeCap /\ at[u] \in 0..MaxStall
    BY BreakerAssumption DEF Inv, Types, ThreadTypes, SharedTypes
  <2>2. /\ openFor' = openFor /\ state' = state /\ openedAt' = openedAt /\ raced' = raced
        /\ \A u \in Threads : u # t => seen'[u] = seen[u] /\ at'[u] = at[u]
    BY DEF Inv, Types, ThreadTypes, TripNow, Goto, shared, history
  <2>3. SUFFICES ASSUME state = "Open", ~raced, Cooling PROVE Cooling'
    BY <2>2 DEF Cooling, Inv
  <2>4. \A u \in Threads : pc'[u] = "tripOpened" => openFor' >= Capped(at'[u], OpenDuration)
    BY <1>0, <2>1, <2>2, <2>3 DEF Inv, Types, ThreadTypes, Cooling, Capped, TripNow, Goto
  <2>5. \/ openFor' >= openedAt'
        \/ Stamping' # {} /\ \A u \in Threads : pc'[u] # "opened"
    BY <1>0, <2>2, <2>3 DEF Inv, Types, ThreadTypes, Cooling, Stamping, TripNow, Goto
  <2>6. \A u \in Threads : pc'[u] = "elapsed" => openFor' >= seen'[u]
    BY <1>0, <2>2, <2>3 DEF Inv, Types, ThreadTypes, Cooling, TripNow, Goto
  <2>7. \A u \in Threads : pc'[u] = "cas" => openFor' >= OpenDuration
    BY <1>0, <2>1, <2>2, <2>3 DEF Inv, Types, ThreadTypes, Cooling, TripNow, Goto
  <2>. QED
    BY <2>4, <2>5, <2>6, <2>7 DEF Cooling
<1>5. Clean'
  BY DEF Inv, Types, ThreadTypes, SharedTypes, Clean, TripNow, Goto, Return, RecordDone, shared,
         history
<1>. QED
  BY <1>1, <1>2, <1>3, <1>4, <1>5 DEF Inv

LEMMA TripOpenedKeeps ==
  ASSUME Inv, NEW t \in Threads, TripOpened(t)
  PROVE  Inv'
<1>0. \A u \in Threads : u # t => pc'[u] = pc[u]
  BY DEF Inv, Types, ThreadTypes, TripOpened, Goto, Return, RecordDone, shared, history
<1>1. Types'
  <2>1. ThreadTypes'
    <3>1. pc' \in [Threads -> Steps]
      BY DEF Inv, Types, ThreadTypes, SharedTypes, Steps, CheckSteps, RecordSteps, TripOpened, Goto,
             Return, RecordDone, shared, history
    <3>2. at' \in [Threads -> 0..MaxStall]
      BY Caps DEF Inv, Types, ThreadTypes, TripOpened, Goto, Return, RecordDone, shared, history
    <3>3. seen' \in [Threads -> 0..AgeCap] /\ failed' \subseteq Threads
      BY Caps DEF Inv, Types, ThreadTypes, SharedTypes, TripOpened, Goto, Return, RecordDone,
                  shared, history
    <3>. QED
      BY <3>1, <3>2, <3>3 DEF ThreadTypes
  <2>2. SharedTypes'
    BY Caps, BreakerAssumption
       DEF Inv, Types, ThreadTypes, SharedTypes, TripOpened, Goto, Return, RecordDone, shared,
           history
  <2>. QED
    BY <2>1, <2>2 DEF Inv, Types, TripOpened, Goto, Return, RecordDone, shared, history
<1>2. Leased'
  BY DEF Inv, Types, ThreadTypes, SharedTypes, Leased, TripOpened, Goto, Return, RecordDone, shared,
         history
<1>3. Counted'
  <2>1. Subtracting' = Subtracting
    BY DEF Inv, Types, ThreadTypes, SharedTypes, Subtracting, TripOpened, Goto, Return, RecordDone,
           shared, history
  <2>. QED
    BY <2>1 DEF Inv, Counted, TripOpened, Goto, Return, RecordDone, shared, history
<1>4. Cooling'
  BY Caps DEF Inv, Types, ThreadTypes, SharedTypes, Cooling, Stamping, TripOpened, Goto, Return,
              RecordDone, shared, history
<1>5. Clean'
  BY DEF Inv, Types, ThreadTypes, SharedTypes, Clean, TripOpened, Goto, Return, RecordDone, shared,
         history
<1>. QED
  BY <1>1, <1>2, <1>3, <1>4, <1>5 DEF Inv

LEMMA TripProbesKeeps ==
  ASSUME Inv, NEW t \in Threads, TripProbes(t)
  PROVE  Inv'
<1>0. \A u \in Threads : u # t => pc'[u] = pc[u]
  BY DEF Inv, Types, ThreadTypes, TripProbes, Goto, Return, RecordDone, shared, history
<1>1. Types'
  <2>1. ThreadTypes'
    <3>1. pc' \in [Threads -> Steps]
      BY DEF Inv, Types, ThreadTypes, SharedTypes, Steps, CheckSteps, RecordSteps, TripProbes, Goto,
             Return, RecordDone, shared, history
    <3>2. at' \in [Threads -> 0..MaxStall]
      BY Caps DEF Inv, Types, ThreadTypes, TripProbes, Goto, Return, RecordDone, shared, history
    <3>3. seen' \in [Threads -> 0..AgeCap] /\ failed' \subseteq Threads
      BY Caps DEF Inv, Types, ThreadTypes, SharedTypes, TripProbes, Goto, Return, RecordDone,
                  shared, history
    <3>. QED
      BY <3>1, <3>2, <3>3 DEF ThreadTypes
  <2>2. SharedTypes'
    <3>1. probes' \in 0..(2^Width - 1) /\ slots' \in SlotRange
      BY Owing DEF SlotRange, TripProbes, ZeroProbes
    <3>. QED
      BY <3>1 DEF Inv, Types, SharedTypes, TripProbes
  <2>. QED
    BY <2>1, <2>2 DEF Inv, Types, TripProbes, Goto, Return, RecordDone, shared, history
<1>2. Leased'
  BY DEF Inv, Types, ThreadTypes, SharedTypes, Leased, TripProbes, Goto, Return, RecordDone, shared,
         history
<1>3. Counted'
  <2>1. Subtracting' = Subtracting /\ probes' = 0 /\ slots' = 0 - Cardinality(Subtracting)
    BY DEF Inv, Types, ThreadTypes, Subtracting, TripProbes, Goto, ZeroProbes
  <2>. QED
    BY <2>1, Owing DEF Counted, Wrapped
<1>4. Cooling'
  BY Caps DEF Inv, Types, ThreadTypes, SharedTypes, Cooling, Stamping, TripProbes, Goto, Return,
              RecordDone, shared, history
<1>5. Clean'
  BY DEF Inv, Types, ThreadTypes, SharedTypes, Clean, TripProbes, Goto, Return, RecordDone, shared,
         history
<1>. QED
  BY <1>1, <1>2, <1>3, <1>4, <1>5 DEF Inv

LEMMA TripMirrorKeeps ==
  ASSUME Inv, NEW t \in Threads, TripMirror(t)
  PROVE  Inv'
<1>0. \A u \in Threads : u # t => pc'[u] = pc[u]
  BY DEF Inv, Types, ThreadTypes, TripMirror, Goto, Return, RecordDone, shared, history
<1>1. Types'
  <2>1. ThreadTypes'
    <3>1. pc' \in [Threads -> Steps]
      BY DEF Inv, Types, ThreadTypes, SharedTypes, Steps, CheckSteps, RecordSteps, TripMirror, Goto,
             Return, RecordDone, shared, history
    <3>2. at' \in [Threads -> 0..MaxStall]
      BY Caps DEF Inv, Types, ThreadTypes, TripMirror, Goto, Return, RecordDone, shared, history
    <3>3. seen' \in [Threads -> 0..AgeCap] /\ failed' \subseteq Threads
      BY Caps DEF Inv, Types, ThreadTypes, SharedTypes, TripMirror, Goto, Return, RecordDone,
                  shared, history
    <3>. QED
      BY <3>1, <3>2, <3>3 DEF ThreadTypes
  <2>2. SharedTypes'
    BY Caps, BreakerAssumption
       DEF Inv, Types, ThreadTypes, SharedTypes, TripMirror, Goto, Return, RecordDone, shared,
           history
  <2>. QED
    BY <2>1, <2>2 DEF Inv, Types, TripMirror, Goto, Return, RecordDone, shared, history
<1>2. Leased'
  BY DEF Inv, Types, ThreadTypes, SharedTypes, Leased, TripMirror, Goto, Return, RecordDone, shared,
         history
<1>3. Counted'
  <2>1. Subtracting' = Subtracting
    BY DEF Inv, Types, ThreadTypes, SharedTypes, Subtracting, TripMirror, Goto, Return, RecordDone,
           shared, history
  <2>. QED
    BY <2>1 DEF Inv, Counted, TripMirror, Goto, Return, RecordDone, shared, history
<1>4. Cooling'
  BY Caps DEF Inv, Types, ThreadTypes, SharedTypes, Cooling, Stamping, TripMirror, Goto, Return,
              RecordDone, shared, history
<1>5. Clean'
  BY DEF Inv, Types, ThreadTypes, SharedTypes, Clean, TripMirror, Goto, Return, RecordDone, shared,
         history
<1>. QED
  BY <1>1, <1>2, <1>3, <1>4, <1>5 DEF Inv

LEMMA CloseProbesKeeps ==
  ASSUME Inv, NEW t \in Threads, CloseProbes(t)
  PROVE  Inv'
<1>0. \A u \in Threads : u # t => pc'[u] = pc[u]
  BY DEF Inv, Types, ThreadTypes, CloseProbes, Goto, Return, RecordDone, shared, history
<1>1. Types'
  <2>1. ThreadTypes'
    <3>1. pc' \in [Threads -> Steps]
      BY DEF Inv, Types, ThreadTypes, SharedTypes, Steps, CheckSteps, RecordSteps, CloseProbes,
             Goto, Return, RecordDone, shared, history
    <3>2. at' \in [Threads -> 0..MaxStall]
      BY Caps DEF Inv, Types, ThreadTypes, CloseProbes, Goto, Return, RecordDone, shared, history
    <3>3. seen' \in [Threads -> 0..AgeCap] /\ failed' \subseteq Threads
      BY Caps DEF Inv, Types, ThreadTypes, SharedTypes, CloseProbes, Goto, Return, RecordDone,
                  shared, history
    <3>. QED
      BY <3>1, <3>2, <3>3 DEF ThreadTypes
  <2>2. SharedTypes'
    <3>1. probes' \in 0..(2^Width - 1) /\ slots' \in SlotRange
      BY Owing DEF SlotRange, CloseProbes, ZeroProbes
    <3>. QED
      BY <3>1 DEF Inv, Types, SharedTypes, CloseProbes
  <2>. QED
    BY <2>1, <2>2 DEF Inv, Types, CloseProbes, Goto, Return, RecordDone, shared, history
<1>2. Leased'
  BY DEF Inv, Types, ThreadTypes, SharedTypes, Leased, CloseProbes, Goto, Return, RecordDone,
         shared, history
<1>3. Counted'
  <2>1. Subtracting' = Subtracting /\ probes' = 0 /\ slots' = 0 - Cardinality(Subtracting)
    BY DEF Inv, Types, ThreadTypes, Subtracting, CloseProbes, Goto, ZeroProbes
  <2>. QED
    BY <2>1, Owing DEF Counted, Wrapped
<1>4. Cooling'
  BY Caps DEF Inv, Types, ThreadTypes, SharedTypes, Cooling, Stamping, CloseProbes, Goto, Return,
              RecordDone, shared, history
<1>5. Clean'
  BY DEF Inv, Types, ThreadTypes, SharedTypes, Clean, CloseProbes, Goto, Return, RecordDone, shared,
         history
<1>. QED
  BY <1>1, <1>2, <1>3, <1>4, <1>5 DEF Inv

LEMMA CloseMirrorKeeps ==
  ASSUME Inv, NEW t \in Threads, CloseMirror(t)
  PROVE  Inv'
<1>0. \A u \in Threads : u # t => pc'[u] = pc[u]
  BY DEF Inv, Types, ThreadTypes, CloseMirror, Goto, Return, RecordDone, shared, history
<1>1. Types'
  <2>1. ThreadTypes'
    <3>1. pc' \in [Threads -> Steps]
      BY DEF Inv, Types, ThreadTypes, SharedTypes, Steps, CheckSteps, RecordSteps, CloseMirror,
             Goto, Return, RecordDone, shared, history
    <3>2. at' \in [Threads -> 0..MaxStall]
      BY Caps DEF Inv, Types, ThreadTypes, CloseMirror, Goto, Return, RecordDone, shared, history
    <3>3. seen' \in [Threads -> 0..AgeCap] /\ failed' \subseteq Threads
      BY Caps DEF Inv, Types, ThreadTypes, SharedTypes, CloseMirror, Goto, Return, RecordDone,
                  shared, history
    <3>. QED
      BY <3>1, <3>2, <3>3 DEF ThreadTypes
  <2>2. SharedTypes'
    BY Caps, BreakerAssumption
       DEF Inv, Types, ThreadTypes, SharedTypes, CloseMirror, Goto, Return, RecordDone, shared,
           history
  <2>. QED
    BY <2>1, <2>2 DEF Inv, Types, CloseMirror, Goto, Return, RecordDone, shared, history
<1>2. Leased'
  BY DEF Inv, Types, ThreadTypes, SharedTypes, Leased, CloseMirror, Goto, Return, RecordDone,
         shared, history
<1>3. Counted'
  <2>1. Subtracting' = Subtracting
    BY DEF Inv, Types, ThreadTypes, SharedTypes, Subtracting, CloseMirror, Goto, Return, RecordDone,
           shared, history
  <2>. QED
    BY <2>1 DEF Inv, Counted, CloseMirror, Goto, Return, RecordDone, shared, history
<1>4. Cooling'
  BY Caps DEF Inv, Types, ThreadTypes, SharedTypes, Cooling, Stamping, CloseMirror, Goto, Return,
              RecordDone, shared, history
<1>5. Clean'
  BY DEF Inv, Types, ThreadTypes, SharedTypes, Clean, CloseMirror, Goto, Return, RecordDone, shared,
         history
<1>. QED
  BY <1>1, <1>2, <1>3, <1>4, <1>5 DEF Inv

LEMMA DropRequestKeeps ==
  ASSUME Inv, NEW t \in Threads, DropRequest(t)
  PROVE  Inv'
<1>0. \A u \in Threads : u # t => pc'[u] = pc[u]
  BY DEF Inv, Types, ThreadTypes, DropRequest, Goto, Return, RecordDone, shared, history
<1>1. Types'
  <2>1. ThreadTypes'
    <3>1. pc' \in [Threads -> Steps]
      BY DEF Inv, Types, ThreadTypes, SharedTypes, Steps, CheckSteps, RecordSteps, DropRequest,
             Goto, Return, RecordDone, shared, history
    <3>2. at' \in [Threads -> 0..MaxStall]
      BY Caps DEF Inv, Types, ThreadTypes, DropRequest, Goto, Return, RecordDone, shared, history
    <3>3. seen' \in [Threads -> 0..AgeCap] /\ failed' \subseteq Threads
      BY Caps DEF Inv, Types, ThreadTypes, SharedTypes, DropRequest, Goto, Return, RecordDone,
                  shared, history
    <3>. QED
      BY <3>1, <3>2, <3>3 DEF ThreadTypes
  <2>2. SharedTypes'
    BY Caps, BreakerAssumption
       DEF Inv, Types, ThreadTypes, SharedTypes, DropRequest, Goto, Return, RecordDone, shared,
           history
  <2>. QED
    BY <2>1, <2>2 DEF Inv, Types, DropRequest, Goto, Return, RecordDone, shared, history
<1>2. Leased'
  BY DEF Inv, Types, ThreadTypes, SharedTypes, Leased, DropRequest, Goto, Return, RecordDone,
         shared, history
<1>3. Counted'
  <2>1. Subtracting' = Subtracting
    BY DEF Inv, Types, ThreadTypes, SharedTypes, Subtracting, DropRequest, Goto, Return, RecordDone,
           shared, history
  <2>. QED
    BY <2>1 DEF Inv, Counted, DropRequest, Goto, Return, RecordDone, shared, history
<1>4. Cooling'
  BY Caps DEF Inv, Types, ThreadTypes, SharedTypes, Cooling, Stamping, DropRequest, Goto, Return,
              RecordDone, shared, history
<1>5. Clean'
  BY DEF Inv, Types, ThreadTypes, SharedTypes, Clean, DropRequest, Goto, Return, RecordDone, shared,
         history
<1>. QED
  BY <1>1, <1>2, <1>3, <1>4, <1>5 DEF Inv

LEMMA RecordKeeps ==
  ASSUME Inv, NEW t \in Threads, NEW isFailure \in BOOLEAN, Record(t, isFailure)
  PROVE  Inv'
<1>0. /\ \A u \in Threads : u # t => pc'[u] = pc[u]
      /\ pc[t] = "flight" /\ pc'[t] = "load"
      /\ seen' = seen /\ UNCHANGED shared /\ UNCHANGED history
  BY DEF Inv, Types, ThreadTypes, Record, Goto
<1>1. Types'
  <2>1. ThreadTypes'
    BY Caps DEF Inv, Types, ThreadTypes, Steps, RecordSteps, Record, Goto
  <2>. QED
    BY <1>0, <2>1 DEF Inv, Types, SharedTypes, shared, history
<1>2. Leased'
  BY <1>0 DEF Inv, Types, ThreadTypes, Leased, Record, Goto
<1>3. Counted'
  <2>1. Subtracting' = Subtracting
    BY <1>0 DEF Subtracting
  <2>. QED
    BY <1>0, <2>1 DEF Inv, Counted, shared, history
<1>4. Cooling'
  BY <1>0 DEF Inv, Types, ThreadTypes, Cooling, Stamping, Record, Goto, shared, history
<1>5. Clean'
  BY <1>0 DEF Inv, Clean, shared
<1>. QED
  BY <1>1, <1>2, <1>3, <1>4, <1>5 DEF Inv

LEMMA ErrorRateKeeps ==
  ASSUME Inv, ErrorRate
  PROVE  Inv'
<1>1. window' \in Windows /\ (NoStale(window) => NoStale(window'))
  BY EvictType DEF Inv, Types, ErrorRate
<1>2. Types' /\ Leased'
  BY <1>1 DEF Inv, Types, ThreadTypes, SharedTypes, Leased, ErrorRate, history
<1>3. Counted'
  BY DEF Inv, Counted, Subtracting, ErrorRate, history
<1>4. Cooling'
  BY DEF Inv, Cooling, Stamping, ErrorRate, history
<1>5. Clean'
  <2>1. SUFFICES ASSUME \A u \in Threads : pc'[u] # "closeWindow"
                 PROVE  NoStale(window')
    BY DEF Clean, NoStale
  <2>2. NoStale(window)
    BY <2>1 DEF Inv, Clean, ErrorRate
  <2>. QED
    BY <1>1, <2>2
<1>. QED
  BY <1>2, <1>3, <1>4, <1>5 DEF Inv

\* Time ages every stamp together, and the caps are far enough apart that no
\* comparison a thread is about to make changes.
LEMMA TickKeeps ==
  ASSUME Inv, Tick
  PROVE  Inv'
<1> DEFINE e == [k \in DOMAIN window.entries |-> Aged(window.entries[k])]
<1>1. \A k \in DOMAIN window.entries : window.entries[k] \in Samples
  BY DEF Inv, Types, Windows
<1>2. e \in [DOMAIN window.entries -> Samples] /\ (NoStale(window) => \A k \in DOMAIN e : ~e[k].stale)
  BY <1>1, SampleSteps DEF NoStale
<1>3. window' = [window EXCEPT !.entries = e]
  BY DEF Tick
<1> HIDE DEF e
<1>4. window' \in Windows /\ (NoStale(window) => NoStale(window'))
  BY <1>2, <1>3, RewriteType DEF Inv, Types, NoStale
<1>5. Types'
  <2>1. at' \in [Threads -> 0..MaxStall]
    BY BreakerAssumption DEF Inv, Types, ThreadTypes, Tick
  <2>2. seen' \in [Threads -> 0..AgeCap]
    <3>1. \A u \in Threads : /\ Older(seen[u], OpenDuration) \in 0..AgeCap
                             /\ Older(seen[u], AgeCap) \in 0..AgeCap
                             /\ seen[u] \in 0..AgeCap
      <4>1. SUFFICES ASSUME NEW u \in Threads
                     PROVE  /\ Older(seen[u], OpenDuration) \in 0..AgeCap
                            /\ Older(seen[u], AgeCap) \in 0..AgeCap
                            /\ seen[u] \in 0..AgeCap
        OBVIOUS
      <4>2. seen[u] \in 0..AgeCap /\ OpenDuration \in Nat
        BY BreakerAssumption DEF Inv, Types, ThreadTypes
      <4>3. Older(seen[u], OpenDuration) \in 0..OpenDuration /\ Older(seen[u], AgeCap) \in 0..AgeCap
        <5>1. AgeCap \in Nat
          BY Caps
        <5>. QED
          BY <4>2, <5>1 DEF Older, Capped
      <4>. QED
        BY <4>2, <4>3, Caps
    <3>. QED
      BY <3>1 DEF Tick
  <2>3. openedAt' \in 0..OpenDuration /\ claimedAt' \in 0..AgeCap /\ openFor' \in 0..OpenDuration
    BY Caps, BreakerAssumption DEF Inv, Types, SharedTypes, Tick
  <2>. QED
    BY <1>4, <2>1, <2>2, <2>3 DEF Inv, Types, ThreadTypes, SharedTypes, Tick
<1>6. Leased'
  <2>1. SUFFICES ASSUME NEW t \in Threads, pc[t] = "takeover"
                 PROVE  seen'[t] - at'[t] >= OpenDuration
    BY DEF Leased, Tick
  <2>2. seen[t] \in 0..AgeCap /\ at[t] \in 0..MaxStall /\ seen[t] - at[t] >= OpenDuration
    BY <2>1 DEF Inv, Types, ThreadTypes, Leased
  <2>3. at[t] < MaxStall /\ at'[t] = at[t] + 1 /\ seen'[t] = Older(seen[t], AgeCap)
    BY <2>1 DEF Tick, Holding
  <2>. QED
    BY <2>2, <2>3, BreakerAssumption DEF Older, Capped, AgeCap
<1>7. Counted'
  BY DEF Inv, Counted, Subtracting, Tick
<1>8. Cooling'
  <2>1. SUFFICES ASSUME state = "Open", ~raced PROVE Cooling'
    BY DEF Cooling, Tick
  <2>2. /\ openFor \in 0..OpenDuration /\ openedAt \in 0..OpenDuration /\ OpenDuration \in Nat
        /\ openFor' = Older(openFor, OpenDuration) /\ openedAt' = Older(openedAt, OpenDuration)
        /\ state' = state /\ pc' = pc /\ MaxStall \in Nat /\ AgeCap \in Nat
    BY <2>1, Caps, BreakerAssumption DEF Inv, Types, SharedTypes, Tick
  <2>3. \A t \in Threads : pc'[t] = "tripOpened" => openFor' >= Capped(at'[t], OpenDuration)
    <3>1. SUFFICES ASSUME NEW t \in Threads, pc[t] = "tripOpened"
                   PROVE  openFor' >= Capped(at'[t], OpenDuration)
      BY <2>2
    <3>2. at[t] \in 0..MaxStall /\ at'[t] = at[t] + 1 /\ openFor >= Capped(at[t], OpenDuration)
      BY <2>1, <3>1 DEF Inv, Types, ThreadTypes, Cooling, Tick, Holding
    <3>. QED
      BY <2>2, <3>2 DEF Older, Capped
  <2>4. \/ openFor' >= openedAt'
        \/ Stamping' # {} /\ \A t \in Threads : pc'[t] # "opened"
    <3>1. openFor >= openedAt => openFor' >= openedAt'
      BY <2>2 DEF Older, Capped
    <3>. QED
      BY <2>1, <2>2, <3>1 DEF Inv, Cooling, Stamping
  <2>5. \A t \in Threads : pc'[t] = "elapsed" => openFor' >= seen'[t]
    <3>1. SUFFICES ASSUME NEW t \in Threads, pc[t] = "elapsed"
                   PROVE  openFor' >= seen'[t]
      BY <2>2
    <3>2. seen[t] \in 0..AgeCap /\ seen'[t] = Older(seen[t], OpenDuration) /\ openFor >= seen[t]
      BY <2>1, <3>1 DEF Inv, Types, ThreadTypes, Cooling, Tick
    <3>. QED
      BY <2>2, <3>2 DEF Older, Capped
  <2>6. \A t \in Threads : pc'[t] = "cas" => openFor' >= OpenDuration
    <3>1. openFor >= OpenDuration => openFor' >= OpenDuration
      BY <2>2 DEF Older, Capped
    <3>. QED
      BY <2>1, <2>2, <3>1 DEF Inv, Cooling
  <2>. QED
    BY <2>3, <2>4, <2>5, <2>6 DEF Cooling
<1>9. Clean'
  <2>1. SUFFICES ASSUME \A u \in Threads : pc'[u] # "closeWindow"
                 PROVE  NoStale(window')
    BY DEF Clean, NoStale
  <2>2. NoStale(window)
    BY <2>1 DEF Inv, Clean, Tick
  <2>. QED
    BY <1>4, <2>2
<1>. QED
  BY <1>5, <1>6, <1>7, <1>8, <1>9 DEF Inv

LEMMA InitInv ==
  ASSUME Init
  PROVE  Inv
<1>1. Types
  <2>1. 0 \in 0..(2^Width - 1) /\ 0 \in SlotRange
    BY Owing DEF SlotRange
  <2>2. window \in Windows
    BY DEF Init, Windows
  <2>. QED
    BY <2>1, <2>2, Caps DEF Init, Types, ThreadTypes, SharedTypes, Steps
<1>2. Leased
  BY DEF Init, Leased
<1>3. Counted
  <2>1. Subtracting = {}
    BY DEF Init, Subtracting
  <2>. QED
    BY <2>1, FS_EmptySet, BreakerAssumption DEF Init, Counted, Wrapped
<1>4. Cooling /\ Clean
  BY DEF Init, Cooling, Clean, NoStale
<1>. QED
  BY <1>1, <1>2, <1>3, <1>4 DEF Inv

LEMMA StepKeeps ==
  ASSUME Inv, [Next]_vars
  PROVE  Inv'
<1>1. CASE UNCHANGED vars
  <2>1. Types' /\ Leased'
    BY <1>1 DEF Inv, vars, Types, ThreadTypes, SharedTypes, Leased
  <2>2. Counted'
    BY <1>1 DEF Inv, vars, Counted, Subtracting
  <2>3. Cooling' /\ Clean'
    BY <1>1 DEF Inv, vars, Cooling, Stamping, Clean, NoStale
  <2>. QED
    BY <2>1, <2>2, <2>3 DEF Inv
<1>2. ASSUME NEW t \in Threads, Check(t) \/ CheckStep(t)
      PROVE  Inv'
  BY <1>2, CheckKeeps, LoadOpenedKeeps, ElapsedKeeps, CasHalfOpenKeeps, UnmirrorKeeps, RereadKeeps,
     ProbeNowKeeps, FetchAddKeeps, ClaimKeeps, FetchSubKeeps, LeaseKeeps, TakeoverKeeps
     DEF CheckStep
<1>3. ASSUME NEW t \in Threads, RecordStep(t)
      PROVE  Inv'
  BY <1>3, LoadStateKeeps, PushSampleKeeps, ShedKeeps, TripStateKeeps, TripNowKeeps, TripOpenedKeeps,
     TripProbesKeeps, TripMirrorKeeps, CloseStateKeeps, CloseWindowKeeps, CloseProbesKeeps,
     CloseMirrorKeeps
     DEF RecordStep
<1>4. ASSUME NEW t \in Threads, DropRequest(t)
      PROVE  Inv'
  BY <1>4, DropRequestKeeps
<1>5. ASSUME NEW t \in Threads, NEW isFailure \in BOOLEAN, Record(t, isFailure)
      PROVE  Inv'
  BY <1>5, RecordKeeps
<1>. QED
  BY <1>1, <1>2, <1>3, <1>4, <1>5, ErrorRateKeeps, TickKeeps DEF Next

-----------------------------------------------------------------------------
\* The inductive invariant of the breaker.
THEOREM BreakerInvariant == Spec => []Inv
<1>1. Init => Inv
  BY InitInv
<1>2. Inv /\ [Next]_vars => Inv'
  BY StepKeeps
<1>. QED
  BY <1>1, <1>2, PTL DEF Spec

\* The atomics, the window and the threads' locals keep their types whatever
\* the interleaving: the slot counter of half_open_probes stays in its width.
THEOREM TypeCorrect == Spec => []TypeOK
<1>1. Inv => TypeOK
  BY DEF Inv, Types, ThreadTypes, SharedTypes, SlotRange, TypeOK, Windows
<1>. QED
  BY <1>1, BreakerInvariant, PTL

\* half_open_max_probes: between two stores of 0 to the slot counter at most that
\* many slots are handed out, and one for each fetch_sub outstanding at the first
\* of them, for any number of threads in check() and record().
THEOREM BudgetKept == Spec => []ProbeBudget
<1>1. Inv => ProbeBudget
  BY DEF Inv, Counted, ProbeBudget
<1>. QED
  BY <1>1, BreakerInvariant, PTL

\* A lease is taken over only while the claim it takes over is the expired
\* one, so exactly one caller takes an abandoned probe over.
THEOREM TakeoverIsOfExpired == Spec => OneTakeover
<1>1. ASSUME Inv, [Next]_vars, NEW t \in Threads, pc[t] = "takeover", pc'[t] = "flight"
      PROVE  claimedAt - at[t] >= OpenDuration
  <2>1. seen[t] - at[t] >= OpenDuration
    BY <1>1 DEF Inv, Leased
  <2>2. Takeover(t)
    <3>1. pc' # pc /\ pc \in [Threads -> Steps]
      BY <1>1 DEF Inv, Types, ThreadTypes
    <3>2. PICK u \in Threads : \/ Check(u) \/ CheckStep(u) \/ RecordStep(u) \/ DropRequest(u)
                               \/ \E isFailure \in BOOLEAN : Record(u, isFailure)
      BY <1>1, <3>1 DEF Next, vars, ErrorRate, Tick
    <3>3. u = t
      BY <1>1, <3>1, <3>2
         DEF Check, CheckStep, LoadOpened, Elapsed, CasHalfOpen, Unmirror, Reread, ProbeNow, FetchAdd,
             Claim, FetchSub, Lease, Takeover, RecordStep, LoadState, PushSample, Shed, TripState,
             TripNow, TripOpened, TripProbes, TripMirror, CloseState, CloseWindow, CloseProbes,
             CloseMirror, DropRequest, Record, Goto, Return, RecordDone
    <3>. QED
      BY <1>1, <3>2, <3>3
         DEF Check, CheckStep, LoadOpened, Elapsed, CasHalfOpen, Unmirror, Reread, ProbeNow, FetchAdd,
             Claim, FetchSub, Lease, RecordStep, LoadState, PushSample, Shed, TripState,
             TripNow, TripOpened, TripProbes, TripMirror, CloseState, CloseWindow, CloseProbes,
             CloseMirror, DropRequest, Record, Goto, Return, RecordDone
  <2>3. claimedAt = seen[t]
    BY <1>1, <2>2 DEF Inv, Types, ThreadTypes, Takeover, Return, Goto
  <2>. QED
    BY <2>1, <2>3
<1>2. Inv /\ [Next]_vars
        => [\A t \in Threads : pc[t] = "takeover" /\ pc'[t] = "flight"
                                => claimedAt - at[t] >= OpenDuration]_vars
  BY <1>1
<1>. QED
  BY <1>2, BreakerInvariant, PTL DEF Spec, OneTakeover

\* The breaker leaves Open for HalfOpen only after open_duration in Open, unless
\* a call ran across the stores of the trip() that opened it; no other race of
\* check() and record() shortens the cool-down.
THEOREM CoolDownRespected == Spec => CoolDown
<1>1. ASSUME Inv, [Next]_vars, state = "Open", state' = "HalfOpen", ~raced
      PROVE  openFor >= OpenDuration
  <2>1. PICK t \in Threads : CasHalfOpen(t)
    BY <1>1
       DEF Next, vars, shared, Check, CheckStep, LoadOpened, Elapsed, Unmirror, Reread, ProbeNow,
           FetchAdd, Claim, FetchSub, Lease, Takeover, RecordStep, LoadState, PushSample, Shed,
           TripState, TripNow, TripOpened, TripProbes, TripMirror, CloseState, CloseWindow,
           CloseProbes, CloseMirror, DropRequest, Record, ErrorRate, Tick
  <2>. QED
    BY <1>1, <2>1 DEF Inv, Cooling, CasHalfOpen, Goto
<1>2. Inv /\ [Next]_vars
        => [state = "Open" /\ state' = "HalfOpen" /\ ~raced => openFor >= OpenDuration]_vars
  BY <1>1
<1>. QED
  BY <1>2, BreakerInvariant, PTL DEF Spec, CoolDown

\* Whatever close() and record() calls overlap, the window from which record()
\* judges the failure rate holds no outcome from before the breaker closed,
\* except between the two stores of a close().
THEOREM EvidenceIsFresh == Spec => []FreshEvidence
<1>1. Inv => FreshEvidence
  BY DEF Inv, Clean, NoStale, FreshEvidence
<1>. QED
  BY <1>1, BreakerInvariant, PTL

=============================================================================
