--------------------------- MODULE CircuitBreaker ---------------------------
(***************************************************************************)
(* The circuit breaker shared by the storage clients: xai-circuit-breaker, *)
(* breaker.rs and window.rs.                                               *)
(*                                                                         *)
(* The breaker has no lock of its own: check() and record() are sequences  *)
(* of loads, stores and read-modify-writes of five atomics, and only the   *)
(* sliding window is behind a mutex.  One step of a thread is one of those *)
(* accesses, so other threads run between any two of them.  Accesses are   *)
(* sequentially consistent here.                                           *)
(*                                                                         *)
(* A time stamp is kept as its age in ticks, which is exact as long as a   *)
(* thread is never suspended inside a call for more than MaxStall ticks    *)
(* after a clock reading: an age is capped where no comparison can tell    *)
(* the difference.  Time can then go on for ever in a finite state space.  *)
(***************************************************************************)
EXTENDS Integers, Sequences, FiniteSets

CONSTANTS
  Threads,        \* concurrent users of one breaker
  MaxProbes,      \* half_open_max_probes, after the clamp to 1
  OpenDuration,   \* open_duration: cool-down, and lease of a probe
  WindowDuration, \* window_duration
  MinSamples,     \* min_samples
  RateNum,        \* error_rate_threshold = RateNum / RateDen
  RateDen,
  MaxEntries,     \* MAX_WINDOW_ENTRIES
  Width,          \* half_open_probes wraps modulo 2^Width (usize)
  MaxStall        \* bound: ticks a thread may be suspended after a clock read

ASSUME BreakerAssumption ==
  /\ MaxProbes \in Nat \ {0} /\ OpenDuration \in Nat \ {0}
  /\ WindowDuration \in Nat /\ MinSamples \in Nat \ {0}
  /\ RateNum \in Nat /\ RateDen \in Nat \ {0}
  /\ MaxEntries \in Nat \ {0} /\ MaxStall \in Nat
  /\ IsFiniteSet(Threads) /\ Width \in Nat
  /\ 2^Width \in Nat /\ MaxProbes + Cardinality(Threads) < 2^Width

\* Ages above these are not told apart.  opened_at_millis is only compared with
\* open_duration; a claim is also compared with the one a thread has loaded, and
\* one that replaced it is at most 2 * MaxStall old by then.
AgeCap == OpenDuration + 2 * MaxStall
SampleCap == WindowDuration + MaxStall + 1

VARIABLES
  state,      \* BreakerState
  openedAt,   \* age of opened_at_millis
  probes,     \* half_open_probes
  claimedAt,  \* age of probe_claimed_at_millis
  openFast,   \* is_open_fast
  window,     \* SlidingWindow: the entries, oldest first, and the failure count
  pc,         \* where each thread is
  at,         \* age of the clock reading a thread holds
  seen,       \* age of the time stamp a thread has loaded
  failed,     \* threads whose record() carries a failure
  slots,      \* history: slots handed out since half_open_probes was last zeroed,
              \* less the fetch_subs that were outstanding then
  openFor,    \* history: time since the store that made the state Open
  raced       \* history: a call ran across the stores of the trip() that opened it

shared == <<state, openedAt, probes, claimedAt, openFast, window>>
vars == <<state, openedAt, probes, claimedAt, openFast, window, pc, at, seen, failed,
          slots, openFor, raced>>
history == <<slots, openFor, raced>>

CheckSteps == {"opened", "elapsed", "cas", "unmirror", "reread",
               "probe", "add", "claim", "sub", "lease", "takeover"}
RecordSteps == {"load", "push", "shed",
                "tripState", "tripNow", "tripOpened", "tripProbes", "tripMirror",
                "closeState", "closeWindow", "closeProbes", "closeMirror"}
Steps == {"idle", "flight"} \cup CheckSteps \cup RecordSteps

Samples == [age : 0..SampleCap, failure : BOOLEAN, stale : BOOLEAN]

Init ==
  /\ state = "Closed" /\ openedAt = 0 /\ probes = 0 /\ claimedAt = 0
  /\ openFast = FALSE /\ window = [entries |-> <<>>, failures |-> 0]
  /\ pc = [t \in Threads |-> "idle"]
  /\ at = [t \in Threads |-> 0] /\ seen = [t \in Threads |-> 0]
  /\ failed = {} /\ slots = 0 /\ openFor = 0 /\ raced = FALSE

Capped(age, cap) == IF age < cap THEN age ELSE cap
Older(age, cap) == Capped(age + 1, cap)

Goto(t, from, to) == pc[t] = from /\ pc' = [pc EXCEPT ![t] = to]

\* The steps that still need the clock reading of `at'.
Holding(t) == pc[t] \in {"add", "claim", "sub", "lease", "takeover",
                         "load", "push", "shed", "tripOpened"}

\* The threads between the store of Open and the store of opened_at_millis in
\* trip(), and those that go, or may go, by a time stamp loaded before it.
Stamping == {t \in Threads : pc[t] \in {"tripNow", "tripOpened"}}
Outrunning == {t \in Threads : pc[t] \in {"opened", "elapsed", "cas", "tripOpened"}}

\* The threads that have raised the slot counter and not yet taken it back.
Subtracting == {t \in Threads : pc[t] = "sub"}

(***************************************************************************)
(* SlidingWindow.                                                          *)
(***************************************************************************)
Count(b) == IF b THEN 1 ELSE 0

Popped(w) == [entries |-> Tail(w.entries), failures |-> w.failures - Count(Head(w.entries).failure)]

Push(w, isFailure, age) ==
  LET room == IF Len(w.entries) >= MaxEntries THEN Popped(w) ELSE w
  IN [entries |-> Append(room.entries, [age |-> age, failure |-> isFailure, stale |-> FALSE]),
      failures |-> room.failures + Count(isFailure)]

\* The entries in front that are older than the window, seen from a clock
\* reading of the given age; the scan stops at the first one that is not.
Outdated(w, age, n) == \A k \in 1..n : w.entries[k].age - age > WindowDuration

Dropped(w, age) ==
  CHOOSE n \in 0..Len(w.entries) :
    Outdated(w, age, n) /\ (n < Len(w.entries) => ~Outdated(w, age, n + 1))

Evict(w, age) ==
  [entries |-> SubSeq(w.entries, Dropped(w, age) + 1, Len(w.entries)),
   failures |-> w.failures
                - Cardinality({k \in 1..Dropped(w, age) : w.entries[k].failure})]

ShouldTrip(w) ==
  /\ Len(w.entries) >= MinSamples
  /\ w.failures * RateDen >= RateNum * Len(w.entries)

(***************************************************************************)
(* check().                                                                *)
(***************************************************************************)
\* A call returns: Ok puts the caller's request in flight, Err sends it home.
Return(t, from, result) ==
  /\ Goto(t, from, IF result = "Ok" THEN "flight" ELSE "idle")
  /\ at' = [at EXCEPT ![t] = 0] /\ seen' = [seen EXCEPT ![t] = 0]

\* The load of check(): Closed admits, Open goes to check_open, HalfOpen to
\* try_half_open_probe.
Check(t) ==
  /\ Goto(t, "idle", CASE state = "Closed" -> "flight"
                       [] state = "Open" -> "opened"
                       [] state = "HalfOpen" -> "probe")
  /\ raced' = (raced \/ (state = "Open" /\ Stamping # {}))
  /\ UNCHANGED <<shared, at, seen, failed, slots, openFor>>

LoadOpened(t) ==
  /\ Goto(t, "opened", "elapsed")
  /\ seen' = [seen EXCEPT ![t] = openedAt]
  /\ UNCHANGED <<shared, at, failed, history>>

\* The clock is read after opened_at_millis was.
Elapsed(t) ==
  /\ \/ seen[t] >= OpenDuration /\ Goto(t, "elapsed", "cas")
     \/ seen[t] < OpenDuration /\ Goto(t, "elapsed", "idle")
  /\ seen' = [seen EXCEPT ![t] = 0]
  /\ UNCHANGED <<shared, at, failed, history>>

CasHalfOpen(t) ==
  /\ \/ state = "Open" /\ state' = "HalfOpen" /\ Goto(t, "cas", "unmirror")
        /\ openFor' = 0 /\ raced' = FALSE
     \/ state # "Open" /\ UNCHANGED <<state, openFor, raced>> /\ Goto(t, "cas", "reread")
  /\ UNCHANGED <<openedAt, probes, claimedAt, openFast, window, at, seen, failed, slots>>

UnmirrorResetsProbes(t) ==
  /\ Goto(t, "unmirror", "probe")
  /\ openFast' = FALSE /\ probes' = 0
  /\ UNCHANGED <<state, openedAt, claimedAt, window, at, seen, failed, history>>

Unmirror(t) ==
  /\ Goto(t, "unmirror", "probe")
  /\ openFast' = FALSE
  /\ UNCHANGED <<state, openedAt, probes, claimedAt, window, at, seen, failed, history>>

\* "Lost CAS race - re-evaluate."
Reread(t) ==
  /\ \/ state = "Closed" /\ Return(t, "reread", "Ok")
     \/ state = "Open" /\ Return(t, "reread", "Err")
     \/ state = "HalfOpen" /\ Goto(t, "reread", "probe") /\ UNCHANGED <<at, seen>>
  /\ UNCHANGED <<shared, failed, history>>

(***************************************************************************)
(* try_half_open_probe().                                                  *)
(***************************************************************************)
ProbeNow(t) ==
  /\ Goto(t, "probe", "add")
  /\ at' = [at EXCEPT ![t] = 0]
  /\ UNCHANGED <<shared, seen, failed, history>>

FetchAdd(t) ==
  /\ Goto(t, "add", IF probes < MaxProbes THEN "claim" ELSE "sub")
  /\ probes' = (probes + 1) % 2^Width
  /\ slots' = IF probes < MaxProbes /\ slots <= MaxProbes THEN slots + 1 ELSE slots
  /\ UNCHANGED <<state, openedAt, claimedAt, openFast, window, at, seen, failed, openFor, raced>>

Claim(t) ==
  /\ Return(t, "claim", "Ok")
  /\ claimedAt' = at[t]
  /\ UNCHANGED <<state, openedAt, probes, openFast, window, failed, history>>

FetchSubSigned(t) ==
  /\ Goto(t, "sub", "lease")
  /\ probes' = probes - 1
  /\ UNCHANGED <<state, openedAt, claimedAt, openFast, window, at, seen, failed, history>>

FetchSub(t) ==
  /\ Goto(t, "sub", "lease")
  /\ probes' = (probes - 1) % 2^Width
  /\ UNCHANGED <<state, openedAt, claimedAt, openFast, window, at, seen, failed, history>>

LeaseNeverExpires(t) ==
  /\ Return(t, "lease", "Err")
  /\ UNCHANGED <<shared, failed, history>>

\* A claim older than open_duration, seen from the reading of ProbeNow.
Lease(t) ==
  /\ \/ claimedAt - at[t] >= OpenDuration /\ Goto(t, "lease", "takeover")
        /\ seen' = [seen EXCEPT ![t] = claimedAt] /\ UNCHANGED at
     \/ claimedAt - at[t] < OpenDuration /\ Return(t, "lease", "Err")
  /\ UNCHANGED <<shared, failed, history>>

TakeoverWithoutCas(t) ==
  /\ Return(t, "takeover", "Ok")
  /\ claimedAt' = at[t]
  /\ UNCHANGED <<state, openedAt, probes, openFast, window, failed, history>>

Takeover(t) ==
  /\ \/ claimedAt = seen[t] /\ claimedAt' = at[t] /\ Return(t, "takeover", "Ok")
     \/ claimedAt # seen[t] /\ UNCHANGED claimedAt /\ Return(t, "takeover", "Err")
  /\ UNCHANGED <<state, openedAt, probes, openFast, window, failed, history>>

(***************************************************************************)
(* record().                                                               *)
(***************************************************************************)
Record(t, isFailure) ==
  /\ Goto(t, "flight", "load")
  /\ at' = [at EXCEPT ![t] = 0]
  /\ failed' = IF isFailure THEN failed \cup {t} ELSE failed
  /\ UNCHANGED <<shared, seen, history>>

LoadState(t) ==
  /\ Goto(t, "load", CASE state = "Closed" -> "push"
                       [] state = "Open" -> "shed"
                       [] state = "HalfOpen" -> IF t \in failed THEN "tripState" ELSE "closeState")
  /\ at' = [at EXCEPT ![t] = IF state = "HalfOpen" THEN 0 ELSE @]
  /\ UNCHANGED <<shared, seen, failed, history>>

\* What the window becomes when t records its outcome.
Recorded(t) == Evict(Push(window, t \in failed, at[t]), at[t])

\* The end of record().
RecordDone(t, from) == Return(t, from, "Err") /\ failed' = failed \ {t}

PushSample(t) ==
  /\ window' = Recorded(t)
  /\ \/ ShouldTrip(window') /\ Goto(t, "push", "tripState")
        /\ at' = [at EXCEPT ![t] = 0] /\ UNCHANGED <<seen, failed>>
     \/ ~ShouldTrip(window') /\ RecordDone(t, "push")
  /\ UNCHANGED <<state, openedAt, probes, claimedAt, openFast, history>>

Shed(t) ==
  /\ window' = Recorded(t)
  /\ RecordDone(t, "shed")
  /\ UNCHANGED <<state, openedAt, probes, claimedAt, openFast, history>>

\* half_open_probes.store(0), and what the threads still owe the counter then.
ZeroProbes == probes' = 0 /\ slots' = 0 - Cardinality(Subtracting)

\* trip(), store by store.
TripState(t) ==
  /\ Goto(t, "tripState", "tripNow")
  /\ state' = "Open"
  /\ IF state = "Open" THEN UNCHANGED <<openFor, raced>>
                       ELSE openFor' = 0 /\ raced' = (Outrunning # {})
  /\ UNCHANGED <<openedAt, probes, claimedAt, openFast, window, at, seen, failed, slots>>

TripNow(t) ==
  /\ Goto(t, "tripNow", "tripOpened")
  /\ at' = [at EXCEPT ![t] = 0]
  /\ UNCHANGED <<shared, seen, failed, history>>

TripOpenedForgotten(t) ==
  /\ Goto(t, "tripOpened", "tripProbes")
  /\ at' = [at EXCEPT ![t] = 0]
  /\ UNCHANGED <<shared, seen, failed, history>>

TripOpened(t) ==
  /\ Goto(t, "tripOpened", "tripProbes")
  /\ openedAt' = Capped(at[t], OpenDuration) /\ at' = [at EXCEPT ![t] = 0]
  /\ UNCHANGED <<state, probes, claimedAt, openFast, window, seen, failed, history>>

TripProbes(t) ==
  /\ Goto(t, "tripProbes", "tripMirror")
  /\ ZeroProbes
  /\ UNCHANGED <<state, openedAt, claimedAt, openFast, window, at, seen, failed, openFor, raced>>

TripMirror(t) ==
  /\ RecordDone(t, "tripMirror")
  /\ openFast' = TRUE
  /\ UNCHANGED <<state, openedAt, probes, claimedAt, window, history>>

\* History: the samples that were in the window when the breaker closed.
Tainted(sample) == [sample EXCEPT !.stale = TRUE]

\* close(), store by store.
CloseState(t) ==
  /\ Goto(t, "closeState", "closeWindow")
  /\ state' = "Closed" /\ openFor' = 0 /\ raced' = FALSE
  /\ window' = [window EXCEPT !.entries = [k \in DOMAIN @ |-> Tainted(@[k])]]
  /\ UNCHANGED <<openedAt, probes, claimedAt, openFast, at, seen, failed, slots>>

CloseWindowKept(t) ==
  /\ Goto(t, "closeWindow", "closeProbes")
  /\ UNCHANGED <<shared, at, seen, failed, history>>

CloseWindow(t) ==
  /\ Goto(t, "closeWindow", "closeProbes")
  /\ window' = [entries |-> <<>>, failures |-> 0]
  /\ UNCHANGED <<state, openedAt, probes, claimedAt, openFast, at, seen, failed, history>>

CloseProbes(t) ==
  /\ Goto(t, "closeProbes", "closeMirror")
  /\ ZeroProbes
  /\ UNCHANGED <<state, openedAt, claimedAt, openFast, window, at, seen, failed, openFor, raced>>

CloseMirror(t) ==
  /\ RecordDone(t, "closeMirror")
  /\ openFast' = FALSE
  /\ UNCHANGED <<state, openedAt, probes, claimedAt, window, history>>

(***************************************************************************)
(* The callers, and time.                                                  *)
(***************************************************************************)
\* error_rate(): evicts before it reads.
ErrorRate ==
  /\ window' = Evict(window, 0)
  /\ UNCHANGED <<state, openedAt, probes, claimedAt, openFast, pc, at, seen, failed, history>>

\* The request's future is dropped, or its status is one the client neither
\* counts as a success nor as a failure: record() is never called.
DropRequest(t) ==
  /\ Goto(t, "flight", "idle")
  /\ UNCHANGED <<shared, at, seen, failed, history>>

Aged(sample) == [sample EXCEPT !.age = Older(@, SampleCap)]

Tick ==
  /\ \A t \in Threads : Holding(t) => at[t] < MaxStall
  /\ openedAt' = Older(openedAt, OpenDuration) /\ claimedAt' = Older(claimedAt, AgeCap)
  /\ window' = [window EXCEPT !.entries = [k \in DOMAIN @ |-> Aged(@[k])]]
  /\ at' = [t \in Threads |-> IF Holding(t) THEN at[t] + 1 ELSE at[t]]
  /\ seen' = [t \in Threads |-> CASE pc[t] = "elapsed" -> Older(seen[t], OpenDuration)
                                   [] pc[t] = "takeover" -> Older(seen[t], AgeCap)
                                   [] OTHER -> seen[t]]
  /\ openFor' = IF state = "Open" THEN Older(openFor, OpenDuration) ELSE 0
  /\ UNCHANGED <<state, probes, openFast, pc, failed, slots, raced>>

CheckStep(t) ==
  \/ LoadOpened(t) \/ Elapsed(t) \/ CasHalfOpen(t) \/ Unmirror(t) \/ Reread(t)
  \/ ProbeNow(t) \/ FetchAdd(t) \/ Claim(t) \/ FetchSub(t) \/ Lease(t) \/ Takeover(t)

RecordStep(t) ==
  \/ LoadState(t) \/ PushSample(t) \/ Shed(t)
  \/ TripState(t) \/ TripNow(t) \/ TripOpened(t) \/ TripProbes(t) \/ TripMirror(t)
  \/ CloseState(t) \/ CloseWindow(t) \/ CloseProbes(t) \/ CloseMirror(t)

Next ==
  \/ \E t \in Threads : Check(t) \/ CheckStep(t) \/ RecordStep(t) \/ DropRequest(t)
  \/ \E t \in Threads, isFailure \in BOOLEAN : Record(t, isFailure)
  \/ ErrorRate \/ Tick

Spec == Init /\ [][Next]_vars

(***************************************************************************)
(* Properties.                                                             *)
(***************************************************************************)
\* The atomics, the window and the threads' locals keep their types; the slot
\* counter stays within its width although racing fetch_subs take it below 0.
TypeOK ==
  /\ state \in {"Closed", "Open", "HalfOpen"}
  /\ openedAt \in 0..OpenDuration /\ claimedAt \in 0..AgeCap
  /\ probes \in 0..(2^Width - 1) /\ openFor \in 0..OpenDuration /\ raced \in BOOLEAN
  /\ slots \in (0 - Cardinality(Threads))..(MaxProbes + 1)
  /\ openFast \in BOOLEAN
  /\ window.entries \in Seq(Samples) /\ window.failures \in Int
  /\ pc \in [Threads -> Steps]
  /\ at \in [Threads -> 0..MaxStall] /\ seen \in [Threads -> 0..AgeCap]
  /\ failed \subseteq Threads

\* "Treat a claim older than open_duration as abandoned and let exactly one
\* caller take it over": the claim a caller takes over is still the expired one
\* when it is replaced.
OneTakeover ==
  [][\A t \in Threads : pc[t] = "takeover" /\ pc'[t] = "flight"
                         => claimedAt - at[t] >= OpenDuration]_vars

\* half_open_max_probes: between two stores of 0 to the slot counter, however
\* check() and record() calls interleave, at most that many slots are handed out
\* (takeovers of expired claims apart), and one more for each thread whose
\* fetch_sub was still outstanding when the counter was zeroed.
ProbeBudget == slots <= MaxProbes

\* The breaker leaves Open for HalfOpen only after open_duration in Open, in
\* every interleaving, unless a call ran across the stores of the trip() that
\* opened it: a check() on its way when Open was stored or begun before
\* opened_at_millis was, or another trip() with an earlier clock reading.
CoolDown ==
  [][state = "Open" /\ state' = "HalfOpen" /\ ~raced => openFor >= OpenDuration]_vars

\* What the tests say of open_duration, without that exception: check() is
\* refused until open_duration after the breaker opened.
FullCoolDown == [][state = "Open" /\ state' = "HalfOpen" => openFor >= OpenDuration]_vars

\* What record() may trip the breaker on was recorded after it last closed, in
\* every interleaving, except while a close() has stored Closed and not yet
\* cleared the window.
FreshEvidence ==
  (\E k \in DOMAIN window.entries : window.entries[k].stale)
     => \E t \in Threads : pc[t] = "closeWindow"

(***************************************************************************)
(* Liveness.  Threads are scheduled and time passes; traffic goes on (an   *)
(* idle caller checks again), and a caller that is admitted again and again*)
(* is not cancelled every time.                                            *)
(***************************************************************************)
Fairness ==
  /\ SF_vars(Tick)
  /\ \A t \in Threads :
       /\ WF_vars(Check(t) \/ CheckStep(t) \/ RecordStep(t))
       /\ SF_vars(\E isFailure \in BOOLEAN : Record(t, isFailure))

FairSpec == Spec /\ Fairness

\* A probe whose owner never records does not strand the breaker in HalfOpen,
\* whatever the races have made of the slot counter.
LeavesHalfOpen == state = "HalfOpen" ~> state # "HalfOpen"
=============================================================================
