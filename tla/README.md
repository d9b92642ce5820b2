# Medley: TLA+ models and proofs

Medley is a terminal coding agent in Rust, a multi-provider fork of Grok Build.
This directory holds TLA+ specifications of the parts of it whose correctness
depends on orders of events that tests hardly reach, TLC configurations that
check them on small instances, and TLAPS proofs. `PROJECT.json` maps every
definition to the source lines it models.

## The system

The pager (terminal UI) talks to the shell, which hosts sessions. A session
runs turns: it samples a model, runs tools and persists what happened. Most
long-lived state sits in single-writer actors (a mailbox and a select loop) or
behind atomics shared by tasks. Paths below are relative to `src/crates`.

| component | where | state | operations | hard behaviour | what makes it correct |
|---|---|---|---|---|---|
| Subagent coordinator | `codegen/xai-grok-tools/.../grok_build/task` | queued, pending, active, completed children; waiters; stopped sessions; buffered completions | spawn, query, cancel (id, prompt, session, run), teardown, child started/finished, deadlines | callers, waiters, tokens and children act between any two handlers; nested spawns; the loop's exit | limits, no lost slot, no stranded waiter, every result delivered once, Stop holds |
| Circuit breaker | `common/xai-circuit-breaker` | five atomics, a sliding window | check, record | lock-free interleavings, lost probes, wrap-around | probe budget, cool-down, leaves HalfOpen |
| Scheduler | `codegen/xai-grok-tools/.../grok_build/scheduler` | tasks, versions, a pending removal, the state file and its writer | create, update, delete, fire, skip, expire, restart | waits inside handlers; late snapshots; iterations that overlap; restarts | a deleted task stays deleted, one iteration at a time, versions advance |
| Upload queue | `codegen/xai-file-utils/src/queue.rs` | spill files and sidecars, channel, slots, in-flight marks, counters | enqueue (five entry points), upload, retry, park, drain, recover | crash between steps; parked items; aborts; full channel | acknowledged artifacts survive, finished ones leave no file, nobody waits on everybody |
| Leader | `codegen/xai-grok-shell/src/leader` | lock file, clients | acquire, serve, take over, reconnect | a leader that dies holding the lock | at most one leader |
| Credential refresh | `codegen/xai-grok-shell/src/auth/refresh` | token store, cross-process lock | refresh, adopt | two processes with one refresh token | a rotated token is not lost |
| Session relocation | `codegen/xai-grok-shell/src/session/storage/relocation` | journal, session and staging directories | move, commit, roll back, recover, read | crash or power loss between any two steps; readers meanwhile | one complete copy, an atomic move, recovery ends |
| Workflow engine | `codegen/xai-workflow` | run journal | step, replay, cancel | restart in the middle of a step | replay agrees with the journal |
| Chat state | `codegen/xai-chat-state` | conversation, pending writes | commands, compaction | compaction while a turn runs | history consistent with storage |
| Sampler | `codegen/xai-grok-sampler` | request in progress | stream, retry, cancel | retry after partial output | one terminal event per request |
| Computer hub | `common/xai-computer-hub-*` | connections, pending calls, reference counts | connect, call, cancel, demultiplex | late answers after cancellation | an answer goes to its call |
| Prompt queue, route resolution | `codegen/xai-prompt-queue`, `codegen/xai-grok-subagent-resolution` | lists, configuration | combine, reorder, resolve | none (sequential) | agreement with a reference definition |
| The rest | pager, markdown, MCP, hooks, memory, sandbox, update, telemetry, voice, worktrees | | | I/O and rendering | not modelled |

How they interact: a session's `TaskTool` sends spawn commands to the
coordinator through `ChannelBackend` and either awaits a one-shot reply or
detaches; the workflow host spawns children that are owned by a run; the
scheduler starts turns and asks the coordinator whether an earlier iteration is
still active; its state file is written by the persistence writer that all tools
share, and its tombstones go to the session's log; uploads go through the storage
client, which asks the breaker first and reports outcomes to it, and the
workspace server hands the spill directory of an earlier life back to the queue.

## Modules

| module | contents |
|---|---|
| `SubagentCoordinator` | the coordinator, the parties around it, its properties |
| `MCSubagentCoordinator` | instances for TLC (symmetry over ids, a view) |
| `SubagentCoordinatorProofs` | admission control proved for all parameters |
| `SubagentDeliveryProofs`, `SubagentOrderProofs` | delivery, stop, teardown and exit; the order of the queue and the loop of its sweep; both from the lemmas of `SubagentCoordinatorProofs` |
| `CircuitBreaker` | the breaker, one step per atomic access, its properties |
| `MCCircuitBreaker` | instances for TLC (symmetry over threads) |
| `CircuitBreakerProofs` | types, probe budget, takeover, cool-down and fresh evidence proved |
| `SessionMove` | what a relocation promises: an atomic move, one generation each |
| `SessionRelocation` | the journalled move, its failures, recovery and readers; implements `SessionMove` |
| `SessionRelocationProofs` | nothing is lost, readers are served whole directories, the move is atomic |
| `Scheduler` | the scheduler actor, composed with the writer of its state file, the consumer of its notifications and the coordinator as it sees it |
| `SchedulerProofs` | deletes, reservations, versions and loops proved |
| `SchedulerChainProofs` | the length of transcripts proved, from `SchedulerProofs` |
| `UploadQueue`, `MCUploadQueue` | the upload queue, its worker, and the recovery at the next start |
| `UploadQueueProofs` | flush, durability, files, marks and the absence of stalls proved |

### SubagentCoordinator

The actor handles one event at a time, so its state is one record `co`, and a
handler is an operator from states to states. A handler that calls another
composes the operators in the order of the calls; `finish_child` ends with the
sweep of the queue, so `FinishChild` does too. `The({F(s) : s \in {e}})` is
`F(e)`; it only keeps TLC from computing `e` many times.

Correspondence with the code:

* `queued`, `pending`, `active`, `completed` are the keys of the four maps. The
  order of the queue is a stamp per entry (`at`, from `clock`), the order of
  `completed_order` and of the buffer an age. Stamps restart when the queue is
  empty; only their order is ever read.
* `reply` is what the coordinator holds of a spawn caller's one-shot sender:
  none, one whose receiver lives, one whose receiver was dropped. `handleOnly`,
  `deadline`, `killed` and `cancelled` are the per-child flags and the token.
* `req` has the request after `reparent_nested_spawn`: the lifecycle parent, the
  session that really spawned, the owner (a task or a workflow run), the kind.
* `report` is the output of the step: for each child that finished, where the
  result went. `born`, `root` and `tornDown` are history.
* Commands run as `reap_abandoned_callers`, handler, eviction, in one action, as
  the select loop does. `Started`, `Finish` and `Deadlines` are the other arms;
  `CloseCommands`, `Exit` and `Drop` end the actor. `CancelToken`, `DropCaller`
  and `DropClient` are the parties that share tokens and channels with it; they
  act between any two handlers.
* Time is abstract: an armed deadline may be found due at any timer wake-up.
* `MaxClock` bounds the stamps handed out before the queue was last empty,
  `MaxStopped` the sessions that are stopped at the same time.

Left out: the resume lookup and the other reads whose answers are formatted
later (validation, description, progress), loop identity (it is in
`Scheduler`), usage bookkeeping,
definition-level background flags, and what a child computes.

Stop comes from the user, for a root session, and from a child session for its own
children once the coordinator has cancelled it (`ShellChildRuntime::cancel`, whose
command the child session turns into a cancel with its own id); the latter may
arrive after the child has ended. Admission is opened again when a turn of the
session begins. Teardown is issued for root sessions only: a subagent's session is
not in the registry whose sessions are removed.

### CircuitBreaker

`check()` and `record()` take no lock, so a step of a thread is a single load,
store or read-modify-write; the mutex around the window makes push, evict and
clear steps of their own. Accesses are sequentially consistent, which is
stronger than the acquire/release orderings of the code, so what holds here is
about interleavings and not about weak memory. Time stamps are kept as ages,
capped where no comparison can tell the difference; `MaxStall` bounds how long a
thread may be suspended while it holds a clock reading. `Width` is the width of
the slot counter, small so that wrap-around happens. A caller that was admitted
may drop its request (`DropRequest`): the storage client records nothing for
some answers.

Nothing is assumed about which calls overlap. `trip()` and `close()` are four stores
each, and some promises are broken between two of them; the properties name these
windows instead of excluding them:

* `raced` is history: a call ran across the stores of the `trip()` that opened the
  breaker (a `check()` that was past its load of the state, or that began before
  `opened_at_millis` was stored; another `trip()` that had already read the clock).
  `CoolDown` is claimed for every other opening, `FullCoolDown` for all of them, and
  the second fails (below).
* A sample is `stale` once the breaker has closed over it. `FreshEvidence` allows one
  in the window only while a `close()` is between its store of Closed and its clear.
* `slots` counts what `fetch_add` handed out since the counter was last set to 0,
  starting below 0 by the `fetch_sub`s that were outstanding then. `ProbeBudget` is
  about that period, not about a stay in HalfOpen: see the observations.

Left out: a disabled breaker, the test hook `force_half_open`, observers, the
values of `retry_after`, the registry and the parsing of settings.

### SessionRelocation

The code pairs every change of a directory with a barrier, the `fsync` of its
parent. The module has both: `slot` and `journal` are what a process sees,
`slotMay` and `journalMay` the states a power loss may leave behind. A change adds
to that set, a sync reduces it to the present, and `PowerLoss` picks one state per
directory independently. The lease admits one process, so `at` is one program
counter; `mem` is the journal the holder has in memory. A session directory is
complete, torn (some file missing) or headless (no summary): `copy_directory` and
`remove_dir_all` pass through all of these. `ChangeFails` is an I/O error before a
change, `BarrierFails` an error of the sync after it (`WriteFailure::Committed`),
`Crash` the end of the process. A reader (`RelocationView`) loads the journals and
only later lists the directories. `calm` ends the failures; it is used by the
liveness properties only.

`SessionMove` is the abstract specification. `Home` of the refinement mapping is
the directory a journal that cannot be lost any more gives authority to; so the
move happens at the barrier that makes Ready durable.

Left out: file contents besides the summary, the permission and symlink checks,
and sessions other than one (relocations of two sessions share only the directory
of journals). At this commit `stage_and_publish` is called by tests only;
`recover_all` runs whenever the shell lists sessions.

### Scheduler

The actor runs one handler at a time, but handlers wait: for the writer, for the
acknowledgement of a tombstone, for two answers of the coordinator. `at` says where
it waits and `job` holds the locals read before the wait. Everything else acts
meanwhile: other tools save (`Save`), the writer drains its channel and its
debounced draft, children nest, finish and are evicted, the watcher of an
iteration clears its anchor, the token is cancelled, the process dies (`Restart`).
A version is a generation and a revision; `MaxRevision` is small so that
revisions run out. Time is abstract: a task may become due or expired at any
moment. `shown` is what a replay of the session's log displays.

Left out: the grace period at start-up before the sender to the coordinator is
wired, the wording of reminders, and the occurrence journal, which nothing but its
own tests drives at this commit.

### UploadQueue

One action for each stretch between two points where another thread can look: the
temp file and the budget, the sidecar with the count of the item (`Account`), the
charge of its bytes (`Charge`), the send or its refusal (`Sent`, `Rejected`) and the
rest of the roll-back (`RollBack`); then the worker (breaker, receive, slot, spawn),
the task of an item (attempt, back-off, refused credentials, parking, waking, the
removal of its files, `Settle`, `Repay`), `drain()` and its deadline, the drop of the
queue, a crash, and the recovery
of the spill directory as the workspace server runs it before it takes calls.
`pending` and `pending_bytes` are two relaxed atomics and are always changed in that order, by two actions: between them an artifact is `counted`, `falling`,
`failing` or `repaying`, and `wait_idle` may read 0 while bytes are still charged. The
one exception is `enqueue_recovered`, whose accounting and roll-back are one step:
until the start-up is over nobody but the recovery itself reads the statistics. The
entry points differ in four predicates (`HasSidecar`, `HasWaiter`, `Deduplicates`,
`Budgeted`). The breaker of the worker is its own count of consecutive failures,
so `CircuitBreaker` is not involved. Whether a deadline has passed inside the
worker is a choice of the step that asks.

Left out: the wire, the semaphore of inline uploads, scratch directories, other
statistics, the purge when uploads are disabled, and the detached recovery of the
shell.

## What the runs check

Subagent coordinator. One slot and two or three ids are enough for a spawn to be
parked, dequeued, overtaken, nested under the child that holds the slot, and for
an id to be reused after eviction (`CompletedCap` 1). `subagent_admission`
compares states under `AdmissionView`, which hides `report`, `killed` and
`tornDown`: no guard and no other field of that instance depends on them, and no
property of the run but `TypeOK` (proved in general) reads them. A scoped command
is issued only for sessions that own a live child or a buffered completion: for
any other session it changes nothing, which is the action `Read`. Two sessions may
be stopped at once, a root and a child of it or two children, in `subagent_delivery`,
which checks `StopHolds`, and in `subagent_liveness`; one, of either kind, in
`subagent_admission`. The theorems hold for any number.

| run | instance | shows |
|---|---|---|
| `subagent_admission` | 3 ids, 1 slot, background and foreground | one place per id, the limit, parked only at capacity, no overtaking, a turn blocker has a caller, nothing is left at exit; in every state reached, the closed form of the sweep is the loop of the source |
| `subagent_delivery` | 2 ids, a run, 2 clients, buffering | no stranded waiter or run cancel; a result reaches a caller, a waiter or the surface, the surface only when nobody else heard it; teardown leaves no buffered completion; Stop against runs and nested children |
| `subagent_liveness` | foreground, nested spawns, a client | callers and queries are answered though no child ever ends; if children end, a parked spawn resolves although its spawner holds the slot and waits for it |
| `subagent_stop_descendants` (violation) | 3 ids | a late spawn of a finished child escapes Stop |

Rejection at the limit (`QueueAtLimit` FALSE) has no run of its own: `LimitRespected`
is proved for it.

Circuit breaker. Two threads give every pairwise race of the accesses, and a slot
counter of two bits wraps; a window of one sample trips at the first failure, so the
breaker goes round its states quickly. The safety properties are proved for any
number of threads, slots and samples.

| run | instance | shows |
|---|---|---|
| `breaker_races` | 2 threads, all interleavings, lost probes, fairness | types with wrap-around; the slot budget between two resets of the counter; one takeover per expired claim; the cool-down unless a call ran across `trip()`; no stale evidence after the clear of `close()`; the breaker leaves HalfOpen whatever the races did to the counter |
| `breaker_cooldown` (violation) | 2 threads, a cool-down of 2 ticks | a `check()` between two stores of `trip()` ends the cool-down at once |

Session relocation. Two directories and two generations: a session moves there and
back, so that leftovers of the first move can meet the second. Failures are
unbounded until `calm`.

| run | instance | shows |
|---|---|---|
| `session_relocation` | 2 directories, 2 moves, fairness | what survives a power loss is always one complete session; readers get complete directories; the move is atomic (`AtomicMove`, a refinement); recovery ends, unless a headless target stands in its way |
| `relocation_headless` (violation) | 2 directories, 1 move | with a headless target no recovery ends |

Scheduler. `scheduler_delete` has a durable recurring task and a restored one-shot,
two generations of versions, and a writer with two commands in its channel: enough
for a stale snapshot to be queued before and after the durable one and for a
restart to read any of them. `scheduler_loop` has one background loop with three
iterations and a fresh chain every two, so a chain is resumed, cut and broken.
Deadlock is not checked: an actor that stopped is done.

| run | instance | shows |
|---|---|---|
| `scheduler_delete` | 2 tasks, 2 restarts | a deleted task never returns; reservations held across waits are not overtaken; versions only advance |
| `scheduler_loop` | 1 loop, 3 iterations | one iteration at a time; no overlap with descendants of a successful iteration; a chain keeps its prompt and its length |
| `scheduler_descendant` (violation) | 1 loop, 2 iterations | a descendant of a failed iteration does not stop the next fire |

Upload queue. Two artifacts for the same content-addressed object, one slot, one
place in the channel, a budget of one, two attempts, one crash: every limit is met
by the second artifact. A recovery never sees more than these two pairs, of which
it can hand over one.

| run | instance | shows |
|---|---|---|
| `upload_queue` | 2 artifacts, all entry points | `pending = 0` means that everything the channel took has its outcome and that the budget is charged only with what is about to be given back; acknowledged artifacts survive; files follow their item; marks are exact; neither drain nor a waiting caller waits on parked items |

Each property of a passing run has a mutant in `PROJECT.json`: a plausible bug
in a mapped definition under which the same run fails.

### Fairness

* `TimerFairness` (coordinator): the select loop sleeps until the earliest
  deadline, so a due deadline, a due waiter and the queued-reap interval are
  served. It assumes nothing of children. The select is biased and polls the timer
  after the channels of commands and internal events, so this also assumes that the
  two channels are not ready without end.
* `ChildFairness`, a hypothesis of `QueuedResolves` only: a child that is not itself
  waiting for a foreground spawn, or that was cancelled, ends its run. Strong
  fairness, because it may start waiting again before it ends.
* Breaker: threads inside a call are scheduled, time passes, idle callers check
  again, and an admitted caller is not cancelled every time. Without the last
  two, HalfOpen can last because there is no traffic.
* Relocation: the holder of the lease goes on, and recovery is tried again whenever
  there is a journal, because every listing of sessions starts with `recover_all`.
  The reader and new relocations are not assumed to act.
* Upload queue and scheduler: no fairness. `NoStall` says as an invariant that some
  step of the worker, its tasks or a caller is enabled; that a parked item is woken
  or a drain times out is not assumed.

It is not claimed that the cancel of a workflow run is eventually answered: a run
whose children keep spawning keeps it waiting, in the model and in the code.

### What the violations mean

1. `StopReachesDescendants`. `reparent_nested_spawn` finds the spawner among
   active children only. A background spawn that its (finished) spawner left
   behind keeps the dead child session as parent and is admitted after Stop,
   although the comment on `spawn_blocked_sessions` says such a spawn cannot
   outrun Stop. (A child that was still running is cancelled by the Stop and then
   stops its own session, which refuses the late spawn.)
2. `RecoverAllFinalizes`. `finish_rollback` validates a target that exists before
   it removes it. A rollback that was interrupted after the target's summary was
   deleted leaves a target that can be neither validated nor removed, and
   `recover_all` stops at that error from then on, although its test says it
   finalizes every phase. `RecoveryFinishes` shows this is the only obstacle.
3. `DescendantSkipsFire`. The watcher of a failed iteration clears the anchor, and
   without an anchor the next fire does not ask for running members of the unit:
   it overlaps a background child of the failed iteration.
   `OverlapOnlyAfterFailure` shows this is the only way.
4. `FullCoolDown`. `trip()` publishes Open (`breaker.rs:251`) before it stores the
   opening time (`:254`). A `check()` in between goes by the opening time of the
   previous trip, or by the initial 0, and moves the breaker to HalfOpen at once. The
   test `open_to_half_open_after_duration` asserts that the check after a trip is
   refused. `CoolDown` shows that only calls across the stores of `trip()` do this.

Observed while modelling, without a run of their own:

* A nested foreground spawn never surfaces; when its caller is handed off at the
  budget it is told (`task/mod.rs:600`) that it will be notified, and nothing
  notifies it (`coordinator/spawn.rs:148`).
* `close()` publishes Closed (`breaker.rs:265`) before it clears the window (`:268`). A
  `record()` in between adds to the old window and may trip the breaker that has just
  closed on failures from before the recovery. `FreshEvidence` names this window. It
  has no violation run because no comment, document or test of the crate states the
  contrary: the tests clear a window, none calls `record()` during a `close()`.
* `trip()` zeroes the slot counter last but one (`:255`). In HalfOpen that is entered
  through the window of `FullCoolDown`, the counter may still hold the slots of the
  previous stay, against the comment at `:211`, and the late store gives the stay a
  second budget: `half_open_max_probes` bounds the probes between two resets, not
  those of one stay. The late store of `is_open_fast` can leave it true in HalfOpen.
* An expiry whose acknowledgement is lost leaves its version uncommitted, so the
  next transition carries the same one (`scheduler/actor.rs:381`); a durable delete
  that failed disables the timer until it is retried (`actor.rs:200`).
* The disk budget is checked before it is charged and may be exceeded by concurrent
  callers (`queue.rs:1464`); a drain gives up parked items and deletes their pairs
  (`queue.rs:2107`); `upload/trace.rs:1393` takes the answer Deduplicated as durable
  like Enqueued, although the twin in flight may have no sidecar, so that a crash
  loses both (`DurablyAccepted` claims Enqueued only); a caller that drops
  `enqueue_file_blocking` while it waits for room leaves `pending` counted (`queue.rs:1145`).

## What is proved

Every invariant and action property that a passing run checks is also a theorem,
except the few listed at the end. A theorem holds for every value of the constants
that satisfies the named `ASSUME`s of its module; TLC evaluates these in every run.
Each inductive invariant was also checked by TLC on the instances of the safety runs
(that of the relocation with its generations restricted to `0..MaxGen`).

### Subagent coordinator

For every finite set of ids, every set of sessions, runs, prompts and clients,
every positive limit, every cap, and both limit behaviours. The assumptions:
finitely many ids, none of them a root session; a task is not a run; the limit is
at least 1 (the code clamps it).

| theorem | statement |
|---|---|
| `AdmissionInvariant` | `Spec => []IInv` |
| `TypeCorrect` | `Spec => []TypeOK` |
| `IdInOnePlace` | `Spec => []OnePlace` |
| `LimitRespected` | `Spec => []SessionLimit` |
| `NoSlotLost` | `Spec => []QueuedAtCapacity` |
| `DeliveryInvariant` | `Spec => []DInv` |
| `WaitersCanBeAnswered` | `Spec => []NoStrandedWaiter` |
| `StopIsKept` | `Spec => []StopHolds` |
| `BlockersHaveCallers` | `Spec => []TurnBlockerHasCaller` |
| `ResultsAreDelivered` | `Spec => []ResultDelivered` |
| `TeardownIsFinal` | `Spec => []TornDownNotBuffered` |
| `ExitIsDrained` | `Spec => []DrainedAtExit` |
| `SweepIsTheLoop` | `Spec => []ClosedFormIsLoop` |
| `QueueIsFifo` | `Spec => NoOvertaking` |

*Admission.* `SessionLimit` and `QueuedAtCapacity` are not inductive by themselves
and each needs the other. A fresh spawn is admitted without a look at the queue;
that is fair only because parked spawns exist for full sessions alone. When a child
ends, its session may be one short; the sweep then starts the entries for which
running plus entries ahead is below the limit. That this is exactly one entry
needs the stamps of the queue to be distinct (`Stamped`), which needs them to
stay below the clock, and needs that no session was more than one short
(`AlmostFull`). So `IInv` is: types, one place, limits, parked spawns are
task-owned, stamps distinct and at most the clock, parked means full. `SweepFills`
is the heart of the proof: a sound state with at most one slot free in each
session that has parked spawns is taken by the sweep to a good one. The handlers
are proved one by one as operators on states; those that do not touch admission
go through `AlikeGood`; the actions then only compose them.

*Delivery.* `DInv` adds `Tidy` to `IInv`. Its core is that nothing is kept for an id
that is not live (`Owned`): no waiter, no reply sender, no mark of a teardown; so an
id that is used again starts clean. A handler may break the rule of a stopped
session (`Stopped`) for the parked spawns it is about to resolve, and only for
those: `CompleteTidy` and `CancelAllTidy` say so, and their callers resolve exactly
that set. Steps that move no child go through `MilderTidy`. That the actor exits
with nothing left (`ExitedEmpty`) uses admission: it looks at running children only,
and a parked spawn needs a full session, hence a running child.

*Order.* `NoOvertaking` is about a step, which is a chain of handlers. `Calm` relates
the ends of a link: the queue only shrinks, and what is started was ahead of what
is left parked for the same session. It is transitive, and every handler but the
arrival of a spawn is calm; the sweep is because the stamps are distinct. The
arriving spawn starts only where a slot is free, and there nothing is parked.

*The sweep.* The handlers use the closed form of `start_queued_within_capacity`: the
entries that are started are those for which running plus entries ahead is below
the limit. The source is a loop, here the recursive function `SweepLoop`, which takes
the entries in order and counts anew for each. `SweepIsTheLoop` shows that they agree
in every reachable state, so the theorems above are about the loop too. The closed
form restricted to the entries not yet visited satisfies the equation of the loop
(`LoopIsClosedForm`); its key fact is that an entry that is late enough to be left
behind leaves its session full, so that both counts stop at the same entry. A
recursive function has one value: two solutions would differ first on a smallest set
of entries, and the equation goes to a smaller one.

### Circuit breaker

For finitely many threads, any window, rate, durations and stall, and any counter
width with `MaxProbes + Cardinality(Threads) < 2^Width` (the code has a `usize`).

| theorem | statement |
|---|---|
| `BreakerInvariant` | `Spec => []Inv` |
| `TypeCorrect` | `Spec => []TypeOK` |
| `BudgetKept` | `Spec => []ProbeBudget` |
| `TakeoverIsOfExpired` | `Spec => OneTakeover` |
| `CoolDownRespected` | `Spec => CoolDown` |
| `EvidenceIsFresh` | `Spec => []FreshEvidence` |

All of them are about every interleaving. The invariant says what a thread may still
rely on between two of its accesses. `Leased`: a thread about to take a claim over has
loaded one that was expired at its clock reading, and this stays so while both age;
the compare-and-exchange then succeeds on that very claim only. `Counted`: modulo
`2^Width` the counter is the slots handed out since the last reset plus the
`fetch_sub`s still owed, so a claim that compares the counter with the limit cannot
exceed the budget, though the counter itself may wrap below 0 after a reset.
`Cooling`: unless a call ran across the `trip()`, the opening time a thread goes by is
no older than the Open state itself.
`Clean`: stale samples are in the window only until the `close()` that made them stale
clears it.

### Session relocation

For any set of directories and any number of moves, with any number of I/O
errors, crashes and power losses.

| theorem | statement |
|---|---|
| `RelocationInvariant` | `Spec => []IInv` |
| `TypeCorrect` | `Spec => []TypeOK` |
| `NothingLost` | `Spec => []NeverLost` |
| `ReadersServedWhole` | `Spec => []ViewServesWhole` |
| `RelocationIsAtomic` | `Spec => AtomicMove`: every step of the journalled move is the move of `SessionMove` or a stutter |

`NeverLost` speaks of any combination of the states a power loss may leave, so the
invariant does too. `Disk` says, for each journal that may be left, what may be left
of the directories: with a journal that gives authority to the source, exactly the
complete source and a target of this move (`SourceSafe`); with one that gives it to
the target, exactly the complete target and leftovers of the source (`TargetSafe`);
without one, the session at home and nothing else (`Settled`). `HolderInv` says at
each step of the lease holder which barrier it already has behind it: this is what
makes deleting the source, the target or the journal safe. `ViewInv` says that no
generation below the one a reader loaded is current any more. For the refinement
only the barrier after the write of Ready changes `Home`; all other steps stutter.

### Scheduler

For any tasks, of which finitely many are one-shots, any number of iterations and
restarts, any bound of the writer's channel, any length of a chain.

| theorem | statement |
|---|---|
| `SchedulerInvariant` | `Spec => []Inv` |
| `TypeCorrect` | `Spec => []TypeOK` |
| `DeletesAreFinal` | `Spec => []DeletedStaysDeleted` |
| `ReservationsStayFresh` | `Spec => []ReservationFresh` |
| `ClockAdvances` | `Spec => VersionsAdvance` |
| `OneIterationAtATime` | `Spec => []LoopSingleFlight` |
| `OverlapNeedsFailure` | `Spec => []OverlapOnlyAfterFailure` |
| `TranscriptsKeepPrompt` | `Spec => []ChainKeepsPrompt` |
| `ChainInvariant` | `Spec => []ChainInv` |
| `TranscriptsAreBounded` | `Spec => []ChainBounded` |

The invariant has three parts besides types. *Deletes* (`MineInv`, `GoneInv`): a
deleted task is in no snapshot there is, in memory, in the file, in the draft or in
the channel; while the delete waits, the handler's own flush entry and everything
behind it lacks the task, so older snapshots can only be overwritten. *Versions*
(`HeldInv`, `ClockInv`): a task that is being removed is off the list and not reused,
an expiry or a loop handler runs only while no removal is pending, and so the version
a waiting handler reserved is still the next one. *Loops* (`AskInv`, `SpawnInv`,
`LinkInv`, `LoopHeldInv`, `LoopInv`): what is alive of a loop and did not fail is its
anchor; while the handler waits, the task changes only in that the watcher may clear
the anchor; a question in the coordinator's channel is the handler's own and behind
every spawn it sent, so what the answer says still holds when it is used.

*Transcripts.* `ChainBounded` is about the length of a transcript, a recursive function
over the iterations, and the actor sees only a counter beside the anchor. `ChainInv`
says that there are lengths, each one more than that of the iteration it continues
and none above `FreshEvery`, that the counter covers: in every snapshot there is, in
memory, in the file, in the draft and in the channel, and in the copy a waiting
handler holds, a task with an anchor and no pending reset has a counter no smaller
than the length of the transcript it would resume. The lengths are a witness of the
invariant, extended by one at each spawn, so no recursion is unfolded along the way;
that the recursive definition is this witness follows by a least counterexample.

### Upload queue

For any finite set of artifacts, capacities, budgets, retry limits, thresholds and
any number of crashes.

| theorem | statement |
|---|---|
| `QueueInvariant` | `Spec => []Inv` |
| `TypeCorrect` | `Spec => []TypeOK` |
| `FlushIsTruthful` | `Spec => []FlushTruthful` |
| `AcceptedIsDurable` | `Spec => []DurablyAccepted` |
| `FilesStayWithItem` | `Spec => []FilesFollowItem` |
| `MarksAreExact` | `Spec => []MarkExact` |
| `SomebodyCanStep` | `Spec => [](Awaited => CanProgress)` |

`ChanInv`, `HeldInv` and `SlotInv` put each artifact in one place: the channel holds
the queued ones once each, the worker at most one, and slots belong to running
tasks. `CountInv` compares each statistic with the artifacts that it counts at their
stage: `pending` with those between `Account` and `Rejected` or `Settle`, the bytes
with those between `Charge` and `RollBack` or `Repay`. Both are inequalities, because
an aborted task leaves its count behind, and what is left of the bytes is at most what
is left of `pending`. So with `pending` at 0 nothing was left behind, and the artifacts
still charged are those of `Owing`: `FlushTruthful`. `FilesInv` says for each stage which of the
two files exist, `PhaseInv` what a start-up may still find; between them an
acknowledged artifact is always with the queue or on disk in a pair that the next
recovery reads.

*No stall.* `CanProgress` is the disjunction of the guards of the steps in `Progress`,
the form of `NoStall` that the prover can read; TLC found it equal to
`ENABLED Progress` in every state of the instance of `upload_queue`. Two more facts are
needed. `LiveInv`: a task that holds a slot is uploading, backing off or at its end,
never refused, parked or woken, and nobody waits for an artifact that is parked or
done. `SignalInv`: a worker past the signal drains, so parked tasks give up, and one
that is done with the channel left it empty. The proof then follows who waits for
whom: a caller for the channel, the channel for the worker, the worker for a slot
or for the last task, and the holder of a slot for nobody (`SlotWait`).

### Only model-checked

* Liveness under fairness: `ForegroundAnswered`, `QueryAnswered`, `QueuedResolves`,
  `LeavesHalfOpen`, `RecoveryFinishes`.
* `NoStall` as it is stated, with `ENABLED`; `SomebodyCanStep` proves it of the guards.

The prover treats neither fairness nor `ENABLED`. The two recursive definitions that a
theorem is about (`SweepLoop`, the lengths of `ChainBounded`) are recursive functions,
not `RECURSIVE` operators, and are reached by a least counterexample instead of an
induction.

## Not modelled

`PROJECT.json` lists every component with a reason. Leader election, credential
refresh, the workflow journal, chat state, the sampler and the computer hub have
protocols of their own and are the candidates for further modules. The terminal
user interface, rendering, Markdown, diffing, MCP, hooks, telemetry and the other
adapters, which are most of the lines of the repository, are I/O or layout.

## Plan

The first five components are modelled, checked and proved as far as the provers
reach. What is left:

1. Leader lock and credential refresh: several processes, stale locks.
2. The workflow journal, chat state, sampler retry, computer hub demultiplexing.
