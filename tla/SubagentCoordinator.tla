------------------------ MODULE SubagentCoordinator ------------------------
(***************************************************************************)
(* The single-writer subagent coordinator: xai-grok-tools, grok_build/task *)
(* coordinator.rs, coordinator/{spawn,queue,query}.rs, coordinator_state.rs*)
(* admission.rs, and the drop-cancel of backend.rs.                        *)
(*                                                                         *)
(* The actor owns its state and runs one handler at a time, so that state  *)
(* is one record `co' and a handler is an operator from states to states;  *)
(* a handler that calls another composes the operators in the order of the *)
(* calls.  Around the actor run the parties that share cancellation tokens *)
(* and one-shot channels with it: the callers of spawn, the clients that   *)
(* wait on a query, and the child runners.                                 *)
(*                                                                         *)
(* Time is abstract: a deadline that is armed may be found due whenever the*)
(* timer arm of the select fires.  Order of arrival and of completion (the *)
(* VecDeques `queued' and `completed_order') is kept as a stamp per id.    *)
(* What a child computes, its model, persona, worktree and loop identity   *)
(* are not told apart.                                                     *)
(***************************************************************************)
EXTENDS Integers, FiniteSets

CONSTANTS
  Ids,                \* subagent ids; a child's session id is its subagent id
  Roots,              \* sessions that are not subagents
  Runs,               \* workflow run ids
  Task,               \* SubagentOwner::Task, the owner that is not a run
  Prompts,            \* parent prompt ids
  Clients,            \* parties blocked in a query or in a workflow cancel
  Kinds,              \* the kinds of spawn the instance issues
  MaxConcurrent,      \* SubagentLimits.max_concurrent, after the clamp to 1
  QueueAtLimit,       \* LimitBehavior::Queue (TRUE) or Fail (FALSE)
  BufferCompletions,  \* CoordinatorConfig.buffer_completions
  CompletedCap,       \* MAX_COMPLETED_ENTRIES
  BufferCap,          \* MAX_PENDING_COMPLETIONS
  MaxClock,           \* bound: no spawn is issued after this many stamps
  MaxStopped          \* bound: sessions that are stopped at the same time

ASSUME IdsAssumption == IsFiniteSet(Ids) /\ Ids \cap Roots = {}
ASSUME OwnerAssumption == Task \notin Runs
ASSUME LimitAssumption ==
  /\ MaxConcurrent \in Nat \ {0}
  /\ CompletedCap \in Nat
  /\ BufferCap \in Nat
  /\ MaxClock \in Nat
  /\ MaxStopped \in Nat
  /\ QueueAtLimit \in BOOLEAN
  /\ BufferCompletions \in BOOLEAN
ASSUME KindsAssumption == Kinds \subseteq {"background", "foreground", "workflow"}

ASSUME NonEmpty == Roots # {} /\ Prompts # {}

Sessions == Roots \cup Ids
Owners == Runs \cup {Task}

\* `parent' is the lifecycle root after reparenting, `spawner' the session that
\* issued the spawn (spawn_parent_session_id).  kind: "background" is
\* run_in_background, "workflow" is await_to_completion, "foreground" neither.
Requests == [parent : Sessions, spawner : Sessions, owner : Owners,
             kind : {"background", "foreground", "workflow"},
             prompt : Prompts, surface : BOOLEAN]

Blank == [parent |-> CHOOSE s \in Roots : TRUE, spawner |-> CHOOSE s \in Roots : TRUE,
          owner |-> Task, kind |-> "background", prompt |-> CHOOSE p \in Prompts : TRUE,
          surface |-> FALSE]

\* What the coordinator holds of a spawn caller's one-shot sender: nothing,
\* a sender whose receiver lives, or one whose receiver was dropped.
Replies == {"none", "open", "closed"}

Channels == {"inline", "waiter", "surface"}

Reports == [id : Ids, cancelled : BOOLEAN, owed : BOOLEAN,
            to : SUBSET Channels]

\* Per-child fields speak of live children; a finished one keeps its place in
\* `completed' and what later steps can still observe of it.
States ==
  [queued : SUBSET Ids, pending : SUBSET Ids, active : SUBSET Ids,
   completed : SUBSET Ids,
   req : [Ids -> Requests],
   reply : [Ids -> Replies],
   handleOnly : SUBSET Ids,           \* caller handed off, or never waits
   deadline : SUBSET Ids,             \* an armed foreground deadline
   killed : SUBSET Ids,               \* explicitly_killed
   cancelled : SUBSET Ids,            \* cancel_token.is_cancelled()
   at : [Ids -> Nat], clock : Nat,    \* stamps that order the queue
   age : [Ids -> Nat],                \* completions since this one
   waiters : [Ids -> SUBSET Clients],
   cancelWaiters : [Runs -> SUBSET Clients],
   gone : SUBSET Clients,             \* clients that dropped their receiver
   blocked : SUBSET Sessions,         \* spawn_blocked_sessions
   buffer : SUBSET [id : Ids, parent : Sessions, age : Nat, tornDown : BOOLEAN],
   mode : {"running", "closed", "exited", "dropped"},
   \* Output of the step: what on_completed was told, and where the result went.
   report : SUBSET Reports,
   \* History, read by the properties and by who may call:
   born : SUBSET Ids,                 \* children that were promoted to active
   root : [Ids -> Sessions],          \* root of the chain of spawners
   tornDown : SUBSET Ids]             \* children of a session at its teardown

VARIABLE co
vars == <<co>>

Live(st) == st.queued \cup st.pending \cup st.active
IsWorkflow(st, i) == st.req[i].owner # Task

\* The element of a singleton.  The({F(s) : s \in {e}}) is F(e); written so where
\* handlers chain, since TLC then computes the intermediate state once.
The(S) == CHOOSE x \in S : TRUE

Set(f, S, v) == [i \in Ids |-> IF i \in S THEN v ELSE f[i]]

(***************************************************************************)
(* Admission and counting.                                                 *)
(***************************************************************************)
Running(st, s) ==
  {i \in st.pending \cup st.active : st.req[i].parent = s /\ st.req[i].owner = Task}

HasCapacityOffByOne(n) == n <= MaxConcurrent

HasCapacity(n) == n < MaxConcurrent

WorkflowOutstanding(st, r) == {i \in st.pending \cup st.active : st.req[i].owner = r}

\* belongs_to_session: an unbound backend (scope = "any") sees every session.
Belongs(st, i, scope) == scope = "any" \/ st.req[i].parent = scope

\* The scopes a command is issued with.  One that no live child or buffered
\* completion belongs to changes nothing, which is the command Read.
Scopes == {"any"} \cup {co.req[i].parent : i \in Live(co)} \cup {b.parent : b \in co.buffer}

(***************************************************************************)
(* finish_child up to its sweep, for every id of S at once: waiters and the*)
(* spawn caller are answered, the completion buffered, the record kept, the*)
(* cancel waiters of a drained workflow run released.  S is one finished   *)
(* child, or the queued spawns a single remove_queued resolves in order.   *)
(***************************************************************************)
BackgroundedIgnoresClosedCaller(st, i) == i \in st.handleOnly

\* handle_only once the send to the caller has been tried.
BackgroundedAtEnd(st, i) == i \in st.handleOnly \/ st.reply[i] # "open"

\* A waiter that still listens took the result.
Heard(st, i) == st.waiters[i] \ st.gone # {}

\* should_surface, and the other places a result goes.
Destinations(st, i, owed) ==
  {ch \in Channels :
     \/ ch = "inline" /\ i \notin st.handleOnly /\ st.reply[i] = "open"
     \/ ch = "waiter" /\ Heard(st, i)
     \/ ch = "surface" /\ owed /\ BackgroundedAtEnd(st, i) /\ ~Heard(st, i)}

ResolveNoCancelWaiter(st, S, running) == st.cancelWaiters

\* resolve_workflow_cancel_waiters for the runs of S, once none of their
\* children is left in `running'.
ResolveCancelWaiters(st, S, running) ==
  [r \in Runs |-> IF (\E i \in S : st.req[i].owner = r)
                     /\ (\A i \in running : st.req[i].owner # r)
                  THEN {} ELSE st.cancelWaiters[r]]

AnswerWaiters(st, S) == Set(st.waiters, S, {})

\* Entries of T behind i: they complete after it in the same handler.
Behind(st, i, T) == Cardinality({j \in T : st.at[j] > st.at[i]})

Aged(st, S) ==
  [i \in Ids |-> IF i \in S THEN Behind(st, i, S) ELSE st.age[i] + Cardinality(S)]

\* pending_completions: what a detached task-owned child leaves for its parent,
\* the oldest entries making room.
Buffered(st, S) ==
  LET kept == {i \in S : BufferCompletions /\ st.req[i].surface /\ st.req[i].owner = Task}
      older == {[b EXCEPT !.age = @ + Cardinality(kept)] : b \in st.buffer}
      new == {[id |-> i, parent |-> st.req[i].parent, age |-> Behind(st, i, kept),
               tornDown |-> i \in st.tornDown] : i \in kept}
  IN {b \in older \cup new : b.age < BufferCap}

Report(st, i, resultCancelled) ==
  LET owed == st.req[i].surface /\ ~resultCancelled /\ i \notin st.killed
  IN [id |-> i, cancelled |-> resultCancelled, owed |-> owed,
      to |-> Destinations(st, i, owed)]

Complete(st, S, resultCancelled) ==
  [st EXCEPT
     !.queued = @ \ S, !.pending = @ \ S, !.active = @ \ S,
     !.completed = @ \cup S,
     !.age = Aged(st, S),
     !.at = Set(@, S, 0),
     !.waiters = AnswerWaiters(st, S),
     !.gone = @ \ UNION {st.waiters[i] : i \in S},
     !.reply = Set(@, S, "none"),
     !.handleOnly = @ \ S, !.deadline = @ \ S, !.killed = @ \ S, !.cancelled = @ \ S,
     !.tornDown = @ \ S,
     !.buffer = Buffered(st, S),
     !.cancelWaiters = ResolveCancelWaiters(st, S, (st.pending \cup st.active) \ S),
     !.report = @ \cup {Report(st, i, resultCancelled) : i \in S}]

\* finish_cancelled_queued: the caller and the waiters of a spawn cancelled while
\* parked resolve, and the id stays queryable as a cancelled record.
FinishCancelledQueued(st, S) == Complete(st, S, TRUE)

StartDequeuedBlocking(st, S) ==
  [st EXCEPT !.queued = @ \ S, !.pending = @ \cup S, !.at = Set(@, S, 0)]

\* start_child for spawns that leave the queue.  A caller that was handed off
\* while queued left no reply, which makes the child handle-only.
StartDequeued(st, S) ==
  [st EXCEPT !.queued = @ \ S,
             !.pending = @ \cup S,
             !.handleOnly = @ \cup {i \in S : st.reply[i] = "none"},
             !.at = Set(@, S, 0)]

WithinCapacityAnyOrder(st) ==
  {i \in st.queued \ st.cancelled :
     /\ HasCapacity(Cardinality(Running(st, st.req[i].parent)))
     /\ \A j \in st.queued \ st.cancelled :
          st.req[j].parent = st.req[i].parent => st.at[j] <= st.at[i]}

\* start_queued_within_capacity.  The loop starts an entry when its session
\* still has a slot after the entries ahead of it: the first (limit - running)
\* live entries of each session.  Entries cancelled while parked are resolved
\* after the loop; the latch makes the sweep inside that a no-op.
WithinCapacity(st) ==
  LET waiting == st.queued \ st.cancelled
      ahead(i) == {j \in waiting : st.at[j] < st.at[i]
                                   /\ st.req[j].parent = st.req[i].parent}
  IN {i \in waiting :
        HasCapacity(Cardinality(Running(st, st.req[i].parent)) + Cardinality(ahead(i)))}

\* The same loop, entry by entry: visited[T] is the state after the entries T of
\* the queue.  Running children are counted anew for each entry.
SweepLoop(st) ==
  LET visited[T \in SUBSET st.queued] ==
        IF T = {} THEN st
        ELSE LET i == CHOOSE x \in T : \A y \in T : st.at[y] <= st.at[x]
                 s == visited[T \ {i}]
             IN IF i \notin s.cancelled /\ HasCapacity(Cardinality(Running(s, s.req[i].parent)))
                THEN StartDequeued(s, {i}) ELSE s
  IN visited[st.queued]

StartQueuedWithinCapacity(st) ==
  LET dead == st.queued \cap st.cancelled
  IN The({FinishCancelledQueued(s, dead) : s \in {StartDequeued(st, WithinCapacity(st))}})

FinishChildWithoutSweep(st, i, resultCancelled) == Complete(st, {i}, resultCancelled)

FinishChild(st, i, resultCancelled) ==
  The({StartQueuedWithinCapacity(s) : s \in {Complete(st, {i}, resultCancelled)}})

\* remove_queued: every removed entry goes through finish_child, whose sweep
\* finds nothing more to do after the first; none runs when none is removed.
RemoveQueued(st, S) ==
  IF S = {} THEN st
  ELSE The({StartQueuedWithinCapacity(s) : s \in {FinishCancelledQueued(st, S)}})

\* The eviction that ends every turn of the loop.  Here the fields of finished
\* children, and stamps no queued entry needs, return to their first values.
Evict(st) ==
  LET kept == {i \in st.completed : st.age[i] < CompletedCap}
  IN [st EXCEPT !.completed = kept,
                !.age = [i \in Ids |-> IF i \in kept THEN @[i] ELSE 0],
                !.req = [i \in Ids |-> IF i \in Live(st) THEN @[i] ELSE Blank],
                !.clock = IF st.queued = {} THEN 0 ELSE @]

(***************************************************************************)
(* reap_abandoned_callers, run before every command and every timer: a     *)
(* child whose caller dropped its receiver stops blocking the turn (a      *)
(* workflow child is cancelled instead), a queued one stays queued without *)
(* a caller, and queued spawns whose token was cancelled are resolved.     *)
(***************************************************************************)
Reap(st) ==
  LET abandoned == {i \in st.pending \cup st.active :
                      i \notin st.handleOnly /\ st.reply[i] = "closed"}
      tasks == {i \in abandoned : ~IsWorkflow(st, i)}
      parked == {i \in st.queued : st.reply[i] = "closed"}
      swept == [st EXCEPT !.reply = Set(@, abandoned \cup parked, "none"),
                          !.handleOnly = @ \cup tasks,
                          !.deadline = @ \ (tasks \cup parked),
                          !.cancelled = @ \cup (abandoned \ tasks)]
  IN The({RemoveQueued(s, s.queued \cap s.cancelled) : s \in {swept}})

ProcessDeadlinesSkipsQueued(r, due, late) ==
  LET D == (due \cap r.deadline) \ r.queued
  IN [r EXCEPT !.reply = Set(@, D, "none"), !.handleOnly = @ \cup D,
               !.deadline = @ \ D,
               !.waiters = [i \in Ids |-> @[i] \ late], !.gone = @ \ late]

ProcessDeadlinesSkipsWaiters(r, due, late) ==
  LET D == due \cap r.deadline
  IN [r EXCEPT !.reply = Set(@, D, "none"), !.handleOnly = @ \cup (D \ r.queued),
               !.deadline = @ \ D]

\* process_deadlines after its reap: the callers in `due' are handed off (the child runs on,
\* the queued spawn stays queued) and the clients in `late' get a snapshot.
ProcessDeadlines(r, due, late) ==
  LET D == due \cap r.deadline
  IN [r EXCEPT !.reply = Set(@, D, "none"),
               !.handleOnly = @ \cup (D \ r.queued),
               !.deadline = @ \ D,
               !.waiters = [i \in Ids |-> @[i] \ late],
               !.gone = @ \ late]

(***************************************************************************)
(* Spawn.                                                                  *)
(***************************************************************************)
\* reparent_nested_spawn: a spawn issued by a child that is active is keyed to
\* that child's own parent, never surfaces, and inherits a workflow owner.
Reparent(st, q) ==
  IF q.spawner \in st.active
  THEN [q EXCEPT !.parent = st.req[q.spawner].parent,
                 !.surface = FALSE,
                 !.owner = IF @ = Task THEN st.req[q.spawner].owner ELSE @]
  ELSE q

SpawnerTornDown(st, q) == q.spawner \in st.active \cap st.cancelled

Known(st, i) == i \in Live(st) \cup st.completed

\* The record of a fresh request, before it is placed anywhere.
Admit(st, i, q) ==
  [st EXCEPT !.req[i] = q,
             !.reply[i] = "open",
             !.handleOnly = IF q.kind = "background" THEN @ \cup {i} ELSE @ \ {i},
             !.deadline = IF q.kind = "foreground" THEN @ \cup {i} ELSE @ \ {i},
             !.root[i] = IF q.spawner \in Ids THEN st.root[q.spawner] ELSE q.spawner,
             !.born = @ \ {i}]

RefusedExceptDuplicates(st, i, request) ==
  LET q == Reparent(st, request)
  IN SpawnerTornDown(st, request) \/ (q.owner = Task /\ q.parent \in st.blocked)

RefusedExceptStop(st, i, request) == SpawnerTornDown(st, request) \/ Known(st, i)

\* The refusals that leave no record: the spawner is being torn down, the
\* session was stopped, or the id is taken.
Refused(st, i, request) ==
  LET q == Reparent(st, request)
  IN \/ SpawnerTornDown(st, request)
     \/ q.owner = Task /\ q.parent \in st.blocked
     \/ Known(st, i)

HandleSpawn(st, i, request) ==
  LET q == Reparent(st, request)
      new == Admit(st, i, q)
  IN IF Refused(st, i, request)
     THEN st
     ELSE IF q.owner # Task \/ HasCapacity(Cardinality(Running(st, q.parent)))
     THEN [new EXCEPT !.pending = @ \cup {i}]
     ELSE IF QueueAtLimit
     THEN [new EXCEPT !.queued = @ \cup {i}, !.at[i] = st.clock + 1, !.clock = @ + 1]
     ELSE FinishChild([new EXCEPT !.pending = @ \cup {i}, !.deadline = @ \ {i}], i, FALSE)

(***************************************************************************)
(* Cancellation and teardown.                                              *)
(***************************************************************************)
\* Cancel the running children of S and resolve the queued ones.
CancelAll(st, S) ==
  RemoveQueued([st EXCEPT !.cancelled = @ \cup (S \cap (st.pending \cup st.active))],
               S \cap st.queued)

CancelOne(st, i, scope) ==
  IF i \in Live(st) /\ Belongs(st, i, scope)
  THEN CancelAll([st EXCEPT !.killed = @ \cup ({i} \cap (st.pending \cup st.active))], {i})
  ELSE st

CancelParentPrompt(st, p, scope) ==
  CancelAll(st, {i \in Live(st) : st.req[i].prompt = p /\ Belongs(st, i, scope)})

CancelParentSessionWildcard(st, s) ==
  CancelAll([st EXCEPT !.blocked = @ \cup {s, "any"}],
            {i \in Live(st) : st.req[i].parent = s /\ ~IsWorkflow(st, i)})

CancelParentSession(st, s) ==
  CancelAll([st EXCEPT !.blocked = @ \cup {s}],
            {i \in Live(st) : st.req[i].parent = s /\ ~IsWorkflow(st, i)})

CancelWorkflowRun(st, r, c, scope) ==
  LET children == {i \in WorkflowOutstanding(st, r) : Belongs(st, i, scope)}
      after == [st EXCEPT !.cancelled = @ \cup children]
  IN IF WorkflowOutstanding(st, r) = {} THEN after
     ELSE [after EXCEPT !.cancelWaiters[r] = @ \cup {c}]

TeardownSessionKeepsSurface(st, s) ==
  LET children == {i \in Live(st) : st.req[i].parent = s}
  IN CancelAll([st EXCEPT !.buffer = {b \in @ : b.parent # s}, !.blocked = @ \ {s},
                          !.tornDown = @ \cup children], children)

TeardownSession(st, s) ==
  LET children == {i \in Live(st) : st.req[i].parent = s}
  IN CancelAll([st EXCEPT
                  !.buffer = {b \in @ : b.parent # s},
                  !.blocked = @ \ {s},
                  !.req = [i \in Ids |-> IF i \in children
                             THEN [@[i] EXCEPT !.surface = FALSE] ELSE @[i]],
                  !.tornDown = @ \cup children],
               children)

\* A blocking query parks a waiter on a live child of its scope; anything else
\* (finished, unknown, foreign or workflow-owned) is answered at once.
HandleQuery(st, c, i, scope) ==
  IF i \in Live(st) /\ Belongs(st, i, scope) /\ ~IsWorkflow(st, i)
  THEN [st EXCEPT !.waiters[i] = @ \cup {c}]
  ELSE st

DrainCompletions(st, scope) ==
  [st EXCEPT !.buffer = {b \in @ : scope # "any" /\ b.parent # scope}]

(***************************************************************************)
(* The actor's steps.  Commands arrive in any order.  Every step starts with*)
(* an empty report.                                                        *)
(***************************************************************************)
InitState ==
  [queued |-> {}, pending |-> {}, active |-> {}, completed |-> {},
   req |-> [i \in Ids |-> Blank], reply |-> [i \in Ids |-> "none"],
   handleOnly |-> {}, deadline |-> {}, killed |-> {}, cancelled |-> {},
   at |-> [i \in Ids |-> 0], clock |-> 0, age |-> [i \in Ids |-> 0],
   waiters |-> [i \in Ids |-> {}], cancelWaiters |-> [r \in Runs |-> {}],
   gone |-> {}, blocked |-> {}, buffer |-> {}, mode |-> "running",
   report |-> {}, born |-> {}, root |-> [i \in Ids |-> Blank.parent],
   tornDown |-> {}]

Init == co = InitState

fresh == [co EXCEPT !.report = {}]

Alive == co.mode \in {"running", "closed"}

\* The state after the reap that precedes a command or a timer, as a singleton.
Reaped == {Reap(fresh)}

\* commands.recv(): reap, then the command, then the eviction of the loop.
Command(handled) == co.mode = "running" /\ \E st \in handled : co' = Evict(st)

\* Who can issue a spawn: a root session; the workflow host, for a run; a child
\* that is active; or the detached task of a background spawn whose child
\* session has finished since (TaskTool, task/mod.rs:522-545).
Spawn(i, from, kind, owner, p) ==
  /\ co.clock < MaxClock
  /\ from \in Ids => from # i /\ (from \in co.active \/ (from \in co.born /\ kind = "background"))
  /\ kind = "workflow" <=> owner # Task
  /\ kind = "workflow" => from \in Roots
  /\ Command({HandleSpawn(r, i,
       [parent |-> from, spawner |-> from, owner |-> owner, kind |-> kind,
        prompt |-> p, surface |-> kind # "workflow"]) : r \in Reaped})

IdleClient(c) ==
  /\ \A i \in Ids : c \notin co.waiters[i]
  /\ \A r \in Runs : c \notin co.cancelWaiters[r]

Query(c, i, scope) == IdleClient(c) /\ Command({HandleQuery(r, c, i, scope) : r \in Reaped})
Cancel(i, scope) == Command({CancelOne(r, i, scope) : r \in Reaped})
CancelPrompt(p, scope) == Command({CancelParentPrompt(r, p, scope) : r \in Reaped})

\* The user stops a root session.  A child session stops its own children when the
\* coordinator has cancelled it (ShellChildRuntime::cancel), which may arrive late.
Stop(s) ==
  /\ s \in Ids => s \in co.born \ (co.active \ co.cancelled)
  /\ s \in co.blocked \/ Cardinality(co.blocked) < MaxStopped
  /\ Command({CancelParentSession(r, s) : r \in Reaped})

CancelRun(w, c, scope) ==
  IdleClient(c) /\ Command({CancelWorkflowRun(r, w, c, scope) : r \in Reaped})
Completions(scope) == Command({DrainCompletions(r, scope) : r \in Reaped})
Teardown(s) == Command({TeardownSession(r, s) : r \in Reaped})

\* A turn of the session begins.
OpenSpawnAdmission(s) ==
  /\ s \in Ids => s \in co.active
  /\ Command({[r EXCEPT !.blocked = @ \ {s}] : r \in Reaped})

\* Commands that only read: non-blocking queries, lists, counts, Outstanding,
\* Inspect, SpawnedRefs, LoopUnitActive.
Read == Command(Reaped)

\* InternalEvent::Started.  Cancellation wins: a cancelled child stays pending.
Started(i) ==
  /\ Alive /\ i \in co.pending \ co.cancelled
  /\ co' = [fresh EXCEPT !.pending = @ \ {i}, !.active = @ \cup {i}, !.born = @ \cup {i}]

\* A run future ends (a panic ends it with a failure).
Finish(i, resultCancelled) ==
  /\ Alive /\ i \in co.pending \cup co.active
  /\ resultCancelled => i \in co.cancelled
  /\ \E st \in {FinishChild(fresh, i, resultCancelled)} : co' = Evict(st)

\* The timer arm: some armed deadlines, or the queued-reap interval, are due.
Deadlines(due, late) ==
  /\ Alive
  /\ due \cup late # {} \/ co.queued # {}
  /\ \E st \in {ProcessDeadlines(r, due, late) : r \in Reaped} : co' = Evict(st)

CloseCommands == co.mode = "running" /\ co' = [fresh EXCEPT !.mode = "closed"]

ExitIgnoresRuns ==
  co.mode = "closed" /\ co' = [fresh EXCEPT !.mode = "exited"]

\* run() returns when the mailbox is closed and no run future is left.
Exit ==
  /\ co.mode = "closed" /\ co.pending \cup co.active = {}
  /\ co' = [fresh EXCEPT !.mode = "exited"]

\* The actor future is dropped: queued callers are answered, every token is
\* cancelled, and the maps and the other senders go with the actor.
Drop ==
  /\ Alive
  /\ co' = [InitState EXCEPT !.mode = "dropped", !.cancelled = co.cancelled \cup Live(co)]

(***************************************************************************)
(* The parties around the actor.                                           *)
(***************************************************************************)
\* An out-of-band token cancel (a tool call's cancellation forwarder).
CancelToken(i) ==
  /\ Alive /\ i \in Live(co) \ co.cancelled
  /\ co' = [fresh EXCEPT !.cancelled = @ \cup {i}]

\* The spawn caller drops its receiver; ChannelBackend's guard then cancels
\* the token of a spawn that was issued workflow-owned.
DropCaller(i) ==
  /\ Alive /\ i \in Live(co) /\ co.reply[i] = "open"
  /\ co' = [fresh EXCEPT !.reply[i] = "closed",
                      !.cancelled = IF co.req[i].kind = "workflow" THEN @ \cup {i} ELSE @]

DropClient(c) ==
  /\ Alive /\ \E i \in Ids : c \in co.waiters[i] /\ c \notin co.gone
  /\ co' = [fresh EXCEPT !.gone = @ \cup {c}]

\* The process goes on without the actor.
Ended == ~Alive /\ UNCHANGED vars

CommandStep ==
  \/ \E i \in Ids, from \in Sessions, kind \in Kinds, owner \in Owners, p \in Prompts :
        Spawn(i, from, kind, owner, p)
  \/ \E c \in Clients, i \in Ids, scope \in Scopes : Query(c, i, scope)
  \/ \E i \in Ids, scope \in Scopes : Cancel(i, scope)
  \/ \E p \in Prompts, scope \in Scopes : CancelPrompt(p, scope)
  \/ \E s \in Sessions : Stop(s) \/ OpenSpawnAdmission(s)
  \/ \E s \in Roots : Teardown(s)
  \/ \E r \in Runs, c \in Clients, scope \in Scopes : CancelRun(r, c, scope)
  \/ \E scope \in Scopes : Completions(scope)
  \/ Read

Next ==
  \/ CommandStep
  \/ \E i \in Ids : Started(i) \/ CancelToken(i) \/ DropCaller(i)
  \/ \E i \in Ids, resultCancelled \in BOOLEAN : Finish(i, resultCancelled)
  \/ \E due \in SUBSET co.deadline, late \in SUBSET Clients : Deadlines(due, late)
  \/ \E c \in Clients : DropClient(c)
  \/ CloseCommands \/ Exit \/ Drop \/ Ended

Spec == Init /\ [][Next]_vars

(***************************************************************************)
(* Properties.                                                             *)
(***************************************************************************)
\* The actor's maps keep their types.
TypeOK == co \in States

\* The duplicate check of handle_spawn and the moves between the maps keep a
\* subagent id in at most one of queued, pending, active and completed.
OnePlace ==
  /\ co.queued \cap (co.pending \cup co.active \cup co.completed) = {}
  /\ co.pending \cap (co.active \cup co.completed) = {}
  /\ co.active \cap co.completed = {}

\* No session ever runs more task-owned children than its limit, whichever of
\* direct start, dequeue and nested reparenting put them there.
SessionLimit == \A s \in Sessions : Cardinality(Running(co, s)) <= MaxConcurrent

\* "queued non-empty means some session is at capacity" (coordinator.rs:135):
\* a spawn is parked only while its own session has every slot taken, so it
\* can never be left behind by a slot that was freed, and a workflow-owned
\* spawn never parks.
QueuedAtCapacity ==
  \A i \in co.queued :
    /\ co.req[i].owner = Task
    /\ Cardinality(Running(co, co.req[i].parent)) = MaxConcurrent

\* A blocking query waits only on a child that is still live, and a workflow
\* cancel only on a run that still has children: no waiter outlives what would
\* answer it.
NoStrandedWaiter ==
  /\ \A i \in Ids : co.waiters[i] # {} => i \in Live(co)
  /\ \A r \in Runs : co.cancelWaiters[r] # {} => WorkflowOutstanding(co, r) # {}

\* While a session is stopped, every task-owned child keyed to it is cancelled
\* and none waits in its queue.
StopHolds ==
  \A i \in Live(co) :
    co.req[i].parent \in co.blocked /\ ~IsWorkflow(co, i) =>
      i \in co.cancelled /\ i \notin co.queued

\* A task-owned child that counts as turn-blocking in Outstanding still has a
\* caller to block: the reaped, the handed-off and the dequeued-without-caller
\* have all left that set.
TurnBlockerHasCaller ==
  \A i \in co.pending \cup co.active :
    ~IsWorkflow(co, i) /\ i \notin co.handleOnly => co.reply[i] # "none"

\* A finished child's result goes to its caller, to a waiter, or to the parent
\* as a surfaced completion, and it is surfaced only when nobody else heard it.
ResultDelivered ==
  \A r \in co.report : /\ r.owed => r.to # {}
                       /\ "surface" \in r.to => r.owed /\ r.to = {"surface"}

\* A completion of a child that its session's teardown caught is not buffered
\* for a later resume of the same session id (coordinator.rs:819, 834).
TornDownNotBuffered == \A b \in co.buffer : ~b.tornDown

\* The exit assertion of run() and what it stands for: the loop ends with an
\* empty queue and with nobody waiting on it.
DrainedAtExit ==
  co.mode = "exited" =>
    /\ co.queued = {}
    /\ \A i \in Ids : co.waiters[i] = {} /\ co.reply[i] = "none"
    /\ \A r \in Runs : co.cancelWaiters[r] = {}

\* WithinCapacity states the sweep in closed form.  Whichever running children
\* end, in whatever state of the coordinator, and whichever parked entries have
\* their tokens cancelled meanwhile, it starts the entries that the loop of
\* start_queued_within_capacity starts, session by session and in order.
ClosedFormIsLoop ==
  \A ended \in SUBSET co.active, dead \in SUBSET co.queued :
    LET st == [co EXCEPT !.active = @ \ ended, !.cancelled = @ \cup dead]
    IN StartDequeued(st, WithinCapacity(st)) = SweepLoop(st)

\* No spawn starts ahead of an earlier one that waits for the same session:
\* neither a fresh spawn past the queue nor a later entry past an earlier one.
NoOvertaking ==
  [][\A i \in co'.pending \ co.pending, j \in co.queued \cap co'.queued :
        co'.req[i].parent = co.req[j].parent /\ co'.req[i].owner = Task
          => i \in co.queued /\ co.at[i] < co.at[j]]_vars

(***************************************************************************)
(* Liveness.  The timer arm fires for every armed deadline and for the     *)
(* queued-reap interval; a child that is not itself waiting for a          *)
(* foreground spawn (or was cancelled) ends its run.                       *)
(***************************************************************************)
NotAwaiting(i) ==
  \/ i \in co.cancelled
  \/ \A j \in Live(co) : ~(co.req[j].spawner = i /\ co.req[j].kind = "foreground"
                           /\ co.reply[j] = "open")

TimerFairness ==
  /\ WF_vars(Deadlines({}, {}))
  /\ \A i \in Ids : WF_vars(\E due \in SUBSET co.deadline : i \in due /\ Deadlines(due, {}))
  /\ \A c \in Clients :
       WF_vars((\E i \in Ids : c \in co.waiters[i]) /\ Deadlines({}, {c}))

ChildFairness ==
  \A i \in Ids : SF_vars(NotAwaiting(i) /\ \E rc \in BOOLEAN : Finish(i, rc))

TimedSpec == Spec /\ TimerFairness

\* A foreground caller is answered even if no child ever finishes: the await
\* budget runs from the enqueue and is enforced in the queue and out of it.
ForegroundAnswered ==
  \A i \in Ids :
    (i \in Live(co) /\ co.req[i].kind = "foreground" /\ co.reply[i] = "open")
      ~> (i \notin Live(co) \/ co.reply[i] # "open")

\* A blocking query is answered within its timeout, whatever the child does.
QueryAnswered ==
  \A i \in Ids, c \in Clients : c \in co.waiters[i] ~> c \notin co.waiters[i]

\* If children end their runs, every parked spawn leaves the queue, even when the
\* children that hold the slots are themselves blocked on spawns that are parked
\* behind them.
QueuedResolves == ChildFairness => \A i \in Ids : i \in co.queued ~> i \notin co.queued

(***************************************************************************)
(* A statement of the sources that the code does not keep.                 *)
(***************************************************************************)
\* coordinator.rs:66: non-workflow spawns are rejected after a Stop "so a
\* detached late TaskTool spawn cannot outrun Stop": while a root session is
\* stopped, no uncancelled task-owned child descends from it.
StopReachesDescendants ==
  \A i \in Live(co) :
    co.root[i] \in co.blocked /\ ~IsWorkflow(co, i) => i \in co.cancelled
=============================================================================
