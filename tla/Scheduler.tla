------------------------------- MODULE Scheduler -------------------------------
(***************************************************************************)
(* The actor that fires scheduled tasks, the writer that persists them, the*)
(* consumer of its notifications, and the coordinator its loop iterations  *)
(* run at.                                                                 *)
(*                                                                         *)
(* The actor is sequential but waits inside its handlers: for the writer,  *)
(* for the acknowledgement of a tombstone, for two answers of the          *)
(* coordinator.  `at' says where it waits, `job' holds the handler's locals.*)
(***************************************************************************)
EXTENDS Naturals, SequencesExt

CONSTANTS
  Ids,              \* tasks that may exist
  OneShots,         \* the ones that fire once: only restored from disk
  Durable,          \* the ones created durable
  Inline,           \* the ones that fire in the foreground
  BackgroundLoops,  \* SchedulerBackgroundLoops
  FreshEvery,       \* LOOP_FRESH_CHAIN_EVERY
  MaxRevision,      \* the largest revision (2^64 - 1 in the code)
  Nothing,
  MaxGeneration,    \* bound on the generations of the clock
  MaxRuns,          \* bound on the loop iterations spawned
  MaxQueue          \* bound on the commands waiting for the writer

ASSUME SchedulerAssumption ==
  /\ OneShots \subseteq Ids /\ Durable \subseteq Ids /\ Inline \subseteq Ids
  /\ IsFiniteSet(OneShots)
  /\ BackgroundLoops \in BOOLEAN
  /\ FreshEvery \in Nat \ {0} /\ MaxRevision \in Nat \ {0, 1}
  /\ MaxGeneration \in Nat /\ MaxRuns \in Nat /\ MaxQueue \in Nat

VARIABLES
  tasks,     \* SchedulerState.tasks
  due,       \* ids whose next_fire_at has passed
  expired,   \* ids whose expires_at has passed
  fresh,     \* ids not created yet
  blocked,   \* blocked_expiries
  clock,     \* SchedulerClock
  pending,   \* pending_removal
  at, job,   \* where the actor waits, and its locals
  stopping,  \* the cancellation token
  queue, draft, disk,   \* the writer: its channel, `pending', the state file
  target,    \* the consumer of acknowledged notifications is there
  shown,     \* ids a replay of the session's log shows
  deleted,   \* ids whose Delete returned Ok(true) (history)
  hub,       \* the coordinator is there
  chan,      \* its command channel
  runs       \* the loop iterations, in the order they were spawned

store == <<queue, draft, disk>>
coord == <<hub, chan, runs>>
times == <<due, expired, fresh>>
vars  == <<tasks, due, expired, fresh, blocked, clock, pending, at, job, stopping,
           queue, draft, disk, target, shown, deleted, hub, chan, runs>>

Task(i) == [id |-> i, anchor |-> 0, iters |-> 0, reset |-> FALSE, prompt |-> FALSE]

InBackground(i) == BackgroundLoops /\ i \notin Inline \cup OneShots

Held == {tasks[k].id : k \in DOMAIN tasks}

Named(seq, i) == \E k \in DOMAIN seq : seq[k].id = i

IndexOf(i) == CHOOSE k \in DOMAIN tasks : tasks[k].id = i

-----------------------------------------------------------------------------
(***************************************************************************)
(* SchedulerClock.  A reservation of count versions is consecutive in one  *)
(* generation; when the revisions run out it opens a new one.              *)
(***************************************************************************)
ReserveNoRollover(v, count) == [v EXCEPT !.rev = (@ + 1) % (MaxRevision + 1)]

Reserve(v, count) ==
  IF v.rev + count > MaxRevision THEN [gen |-> v.gen + 1, rev |-> 1]
  ELSE [v EXCEPT !.rev = @ + 1]

\* The k-th version of a reservation made at v.
VersionAt(v, count, k) == [Reserve(v, count) EXCEPT !.rev = @ + k - 1]

Room(count) == Reserve(clock, count).gen <= MaxGeneration

\* Commit the count transitions of a reservation made at version `source'.
Commit(source, count) == clock' = VersionAt(source, count, count)

\* Unacknowledged notifications reach the session's log while its consumer lives.
Announce(S) == shown' = IF target THEN shown \cup S ELSE shown
Retract(S)  == shown' = IF target THEN shown \ S ELSE shown

Idle == at' = "idle" /\ job' = Nothing

-----------------------------------------------------------------------------
(***************************************************************************)
(* Commands, handled when the actor is in its loop.                        *)
(***************************************************************************)
Ready == at = "idle" /\ ~stopping

CreateWhilePending(i) ==
  /\ Ready /\ i \in fresh /\ Room(1)
  /\ tasks' = Append(tasks, Task(i))
  /\ fresh' = fresh \ {i}
  /\ \E immediately \in BOOLEAN : due' = IF immediately THEN due \cup {i} ELSE due \ {i}
  /\ Commit(clock, 1)
  /\ Announce({i})
  /\ UNCHANGED <<expired, blocked, pending, at, job, stopping, target, deleted>>
  /\ UNCHANGED store /\ UNCHANGED coord

Create(i) ==
  /\ Ready /\ pending = Nothing /\ i \in fresh /\ Room(1)
  /\ tasks' = Append(tasks, Task(i))
  /\ fresh' = fresh \ {i}
  /\ \E immediately \in BOOLEAN : due' = IF immediately THEN due \cup {i} ELSE due \ {i}
  /\ Commit(clock, 1)
  /\ Announce({i})
  /\ UNCHANGED <<expired, blocked, pending, at, job, stopping, target, deleted>>
  /\ UNCHANGED store /\ UNCHANGED coord

UpdateKeepsChain(i, newPrompt, newInterval) ==
  /\ Ready /\ pending = Nothing /\ i \in Held /\ Room(1)
  /\ newPrompt \/ newInterval
  /\ tasks' = IF newPrompt /\ InBackground(i)
              THEN [tasks EXCEPT ![IndexOf(i)].prompt = ~@]
              ELSE tasks
  /\ due' = IF newInterval THEN due \ {i} ELSE due
  /\ Commit(clock, 1)
  /\ Announce({i})
  /\ UNCHANGED <<expired, fresh, blocked, pending, at, job, stopping, target, deleted>>
  /\ UNCHANGED store /\ UNCHANGED coord

\* The task with a new prompt.
Reworded(t) == [t EXCEPT !.prompt = ~@, !.reset = TRUE, !.iters = 0]

\* A new prompt keeps the anchor but starts a fresh chain; a new interval
\* never makes the task due at once.  The prompt of a task that never runs as
\* a loop is left out.
Update(i, newPrompt, newInterval) ==
  /\ Ready /\ pending = Nothing /\ i \in Held /\ Room(1)
  /\ newPrompt \/ newInterval
  /\ tasks' = IF newPrompt /\ InBackground(i)
              THEN [tasks EXCEPT ![IndexOf(i)] = Reworded(@)]
              ELSE tasks
  /\ due' = IF newInterval THEN due \ {i} ELSE due
  /\ Commit(clock, 1)
  /\ Announce({i})
  /\ UNCHANGED <<expired, fresh, blocked, pending, at, job, stopping, target, deleted>>
  /\ UNCHANGED store /\ UNCHANGED coord

\* enqueue_save_and_flush and wait for its acknowledgement.
SaveAndFlush(snapshot, locals) ==
  /\ queue' = Append(queue, [snapshot |-> snapshot, flush |-> TRUE, mine |-> TRUE])
  /\ at' = "save" /\ job' = locals
  /\ UNCHANGED <<draft, disk>>

\* Delete, and the retry of a Delete whose removal is still pending.
Delete(i) ==
  /\ Ready /\ Len(queue) < MaxQueue
  /\ IF pending = Nothing
     THEN /\ i \in Held /\ target /\ Room(1)
          /\ tasks' = RemoveAt(tasks, IndexOf(i)) /\ due' = due \ {i}
          /\ pending' = [task |-> i, source |-> clock]
     ELSE /\ pending.task = i /\ target
          /\ UNCHANGED <<tasks, due, pending>>
  /\ SaveAndFlush(tasks', [kind |-> "delete", task |-> i, answer |-> "wait"])
  /\ UNCHANGED <<clock, expired, fresh, blocked, stopping, target, shown, deleted>>
  /\ UNCHANGED coord

\* Without a consumer the pending removal is given up.
AbandonRemoval ==
  /\ Ready /\ pending # Nothing /\ ~target
  /\ pending' = Nothing
  /\ UNCHANGED <<clock, tasks, blocked, at, job, stopping, target, shown, deleted>>
  /\ UNCHANGED times /\ UNCHANGED store /\ UNCHANGED coord

-----------------------------------------------------------------------------
(***************************************************************************)
(* fire_next_task.                                                         *)
(***************************************************************************)
Eligible(k) == tasks[k].id \in due \ blocked

First(k) == k \in DOMAIN tasks /\ Eligible(k) /\ \A l \in 1..(k - 1) : ~Eligible(l)

Firing(k) == Ready /\ pending = Nothing /\ First(k)

Expiring(k) == tasks[k].id \in expired \ OneShots

ExpireDurableKeepsTask(k) ==
  /\ Firing(k) /\ Expiring(k) /\ tasks[k].id \in Durable /\ target
  /\ Len(queue) < MaxQueue /\ Room(1)
  /\ due' = due \ {tasks[k].id}
  /\ SaveAndFlush(RemoveAt(tasks, k),
       [kind |-> "expiry", task |-> tasks[k].id, held |-> tasks[k],
        index |-> k, source |-> clock, answer |-> "wait"])
  /\ UNCHANGED <<tasks, blocked, clock, expired, fresh, pending, stopping, target, shown, deleted>>
  /\ UNCHANGED coord

ExpireDurable(k) ==
  /\ Firing(k) /\ Expiring(k) /\ tasks[k].id \in Durable
  /\ Len(queue) < MaxQueue /\ Room(1)
  /\ IF target
     THEN /\ tasks' = RemoveAt(tasks, k) /\ due' = due \ {tasks[k].id}
          /\ SaveAndFlush(tasks', [kind |-> "expiry", task |-> tasks[k].id, held |-> tasks[k],
                                   index |-> k, source |-> clock, answer |-> "wait"])
          /\ UNCHANGED blocked
     ELSE /\ blocked' = blocked \cup {tasks[k].id}
          /\ UNCHANGED <<tasks, due, at, job>> /\ UNCHANGED store
  /\ UNCHANGED <<clock, expired, fresh, pending, stopping, target, shown, deleted>>
  /\ UNCHANGED coord

ExpirePlain(k) ==
  /\ Firing(k) /\ Expiring(k) /\ tasks[k].id \notin Durable /\ Room(1)
  /\ tasks' = RemoveAt(tasks, k) /\ due' = due \ {tasks[k].id}
  /\ Commit(clock, 1)
  /\ Retract({tasks[k].id})
  /\ UNCHANGED <<expired, fresh, blocked, pending, at, job, stopping, target, deleted>>
  /\ UNCHANGED store /\ UNCHANGED coord

FireInline(k) ==
  /\ Firing(k) /\ ~Expiring(k) /\ ~InBackground(tasks[k].id) /\ Room(2)
  /\ due' = due \ {tasks[k].id}
  /\ IF tasks[k].id \in OneShots
     THEN /\ tasks' = RemoveAt(tasks, k)
          /\ Commit(clock, 2)
          /\ Retract({tasks[k].id})
     ELSE /\ Commit(clock, 1)
          /\ UNCHANGED <<tasks, shown>>
  /\ UNCHANGED <<expired, fresh, blocked, pending, at, job, stopping, target, deleted>>
  /\ UNCHANGED store /\ UNCHANGED coord

\* The reply to the actor's own message, if it is in the channel, has no other reader.
Questions == {k \in DOMAIN chan : chan[k].kind \in {"query", "unit"}}
Withdraw == IF Questions = {} THEN chan ELSE RemoveAt(chan, CHOOSE k \in Questions : TRUE)

\* fire_as_loop_subagent: ask about the previous iteration, if there is one.
FireLoop(k) ==
  /\ Firing(k) /\ ~Expiring(k) /\ InBackground(tasks[k].id)
  /\ Room(1) /\ Len(runs) < MaxRuns
  /\ due' = due \ {tasks[k].id}
  /\ job' = [kind |-> "loop", held |-> tasks[k], source |-> clock, previous |-> "none",
             answer |-> IF tasks[k].anchor = 0 THEN "inactive"
                        ELSE IF hub THEN "wait" ELSE "lost"]
  /\ at' = IF tasks[k].anchor = 0 THEN "unit" ELSE "query"
  /\ chan' = IF tasks[k].anchor # 0 /\ hub
             THEN Append(chan, [kind |-> "query", run |-> tasks[k].anchor]) ELSE chan
  /\ UNCHANGED <<clock, tasks, expired, fresh, blocked, pending, stopping, target, shown, deleted, hub, runs>>
  /\ UNCHANGED store

AskUnitSkipped ==
  /\ at = "query" /\ job.answer \in {"ok", "failed", "none"}
  /\ at' = "unit"
  /\ job' = [job EXCEPT !.previous = job.answer, !.answer = "inactive"]
  /\ UNCHANGED chan
  /\ UNCHANGED <<clock, tasks, blocked, pending, stopping, target, shown, deleted, hub, runs>>
  /\ UNCHANGED times /\ UNCHANGED store

\* The previous iteration is over: is any member of its unit still running?
AskUnit ==
  /\ at = "query" /\ job.answer \in {"ok", "failed", "none"}
  /\ at' = "unit"
  /\ job' = [job EXCEPT !.previous = job.answer, !.answer = IF hub THEN "wait" ELSE "lost"]
  /\ chan' = IF hub THEN Append(chan, [kind |-> "unit", task |-> job.held.id]) ELSE chan
  /\ UNCHANGED <<clock, tasks, blocked, pending, stopping, target, shown, deleted, hub, runs>>
  /\ UNCHANGED times /\ UNCHANGED store

\* Skipped: an answer that forbids the fire, no answer in time, or shutdown.
Skip ==
  /\ at \in {"query", "unit"}
  /\ (job.answer \in {"running", "active", "lost", "wait"} \/ stopping)
  /\ chan' = Withdraw
  /\ Announce({job.held.id} \cap Held)
  /\ Idle
  /\ UNCHANGED <<clock, tasks, blocked, pending, stopping, target, deleted, hub, runs>>
  /\ UNCHANGED times /\ UNCHANGED store

Resumes ==
  /\ ~job.held.reset /\ job.held.iters < FreshEvery
  /\ job.previous = "ok" /\ job.held.anchor # 0

AdvancedLate(t) == [t EXCEPT !.reset = FALSE]

AdvancedUncounted(t) == [t EXCEPT !.anchor = Len(runs) + 1, !.reset = FALSE,
                                  !.iters = IF Resumes THEN job.held.iters ELSE 1]

\* The task once its iteration is on its way.
Advanced(t) == [t EXCEPT !.anchor = Len(runs) + 1, !.reset = FALSE,
                         !.iters = IF Resumes THEN job.held.iters + 1 ELSE 1]

\* The anchor moves before the request is sent; a send that fails restores it
\* and the fire becomes a foreground one.
Spawn ==
  /\ at = "unit" /\ job.answer = "inactive" /\ job.held.id \in Held
  /\ LET k == IndexOf(job.held.id) IN
     IF hub
     THEN /\ tasks' = [tasks EXCEPT ![k] = Advanced(@)]
          /\ runs' = Append(runs,
               [task |-> job.held.id, state |-> "sent", brood |-> "none", error |-> FALSE,
                watch |-> FALSE, prompt |-> job.held.prompt, from |-> IF Resumes THEN job.held.anchor ELSE 0])
          /\ chan' = Append(chan, [kind |-> "spawn", run |-> Len(runs) + 1])
     ELSE /\ tasks' = [tasks EXCEPT ![k] = [@ EXCEPT !.anchor = job.held.anchor,
                        !.iters = job.held.iters, !.reset = job.held.reset]]
          /\ UNCHANGED <<runs, chan>>
  /\ Commit(job.source, 1)
  /\ Idle
  /\ UNCHANGED <<blocked, pending, stopping, target, shown, deleted, hub>>
  /\ UNCHANGED times /\ UNCHANGED store

-----------------------------------------------------------------------------
(***************************************************************************)
(* Durable removals: the state file first, then the tombstone, then the    *)
(* version.  Giving up stands for a timeout, a cancellation or an error.   *)
(***************************************************************************)
Forget == queue' = [k \in DOMAIN queue |-> [queue[k] EXCEPT !.mine = FALSE]]

Saved ==
  /\ at = "save" /\ job.answer = "saved"
  /\ at' = "tombstone" /\ UNCHANGED job
  /\ UNCHANGED <<clock, tasks, blocked, pending, stopping, target, shown, deleted>>
  /\ UNCHANGED times /\ UNCHANGED store /\ UNCHANGED coord

\* The writer reported an error: a pending removal stays pending, an expired
\* task comes back and is not tried again.
SaveFailed ==
  /\ at = "save" /\ job.answer = "error"
  /\ IF job.kind = "expiry"
     THEN /\ tasks' = InsertAt(tasks, job.index, job.held)
          /\ blocked' = blocked \cup {job.task} /\ due' = due \cup {job.task}
     ELSE UNCHANGED <<tasks, due, blocked>>
  /\ Idle
  /\ UNCHANGED <<clock, expired, fresh, pending, stopping, target, shown, deleted>>
  /\ UNCHANGED store /\ UNCHANGED coord

\* No report in time: the writer may still write the snapshot.
SaveUnknown ==
  /\ at = "save" /\ job.answer = "wait"
  /\ Forget /\ Idle
  /\ UNCHANGED <<clock, tasks, blocked, pending, stopping, target, shown, deleted, draft, disk>>
  /\ UNCHANGED times /\ UNCHANGED coord

Acknowledged ==
  /\ at = "tombstone" /\ target
  /\ shown' = shown \ {job.task}
  /\ IF job.kind = "delete"
     THEN /\ Commit(pending.source, 1)
          /\ pending' = Nothing /\ deleted' = deleted \cup {job.task}
     ELSE Commit(job.source, 1) /\ UNCHANGED <<pending, deleted>>
  /\ Idle
  /\ UNCHANGED <<tasks, blocked, stopping, target>>
  /\ UNCHANGED times /\ UNCHANGED store /\ UNCHANGED coord

\* The append failed, or its acknowledgement was lost after it landed.
Unacknowledged ==
  /\ at = "tombstone"
  /\ \E landed \in BOOLEAN : shown' = IF landed /\ target THEN shown \ {job.task} ELSE shown
  /\ Idle
  /\ UNCHANGED <<clock, tasks, blocked, pending, stopping, target, deleted>>
  /\ UNCHANGED times /\ UNCHANGED store /\ UNCHANGED coord

-----------------------------------------------------------------------------
(***************************************************************************)
(* ResourcesPersistence: save() of any tool, and the writer.               *)
(***************************************************************************)
Save ==
  /\ Len(queue) < MaxQueue
  /\ queue' = Append(queue, [snapshot |-> tasks, flush |-> FALSE, mine |-> FALSE])
  /\ UNCHANGED <<draft, disk>>

TakeSave ==
  /\ queue # <<>> /\ ~Head(queue).flush
  /\ draft' = {Head(queue).snapshot} /\ queue' = Tail(queue)
  /\ UNCHANGED disk

Report(answer) ==
  IF Head(queue).mine THEN job' = [job EXCEPT !.answer = answer] ELSE UNCHANGED job

TakeFlushKeepsDraft(renamed, synced) ==
  /\ queue # <<>> /\ Head(queue).flush
  /\ synced => renamed
  /\ queue' = Tail(queue) /\ UNCHANGED draft
  /\ disk' = IF renamed THEN Head(queue).snapshot ELSE disk
  /\ Report(IF synced THEN "saved" ELSE "error")

\* write_json_durable: an error may be reported after the rename.
TakeFlush(renamed, synced) ==
  /\ queue # <<>> /\ Head(queue).flush
  /\ synced => renamed
  /\ draft' = {} /\ queue' = Tail(queue)
  /\ disk' = IF renamed THEN Head(queue).snapshot ELSE disk
  /\ Report(IF synced THEN "saved" ELSE "error")

\* The debounce tick; a write that fails drops the draft.
Debounce ==
  /\ draft # {} /\ draft' = {}
  /\ \E written \in BOOLEAN : disk' = IF written THEN CHOOSE s \in draft : TRUE ELSE disk
  /\ UNCHANGED queue

Writer ==
  /\ \/ (Save \/ TakeSave \/ Debounce) /\ UNCHANGED job
     \/ \E renamed, synced \in BOOLEAN : TakeFlush(renamed, synced)
  /\ UNCHANGED <<clock, tasks, blocked, pending, at, stopping, target, shown, deleted>>
  /\ UNCHANGED times /\ UNCHANGED coord

-----------------------------------------------------------------------------
(***************************************************************************)
(* The coordinator as the scheduler sees it: commands in order, iterations *)
(* that may spawn a background child of their own, results at their end.   *)
(***************************************************************************)
Msg(kind) == chan # <<>> /\ Head(chan).kind = kind

Running(n) == runs[n].state \in {"sent", "live"}

UnitActive(i) == \E n \in DOMAIN runs :
  runs[n].task = i /\ (runs[n].state = "live" \/ runs[n].brood = "marked")

\* The state a run is in, and whether the watcher of its spawn has an error to see.
Outcome(run, s, failed) == [run EXCEPT !.state = s, !.error = failed, !.watch = failed]

Admit ==
  /\ Msg("spawn") /\ chan' = Tail(chan)
  /\ \E refused \in BOOLEAN : runs' =
       [runs EXCEPT ![Head(chan).run] = Outcome(@, IF refused THEN "failed" ELSE "live", refused)]
  /\ UNCHANGED job

\* reparent_nested_spawn marks a child only while its spawner is active.
TakeNested ==
  /\ Msg("nest") /\ chan' = Tail(chan)
  /\ runs' = [runs EXCEPT ![Head(chan).run].brood =
               IF runs[Head(chan).run].state = "live" THEN "marked" ELSE "stray"]
  /\ UNCHANGED job

Answer ==
  /\ (Msg("query") \/ Msg("unit")) /\ chan' = Tail(chan)
  /\ job' = [job EXCEPT !.answer =
       IF Msg("unit") THEN IF UnitActive(Head(chan).task) THEN "active" ELSE "inactive"
       ELSE LET s == runs[Head(chan).run].state IN
            CASE s = "live" -> "running" [] s = "gone" -> "none" [] OTHER -> s]
  /\ UNCHANGED runs

Nest(n) ==
  /\ runs[n].state = "live" /\ runs[n].brood = "none"
  /\ ~\E k \in DOMAIN chan : chan[k].kind = "nest" /\ chan[k].run = n
  /\ chan' = Append(chan, [kind |-> "nest", run |-> n])
  /\ UNCHANGED <<runs, job>>

NestEnds(n) ==
  /\ runs[n].brood \in {"marked", "stray"}
  /\ runs' = [runs EXCEPT ![n].brood = "over"]
  /\ UNCHANGED <<chan, job>>

Finish(n) ==
  /\ runs[n].state = "live"
  /\ \E failed \in BOOLEAN :
       runs' = [runs EXCEPT ![n] = Outcome(@, IF failed THEN "failed" ELSE "ok", failed)]
  /\ UNCHANGED <<chan, job>>

Evict(n) ==
  /\ runs[n].state \in {"ok", "failed"}
  /\ runs' = [runs EXCEPT ![n].state = "gone"]
  /\ UNCHANGED <<chan, job>>

Coordinator ==
  /\ hub
  /\ \/ Admit \/ TakeNested \/ Answer
     \/ \E n \in DOMAIN runs : Nest(n) \/ NestEnds(n) \/ Finish(n) \/ Evict(n)
  /\ UNCHANGED <<clock, tasks, blocked, pending, at, stopping, target, shown, deleted, hub>>
  /\ UNCHANGED times /\ UNCHANGED store

Abandon == runs' = [n \in DOMAIN runs |->
  [runs[n] EXCEPT !.state = "gone", !.brood = "over", !.watch = FALSE]]

\* The coordinator ends: its children and the replies it owes are dropped.
HubCloses ==
  /\ hub /\ hub' = FALSE /\ chan' = <<>> /\ Abandon
  /\ job' = IF at \in {"query", "unit"} /\ job.answer = "wait"
            THEN [job EXCEPT !.answer = "lost"] ELSE job
  /\ UNCHANGED <<clock, tasks, blocked, pending, at, stopping, target, shown, deleted>>
  /\ UNCHANGED times /\ UNCHANGED store

\* The watcher of a spawn whose result was an error clears the anchor.
Watch(n) ==
  /\ runs[n].watch /\ runs' = [runs EXCEPT ![n].watch = FALSE]
  /\ tasks' = [k \in DOMAIN tasks |->
       IF tasks[k].anchor = n THEN [tasks[k] EXCEPT !.anchor = 0, !.iters = 0] ELSE tasks[k]]
  /\ UNCHANGED <<clock, blocked, pending, at, job, stopping, target, shown, deleted, hub, chan>>
  /\ UNCHANGED times /\ UNCHANGED store

-----------------------------------------------------------------------------
(***************************************************************************)
(* Time, shutdown, restart.                                                *)
(***************************************************************************)
Elapse(i) ==
  /\ i \in Held
  /\ \/ i \notin due /\ due' = due \cup {i} /\ UNCHANGED expired
     \/ i \notin expired \cup OneShots /\ expired' = expired \cup {i} /\ UNCHANGED due
  /\ UNCHANGED <<clock, tasks, fresh, blocked, pending, at, job, stopping, target, shown, deleted>>
  /\ UNCHANGED store /\ UNCHANGED coord

Cancel ==
  /\ ~stopping /\ stopping' = TRUE
  /\ UNCHANGED <<clock, tasks, blocked, pending, at, job, target, shown, deleted>>
  /\ UNCHANGED times /\ UNCHANGED store /\ UNCHANGED coord

\* The tail of run: a removal for every task, none of which is removed.
Shutdown ==
  /\ at = "idle" /\ stopping /\ Room(Len(tasks) + 1)
  /\ IF tasks = <<>> THEN UNCHANGED clock /\ UNCHANGED shown
     ELSE Commit(clock, Len(tasks)) /\ Retract(Held)
  /\ at' = "stopped"
  /\ UNCHANGED <<tasks, blocked, pending, job, stopping, target, deleted>>
  /\ UNCHANGED times /\ UNCHANGED store /\ UNCHANGED coord

CloseTarget ==
  /\ target /\ target' = FALSE
  /\ UNCHANGED <<clock, tasks, blocked, pending, at, job, stopping, shown, deleted>>
  /\ UNCHANGED times /\ UNCHANGED store /\ UNCHANGED coord

\* The process ends at any moment and a new one loads the state file.
Restart ==
  /\ clock.gen < MaxGeneration
  /\ tasks' = disk /\ blocked' = {} /\ pending' = Nothing
  /\ clock' = [gen |-> clock.gen + 1, rev |-> 0]
  /\ at' = "idle" /\ job' = Nothing /\ stopping' = FALSE
  /\ queue' = <<>> /\ draft' = {} /\ UNCHANGED disk
  /\ target' = TRUE
  /\ shown' = shown \cup {disk[k].id : k \in {l \in DOMAIN disk : disk[l].id \notin OneShots \cap due}}
  /\ hub' = TRUE /\ chan' = <<>> /\ Abandon
  /\ due' = {}
  /\ UNCHANGED <<expired, fresh, deleted>>

-----------------------------------------------------------------------------
Init ==
  /\ tasks = SetToSeq({Task(i) : i \in OneShots}) /\ disk = tasks
  /\ due = {} /\ expired = {} /\ fresh = Ids \ OneShots /\ blocked = {}
  /\ clock = [gen |-> 0, rev |-> 0] /\ pending = Nothing
  /\ at = "idle" /\ job = Nothing /\ stopping = FALSE
  /\ queue = <<>> /\ draft = {} /\ target = TRUE
  /\ shown = OneShots /\ deleted = {}
  /\ hub = TRUE /\ chan = <<>> /\ runs = <<>>

Fire == \E k \in DOMAIN tasks :
  ExpireDurable(k) \/ ExpirePlain(k) \/ FireInline(k) \/ FireLoop(k)

\* What the actor does without waiting for anyone.
Proceed ==
  \/ AskUnit \/ Skip \/ Spawn
  \/ Saved \/ SaveFailed \/ SaveUnknown \/ Acknowledged \/ Unacknowledged

Command ==
  \/ \E i \in Ids : Create(i) \/ Delete(i)
  \/ \E i \in Ids, p, v \in BOOLEAN : Update(i, p, v)
  \/ AbandonRemoval

Next ==
  \/ Command \/ Fire \/ Proceed \/ Writer \/ Coordinator
  \/ HubCloses
  \/ \E n \in DOMAIN runs : Watch(n)
  \/ \E i \in Ids : Elapse(i)
  \/ Cancel \/ Shutdown \/ CloseTarget \/ Restart

Spec == Init /\ [][Next]_vars
-----------------------------------------------------------------------------
(***************************************************************************)
(* Properties.                                                             *)
(***************************************************************************)
Versions == [gen : Nat, rev : Nat]

TaskRecords == [id : Ids, anchor : 0..MaxRuns, iters : 0..FreshEvery, reset : BOOLEAN,
                prompt : BOOLEAN]

Removals == [task : Ids, source : Versions]

\* The locals of a handler that waits.
DeleteJobs == [kind : {"delete"}, task : Ids, answer : {"wait", "saved", "error"}]
ExpiryJobs == [kind : {"expiry"}, task : Ids, held : TaskRecords, index : Nat \ {0},
               source : Versions, answer : {"wait", "saved", "error"}]
LoopJobs == [kind : {"loop"}, held : TaskRecords, source : Versions,
             previous : {"none", "ok", "failed"},
             answer : {"wait", "lost", "running", "none", "ok", "failed", "active", "inactive"}]

ASSUME NothingAssumption == Nothing \notin Removals \cup DeleteJobs \cup ExpiryJobs \cup LoopJobs

\* Every variable has its type; ids are unique in the list of tasks.
TypeOK ==
  /\ tasks \in Seq(TaskRecords) /\ disk \in Seq(TaskRecords)
  /\ \A k, l \in DOMAIN tasks : tasks[k].id = tasks[l].id => k = l
  /\ due \subseteq Ids /\ expired \subseteq Ids /\ fresh \subseteq Ids /\ blocked \subseteq Ids
  /\ clock \in Versions
  /\ pending \in Removals \cup {Nothing}
  /\ at \in {"idle", "save", "tombstone", "query", "unit", "stopped"}
  /\ CASE at \in {"idle", "stopped"} -> job = Nothing
       [] at \in {"save", "tombstone"} -> job \in DeleteJobs \cup ExpiryJobs
       [] at \in {"query", "unit"} -> job \in LoopJobs
  /\ stopping \in BOOLEAN /\ target \in BOOLEAN /\ hub \in BOOLEAN
  /\ shown \subseteq Ids /\ deleted \subseteq Ids
  /\ \A n \in DOMAIN runs :
       /\ runs[n].task \in Ids /\ runs[n].from \in 0..(n - 1)
       /\ runs[n].state \in {"sent", "live", "ok", "failed", "gone"}
       /\ runs[n].brood \in {"none", "marked", "stray", "over"}
       /\ runs[n].watch => runs[n].error

\* A Delete that returned Ok(true) is final: whatever snapshots were on their
\* way to the state file, and across restarts, the task never comes back to
\* the list, the file or the session's log (complete_pending_removal waits for
\* the file and the tombstone; writer_loop drops the pending snapshot when it
\* flushes a later one).
DeletedStaysDeleted ==
  \A i \in deleted : i \notin Held /\ ~Named(disk, i) /\ i \notin shown

\* A reservation held across a wait is never overtaken: the assertions of
\* commit_next ("stale scheduler reservation") hold when the wait ends.
ReservationFresh ==
  /\ pending # Nothing /\ at # "stopped" => pending.source = clock
  /\ at \in {"query", "unit"} => job.source = clock
  /\ at \in {"save", "tombstone"} /\ job.kind = "expiry" => job.source = clock

Newer(v, w) == v.gen > w.gen \/ (v.gen = w.gen /\ v.rev > w.rev)

\* A version is given to one committed transition: the clock moves forward
\* only, also when the revisions run out inside a batch, when a removal is
\* retried or given up, and after a restart.
VersionsAdvance == [][clock' # clock => Newer(clock', clock)]_vars

\* At most one iteration of a task is on its way to the coordinator or at it.
LoopSingleFlight ==
  \A m, n \in DOMAIN runs :
    Running(m) /\ Running(n) /\ runs[m].task = runs[n].task => m = n

\* A fire waits for the descendants of the earlier iterations: it overlaps one
\* that the coordinator counts to the unit only when the iteration failed.
OverlapOnlyAfterFailure ==
  \A m, n \in DOMAIN runs :
    m < n /\ Running(n) /\ runs[m].task = runs[n].task /\ runs[m].brood = "marked"
      => runs[m].error

\* An iteration continues the transcript of an iteration of the same prompt,
\* also when the prompt changed while that iteration was running
\* (chain_reset_pending).
ChainKeepsPrompt ==
  \A n \in DOMAIN runs : runs[n].from # 0 => runs[runs[n].from].prompt = runs[n].prompt

\* A transcript holds at most FreshEvery iterations (LOOP_FRESH_CHAIN_EVERY),
\* whatever failed, was evicted or was restored in between.
ChainBounded ==
  LET length[n \in DOMAIN runs] == IF runs[n].from = 0 THEN 1 ELSE 1 + length[runs[n].from]
  IN \A n \in DOMAIN runs : length[n] <= FreshEvery

\* A descendant of the previous iteration that is still running skips the fire.
DescendantSkipsFire ==
  \A m, n \in DOMAIN runs :
    m < n /\ Running(n) /\ runs[m].task = runs[n].task => runs[m].brood # "marked"
=============================================================================
