---------------------------- MODULE UploadQueue ----------------------------
(***************************************************************************)
(* The spill-to-disk upload queue: xai-file-utils, queue.rs, and the       *)
(* startup recovery of its spill directory in xai-grok-workspace,          *)
(* recovery.rs.                                                            *)
(*                                                                         *)
(* An artifact that is enqueued is written to a temp file, for some entry  *)
(* points beside a sidecar, and handed to the worker through a bounded     *)
(* channel.  The worker takes a slot of a semaphore for each item and      *)
(* spawns a task that uploads with retries; a task whose credentials are   *)
(* refused gives its slot back and parks.  drain() stops the worker and    *)
(* waits; a crash leaves the files, and the next start hands the pairs of  *)
(* temp file and sidecar to its own queue before anything else is enqueued,*)
(* as the workspace server does (handle.rs).                               *)
(*                                                                         *)
(* An item has size 1, or 0 when it is a reflinked snapshot.  Ages are     *)
(* told apart only where the start-up looks at them; that a deadline has   *)
(* passed inside the worker is a choice of the step that asks.  The wire,  *)
(* the inline fallback's own semaphore and the statistics beyond `pending' *)
(* and `pending_bytes' are left out.                                       *)
(***************************************************************************)
EXTENDS Integers, Sequences, FiniteSets, SequencesExt

CONSTANTS
  Items,          \* artifacts; each is enqueued at most once
  Twins,          \* those whose gcs_path is the same content-addressed object
  Kinds,          \* entry points the instance uses
  Capacity,       \* CHANNEL_CAPACITY
  MaxConcurrent,  \* slots of the worker
  MaxBytes,       \* max_queue_bytes, in artifacts
  MaxAttempts,    \* UploadRetryPolicy.max_attempts
  Threshold,      \* CIRCUIT_BREAKER_THRESHOLD
  MaxCrashes,     \* bound: crashes of the process
  Nobody          \* no item

ASSUME ItemsAssumption == IsFiniteSet(Items) /\ Twins \subseteq Items /\ Nobody \notin Items
ASSUME BoundsAssumption ==
  /\ {Capacity, MaxConcurrent, MaxAttempts, Threshold} \subseteq Nat \ {0}
  /\ {MaxBytes, MaxCrashes} \subseteq Nat
ASSUME KindsAssumption ==
  Kinds \subseteq {"enqueue", "bytes", "blocking", "file_blocking", "reference"}

\* What the entry points differ in.  "enqueue" is enqueue and enqueue_file,
\* "bytes" is enqueue_bytes_blocking, "recovered" is enqueue_recovered.
HasSidecar(k) == k \in {"bytes", "blocking", "recovered"}
HasWaiter(k) == k \in {"blocking", "file_blocking", "reference"}
Deduplicates(k) == k \notin {"blocking", "recovered"}
Budgeted(k) == k # "blocking"

(***************************************************************************)
(* State.  An item passes through                                          *)
(*   new -> spilled -> counted -> accounted -> queued -> held -> spawned   *)
(*   -> upload (-> backoff | refused -> parked -> woken -> upload)*        *)
(*   -> closing -> repaying -> settled,                                    *)
(* or ends early, from accounted as falling -> inline -> settled or as     *)
(* failing -> settled; an abort or a crash leaves it gone.  `pending' and  *)
(* `pending_bytes' are two atomics, and each step changes one of them:     *)
(* between the two steps an item is counted, falling, failing or repaying. *)
(***************************************************************************)
Stages == {"new", "spilled", "counted", "accounted", "falling", "failing", "queued",
           "held", "spawned", "upload", "backoff", "refused", "parked", "woken",
           "closing", "repaying", "inline", "settled", "gone"}

RollingBack == {"falling", "failing"}
Calling == {"spilled", "counted", "accounted"} \cup RollingBack
Ending == {"closing", "repaying"}
InTask == {"spawned", "upload", "backoff", "refused", "parked", "woken"} \cup Ending
Accepted == {"queued", "held"} \cup InTask

VARIABLES
  item,       \* per artifact: stage, entry point, size, attempts and auth retries
  reply,      \* what the caller was told
  temps,      \* temp files on disk
  sidecars,   \* sidecars on disk
  old,        \* artifacts whose pair is older than the maximum age
  chan,       \* the channel
  worker,     \* where upload_worker is
  held,       \* the item in dispatch_item, waiting for a slot
  slots,      \* items whose task holds a slot
  failures,   \* consecutive_failures
  shutdown,   \* the shutdown signal: "no", "sent" by drain, or "dropped" with the queue
  draining,   \* draining_flag
  pending, bytes,  \* the statistics that wait_idle and the budget read
  guards,     \* items that hold an InFlightGuard
  resolved,   \* history: items stored, or given up for good
  phase,      \* "starting" while the spill directory is recovered, "running" or "down"
  scan,       \* sidecars the recovery has still to visit
  crashes

files == <<temps, sidecars, old>>
queue == <<chan, worker, held, slots, failures, shutdown, draining>>
stats == <<pending, bytes>>
life == <<phase, scan, crashes>>
vars == <<item, reply, files, queue, stats, guards, resolved, life>>

Artifact(s, k, n) == [stage |-> s, kind |-> k, size |-> n, attempts |-> 0,
                      auth |-> 0, relation |-> FALSE]
Fresh == Artifact("new", "enqueue", 0)

\* "told" is every answer but EnqueueOutcome::Enqueued.
Replies == {"none", "waiting", "enqueued", "told"}
Pcs == {"check", "cooldown", "select", "drain", "join", "exited", "aborted"}

TypeOK ==
  /\ item \in [Items -> [stage : Stages, kind : Kinds \cup {"enqueue", "recovered"}, size : {0, 1},
                         attempts : 0..MaxAttempts, auth : {0, 1}, relation : BOOLEAN]]
  /\ reply \in [Items -> Replies]
  /\ temps \subseteq Items /\ sidecars \subseteq Items /\ old \subseteq Items
  /\ IsInjective(chan) /\ Len(chan) <= Capacity /\ Range(chan) = {i \in Items : item[i].stage = "queued"}
  /\ worker \in Pcs
  /\ IF held = Nobody THEN \A i \in Items : item[i].stage # "held"
     ELSE held \in Items /\ item[held].stage = "held"
  /\ slots \subseteq {i \in Items : item[i].stage \in InTask} /\ Cardinality(slots) <= MaxConcurrent
  /\ failures \in 0..Threshold
  /\ shutdown \in {"no", "sent", "dropped"} /\ draining \in BOOLEAN
  /\ pending \in Nat /\ bytes \in Nat
  /\ guards \subseteq Twins
  /\ resolved \subseteq Items
  /\ phase \in {"starting", "running", "down"} /\ scan \subseteq Items
  /\ crashes \in 0..MaxCrashes

Init ==
  /\ item = [i \in Items |-> Fresh] /\ reply = [i \in Items |-> "none"]
  /\ temps = {} /\ sidecars = {} /\ old = {} /\ resolved = {}
  /\ chan = <<>> /\ worker = "check" /\ held = Nobody /\ slots = {}
  /\ failures = 0 /\ shutdown = "no" /\ draining = FALSE
  /\ pending = 0 /\ bytes = 0 /\ guards = {}
  /\ phase = "running" /\ scan = {} /\ crashes = 0

Stage(i) == item[i].stage

\* An item that has ended, one way or the other.
Ended(i, s) ==
  Artifact(s, IF reply[i] = "enqueued" \/ s = "inline" THEN item[i].kind ELSE "enqueue", 0)

Goto(i, s) == item' = [item EXCEPT ![i].stage = s]
Tell(i) == reply' = [reply EXCEPT ![i] = "told"]
NotifyCompletion(i) == reply' = [reply EXCEPT ![i] = IF @ = "waiting" THEN "told" ELSE @]
Closed == worker \in {"drain", "join", "exited", "aborted"}
OverBudget(n) == bytes + n > MaxBytes

(***************************************************************************)
(* Enqueueing.  Callers run on their own threads, so that the check of the *)
(* budget, the sidecar, the accounting and the send of one caller          *)
(* interleave with those of another and with the worker.                   *)
(***************************************************************************)
\* A content-addressed object is not in flight, or the call does not ask.
CanMark(i, k) == Deduplicates(k) /\ i \in Twins => guards = {}

CanEnqueue(i) == phase = "running" /\ shutdown # "dropped" /\ Stage(i) = "new"

\* mark_in_flight finds the object in flight: nothing is written.
Deduplicate(i, k) ==
  /\ CanEnqueue(i) /\ ~CanMark(i, k)
  /\ Goto(i, "settled") /\ Tell(i)
  /\ UNCHANGED <<files, queue, stats, guards, resolved, life>>

\* The temp file is not written, or a snapshot is stale or unreadable.
SpillFails(i, k) ==
  /\ CanEnqueue(i) /\ (CanMark(i, k) \/ k = "reference")
  /\ Goto(i, "settled") /\ Tell(i)
  /\ UNCHANGED <<files, queue, stats, guards, resolved, life>>

\* The temp file is written and the budget is looked at.  Over it the upload goes
\* inline and the mark is gone when the call returns; a snapshot stays on disk
\* until its inline upload has read it, a reflinked one (size 0) always queues.
Spill(i, k, n) ==
  LET mark == Deduplicates(k) /\ i \in Twins
      over == Budgeted(k) /\ n > 0 /\ OverBudget(n)
  IN /\ CanEnqueue(i) /\ CanMark(i, k)
     /\ n = 0 => k = "reference"
     /\ item' = [item EXCEPT ![i] = Artifact(IF over THEN "inline" ELSE "spilled", k, n)]
     /\ reply' = [reply EXCEPT ![i] = IF HasWaiter(k) THEN "waiting" ELSE IF over THEN "told" ELSE @]
     /\ guards' = IF mark /\ ~over THEN guards \cup {i} ELSE guards
     /\ temps' = IF over /\ k # "reference" THEN temps ELSE temps \cup {i}
     /\ UNCHANGED <<sidecars, old, queue, stats, resolved, life>>

\* write_sidecar_file, where there is one, and the accounting that precedes the
\* send: first the item ...
Account(i) ==
  /\ Stage(i) = "spilled" /\ phase = "running"
  /\ Goto(i, "counted")
  /\ sidecars' = IF HasSidecar(item[i].kind) THEN sidecars \cup {i} ELSE sidecars
  /\ pending' = pending + 1
  /\ UNCHANGED <<reply, temps, old, queue, bytes, guards, resolved, life>>

\* ... then its bytes.
Charge(i) ==
  /\ Stage(i) = "counted" /\ phase = "running"
  /\ Goto(i, "accounted")
  /\ bytes' = bytes + item[i].size
  /\ UNCHANGED <<reply, files, queue, pending, guards, resolved, life>>

SidecarFailsKeepsMark(i) ==
  /\ Stage(i) = "spilled" /\ HasSidecar(item[i].kind) /\ phase = "running"
  /\ item' = [item EXCEPT ![i] = Ended(i, "settled")] /\ Tell(i)
  /\ temps' = temps \ {i}
  /\ UNCHANGED <<guards, sidecars, old, queue, stats, resolved, life>>

\* The sidecar is not written: the temp file goes too.
SidecarFails(i) ==
  /\ Stage(i) = "spilled" /\ HasSidecar(item[i].kind) /\ phase = "running"
  /\ item' = [item EXCEPT ![i] = Ended(i, "settled")] /\ Tell(i)
  /\ temps' = temps \ {i} /\ guards' = guards \ {i}
  /\ UNCHANGED <<sidecars, old, queue, stats, resolved, life>>

Sent(i) ==
  /\ Stage(i) = "accounted" /\ phase = "running" /\ ~Closed /\ Len(chan) < Capacity
  /\ Goto(i, "queued") /\ chan' = Append(chan, i)
  /\ reply' = [reply EXCEPT ![i] = IF @ = "none" THEN "enqueued" ELSE @]
  /\ UNCHANGED <<files, worker, held, slots, failures, shutdown, draining, stats, guards,
                 resolved, life>>

RemoveSidecarNever(i) == UNCHANGED sidecars

\* remove_item_files deletes the temp file, then the sidecar.
RemoveSidecar(i) == sidecars' = sidecars \ {i}

\* The size of the file now.
FileSize(i) == IF i \in temps THEN item[i].size ELSE 0

RefundFileSize(i) == bytes' = bytes - FileSize(i)

\* The bytes that are given back are those that were looked up before the files
\* went.
Refund(i) == bytes' = bytes - item[i].size

\* The channel refuses the item: the accounting is rolled back, the item first, and
\* the files are removed, by enqueue_blocking and enqueue_file_reference only after
\* that.  The upload goes inline, except that a closed channel is an error for the
\* callers that are told the outcome.  send().await of enqueue_file_blocking never
\* meets a full channel.
Rejected(i) ==
  LET k == item[i].kind
      inline == IF Closed THEN k \in {"enqueue", "reference"} ELSE k # "file_blocking"
  IN /\ Stage(i) = "accounted" /\ phase = "running"
     /\ Closed \/ (Len(chan) = Capacity /\ k # "file_blocking")
     /\ Goto(i, IF inline THEN "falling" ELSE "failing")
     /\ pending' = pending - 1
     /\ IF k \in {"blocking", "reference"} THEN UNCHANGED <<temps, sidecars>>
        ELSE temps' = temps \ {i} /\ RemoveSidecar(i)
     /\ UNCHANGED <<reply, old, queue, bytes, guards, resolved, life>>

\* Then the bytes, and the call returns.  A waiting caller whose upload goes inline
\* keeps its temp file until that has read it.
RollBack(i) ==
  LET s == IF Stage(i) = "falling" THEN "inline" ELSE "settled"
      keep == s = "inline" /\ HasWaiter(item[i].kind)
  IN /\ Stage(i) \in RollingBack /\ phase = "running"
     /\ item' = [item EXCEPT ![i] = Ended(i, s)]
     /\ Refund(i)
     /\ temps' = IF keep THEN temps ELSE temps \ {i}
     /\ RemoveSidecar(i) /\ guards' = guards \ {i}
     /\ reply' = [reply EXCEPT ![i] = IF keep THEN @ ELSE "told"]
     /\ UNCHANGED <<pending, old, queue, resolved, life>>

\* The detached inline upload ends, one way or the other.
InlineDone(i) ==
  /\ Stage(i) = "inline" /\ phase # "down"
  /\ item' = [item EXCEPT ![i] = Ended(i, "settled")] /\ NotifyCompletion(i)
  /\ temps' = temps \ {i}
  /\ UNCHANGED <<sidecars, old, queue, stats, guards, resolved, life>>

(***************************************************************************)
(* upload_worker: check the breaker, then wait for an item or the signal.  *)
(* It does not look at the signal while it waits for a slot.               *)
(***************************************************************************)
Up == phase # "down"

CheckBreaker ==
  /\ worker = "check" /\ held = Nobody /\ Up
  /\ worker' = IF failures >= Threshold THEN "cooldown" ELSE "select"
  /\ UNCHANGED <<item, reply, files, chan, held, slots, failures, shutdown, draining,
                 stats, guards, resolved, life>>

CooldownEnds ==
  /\ worker = "cooldown" /\ Up
  /\ worker' = "select" /\ failures' = 0
  /\ UNCHANGED <<item, reply, files, chan, held, slots, shutdown, draining,
                 stats, guards, resolved, life>>

\* The signal is sent, or its sender was dropped with the queue: the channel is
\* closed and what it holds is dispatched, whatever the breaker says.
ShutdownSeen ==
  /\ worker \in {"cooldown", "select"} /\ held = Nobody /\ shutdown # "no" /\ Up
  /\ worker' = "drain" /\ draining' = TRUE
  /\ UNCHANGED <<item, reply, files, chan, held, slots, failures, shutdown,
                 stats, guards, resolved, life>>

\* recv() returns None once every sender is gone and the channel is empty.
ChannelGone ==
  /\ worker = "select" /\ held = Nobody /\ shutdown = "dropped" /\ chan = <<>> /\ Up
  /\ worker' = "join" /\ draining' = TRUE
  /\ UNCHANGED <<item, reply, files, chan, held, slots, failures, shutdown,
                 stats, guards, resolved, life>>

Receive ==
  /\ worker \in {"select", "drain"} /\ held = Nobody /\ chan # <<>> /\ Up
  /\ held' = Head(chan) /\ chan' = Tail(chan)
  /\ Goto(Head(chan), "held")
  /\ UNCHANGED <<reply, files, worker, slots, failures, shutdown, draining,
                 stats, guards, resolved, life>>

\* dispatch_item: the next slot is the item's, and its task is spawned.
Dispatch ==
  /\ held # Nobody /\ Cardinality(slots) < MaxConcurrent /\ Up
  /\ slots' = slots \cup {held} /\ held' = Nobody
  /\ Goto(held, "spawned")
  /\ worker' = IF worker = "drain" THEN "drain" ELSE "check"
  /\ UNCHANGED <<reply, files, chan, failures, shutdown, draining, stats, guards,
                 resolved, life>>

\* The closed channel is empty (a caller that was admitted before the close may
\* not add to it any more).
Drained ==
  /\ worker = "drain" /\ held = Nobody /\ chan = <<>> /\ Up
  /\ worker' = "join"
  /\ UNCHANGED <<item, reply, files, chan, held, slots, failures, shutdown, draining,
                 stats, guards, resolved, life>>

Joined ==
  /\ worker = "join" /\ Up /\ \A i \in Items : Stage(i) \notin InTask
  /\ worker' = "exited"
  /\ UNCHANGED <<item, reply, files, chan, held, slots, failures, shutdown, draining,
                 stats, guards, resolved, life>>

(***************************************************************************)
(* process_item and upload_with_retries.                                   *)
(***************************************************************************)
\* The end of an item: its files are deleted and the outcome is known.  A success
\* clears the count of failures, an error that is not terminal adds to it.
Finish(i, outcome) ==
  /\ Goto(i, "closing")
  /\ temps' = temps \ {i}
  /\ failures' = CASE outcome = "ok" -> 0
                   [] outcome = "failed" -> Min({failures + 1, Threshold})
                   [] OTHER -> failures
  /\ resolved' = resolved \cup {i}
  /\ UNCHANGED <<reply, sidecars, old, chan, worker, held, slots, shutdown, draining,
                 stats, guards, life>>

\* process_item looks up the size that it will give back at the end.
Start(i) ==
  /\ Stage(i) = "spawned" /\ Up
  /\ item' = [item EXCEPT ![i] = [@ EXCEPT !.stage = "upload", !.size = FileSize(i)]]
  /\ UNCHANGED <<reply, files, queue, stats, guards, resolved, life>>

\* Before the first attempt an item that is too old is dropped.
Expired(i) == Stage(i) = "upload" /\ item[i].attempts = 0 /\ Up /\ Finish(i, "expired")

Tried(i) == Min({item[i].attempts + 1, MaxAttempts})

Succeed(i) == Stage(i) = "upload" /\ i \in temps /\ Up /\ Finish(i, "ok")

Terminal(i) == Stage(i) = "upload" /\ i \in temps /\ Up /\ Finish(i, "terminal")

Exhausted(i) ==
  /\ Stage(i) = "upload" /\ Tried(i) = MaxAttempts /\ Up
  /\ Finish(i, "failed")

Retry(i) ==
  /\ Stage(i) = "upload" /\ Tried(i) < MaxAttempts /\ Up
  /\ item' = [item EXCEPT ![i] = [@ EXCEPT !.stage = "backoff", !.attempts = Tried(i)]]
  /\ UNCHANGED <<reply, files, queue, stats, guards, resolved, life>>

BackoffEnds(i) ==
  /\ Stage(i) = "backoff" /\ Up
  /\ Goto(i, "upload")
  /\ UNCHANGED <<reply, files, queue, stats, guards, resolved, life>>

ReleaseSlotNever(i) == UNCHANGED slots

\* The credentials are refused: one more try with fresh ones, one more if those
\* sent were not the current ones, then the slot is given back.
ReleaseSlot(i) == slots' = slots \ {i}

Refuse(i, different) ==
  LET again == item[i].auth = 0
      relate == ~again /\ different /\ ~item[i].relation
  IN /\ Stage(i) = "upload" /\ i \in temps /\ Up
     /\ item' = [item EXCEPT ![i] = [@ EXCEPT !.attempts = Tried(i),
                                            !.auth = 1,
                                            !.relation = @ \/ relate,
                                            !.stage = IF again \/ relate THEN "upload" ELSE "refused"]]
     /\ IF again \/ relate THEN UNCHANGED slots ELSE ReleaseSlot(i)
     /\ UNCHANGED <<reply, files, chan, worker, held, failures, shutdown, draining,
                    stats, guards, resolved, life>>

\* The park loop looks at the drain first, then at the recovery signal (which a
\* static credential does not have) and the age.
Park(i) ==
  /\ Stage(i) = "refused" /\ ~draining /\ Up
  /\ Goto(i, "parked") /\ NotifyCompletion(i)
  /\ UNCHANGED <<files, queue, stats, guards, resolved, life>>

Bail(i) == Stage(i) \in {"refused", "parked"} /\ draining /\ Up /\ Finish(i, "failed")

GiveUp(i) == Stage(i) \in {"refused", "parked"} /\ ~draining /\ Up /\ Finish(i, "failed")

\* Credentials changed, or a probe is due.
Wake(i) ==
  /\ Stage(i) = "parked" /\ ~draining /\ Up
  /\ Goto(i, "woken")
  /\ UNCHANGED <<reply, files, queue, stats, guards, resolved, life>>

ReacquireAtOnce(i) ==
  /\ Stage(i) = "woken" /\ Up
  /\ item' = [item EXCEPT ![i] = [@ EXCEPT !.stage = "upload", !.auth = 0]]
  /\ slots' = slots \cup {i}
  /\ UNCHANGED <<reply, files, chan, worker, held, failures, shutdown, draining,
                 stats, guards, resolved, life>>

Reacquire(i) ==
  /\ Stage(i) = "woken" /\ Cardinality(slots) < MaxConcurrent /\ Up
  /\ item' = [item EXCEPT ![i] = [@ EXCEPT !.stage = "upload", !.auth = 0]]
  /\ slots' = slots \cup {i}
  /\ UNCHANGED <<reply, files, chan, worker, held, failures, shutdown, draining,
                 stats, guards, resolved, life>>

\* The sidecar goes, the caller hears (that of an expired item only after the
\* bytes), and settle_pending lowers `pending' ...
Settle(i) ==
  /\ Stage(i) = "closing" /\ Up
  /\ Goto(i, "repaying")
  /\ RemoveSidecar(i)
  /\ NotifyCompletion(i) \/ UNCHANGED reply
  /\ pending' = pending - 1
  /\ UNCHANGED <<temps, old, queue, bytes, guards, resolved, life>>

\* ... then `pending_bytes'.  The slot and the mark are given back with the item.
Repay(i) ==
  /\ Stage(i) = "repaying" /\ Up
  /\ item' = [item EXCEPT ![i] = Ended(i, "settled")] /\ NotifyCompletion(i)
  /\ Refund(i)
  /\ slots' = slots \ {i} /\ guards' = guards \ {i}
  /\ UNCHANGED <<files, chan, worker, held, failures, shutdown, draining, pending, resolved, life>>

(***************************************************************************)
(* The end of a process, and the next start.                               *)
(***************************************************************************)
\* drain(): a second call finds nothing to do.
Drain ==
  /\ phase = "running" /\ shutdown = "no"
  /\ shutdown' = "sent"
  /\ UNCHANGED <<item, reply, files, chan, worker, held, slots, failures, draining,
                 stats, guards, resolved, life>>

\* The last handle is dropped without a drain; no call is under way.
DropQueue ==
  /\ phase = "running" /\ shutdown # "dropped"
  /\ \A i \in Items : Stage(i) \notin Calling
  /\ shutdown' = "dropped"
  /\ UNCHANGED <<item, reply, files, chan, worker, held, slots, failures, draining,
                 stats, guards, resolved, life>>

\* drain() runs into its deadline: the worker and its tasks are aborted where they
\* wait.  A task past its last wait settles; the others leave their files, and
\* their accounting.
DrainTimeout ==
  LET cut == {i \in Items : Stage(i) \in Accepted \ Ending}
  IN /\ shutdown = "sent" /\ worker \notin {"exited", "aborted"} /\ phase = "running"
     /\ item' = [i \in Items |-> IF i \in cut THEN Ended(i, "gone") ELSE item[i]]
     /\ reply' = [i \in Items |-> IF i \in cut /\ reply[i] = "waiting" THEN "told" ELSE reply[i]]
     /\ worker' = "aborted" /\ held' = Nobody /\ chan' = <<>>
     /\ slots' = slots \ cut /\ guards' = guards \ cut
     /\ UNCHANGED <<files, failures, shutdown, draining, stats, resolved, life>>

\* The process ends, by a crash or because it is done, with the files as they are.
Crash ==
  /\ Up /\ crashes < MaxCrashes
  /\ crashes' = crashes + 1 /\ phase' = "down" /\ scan' = {}
  /\ item' = [i \in Items |-> IF Stage(i) = "new" THEN item[i] ELSE Ended(i, "gone")]
  /\ reply' = [i \in Items |-> IF reply[i] = "waiting" THEN "none" ELSE reply[i]]
  /\ chan' = <<>> /\ worker' = "check" /\ held' = Nobody /\ slots' = {}
  /\ failures' = 0 /\ shutdown' = "no" /\ draining' = FALSE
  /\ pending' = 0 /\ bytes' = 0 /\ guards' = {}
  /\ UNCHANGED <<files, resolved>>

\* The next start spawns the worker and lists the sidecars.
Restart ==
  /\ phase = "down"
  /\ phase' = "starting" /\ scan' = sidecars
  /\ UNCHANGED <<item, reply, files, queue, stats, guards, resolved, crashes>>

\* A pair passes the maximum age while the start-up goes on.
Age(i) ==
  /\ phase \in {"down", "starting"} /\ i \in sidecars \cup temps /\ i \notin old
  /\ old' = old \cup {i}
  /\ UNCHANGED <<item, reply, temps, sidecars, queue, stats, guards, resolved, life>>

\* run_startup_recovery drops a sidecar without its temp file and a pair that is
\* too old.  (That the disk corrupts a file is not modelled.)
RecoverDrops(i) ==
  /\ phase = "starting" /\ i \in scan /\ (i \notin temps \/ i \in old)
  /\ scan' = scan \ {i}
  /\ temps' = temps \ {i} /\ sidecars' = sidecars \ {i}
  /\ resolved' = resolved \cup {i}
  /\ UNCHANGED <<item, reply, old, queue, stats, guards, phase, crashes>>

\* enqueue_recovered hands the pair to the worker as it is ... (Its accounting, and
\* its roll-back when the channel is full, are one step: before the start-up is over
\* nobody reads the statistics but the recovery itself.)
Recover(i) ==
  /\ phase = "starting" /\ i \in scan /\ i \in temps /\ i \notin old
  /\ ~OverBudget(1) /\ Len(chan) < Capacity
  /\ scan' = scan \ {i}
  /\ item' = [item EXCEPT ![i] = Artifact("queued", "recovered", 1)]
  /\ chan' = Append(chan, i)
  /\ pending' = pending + 1 /\ bytes' = bytes + 1
  /\ UNCHANGED <<reply, files, worker, held, slots, failures, shutdown, draining, guards,
                 resolved, phase, crashes>>

RecoverLaterDrops(i) ==
  /\ phase = "starting" /\ i \in scan /\ i \in temps /\ i \notin old
  /\ OverBudget(1) \/ Len(chan) = Capacity
  /\ scan' = scan \ {i}
  /\ temps' = temps \ {i} /\ sidecars' = sidecars \ {i}
  /\ UNCHANGED <<item, reply, old, queue, stats, guards, resolved, phase, crashes>>

\* ... or leaves it for a later start.
RecoverLater(i) ==
  /\ phase = "starting" /\ i \in scan /\ i \in temps /\ i \notin old
  /\ OverBudget(1) \/ Len(chan) = Capacity
  /\ scan' = scan \ {i}
  /\ UNCHANGED <<item, reply, files, queue, stats, guards, resolved, phase, crashes>>

\* cleanup_orphans deletes what is too old, then the callers may come.
Cleanup ==
  /\ phase = "starting" /\ scan = {}
  /\ phase' = "running"
  /\ temps' = temps \ old /\ sidecars' = sidecars \ old
  /\ resolved' = resolved \cup (old \cap (sidecars \cup temps))
  /\ UNCHANGED <<item, reply, old, queue, stats, guards, scan, crashes>>

Attempt(i) ==
  \/ Expired(i) \/ Succeed(i) \/ Terminal(i) \/ Exhausted(i) \/ Retry(i)
  \/ \E different \in BOOLEAN : Refuse(i, different)

Enqueue(i) ==
  \/ \E k \in Kinds : Deduplicate(i, k) \/ SpillFails(i, k) \/ \E n \in {0, 1} : Spill(i, k, n)
  \/ Account(i) \/ SidecarFails(i) \/ Charge(i) \/ Sent(i) \/ Rejected(i) \/ RollBack(i)

Worker ==
  \/ CheckBreaker \/ CooldownEnds \/ ShutdownSeen \/ ChannelGone \/ Receive
  \/ Dispatch \/ Drained \/ Joined

Task(i) ==
  \/ Start(i) \/ Attempt(i) \/ BackoffEnds(i) \/ Park(i) \/ Bail(i) \/ GiveUp(i)
  \/ Wake(i) \/ Reacquire(i) \/ Settle(i) \/ Repay(i)

Startup(i) == Age(i) \/ RecoverDrops(i) \/ Recover(i) \/ RecoverLater(i)

Next ==
  \/ \E i \in Items : \/ Enqueue(i) \/ Task(i) \/ Startup(i)
                      \/ InlineDone(i)
  \/ Worker \/ Drain \/ DropQueue \/ DrainTimeout \/ Crash \/ Restart \/ Cleanup

Spec == Init /\ [][Next]_vars

\* The steps that running threads and an answering wire take by themselves.  Not
\* among them: a new call, the waking of a parked item or its expiry, the deadline
\* of a drain, a crash.
Progress ==
  \/ Worker
  \/ \E i \in Items : \/ Account(i) \/ Charge(i) \/ Sent(i) \/ Rejected(i) \/ RollBack(i)
                      \/ InlineDone(i) \/ Start(i) \/ Attempt(i) \/ BackoffEnds(i) \/ Park(i)
                      \/ Bail(i) \/ Reacquire(i) \/ Settle(i) \/ Repay(i)

(***************************************************************************)
(* Properties.                                                             *)
(***************************************************************************)
\* The items whose bytes are still to be given back after `pending' was lowered.
Owing == {i \in Items : Stage(i) \in RollingBack \cup {"repaying"} /\ item[i].size = 1}

\* wait_idle and drain read `pending': when it is 0, every item that the channel took
\* has its outcome, and the disk budget is charged with nothing but what threads
\* between the two counters are about to give back: no byte is lost on any path of
\* rejection, retry, parking or abort (unless the clean-up of the start-up took a
\* file from under its item, whose size then counts as 0).
FlushTruthful ==
  phase = "running" /\ pending = 0 =>
    /\ \A i \in Items : Stage(i) \notin Accepted \ {"repaying"}
    /\ old = {} => bytes = Cardinality(Owing)

\* upload/trace.rs takes the answer Enqueued of enqueue_bytes_blocking as durably
\* owned: through crashes, aborts, recoveries and refused recoveries, the artifact
\* is stored, was given up by the worker or for its age, or its pair is on disk.
\* (It takes the answer Deduplicated as durable too.  That is not claimed here: the
\* twin in flight may be of an entry point that writes no sidecar, and a crash then
\* loses both.)
DurablyAccepted ==
  \A i \in Items :
    reply[i] = "enqueued" /\ item[i].kind # "enqueue" =>
      i \in resolved \cup (temps \cap sidecars)

\* Files follow their item: one that is done leaves neither file for the recovery
\* to find, one that is not done has its bytes, and its sidecar if it has one.
FilesFollowItem ==
  \A i \in Items :
    /\ Stage(i) = "settled" => i \notin temps \cup sidecars
    /\ Stage(i) \in Accepted \ Ending /\ i \notin old =>
         i \in temps /\ (HasSidecar(item[i].kind) => i \in sidecars)

\* A content-addressed object is marked exactly while one item for it is on its
\* way: a mark that outlived its item would silence all later uploads of it.
MarkExact ==
  /\ guards = {i \in Twins : /\ Stage(i) \in Calling \cup Accepted
                             /\ Deduplicates(item[i].kind)}
  /\ Cardinality(guards) <= 1

\* A drain, or the drop of the queue, waits for the worker, or a caller waits.
Awaited ==
  \/ shutdown # "no" /\ worker \notin {"exited", "aborted"}
  \/ Up /\ \E i \in Items : reply[i] = "waiting"

\* Nobody waits on everybody: while a drain waits for the worker, or a caller for
\* its upload, some step is possible without anyone's help, though items may be
\* parked forever, the worker does not look at the signal while it waits for a
\* slot, and callers of enqueue_file_blocking wait for room in the channel.
NoStall == Awaited => ENABLED Progress
=============================================================================
