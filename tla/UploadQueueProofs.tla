------------------------- MODULE UploadQueueProofs -------------------------
(***************************************************************************)
(* Proofs about the upload queue, for any artifacts, capacities, budgets,  *)
(* retry limits and any number of crashes.                                 *)
(*                                                                         *)
(* The invariant follows an artifact from the caller through the channel,  *)
(* the worker and its task, and says at each stage which of its two files  *)
(* are on disk (FilesInv), what the statistics count for it (CountInv) and *)
(* what a start-up may still find of it (PhaseInv).  LiveInv and SignalInv *)
(* are added to it at the end, to show that nobody waits on everybody.     *)
(***************************************************************************)
EXTENDS UploadQueue, SequenceTheorems, FiniteSetTheorems, TLAPS

Artifacts == [stage : Stages, kind : Kinds \cup {"enqueue", "recovered"}, size : {0, 1},
              attempts : 0..MaxAttempts, auth : {0, 1}, relation : BOOLEAN]

\* The stages in which an artifact counts in `pending', and those in which its
\* bytes do.
Pends == {"counted", "accounted"} \cup (Accepted \ {"repaying"})
Charges == {"accounted"} \cup RollingBack \cup Accepted

\* The artifacts in a stage; those that the two statistics count.
AtStage(s) == {i \in Items : Stage(i) = s}
Counted == {i \in Items : Stage(i) \in Pends}
Sized == {i \in Items : Stage(i) \in Charges /\ item[i].size = 1}
Running == {i \in Items : Stage(i) \in InTask}

ItemTypes == item \in [Items -> Artifacts] /\ reply \in [Items -> Replies]

PlainTypes ==
  /\ temps \subseteq Items /\ sidecars \subseteq Items /\ old \subseteq Items
  /\ worker \in Pcs /\ failures \in 0..Threshold
  /\ shutdown \in {"no", "sent", "dropped"} /\ draining \in BOOLEAN
  /\ resolved \subseteq Items
  /\ phase \in {"starting", "running", "down"} /\ scan \subseteq Items
  /\ crashes \in 0..MaxCrashes

\* The channel holds the queued artifacts, each once.
ChanInv ==
  /\ chan \in Seq(Items) /\ IsInjective(chan) /\ Len(chan) <= Capacity
  /\ Range(chan) = AtStage("queued")

\* At most one artifact is in dispatch_item.
HeldInv == held \in Items \cup {Nobody} /\ AtStage("held") = {held} \ {Nobody}

\* A slot is held by a task.
SlotInv == slots \subseteq Running /\ Cardinality(slots) <= MaxConcurrent

\* What an abort leaks stays counted, at most one byte an artifact.  An artifact
\* between the two counters is in one of the sets only.
CountInv ==
  /\ pending \in Nat /\ bytes \in Nat
  /\ Cardinality(Counted) <= pending /\ Cardinality(Sized) <= bytes
  /\ old = {} => bytes - Cardinality(Sized) <= pending - Cardinality(Counted)

FilesInv ==
  \A i \in Items :
    /\ Stage(i) = "new" => i \notin temps \cup sidecars \cup old /\ reply[i] = "none"
    /\ Stage(i) = "spilled" => i \in temps /\ i \notin sidecars
    /\ Stage(i) \in {"counted", "accounted"} => i \in temps /\ (HasSidecar(item[i].kind) => i \in sidecars)
    /\ Stage(i) = "inline" => i \notin sidecars
    /\ Stage(i) \in Ending => i \notin temps /\ i \in resolved
    /\ Stage(i) = "repaying" => i \notin sidecars
    /\ Stage(i) \in Calling \cup {"inline"} =>
         phase = "running" /\ i \notin old /\ reply[i] # "enqueued"
    /\ Stage(i) \in Calling /\ reply[i] = "none" => ~HasWaiter(item[i].kind)

PhaseInv ==
  /\ phase = "down" => \A i \in Items : Stage(i) \in {"new", "gone"}
  /\ phase = "starting" => scan \subseteq sidecars \cap AtStage("gone")
  /\ phase # "starting" => scan = {}

Inv ==
  /\ ItemTypes /\ PlainTypes /\ ChanInv /\ HeldInv /\ SlotInv /\ CountInv
  /\ MarkExact /\ FilesInv /\ PhaseInv /\ FilesFollowItem /\ DurablyAccepted

\* What FilesInv, FilesFollowItem and DurablyAccepted say of one artifact.
Good(i) ==
  /\ Stage(i) = "new" => i \notin temps \cup sidecars \cup old /\ reply[i] = "none"
  /\ Stage(i) = "spilled" => i \in temps /\ i \notin sidecars
  /\ Stage(i) \in {"counted", "accounted"} => i \in temps /\ (HasSidecar(item[i].kind) => i \in sidecars)
  /\ Stage(i) = "inline" => i \notin sidecars
  /\ Stage(i) \in Ending => i \notin temps /\ i \in resolved
  /\ Stage(i) = "repaying" => i \notin sidecars
  /\ Stage(i) \in Calling \cup {"inline"} =>
       phase = "running" /\ i \notin old /\ reply[i] # "enqueued"
  /\ Stage(i) \in Calling /\ reply[i] = "none" => ~HasWaiter(item[i].kind)
  /\ Stage(i) = "settled" => i \notin temps \cup sidecars
  /\ Stage(i) \in Accepted \ Ending /\ i \notin old =>
       i \in temps /\ (HasSidecar(item[i].kind) => i \in sidecars)
  /\ reply[i] = "enqueued" /\ item[i].kind # "enqueue" =>
       i \in resolved \cup (temps \cap sidecars)

\* Its object is marked as in flight on its behalf.
Marked(i) ==
  i \in Twins /\ Stage(i) \in Calling \cup Accepted /\ Deduplicates(item[i].kind)

\* A step that touches no artifact but i.
Only(i) ==
  /\ item' \in [Items -> Artifacts] /\ reply' \in [Items -> Replies]
  /\ old' = old /\ phase' = phase
  /\ \A j \in Items \ {i} :
       /\ item'[j] = item[j] /\ reply'[j] = reply[j]
       /\ (j \in temps') = (j \in temps) /\ (j \in sidecars') = (j \in sidecars)
       /\ (j \in resolved') = (j \in resolved)

-----------------------------------------------------------------------------
(***************************************************************************)
(* Operators.                                                              *)
(***************************************************************************)
LEMMA FilesAreGood == FilesInv /\ FilesFollowItem /\ DurablyAccepted <=> \A i \in Items : Good(i)
  BY DEF FilesInv, FilesFollowItem, DurablyAccepted, Good

LEMMA SmallerOf ==
  ASSUME NEW a \in Int, NEW b \in Int
  PROVE  Min({a, b}) = IF a <= b THEN a ELSE b
<1> DEFINE m == IF a <= b THEN a ELSE b
<1>1. m \in {a, b} /\ \A y \in {a, b} : m <= y
  OBVIOUS
<1>2. \A x \in {a, b} : (\A y \in {a, b} : x <= y) => x = m
  OBVIOUS
<1>. QED
  BY <1>1, <1>2 DEF Min

LEMMA TriedBound ==
  ASSUME NEW i \in Items, item[i] \in Artifacts PROVE Tried(i) \in 0..MaxAttempts
<1> DEFINE n == item[i].attempts
<1>1. n \in 0..MaxAttempts /\ MaxAttempts \in Nat BY BoundsAssumption DEF Artifacts
<1>2. Tried(i) = Min({n + 1, MaxAttempts}) BY Zenon DEF Tried
<1> HIDE DEF n
<1>3. Min({n + 1, MaxAttempts}) = IF n + 1 <= MaxAttempts THEN n + 1 ELSE MaxAttempts
  <2>1. n + 1 \in Int /\ MaxAttempts \in Int BY <1>1
  <2> QED BY <2>1, SmallerOf
<1>4. (IF n + 1 <= MaxAttempts THEN n + 1 ELSE MaxAttempts) \in 0..MaxAttempts BY <1>1
<1>. QED BY <1>2, <1>3, <1>4

LEMMA GotoMoves ==
  ASSUME ItemTypes, NEW i \in Items, NEW s \in Stages, Goto(i, s)
  PROVE  /\ item'[i].stage = s /\ item'[i] \in Artifacts
         /\ item'[i].kind = item[i].kind /\ item'[i].size = item[i].size
         /\ item' \in [Items -> Artifacts] /\ \A j \in Items \ {i} : item'[j] = item[j]
BY DEF Goto, ItemTypes, Artifacts

LEMMA ArtifactType ==
  ASSUME NEW s \in Stages, NEW k \in Kinds \cup {"enqueue", "recovered"}, NEW n \in {0, 1}
  PROVE  /\ Artifact(s, k, n) \in Artifacts
         /\ Artifact(s, k, n).stage = s /\ Artifact(s, k, n).kind = k /\ Artifact(s, k, n).size = n
<1>1. 0 \in 0..MaxAttempts
  BY BoundsAssumption
<1>. QED
  BY <1>1 DEF Artifact, Artifacts

LEMMA EndedType ==
  ASSUME ItemTypes, NEW i \in Items, NEW s \in Stages
  PROVE  /\ Ended(i, s) \in Artifacts /\ Ended(i, s).stage = s
         /\ Ended(i, s).kind \in {item[i].kind, "enqueue"}
         /\ reply[i] = "enqueued" \/ s = "inline" => Ended(i, s).kind = item[i].kind
<1> DEFINE k == IF reply[i] = "enqueued" \/ s = "inline" THEN item[i].kind ELSE "enqueue"
<1>1. item[i].kind \in Kinds \cup {"enqueue", "recovered"}
  BY DEF ItemTypes, Artifacts
<1>2. Ended(i, s) = Artifact(s, k, 0)
  BY DEF Ended
<1>3. k \in Kinds \cup {"enqueue", "recovered"} /\ k \in {item[i].kind, "enqueue"}
  BY <1>1
<1>4. reply[i] = "enqueued" \/ s = "inline" => k = item[i].kind
  OBVIOUS
<1> HIDE DEF k
<1>. QED
  BY <1>2, <1>3, <1>4, ArtifactType

\* Sets of artifacts are finite.
LEMMA Finite ==
  ASSUME NEW S, S \subseteq Items
  PROVE  /\ IsFiniteSet(S) /\ Cardinality(S) \in Nat
         /\ \A T \in SUBSET S : Cardinality(T) <= Cardinality(S)
         /\ \A i : Cardinality(S \cup {i}) = IF i \in S THEN Cardinality(S) ELSE Cardinality(S) + 1
         /\ \A i : Cardinality(S \ {i}) = IF i \in S THEN Cardinality(S) - 1 ELSE Cardinality(S)
<1>1. IsFiniteSet(S)
  BY FS_Subset, ItemsAssumption
<1>2. Cardinality(S) \in Nat
  BY <1>1, FS_CardinalityType
<1>3. \A T \in SUBSET S : Cardinality(T) <= Cardinality(S)
  BY <1>1, FS_Subset
<1>4. \A i : Cardinality(S \cup {i}) = IF i \in S THEN Cardinality(S) ELSE Cardinality(S) + 1
  BY <1>1, FS_AddElement
<1>5. \A i : Cardinality(S \ {i}) = IF i \in S THEN Cardinality(S) - 1 ELSE Cardinality(S)
  BY <1>1, FS_RemoveElement
<1>. QED
  BY <1>1, <1>2, <1>3, <1>4, <1>5

-----------------------------------------------------------------------------
(***************************************************************************)
(* Steps that touch one artifact, conjunct by conjunct.                    *)
(***************************************************************************)
LEMMA OnlyGood ==
  ASSUME Inv, NEW i \in Items, Only(i), Good(i)'
  PROVE  FilesInv' /\ FilesFollowItem' /\ DurablyAccepted'
<1>1. \A j \in Items : Good(j)
  BY FilesAreGood DEF Inv
<1>2. ASSUME NEW j \in Items, j # i PROVE Good(j)'
  <2>1. Good(j)
    BY <1>1
  <2>2. /\ item'[j] = item[j] /\ reply'[j] = reply[j] /\ old' = old /\ phase' = phase
        /\ (j \in temps') = (j \in temps) /\ (j \in sidecars') = (j \in sidecars)
        /\ (j \in resolved') = (j \in resolved)
    BY <1>2 DEF Only
  <2>. QED
    BY <2>1, <2>2 DEF Good, Stage
<1>3. \A j \in Items : Good(j)'
  BY <1>2
<1>. QED
  BY <1>3 DEF FilesInv, FilesFollowItem, DurablyAccepted, Good

LEMMA OnlyQueue ==
  ASSUME Inv, NEW i \in Items, Only(i), chan' = chan, held' = held,
         Stage(i) \notin {"queued", "held"}, item'[i].stage \notin {"queued", "held"}
  PROVE  ChanInv' /\ HeldInv'
<1>1. AtStage("queued")' = AtStage("queued") /\ AtStage("held")' = AtStage("held")
  BY DEF AtStage, Stage, Only
<1>. QED
  BY <1>1 DEF Inv, ChanInv, HeldInv

LEMMA OnlySlots ==
  ASSUME Inv, NEW i \in Items, Only(i),
         \/ slots' = slots /\ (Stage(i) \in InTask => item'[i].stage \in InTask)
         \/ slots' = slots \ {i}
         \/ slots' = slots \cup {i} /\ Cardinality(slots) < MaxConcurrent /\ item'[i].stage \in InTask
  PROVE  SlotInv'
<1>1. slots \subseteq Items /\ Cardinality(slots) <= MaxConcurrent /\ slots \subseteq Running
  BY DEF Inv, SlotInv, Running
<1>2. slots' \subseteq Running'
  BY <1>1 DEF Running, Stage, Only
<1>3. Cardinality(slots') <= MaxConcurrent
  BY <1>1, Finite, BoundsAssumption
<1>. QED
  BY <1>2, <1>3 DEF SlotInv

LEMMA OnlyMarks ==
  ASSUME Inv, NEW i \in Items, Only(i),
         \/ guards' = guards /\ Marked(i)' = Marked(i)
         \/ guards' = guards \ {i} /\ ~Marked(i)'
         \/ guards' = guards \cup {i} /\ guards = {} /\ Marked(i)'
  PROVE  MarkExact'
<1>1. guards = {j \in Items : Marked(j)} /\ Cardinality(guards) <= 1 /\ guards \subseteq Items
  BY ItemsAssumption DEF Inv, MarkExact, Marked
<1>2. \A j \in Items \ {i} : Marked(j)' = Marked(j)
  BY DEF Only, Marked, Stage
<1>3. guards' = {j \in Items : Marked(j)'}
  BY <1>1, <1>2, Zenon
<1>4. Cardinality(guards') <= 1
  BY <1>1, Finite, FS_EmptySet
<1>. QED
  BY <1>3, <1>4, ItemsAssumption DEF MarkExact, Marked

\* The steps of the accounting: none, the item, its bytes, the item back, its bytes
\* back, and both at the start-up.
LEMMA OnlyCount ==
  ASSUME Inv, NEW i \in Items, Only(i), item'[i].size \in {0, 1},
         \/ /\ pending' = pending /\ bytes' = bytes
            /\ (Stage(i) \in Pends) = (item'[i].stage \in Pends)
            /\ (Stage(i) \in Charges) = (item'[i].stage \in Charges)
            /\ item'[i].size = item[i].size \/ (old # {} /\ item'[i].size = 0) \/ Stage(i) \notin Charges
         \/ /\ pending' = pending + 1 /\ bytes' = bytes
            /\ Stage(i) \notin Pends /\ item'[i].stage \in Pends
            /\ Stage(i) \notin Charges /\ item'[i].stage \notin Charges
         \/ /\ pending' = pending /\ bytes' = bytes + item'[i].size
            /\ Stage(i) \in Pends /\ item'[i].stage \in Pends
            /\ Stage(i) \notin Charges /\ item'[i].stage \in Charges
         \/ /\ pending' = pending - 1 /\ bytes' = bytes /\ item'[i].size = item[i].size
            /\ Stage(i) \in Pends /\ item'[i].stage \notin Pends
            /\ Stage(i) \in Charges /\ item'[i].stage \in Charges
         \/ /\ pending' = pending /\ bytes' = bytes - item[i].size
            /\ Stage(i) \notin Pends /\ item'[i].stage \notin Pends
            /\ Stage(i) \in Charges /\ item'[i].stage \notin Charges
         \/ /\ pending' = pending + 1 /\ bytes' = bytes + item'[i].size
            /\ Stage(i) \notin Pends /\ item'[i].stage \in Pends
            /\ Stage(i) \notin Charges /\ item'[i].stage \in Charges
  PROVE  CountInv'
<1> DEFINE c == Cardinality(Counted)
           s == Cardinality(Sized)
           p0 == Stage(i) \in Pends
           p1 == item'[i].stage \in Pends
           b0 == Stage(i) \in Charges /\ item[i].size = 1
           b1 == item'[i].stage \in Charges /\ item'[i].size = 1
<1>1. Counted \subseteq Items /\ Sized \subseteq Items /\ item[i].size \in {0, 1}
  BY DEF Counted, Sized, Inv, ItemTypes, Artifacts
<1>2. /\ c \in Nat /\ s \in Nat /\ pending \in Nat /\ bytes \in Nat /\ c <= pending /\ s <= bytes
      /\ old = {} => bytes - s <= pending - c
  BY <1>1, Finite DEF Inv, CountInv
<1>3. (i \in Counted <=> p0) /\ (i \in Sized <=> b0)
  BY DEF Counted, Sized
<1>4. /\ Counted' = IF p1 THEN Counted \cup {i} ELSE Counted \ {i}
      /\ Sized' = IF b1 THEN Sized \cup {i} ELSE Sized \ {i}
  BY DEF Counted, Sized, Stage, Only
<1>5. /\ Cardinality(Counted \cup {i}) = IF i \in Counted THEN c ELSE c + 1
      /\ Cardinality(Counted \ {i}) = IF i \in Counted THEN c - 1 ELSE c
      /\ Cardinality(Sized \cup {i}) = IF i \in Sized THEN s ELSE s + 1
      /\ Cardinality(Sized \ {i}) = IF i \in Sized THEN s - 1 ELSE s
  BY <1>1, Finite
<1>6. /\ Cardinality(Counted') = IF p1 THEN (IF p0 THEN c ELSE c + 1) ELSE (IF p0 THEN c - 1 ELSE c)
      /\ Cardinality(Sized') = IF b1 THEN (IF b0 THEN s ELSE s + 1) ELSE (IF b0 THEN s - 1 ELSE s)
  BY <1>3, <1>4, <1>5
<1>7. Cardinality(Counted') \in Nat /\ Cardinality(Sized') \in Nat
  <2>1. Counted' \subseteq Items /\ Sized' \subseteq Items
    BY DEF Counted, Sized
  <2>. QED
    BY <2>1, Finite
<1>8. \/ pending' = pending /\ bytes' = bytes /\ (p0 <=> p1) /\ ((b0 <=> b1) \/ (old # {} /\ ~b1))
      \/ pending' = pending + 1 /\ bytes' = bytes /\ ~p0 /\ p1 /\ ~b0 /\ ~b1
      \/ pending' = pending /\ p0 /\ p1 /\ ~b0 /\ bytes' = (IF b1 THEN bytes + 1 ELSE bytes)
      \/ pending' = pending - 1 /\ bytes' = bytes /\ p0 /\ ~p1 /\ (b0 <=> b1)
      \/ pending' = pending /\ ~p0 /\ ~p1 /\ ~b1 /\ bytes' = (IF b0 THEN bytes - 1 ELSE bytes)
      \/ pending' = pending + 1 /\ ~p0 /\ p1 /\ ~b0 /\ bytes' = (IF b1 THEN bytes + 1 ELSE bytes)
  BY <1>1, <1>2
<1> HIDE DEF c, s, p0, p1, b0, b1
<1>9. /\ pending' \in Nat /\ bytes' \in Nat
      /\ Cardinality(Counted') <= pending' /\ Cardinality(Sized') <= bytes'
      /\ old = {} => bytes' - Cardinality(Sized') <= pending' - Cardinality(Counted')
  BY <1>2, <1>6, <1>7, <1>8
<1>. QED
  BY <1>9 DEF CountInv, Only

LEMMA OnlyPhase ==
  ASSUME Inv, NEW i \in Items, Only(i), phase # "down", scan' = scan, Stage(i) # "gone"
  PROVE  PhaseInv'
<1>1. i \notin scan
  BY DEF Inv, PhaseInv, PlainTypes, AtStage
<1>. QED
  BY <1>1 DEF Inv, PhaseInv, PlainTypes, AtStage, Stage, Only

\* The whole invariant, for a step of one artifact that the channel and
\* dispatch_item do not hold.
LEMMA OnlyStep ==
  ASSUME Inv, NEW i \in Items, Only(i), Good(i)', PlainTypes', SlotInv', CountInv', MarkExact',
         chan' = chan, held' = held, scan' = scan, phase # "down",
         Stage(i) \notin {"queued", "held", "gone"}, item'[i].stage \notin {"queued", "held"}
  PROVE  Inv'
<1>1. ItemTypes'
  BY DEF Only, ItemTypes
<1>. QED
  BY <1>1, OnlyGood, OnlyQueue, OnlyPhase DEF Inv
-----------------------------------------------------------------------------
(***************************************************************************)
(* One lemma per step.                                                     *)
(***************************************************************************)
LEMMA DeduplicateKeeps ==
  ASSUME Inv, NEW i \in Items, NEW k \in Kinds, Deduplicate(i, k)
  PROVE  Inv'
<1>0. /\ Good(i) /\ item[i] \in Artifacts /\ item \in [Items -> Artifacts] /\ ItemTypes
      /\ reply \in [Items -> Replies]
  BY FilesAreGood DEF Inv, ItemTypes
<1>1. /\ Stage(i) = "new" /\ item'[i].stage = "settled"
      /\ item'[i].kind = item[i].kind /\ item'[i].size = item[i].size
      /\ item'[i] \in Artifacts /\ \A j \in Items \ {i} : item'[j] = item[j]
      /\ item' \in [Items -> Artifacts] /\ phase # "down"
  BY <1>0, BoundsAssumption DEF Artifacts, Stages, Stage, Up, Deduplicate, CanEnqueue, Goto, Tell, life
<1>2. Only(i)
  BY <1>0, <1>1 DEF Only, Replies, Deduplicate, CanEnqueue, Goto, Tell, files, queue, stats, life
<1>3. Good(i)'
  BY <1>0, <1>1 DEF Good, Stage, Accepted, InTask, Ending, RollingBack, Calling, HasSidecar,
     Deduplicate, CanEnqueue, Goto, Tell, files, queue, stats, life
<1>4. PlainTypes'
  BY <1>1 DEF Inv, PlainTypes, Deduplicate, CanEnqueue, Goto, Tell, files, queue, stats, life
<1>5. SlotInv'
  BY <1>1, <1>2, OnlySlots
     DEF InTask, Ending, RollingBack, Calling, Deduplicate, CanEnqueue, Goto, Tell, queue
<1>6. CountInv'
  <2>1. item'[i].size \in {0, 1}
    BY <1>1 DEF Artifacts
  <2>. QED
    BY <1>1, <1>2, <2>1, OnlyCount DEF Pends, Charges, Accepted, InTask, Ending, RollingBack, Calling,
       Deduplicate, CanEnqueue, Goto, Tell, stats
<1>7. MarkExact'
  BY <1>1, <1>2, OnlyMarks
     DEF Marked, Stage, Accepted, InTask, Ending, RollingBack, Calling, Deduplicate, CanEnqueue, Goto, Tell
<1>. QED
  BY <1>1, <1>2, <1>3, <1>4, <1>5, <1>6, <1>7, OnlyStep DEF Deduplicate, CanEnqueue, Goto, Tell, queue, life

LEMMA SpillFailsKeeps ==
  ASSUME Inv, NEW i \in Items, NEW k \in Kinds, SpillFails(i, k)
  PROVE  Inv'
<1>0. /\ Good(i) /\ item[i] \in Artifacts /\ item \in [Items -> Artifacts] /\ ItemTypes
      /\ reply \in [Items -> Replies]
  BY FilesAreGood DEF Inv, ItemTypes
<1>1. /\ Stage(i) = "new" /\ item'[i].stage = "settled"
      /\ item'[i].kind = item[i].kind /\ item'[i].size = item[i].size
      /\ item'[i] \in Artifacts /\ \A j \in Items \ {i} : item'[j] = item[j]
      /\ item' \in [Items -> Artifacts] /\ phase # "down"
  BY <1>0, BoundsAssumption DEF Artifacts, Stages, Stage, Up, SpillFails, CanEnqueue, Goto, Tell, life
<1>2. Only(i)
  BY <1>0, <1>1 DEF Only, Replies, SpillFails, CanEnqueue, Goto, Tell, files, queue, stats, life
<1>3. Good(i)'
  BY <1>0, <1>1 DEF Good, Stage, Accepted, InTask, Ending, RollingBack, Calling, HasSidecar,
     SpillFails, CanEnqueue, Goto, Tell, files, queue, stats, life
<1>4. PlainTypes'
  BY <1>1 DEF Inv, PlainTypes, SpillFails, CanEnqueue, Goto, Tell, files, queue, stats, life
<1>5. SlotInv'
  BY <1>1, <1>2, OnlySlots
     DEF InTask, Ending, RollingBack, Calling, SpillFails, CanEnqueue, Goto, Tell, queue
<1>6. CountInv'
  <2>1. item'[i].size \in {0, 1}
    BY <1>1 DEF Artifacts
  <2>. QED
    BY <1>1, <1>2, <2>1, OnlyCount DEF Pends, Charges, Accepted, InTask, Ending, RollingBack, Calling,
       SpillFails, CanEnqueue, Goto, Tell, stats
<1>7. MarkExact'
  BY <1>1, <1>2, OnlyMarks
     DEF Marked, Stage, Accepted, InTask, Ending, RollingBack, Calling, SpillFails, CanEnqueue, Goto, Tell
<1>. QED
  BY <1>1, <1>2, <1>3, <1>4, <1>5, <1>6, <1>7, OnlyStep DEF SpillFails, CanEnqueue, Goto, Tell, queue, life

LEMMA AccountKeeps ==
  ASSUME Inv, NEW i \in Items, Account(i)
  PROVE  Inv'
<1>0. /\ Good(i) /\ item[i] \in Artifacts /\ item \in [Items -> Artifacts] /\ ItemTypes
      /\ reply \in [Items -> Replies]
  BY FilesAreGood DEF Inv, ItemTypes
<1>1. /\ Stage(i) = "spilled" /\ item'[i].stage = "counted"
      /\ item'[i].kind = item[i].kind /\ item'[i].size = item[i].size
      /\ item'[i] \in Artifacts /\ \A j \in Items \ {i} : item'[j] = item[j]
      /\ item' \in [Items -> Artifacts] /\ phase # "down"
  BY <1>0, BoundsAssumption DEF Artifacts, Stages, Stage, Up, Account, Goto, life
<1>2. Only(i)
  BY <1>0, <1>1 DEF Only, Replies, Account, Goto, files, queue, stats, life
<1>3. Good(i)'
  BY <1>0, <1>1 DEF Good, Stage, Accepted, InTask, Ending, RollingBack, Calling, HasSidecar, Account,
     Goto, files, queue, stats, life
<1>4. PlainTypes'
  BY <1>1 DEF Inv, PlainTypes, Account, Goto, files, queue, stats, life
<1>5. SlotInv'
  BY <1>1, <1>2, OnlySlots DEF InTask, Ending, RollingBack, Calling, Account, Goto, queue
<1>6. CountInv'
  <2>1. item'[i].size \in {0, 1}
    BY <1>1 DEF Artifacts
  <2>. QED
    BY <1>1, <1>2, <2>1, OnlyCount
       DEF Pends, Charges, Accepted, InTask, Ending, RollingBack, Calling, Account, Goto, stats
<1>7. MarkExact'
  BY <1>1, <1>2, OnlyMarks DEF Marked, Stage, Accepted, InTask, Ending, RollingBack, Calling, Account, Goto
<1>. QED
  BY <1>1, <1>2, <1>3, <1>4, <1>5, <1>6, <1>7, OnlyStep DEF Account, Goto, queue, life

LEMMA ChargeKeeps ==
  ASSUME Inv, NEW i \in Items, Charge(i)
  PROVE  Inv'
<1>0. /\ Good(i) /\ item[i] \in Artifacts /\ item \in [Items -> Artifacts] /\ ItemTypes
      /\ reply \in [Items -> Replies]
  BY FilesAreGood DEF Inv, ItemTypes
<1>1. /\ Stage(i) = "counted" /\ item'[i].stage = "accounted"
      /\ item'[i].kind = item[i].kind /\ item'[i].size = item[i].size
      /\ item'[i] \in Artifacts /\ \A j \in Items \ {i} : item'[j] = item[j]
      /\ item' \in [Items -> Artifacts] /\ phase # "down"
  BY <1>0, BoundsAssumption DEF Artifacts, Stages, Stage, Up, Charge, Goto, life
<1>2. Only(i)
  BY <1>0, <1>1 DEF Only, Replies, Charge, Goto, files, queue, stats, life
<1>3. Good(i)'
  BY <1>0, <1>1 DEF Good, Stage, Accepted, InTask, Ending, RollingBack, Calling, HasSidecar, Charge,
     Goto, files, queue, stats, life
<1>4. PlainTypes'
  BY <1>1 DEF Inv, PlainTypes, Charge, Goto, files, queue, stats, life
<1>5. SlotInv'
  BY <1>1, <1>2, OnlySlots DEF InTask, Ending, RollingBack, Calling, Charge, Goto, queue
<1>6. CountInv'
  <2>1. item'[i].size \in {0, 1}
    BY <1>1 DEF Artifacts
  <2>. QED
    BY <1>1, <1>2, <2>1, OnlyCount
       DEF Pends, Charges, Accepted, InTask, Ending, RollingBack, Calling, Charge, Goto, stats
<1>7. MarkExact'
  BY <1>1, <1>2, OnlyMarks DEF Marked, Stage, Accepted, InTask, Ending, RollingBack, Calling, Charge, Goto
<1>. QED
  BY <1>1, <1>2, <1>3, <1>4, <1>5, <1>6, <1>7, OnlyStep DEF Charge, Goto, queue, life

LEMMA SidecarFailsKeeps ==
  ASSUME Inv, NEW i \in Items, SidecarFails(i)
  PROVE  Inv'
<1>0. /\ Good(i) /\ item[i] \in Artifacts /\ item \in [Items -> Artifacts] /\ ItemTypes
      /\ reply \in [Items -> Replies]
  BY FilesAreGood DEF Inv, ItemTypes
<1>1. /\ Stage(i) = "spilled" /\ item'[i].stage = "settled"
      /\ item'[i].kind \in {item[i].kind, "enqueue"}
      /\ item'[i] \in Artifacts /\ \A j \in Items \ {i} : item'[j] = item[j]
      /\ item' \in [Items -> Artifacts] /\ phase # "down"
  BY <1>0, EndedType, BoundsAssumption DEF Artifacts, Stages, Stage, Up, SidecarFails, Tell, life
<1>2. Only(i)
  BY <1>0, <1>1 DEF Only, Replies, SidecarFails, Tell, files, queue, stats, life
<1>3. Good(i)'
  BY <1>0, <1>1 DEF Good, Stage, Accepted, InTask, Ending, RollingBack, Calling, HasSidecar,
     SidecarFails, Tell, files, queue, stats, life
<1>4. PlainTypes'
  BY <1>1 DEF Inv, PlainTypes, SidecarFails, Tell, files, queue, stats, life
<1>5. SlotInv'
  BY <1>1, <1>2, OnlySlots DEF InTask, Ending, RollingBack, Calling, SidecarFails, Tell, queue
<1>6. CountInv'
  <2>1. item'[i].size \in {0, 1}
    BY <1>1 DEF Artifacts
  <2>. QED
    BY <1>1, <1>2, <2>1, OnlyCount
       DEF Pends, Charges, Accepted, InTask, Ending, RollingBack, Calling, SidecarFails, Tell, stats
<1>7. MarkExact'
  BY <1>1, <1>2, OnlyMarks
     DEF Marked, Stage, Accepted, InTask, Ending, RollingBack, Calling, SidecarFails, Tell
<1>. QED
  BY <1>1, <1>2, <1>3, <1>4, <1>5, <1>6, <1>7, OnlyStep DEF SidecarFails, Tell, queue, life

LEMMA RejectedKeeps ==
  ASSUME Inv, NEW i \in Items, Rejected(i)
  PROVE  Inv'
<1>0. /\ Good(i) /\ item[i] \in Artifacts /\ item \in [Items -> Artifacts] /\ ItemTypes
      /\ reply \in [Items -> Replies]
  BY FilesAreGood DEF Inv, ItemTypes
<1>1. /\ Stage(i) = "accounted" /\ item'[i].stage \in RollingBack
      /\ item'[i].kind = item[i].kind /\ item'[i].size = item[i].size
      /\ item'[i] \in Artifacts /\ \A j \in Items \ {i} : item'[j] = item[j]
      /\ item' \in [Items -> Artifacts] /\ phase # "down"
  BY <1>0, BoundsAssumption
     DEF RollingBack, Artifacts, Stages, Stage, Up, Rejected, Goto, RemoveSidecar, life
<1>2. Only(i)
  BY <1>0, <1>1 DEF Only, Replies, Rejected, Goto, RemoveSidecar, files, queue, stats, life
<1>3. Good(i)'
  BY <1>0, <1>1 DEF Good, Stage, Accepted, InTask, Ending, RollingBack, Calling, HasSidecar, Rejected,
     Goto, RemoveSidecar, files, queue, stats, life
<1>4. PlainTypes'
  BY <1>1 DEF Inv, PlainTypes, Rejected, Goto, RemoveSidecar, files, queue, stats, life
<1>5. SlotInv'
  BY <1>1, <1>2, OnlySlots DEF InTask, Ending, RollingBack, Calling, Rejected, Goto, RemoveSidecar, queue
<1>6. CountInv'
  <2>1. item'[i].size \in {0, 1}
    BY <1>1 DEF Artifacts
  <2>. QED
    BY <1>1, <1>2, <2>1, OnlyCount DEF Pends, Charges, Accepted, InTask, Ending, RollingBack, Calling,
       Rejected, Goto, RemoveSidecar, stats
<1>7. MarkExact'
  BY <1>1, <1>2, OnlyMarks
     DEF Marked, Stage, Accepted, InTask, Ending, RollingBack, Calling, Rejected, Goto, RemoveSidecar
<1>. QED
  BY <1>1, <1>2, <1>3, <1>4, <1>5, <1>6, <1>7, OnlyStep
     DEF RollingBack, Rejected, Goto, RemoveSidecar, queue, life

LEMMA RollBackKeeps ==
  ASSUME Inv, NEW i \in Items, RollBack(i)
  PROVE  Inv'
<1>0. /\ Good(i) /\ item[i] \in Artifacts /\ item \in [Items -> Artifacts] /\ ItemTypes
      /\ reply \in [Items -> Replies]
  BY FilesAreGood DEF Inv, ItemTypes
<1> DEFINE inline == Stage(i) = "falling"
           s == IF inline THEN "inline" ELSE "settled"
<1>a. /\ Stage(i) \in RollingBack /\ phase = "running" /\ item' = [item EXCEPT ![i] = Ended(i, s)]
      /\ temps' = (IF inline /\ HasWaiter(item[i].kind) THEN temps ELSE temps \ {i})
      /\ sidecars' = sidecars \ {i}
      /\ reply' = [reply EXCEPT ![i] = IF inline /\ HasWaiter(item[i].kind) THEN @ ELSE "told"]
  BY DEF RollBack, RemoveSidecar
<1>b. s \in {"inline", "settled"} /\ s \in Stages /\ (s = "inline") = inline
  BY DEF Stages
<1> HIDE DEF s, inline
<1>1. /\ Stage(i) \in RollingBack /\ item'[i].stage \in {"inline", "settled"} /\ item'[i].stage = s
      /\ item'[i] \in Artifacts /\ \A j \in Items \ {i} : item'[j] = item[j]
      /\ item' \in [Items -> Artifacts] /\ phase # "down"
  BY <1>0, <1>a, <1>b, EndedType
<1>2. Only(i)
  BY <1>0, <1>1 DEF Only, Replies, RollBack, Refund, RemoveSidecar, files, queue, stats, life
<1>3. Good(i)'
  <2>1. reply'[i] # "enqueued" /\ i \notin sidecars' /\ i \notin old' /\ phase' = "running"
    BY <1>0, <1>1, <1>a DEF Good, Calling, RollBack, life
  <2>2. item'[i].stage = "settled" => i \notin temps'
    BY <1>1, <1>a, <1>b
  <2>. QED
    BY <1>1, <2>1, <2>2 DEF Good, Stage, Accepted, InTask, Ending, RollingBack, Calling
<1>4. PlainTypes'
  BY <1>1 DEF Inv, PlainTypes, RollBack, Refund, RemoveSidecar, files, queue, stats, life
<1>5. SlotInv'
  BY <1>1, <1>2, OnlySlots DEF InTask, Ending, RollingBack, Calling, RollBack, Refund, RemoveSidecar, queue
<1>6. CountInv'
  <2>1. item'[i].size \in {0, 1}
    BY <1>1 DEF Artifacts
  <2>. QED
    BY <1>1, <1>2, <2>1, OnlyCount DEF Pends, Charges, Accepted, InTask, Ending, RollingBack, Calling,
       RollBack, Refund, RemoveSidecar, stats
<1>7. MarkExact'
  BY <1>1, <1>2, OnlyMarks
     DEF Marked, Stage, Accepted, InTask, Ending, RollingBack, Calling, RollBack, Refund, RemoveSidecar
<1>. QED
  BY <1>1, <1>2, <1>3, <1>4, <1>5, <1>6, <1>7, OnlyStep
     DEF RollingBack, RollBack, Refund, RemoveSidecar, queue, life

LEMMA InlineDoneKeeps ==
  ASSUME Inv, NEW i \in Items, InlineDone(i)
  PROVE  Inv'
<1>0. /\ Good(i) /\ item[i] \in Artifacts /\ item \in [Items -> Artifacts] /\ ItemTypes
      /\ reply \in [Items -> Replies]
  BY FilesAreGood DEF Inv, ItemTypes
<1>1. /\ Stage(i) = "inline" /\ item'[i].stage = "settled"
      /\ item'[i].kind \in {item[i].kind, "enqueue"}
      /\ item'[i] \in Artifacts /\ \A j \in Items \ {i} : item'[j] = item[j]
      /\ item' \in [Items -> Artifacts] /\ phase # "down"
  BY <1>0, EndedType, BoundsAssumption DEF Artifacts, Stages, Stage, Up, InlineDone, NotifyCompletion, life
<1>2. Only(i)
  BY <1>0, <1>1 DEF Only, Replies, InlineDone, NotifyCompletion, files, queue, stats, life
<1>3. Good(i)'
  BY <1>0, <1>1 DEF Good, Stage, Accepted, InTask, Ending, RollingBack, Calling, HasSidecar,
     InlineDone, NotifyCompletion, files, queue, stats, life
<1>4. PlainTypes'
  BY <1>1 DEF Inv, PlainTypes, InlineDone, NotifyCompletion, files, queue, stats, life
<1>5. SlotInv'
  BY <1>1, <1>2, OnlySlots DEF InTask, Ending, RollingBack, Calling, InlineDone, NotifyCompletion, queue
<1>6. CountInv'
  <2>1. item'[i].size \in {0, 1}
    BY <1>1 DEF Artifacts
  <2>. QED
    BY <1>1, <1>2, <2>1, OnlyCount DEF Pends, Charges, Accepted, InTask, Ending, RollingBack, Calling,
       InlineDone, NotifyCompletion, stats
<1>7. MarkExact'
  BY <1>1, <1>2, OnlyMarks
     DEF Marked, Stage, Accepted, InTask, Ending, RollingBack, Calling, InlineDone, NotifyCompletion
<1>. QED
  BY <1>1, <1>2, <1>3, <1>4, <1>5, <1>6, <1>7, OnlyStep DEF InlineDone, NotifyCompletion, queue, life

LEMMA StartKeeps ==
  ASSUME Inv, NEW i \in Items, Start(i)
  PROVE  Inv'
<1>0. /\ Good(i) /\ item[i] \in Artifacts /\ item \in [Items -> Artifacts] /\ ItemTypes
      /\ reply \in [Items -> Replies]
  BY FilesAreGood DEF Inv, ItemTypes
<1>1. /\ Stage(i) = "spawned" /\ item'[i].stage = "upload"
      /\ item'[i].kind = item[i].kind /\ item'[i].size = (IF i \in temps THEN item[i].size ELSE 0)
      /\ item'[i] \in Artifacts /\ \A j \in Items \ {i} : item'[j] = item[j]
      /\ item' \in [Items -> Artifacts] /\ phase # "down"
  <2>1. FileSize(i) \in {0, 1}
    BY <1>0 DEF Artifacts, FileSize
  <2>2. /\ item' = [item EXCEPT ![i] = [item[i] EXCEPT !.stage = "upload", !.size = FileSize(i)]]
        /\ Stage(i) = "spawned" /\ phase # "down"
    BY <1>0 DEF Start, Up
  <2>3. /\ item'[i].stage = "upload" /\ item'[i].kind = item[i].kind /\ item'[i].size = FileSize(i)
        /\ item'[i] \in Artifacts
    BY <1>0, <2>1, <2>2 DEF Artifacts, Stages
  <2>. QED
    BY <1>0, <2>2, <2>3 DEF FileSize
<1>2. Only(i)
  BY <1>0, <1>1 DEF Only, Replies, Start, files, queue, stats, life
<1>3. Good(i)'
  BY <1>0, <1>1 DEF Good, Stage, Accepted, InTask, Ending, RollingBack, Calling, HasSidecar, Start,
     files, queue, stats, life
<1>4. PlainTypes'
  BY <1>1 DEF Inv, PlainTypes, Start, files, queue, stats, life
<1>5. SlotInv'
  BY <1>1, <1>2, OnlySlots DEF InTask, Ending, RollingBack, Calling, Start, queue
<1>6. CountInv'
  <2>1. item'[i].size \in {0, 1}
    BY <1>1 DEF Artifacts
  <2>2. i \notin temps => old # {}
    BY <1>0, <1>1 DEF Good, Accepted, InTask, Ending, RollingBack, Calling
  <2>3. item'[i].size = item[i].size \/ (old # {} /\ item'[i].size = 0)
    BY <1>1, <2>2
  <2>. QED
    BY <1>1, <1>2, <2>1, <2>3, OnlyCount
       DEF Pends, Charges, Accepted, InTask, Ending, RollingBack, Calling, Start, stats
<1>7. MarkExact'
  BY <1>1, <1>2, OnlyMarks DEF Marked, Stage, Accepted, InTask, Ending, RollingBack, Calling, Start
<1>. QED
  BY <1>1, <1>2, <1>3, <1>4, <1>5, <1>6, <1>7, OnlyStep DEF Start, queue, life

LEMMA FinishKeeps ==
  ASSUME Inv, NEW i \in Items, NEW outcome, Finish(i, outcome), Stage(i) \in {"upload", "refused", "parked"}, Up
  PROVE  Inv'
<1>0. /\ Good(i) /\ item[i] \in Artifacts /\ item \in [Items -> Artifacts] /\ ItemTypes
      /\ reply \in [Items -> Replies]
  BY FilesAreGood DEF Inv, ItemTypes
<1>1. /\ Stage(i) \in {"upload", "refused", "parked"} /\ item'[i].stage = "closing"
      /\ item'[i].kind = item[i].kind /\ item'[i].size = item[i].size
      /\ item'[i] \in Artifacts /\ \A j \in Items \ {i} : item'[j] = item[j]
      /\ item' \in [Items -> Artifacts] /\ phase # "down"
  BY <1>0, BoundsAssumption DEF Artifacts, Stages, Stage, Up, Finish, Goto, life
<1>2. Only(i)
  BY <1>0, <1>1 DEF Only, Replies, Finish, Goto, files, queue, stats, life
<1>3. Good(i)'
  BY <1>0, <1>1 DEF Good, Stage, Accepted, InTask, Ending, RollingBack, Calling, HasSidecar, Finish,
     Goto, files, queue, stats, life
<1>4. PlainTypes'
  <2>1. failures' \in 0..Threshold
    <3>1. failures \in 0..Threshold /\ Threshold \in Nat /\ failures + 1 \in Int
      BY BoundsAssumption DEF Inv, PlainTypes
    <3>2. Min({failures + 1, Threshold}) \in 0..Threshold
      BY <3>1, SmallerOf
    <3>. QED
      BY <3>1, <3>2 DEF Finish
  <2>. QED
    BY <2>1 DEF Inv, PlainTypes, Finish, life
<1>5. SlotInv'
  BY <1>1, <1>2, OnlySlots DEF InTask, Ending, RollingBack, Calling, Finish, Goto, queue
<1>6. CountInv'
  <2>1. item'[i].size \in {0, 1}
    BY <1>1 DEF Artifacts
  <2>. QED
    BY <1>1, <1>2, <2>1, OnlyCount
       DEF Pends, Charges, Accepted, InTask, Ending, RollingBack, Calling, Finish, Goto, stats
<1>7. MarkExact'
  BY <1>1, <1>2, OnlyMarks DEF Marked, Stage, Accepted, InTask, Ending, RollingBack, Calling, Finish, Goto
<1>. QED
  BY <1>1, <1>2, <1>3, <1>4, <1>5, <1>6, <1>7, OnlyStep DEF Finish, Goto, queue, life

LEMMA RetryKeeps ==
  ASSUME Inv, NEW i \in Items, Retry(i)
  PROVE  Inv'
<1>0. /\ Good(i) /\ item[i] \in Artifacts /\ item \in [Items -> Artifacts] /\ ItemTypes
      /\ reply \in [Items -> Replies]
  BY FilesAreGood DEF Inv, ItemTypes
<1>1. /\ Stage(i) = "upload" /\ item'[i].stage = "backoff"
      /\ item'[i].kind = item[i].kind /\ item'[i].size = item[i].size
      /\ item'[i] \in Artifacts /\ \A j \in Items \ {i} : item'[j] = item[j]
      /\ item' \in [Items -> Artifacts] /\ phase # "down"
  <2>1. Tried(i) \in 0..MaxAttempts BY <1>0, TriedBound
  <2>. QED
    BY <1>0, <2>1 DEF Artifacts, Stages, Stage, Up, Retry
<1>2. Only(i)
  BY <1>0, <1>1 DEF Only, Replies, Retry, files, queue, stats, life
<1>3. Good(i)'
  BY <1>0, <1>1 DEF Good, Stage, Accepted, InTask, Ending, RollingBack, Calling, HasSidecar, Retry,
     files, queue, stats, life
<1>4. PlainTypes'
  BY <1>1 DEF Inv, PlainTypes, Retry, files, queue, stats, life
<1>5. SlotInv'
  BY <1>1, <1>2, OnlySlots DEF InTask, Ending, RollingBack, Calling, Retry, queue
<1>6. CountInv'
  <2>1. item'[i].size \in {0, 1}
    BY <1>1 DEF Artifacts
  <2>. QED
    BY <1>1, <1>2, <2>1, OnlyCount
       DEF Pends, Charges, Accepted, InTask, Ending, RollingBack, Calling, Retry, stats
<1>7. MarkExact'
  BY <1>1, <1>2, OnlyMarks DEF Marked, Stage, Accepted, InTask, Ending, RollingBack, Calling, Retry
<1>. QED
  BY <1>1, <1>2, <1>3, <1>4, <1>5, <1>6, <1>7, OnlyStep DEF Retry, queue, life

LEMMA BackoffEndsKeeps ==
  ASSUME Inv, NEW i \in Items, BackoffEnds(i)
  PROVE  Inv'
<1>0. /\ Good(i) /\ item[i] \in Artifacts /\ item \in [Items -> Artifacts] /\ ItemTypes
      /\ reply \in [Items -> Replies]
  BY FilesAreGood DEF Inv, ItemTypes
<1>1. /\ Stage(i) = "backoff" /\ item'[i].stage = "upload"
      /\ item'[i].kind = item[i].kind /\ item'[i].size = item[i].size
      /\ item'[i] \in Artifacts /\ \A j \in Items \ {i} : item'[j] = item[j]
      /\ item' \in [Items -> Artifacts] /\ phase # "down"
  BY <1>0, BoundsAssumption DEF Artifacts, Stages, Stage, Up, BackoffEnds, Goto, life
<1>2. Only(i)
  BY <1>0, <1>1 DEF Only, Replies, BackoffEnds, Goto, files, queue, stats, life
<1>3. Good(i)'
  BY <1>0, <1>1 DEF Good, Stage, Accepted, InTask, Ending, RollingBack, Calling, HasSidecar,
     BackoffEnds, Goto, files, queue, stats, life
<1>4. PlainTypes'
  BY <1>1 DEF Inv, PlainTypes, BackoffEnds, Goto, files, queue, stats, life
<1>5. SlotInv'
  BY <1>1, <1>2, OnlySlots DEF InTask, Ending, RollingBack, Calling, BackoffEnds, Goto, queue
<1>6. CountInv'
  <2>1. item'[i].size \in {0, 1}
    BY <1>1 DEF Artifacts
  <2>. QED
    BY <1>1, <1>2, <2>1, OnlyCount
       DEF Pends, Charges, Accepted, InTask, Ending, RollingBack, Calling, BackoffEnds, Goto, stats
<1>7. MarkExact'
  BY <1>1, <1>2, OnlyMarks
     DEF Marked, Stage, Accepted, InTask, Ending, RollingBack, Calling, BackoffEnds, Goto
<1>. QED
  BY <1>1, <1>2, <1>3, <1>4, <1>5, <1>6, <1>7, OnlyStep DEF BackoffEnds, Goto, queue, life

LEMMA RefuseKeeps ==
  ASSUME Inv, NEW i \in Items, NEW different \in BOOLEAN, Refuse(i, different)
  PROVE  Inv'
<1>0. /\ Good(i) /\ item[i] \in Artifacts /\ item \in [Items -> Artifacts] /\ ItemTypes
      /\ reply \in [Items -> Replies]
  BY FilesAreGood DEF Inv, ItemTypes
<1>1. /\ Stage(i) = "upload" /\ item'[i].stage \in {"upload", "refused"}
      /\ item'[i].kind = item[i].kind /\ item'[i].size = item[i].size
      /\ item'[i] \in Artifacts /\ \A j \in Items \ {i} : item'[j] = item[j]
      /\ item' \in [Items -> Artifacts] /\ phase # "down"
  <2>1. Tried(i) \in 0..MaxAttempts BY <1>0, TriedBound
  <2>. QED
    BY <1>0, <2>1 DEF Artifacts, Stages, Stage, Up, Refuse
<1>2. Only(i)
  BY <1>0, <1>1 DEF Only, Replies, Refuse, ReleaseSlot, files, queue, stats, life
<1>3. Good(i)'
  BY <1>0, <1>1 DEF Good, Stage, Accepted, InTask, Ending, RollingBack, Calling, HasSidecar, Refuse,
     ReleaseSlot, files, queue, stats, life
<1>4. PlainTypes'
  BY <1>1 DEF Inv, PlainTypes, Refuse, ReleaseSlot, files, queue, stats, life
<1>5. SlotInv'
  BY <1>1, <1>2, OnlySlots DEF InTask, Ending, RollingBack, Calling, Refuse, ReleaseSlot, queue
<1>6. CountInv'
  <2>1. item'[i].size \in {0, 1}
    BY <1>1 DEF Artifacts
  <2>. QED
    BY <1>1, <1>2, <2>1, OnlyCount
       DEF Pends, Charges, Accepted, InTask, Ending, RollingBack, Calling, Refuse, ReleaseSlot, stats
<1>7. MarkExact'
  BY <1>1, <1>2, OnlyMarks
     DEF Marked, Stage, Accepted, InTask, Ending, RollingBack, Calling, Refuse, ReleaseSlot
<1>. QED
  BY <1>1, <1>2, <1>3, <1>4, <1>5, <1>6, <1>7, OnlyStep DEF Refuse, ReleaseSlot, queue, life

LEMMA ParkKeeps ==
  ASSUME Inv, NEW i \in Items, Park(i)
  PROVE  Inv'
<1>0. /\ Good(i) /\ item[i] \in Artifacts /\ item \in [Items -> Artifacts] /\ ItemTypes
      /\ reply \in [Items -> Replies]
  BY FilesAreGood DEF Inv, ItemTypes
<1>1. /\ Stage(i) = "refused" /\ item'[i].stage = "parked"
      /\ item'[i].kind = item[i].kind /\ item'[i].size = item[i].size
      /\ item'[i] \in Artifacts /\ \A j \in Items \ {i} : item'[j] = item[j]
      /\ item' \in [Items -> Artifacts] /\ phase # "down"
  BY <1>0, BoundsAssumption DEF Artifacts, Stages, Stage, Up, Park, Goto, NotifyCompletion, life
<1>2. Only(i)
  BY <1>0, <1>1 DEF Only, Replies, Park, Goto, NotifyCompletion, files, queue, stats, life
<1>3. Good(i)'
  BY <1>0, <1>1 DEF Good, Stage, Accepted, InTask, Ending, RollingBack, Calling, HasSidecar, Park,
     Goto, NotifyCompletion, files, queue, stats, life
<1>4. PlainTypes'
  BY <1>1 DEF Inv, PlainTypes, Park, Goto, NotifyCompletion, files, queue, stats, life
<1>5. SlotInv'
  BY <1>1, <1>2, OnlySlots DEF InTask, Ending, RollingBack, Calling, Park, Goto, NotifyCompletion, queue
<1>6. CountInv'
  <2>1. item'[i].size \in {0, 1}
    BY <1>1 DEF Artifacts
  <2>. QED
    BY <1>1, <1>2, <2>1, OnlyCount DEF Pends, Charges, Accepted, InTask, Ending, RollingBack, Calling,
       Park, Goto, NotifyCompletion, stats
<1>7. MarkExact'
  BY <1>1, <1>2, OnlyMarks
     DEF Marked, Stage, Accepted, InTask, Ending, RollingBack, Calling, Park, Goto, NotifyCompletion
<1>. QED
  BY <1>1, <1>2, <1>3, <1>4, <1>5, <1>6, <1>7, OnlyStep DEF Park, Goto, NotifyCompletion, queue, life

LEMMA WakeKeeps ==
  ASSUME Inv, NEW i \in Items, Wake(i)
  PROVE  Inv'
<1>0. /\ Good(i) /\ item[i] \in Artifacts /\ item \in [Items -> Artifacts] /\ ItemTypes
      /\ reply \in [Items -> Replies]
  BY FilesAreGood DEF Inv, ItemTypes
<1>1. /\ Stage(i) = "parked" /\ item'[i].stage = "woken"
      /\ item'[i].kind = item[i].kind /\ item'[i].size = item[i].size
      /\ item'[i] \in Artifacts /\ \A j \in Items \ {i} : item'[j] = item[j]
      /\ item' \in [Items -> Artifacts] /\ phase # "down"
  BY <1>0, BoundsAssumption DEF Artifacts, Stages, Stage, Up, Wake, Goto, life
<1>2. Only(i)
  BY <1>0, <1>1 DEF Only, Replies, Wake, Goto, files, queue, stats, life
<1>3. Good(i)'
  BY <1>0, <1>1 DEF Good, Stage, Accepted, InTask, Ending, RollingBack, Calling, HasSidecar, Wake,
     Goto, files, queue, stats, life
<1>4. PlainTypes'
  BY <1>1 DEF Inv, PlainTypes, Wake, Goto, files, queue, stats, life
<1>5. SlotInv'
  BY <1>1, <1>2, OnlySlots DEF InTask, Ending, RollingBack, Calling, Wake, Goto, queue
<1>6. CountInv'
  <2>1. item'[i].size \in {0, 1}
    BY <1>1 DEF Artifacts
  <2>. QED
    BY <1>1, <1>2, <2>1, OnlyCount
       DEF Pends, Charges, Accepted, InTask, Ending, RollingBack, Calling, Wake, Goto, stats
<1>7. MarkExact'
  BY <1>1, <1>2, OnlyMarks DEF Marked, Stage, Accepted, InTask, Ending, RollingBack, Calling, Wake, Goto
<1>. QED
  BY <1>1, <1>2, <1>3, <1>4, <1>5, <1>6, <1>7, OnlyStep DEF Wake, Goto, queue, life

LEMMA ReacquireKeeps ==
  ASSUME Inv, NEW i \in Items, Reacquire(i)
  PROVE  Inv'
<1>0. /\ Good(i) /\ item[i] \in Artifacts /\ item \in [Items -> Artifacts] /\ ItemTypes
      /\ reply \in [Items -> Replies]
  BY FilesAreGood DEF Inv, ItemTypes
<1>1. /\ Stage(i) = "woken" /\ item'[i].stage = "upload"
      /\ item'[i].kind = item[i].kind /\ item'[i].size = item[i].size
      /\ item'[i] \in Artifacts /\ \A j \in Items \ {i} : item'[j] = item[j]
      /\ item' \in [Items -> Artifacts] /\ phase # "down"
  BY <1>0, BoundsAssumption DEF Artifacts, Stages, Stage, Up, Reacquire, life
<1>2. Only(i)
  BY <1>0, <1>1 DEF Only, Replies, Reacquire, files, queue, stats, life
<1>3. Good(i)'
  BY <1>0, <1>1 DEF Good, Stage, Accepted, InTask, Ending, RollingBack, Calling, HasSidecar, Reacquire,
     files, queue, stats, life
<1>4. PlainTypes'
  BY <1>1 DEF Inv, PlainTypes, Reacquire, files, queue, stats, life
<1>5. SlotInv'
  BY <1>1, <1>2, OnlySlots DEF InTask, Ending, RollingBack, Calling, Reacquire, queue
<1>6. CountInv'
  <2>1. item'[i].size \in {0, 1}
    BY <1>1 DEF Artifacts
  <2>. QED
    BY <1>1, <1>2, <2>1, OnlyCount
       DEF Pends, Charges, Accepted, InTask, Ending, RollingBack, Calling, Reacquire, stats
<1>7. MarkExact'
  BY <1>1, <1>2, OnlyMarks DEF Marked, Stage, Accepted, InTask, Ending, RollingBack, Calling, Reacquire
<1>. QED
  BY <1>1, <1>2, <1>3, <1>4, <1>5, <1>6, <1>7, OnlyStep DEF Reacquire, queue, life

LEMMA SettleKeeps ==
  ASSUME Inv, NEW i \in Items, Settle(i)
  PROVE  Inv'
<1>0. /\ Good(i) /\ item[i] \in Artifacts /\ item \in [Items -> Artifacts] /\ ItemTypes
      /\ reply \in [Items -> Replies]
  BY FilesAreGood DEF Inv, ItemTypes
<1>1. /\ Stage(i) = "closing" /\ item'[i].stage = "repaying"
      /\ item'[i].kind = item[i].kind /\ item'[i].size = item[i].size
      /\ item'[i] \in Artifacts /\ \A j \in Items \ {i} : item'[j] = item[j]
      /\ item' \in [Items -> Artifacts] /\ phase # "down"
  BY <1>0, BoundsAssumption
     DEF Artifacts, Stages, Stage, Up, Settle, Goto, RemoveSidecar, NotifyCompletion, life
<1>2. Only(i)
  BY <1>0, <1>1 DEF Only, Replies, Settle, Goto, RemoveSidecar, NotifyCompletion, files, queue, stats, life
<1>3. Good(i)'
  BY <1>0, <1>1 DEF Good, Stage, Accepted, InTask, Ending, RollingBack, Calling, HasSidecar, Settle,
     Goto, RemoveSidecar, NotifyCompletion, files, queue, stats, life
<1>4. PlainTypes'
  BY <1>1 DEF Inv, PlainTypes, Settle, Goto, RemoveSidecar, NotifyCompletion, files, queue, stats, life
<1>5. SlotInv'
  BY <1>1, <1>2, OnlySlots
     DEF InTask, Ending, RollingBack, Calling, Settle, Goto, RemoveSidecar, NotifyCompletion, queue
<1>6. CountInv'
  <2>1. item'[i].size \in {0, 1}
    BY <1>1 DEF Artifacts
  <2>. QED
    BY <1>1, <1>2, <2>1, OnlyCount DEF Pends, Charges, Accepted, InTask, Ending, RollingBack, Calling,
       Settle, Goto, RemoveSidecar, NotifyCompletion, stats
<1>7. MarkExact'
  BY <1>1, <1>2, OnlyMarks DEF Marked, Stage, Accepted, InTask, Ending, RollingBack, Calling, Settle,
     Goto, RemoveSidecar, NotifyCompletion
<1>. QED
  BY <1>1, <1>2, <1>3, <1>4, <1>5, <1>6, <1>7, OnlyStep
     DEF Settle, Goto, RemoveSidecar, NotifyCompletion, queue, life

LEMMA RepayKeeps ==
  ASSUME Inv, NEW i \in Items, Repay(i)
  PROVE  Inv'
<1>0. /\ Good(i) /\ item[i] \in Artifacts /\ item \in [Items -> Artifacts] /\ ItemTypes
      /\ reply \in [Items -> Replies]
  BY FilesAreGood DEF Inv, ItemTypes
<1>1. /\ Stage(i) = "repaying" /\ item'[i].stage = "settled"
      /\ item'[i].kind \in {item[i].kind, "enqueue"}
      /\ item'[i] \in Artifacts /\ \A j \in Items \ {i} : item'[j] = item[j]
      /\ item' \in [Items -> Artifacts] /\ phase # "down"
  BY <1>0, EndedType, BoundsAssumption
     DEF Artifacts, Stages, Stage, Up, Repay, Refund, NotifyCompletion, life
<1>2. Only(i)
  BY <1>0, <1>1 DEF Only, Replies, Repay, Refund, NotifyCompletion, files, queue, stats, life
<1>3. Good(i)'
  BY <1>0, <1>1 DEF Good, Stage, Accepted, InTask, Ending, RollingBack, Calling, HasSidecar, Repay,
     Refund, NotifyCompletion, files, queue, stats, life
<1>4. PlainTypes'
  BY <1>1 DEF Inv, PlainTypes, Repay, Refund, NotifyCompletion, files, queue, stats, life
<1>5. SlotInv'
  BY <1>1, <1>2, OnlySlots DEF InTask, Ending, RollingBack, Calling, Repay, Refund, NotifyCompletion, queue
<1>6. CountInv'
  <2>1. item'[i].size \in {0, 1}
    BY <1>1 DEF Artifacts
  <2>. QED
    BY <1>1, <1>2, <2>1, OnlyCount DEF Pends, Charges, Accepted, InTask, Ending, RollingBack, Calling,
       Repay, Refund, NotifyCompletion, stats
<1>7. MarkExact'
  BY <1>1, <1>2, OnlyMarks
     DEF Marked, Stage, Accepted, InTask, Ending, RollingBack, Calling, Repay, Refund, NotifyCompletion
<1>. QED
  BY <1>1, <1>2, <1>3, <1>4, <1>5, <1>6, <1>7, OnlyStep DEF Repay, Refund, NotifyCompletion, queue, life

LEMMA SpillKeeps ==
  ASSUME Inv, NEW i \in Items, NEW k \in Kinds, NEW n \in {0, 1}, Spill(i, k, n)
  PROVE  Inv'
<1> DEFINE mark == Deduplicates(k) /\ i \in Twins
           over == Budgeted(k) /\ n > 0 /\ OverBudget(n)
           s == IF over THEN "inline" ELSE "spilled"
<1>0. Good(i) /\ ItemTypes
  BY FilesAreGood DEF Inv
<1>1. /\ Stage(i) = "new" /\ phase = "running" /\ (mark => guards = {})
      /\ item' = [item EXCEPT ![i] = Artifact(s, k, n)]
      /\ reply' = [reply EXCEPT ![i] = IF HasWaiter(k) THEN "waiting" ELSE IF over THEN "told" ELSE @]
      /\ guards' = (IF mark /\ ~over THEN guards \cup {i} ELSE guards)
      /\ temps' = (IF over /\ k # "reference" THEN temps ELSE temps \cup {i})
      /\ UNCHANGED <<sidecars, old, queue, stats, resolved, life>>
  BY DEF Spill, CanEnqueue, CanMark
<1>2. s \in Stages /\ s \in {"inline", "spilled"} /\ (s = "inline") = over /\ (s = "spilled") = ~over
  BY DEF Stages
<1> HIDE DEF over, s
<1>3. /\ item'[i].stage = s /\ item'[i].kind = k /\ item'[i].size = n
      /\ item' \in [Items -> Artifacts] /\ \A j \in Items \ {i} : item'[j] = item[j]
  BY <1>0, <1>1, <1>2, ArtifactType DEF ItemTypes
<1>4. Only(i)
  BY <1>0, <1>1, <1>3 DEF Only, ItemTypes, Replies, life
<1>5. Good(i)'
  <2>1. reply'[i] # "enqueued" /\ i \notin sidecars' /\ i \notin old' /\ phase' = "running"
    BY <1>0, <1>1 DEF Good, ItemTypes, life
  <2>2. item'[i].stage = "spilled" => i \in temps'
    BY <1>1, <1>2, <1>3
  <2>3. HasWaiter(k) => reply'[i] = "waiting"
    BY <1>0, <1>1 DEF ItemTypes
  <2>. QED
    BY <1>2, <1>3, <2>1, <2>2, <2>3 DEF Good, Stage, Accepted, InTask, Ending, RollingBack, Calling
<1>6. PlainTypes'
  BY <1>1 DEF Inv, PlainTypes, queue, life
<1>7. SlotInv'
  BY <1>1, <1>4, OnlySlots DEF InTask, Ending, RollingBack, Calling, queue
<1>8. CountInv'
  BY <1>1, <1>2, <1>3, <1>4, OnlyCount
     DEF Pends, Charges, Accepted, InTask, Ending, RollingBack, Calling, stats
<1>9. MarkExact'
  <2>1. CASE mark /\ ~over
    <3>1. guards' = guards \cup {i} /\ guards = {} /\ Marked(i)'
      BY <1>1, <1>2, <1>3, <2>1 DEF Marked, Stage, Accepted, InTask, Ending, RollingBack, Calling
    <3>. QED
      BY <1>4, <3>1, OnlyMarks
  <2>2. CASE ~(mark /\ ~over)
    <3>1. guards' = guards /\ Marked(i)' = FALSE /\ Marked(i) = FALSE
      BY <1>1, <1>2, <1>3, <2>2 DEF Marked, Stage, Accepted, InTask, Ending, RollingBack, Calling
    <3>. QED
      BY <1>4, <3>1, OnlyMarks
  <2>. QED
    BY <2>1, <2>2
<1>. QED
  BY <1>1, <1>2, <1>3, <1>4, <1>5, <1>6, <1>7, <1>8, <1>9, OnlyStep DEF queue, life

-----------------------------------------------------------------------------
(***************************************************************************)
(* Steps that touch no artifact.                                           *)
(***************************************************************************)
LEMMA QuietStep ==
  ASSUME Inv, UNCHANGED <<item, reply, chan, held, slots, stats, guards>>, old \subseteq old',
         PlainTypes', PhaseInv', \A j \in Items : Good(j)'
  PROVE  Inv'
<1>1. ItemTypes' /\ ChanInv' /\ HeldInv' /\ SlotInv' /\ MarkExact'
  BY DEF Inv, ItemTypes, ChanInv, HeldInv, SlotInv, MarkExact, AtStage, Running, Stage
<1>2. CountInv'
  <2>1. Counted' = Counted /\ Sized' = Sized /\ pending' = pending /\ bytes' = bytes
    BY DEF Counted, Sized, Stage, stats
  <2>2. old' = {} => old = {}
    OBVIOUS
  <2>. QED
    BY <2>1, <2>2 DEF Inv, CountInv
<1>3. FilesInv' /\ FilesFollowItem' /\ DurablyAccepted'
  BY DEF FilesInv, FilesFollowItem, DurablyAccepted, Good
<1>. QED
  BY <1>1, <1>2, <1>3 DEF Inv

\* The worker and the callers' handles move without an artifact.
LEMMA SignalKeeps ==
  ASSUME Inv, \/ CheckBreaker \/ CooldownEnds \/ ShutdownSeen \/ ChannelGone \/ Drained \/ Joined
              \/ Drain \/ DropQueue
  PROVE  Inv'
<1> USE DEF CheckBreaker, CooldownEnds, ShutdownSeen, ChannelGone, Drained, Joined, Drain, DropQueue
<1>1. UNCHANGED <<item, reply, chan, held, slots, stats, guards, resolved, files, life>>
  OBVIOUS
<1>2. PlainTypes'
  <2>1. failures' \in 0..Threshold
    BY BoundsAssumption DEF Inv, PlainTypes
  <2>. QED
    BY <1>1, <2>1 DEF Inv, PlainTypes, Pcs, files, life
<1>3. PhaseInv' /\ \A j \in Items : Good(j)'
  <2>1. PhaseInv'
    BY <1>1 DEF Inv, PhaseInv, AtStage, Stage, files, life
  <2>2. \A j \in Items : Good(j)
    BY FilesAreGood DEF Inv
  <2>3. \A j \in Items : Good(j)'
    BY <1>1, <2>2 DEF Good, Stage, files, life
  <2>. QED
    BY <2>1, <2>3
<1>. QED
  BY <1>1, <1>2, <1>3, QuietStep DEF files

LEMMA RecoverLaterKeeps ==
  ASSUME Inv, NEW i \in Items, RecoverLater(i)
  PROVE  Inv'
<1>1. PlainTypes' /\ PhaseInv'
  BY DEF Inv, PlainTypes, PhaseInv, AtStage, Stage, RecoverLater, files, queue
<1>2. \A j \in Items : Good(j)'
  BY FilesAreGood DEF Inv, Good, Stage, RecoverLater, files
<1>. QED
  BY <1>1, <1>2, QuietStep DEF RecoverLater, queue, files

LEMMA RecoverDropsKeeps ==
  ASSUME Inv, NEW i \in Items, RecoverDrops(i)
  PROVE  Inv'
<1>0. Stage(i) = "gone" /\ \A j \in Items : Good(j)
  BY FilesAreGood DEF Inv, PhaseInv, AtStage, RecoverDrops
<1>1. PlainTypes' /\ PhaseInv'
  BY DEF Inv, PlainTypes, PhaseInv, AtStage, Stage, RecoverDrops, queue
<1>2. \A j \in Items \ {i} : Good(j)'
  BY <1>0 DEF Good, Stage, RecoverDrops
<1>3. Good(i)'
  BY <1>0 DEF Good, Stage, Accepted, InTask, Ending, RollingBack, Calling, RecoverDrops
<1>. QED
  BY <1>1, <1>2, <1>3, QuietStep DEF RecoverDrops, queue

LEMMA AgeKeeps ==
  ASSUME Inv, NEW i \in Items, Age(i)
  PROVE  Inv'
<1>0. \A j \in Items : Good(j)
  BY FilesAreGood DEF Inv
<1>1. PlainTypes' /\ PhaseInv'
  BY DEF Inv, PlainTypes, PhaseInv, AtStage, Stage, Age, queue, life
<1>2. ASSUME NEW j \in Items PROVE Good(j)'
  <2>1. Good(j)
    BY <1>0
  <2>2. phase # "running" /\ phase' = phase /\ (j \in old' => j \in old \/ j \in sidecars \cup temps)
    BY DEF Age, life
  <2>. QED
    BY <2>1, <2>2 DEF Good, Stage, Age
<1>. QED
  BY <1>1, <1>2, QuietStep DEF Age, queue

LEMMA RestartKeeps ==
  ASSUME Inv, Restart
  PROVE  Inv'
<1>0. \A j \in Items : Good(j) /\ Stage(j) \in {"new", "gone"}
  BY FilesAreGood DEF Inv, PhaseInv, Restart
<1>1. PlainTypes'
  BY DEF Inv, PlainTypes, Restart, files, queue
<1>2. PhaseInv'
  BY <1>0 DEF Inv, PlainTypes, PhaseInv, Good, AtStage, Stage, Restart, files
<1>3. \A j \in Items : Good(j)'
  BY <1>0 DEF Good, Stage, Restart, files
<1>. QED
  BY <1>1, <1>2, <1>3, QuietStep DEF Restart, queue, files

LEMMA CleanupKeeps ==
  ASSUME Inv, Cleanup
  PROVE  Inv'
<1>0. \A j \in Items : Good(j)
  BY FilesAreGood DEF Inv
<1>1. PlainTypes'
  BY DEF Inv, PlainTypes, Cleanup, queue
<1>2. PhaseInv'
  BY DEF PhaseInv, Cleanup
<1>3. ASSUME NEW j \in Items PROVE Good(j)'
  <2>1. Good(j) /\ phase = "starting"
    BY <1>0 DEF Cleanup
  <2>2. Stage(j) \notin Calling \cup {"inline"}
    BY <2>1 DEF Good
  <2>. QED
    BY <2>1, <2>2 DEF Good, Stage, Accepted, InTask, Ending, RollingBack, Calling, Cleanup
<1>. QED
  BY <1>1, <1>2, <1>3, QuietStep DEF Cleanup, queue

-----------------------------------------------------------------------------
(***************************************************************************)
(* Steps through the channel and dispatch_item.                            *)
(***************************************************************************)
LEMMA ChanGrows ==
  ASSUME Inv, NEW i \in Items, Only(i), Stage(i) # "queued", item'[i].stage = "queued",
         chan' = Append(chan, i), Len(chan) < Capacity
  PROVE  ChanInv'
<1>1. chan \in Seq(Items) /\ IsInjective(chan) /\ Range(chan) = AtStage("queued")
  BY DEF Inv, ChanInv
<1>2. i \notin Range(chan)
  BY <1>1 DEF AtStage
<1>3. /\ chan' \in Seq(Items) /\ Len(chan') = Len(chan) + 1
      /\ DOMAIN chan' = DOMAIN chan \cup {Len(chan) + 1} /\ Len(chan) + 1 \notin DOMAIN chan
      /\ \A k \in DOMAIN chan : chan'[k] = chan[k]
      /\ chan'[Len(chan) + 1] = i
  BY <1>1
<1>4. Range(chan') = Range(chan) \cup {i}
  BY <1>3 DEF Range
<1>5. IsInjective(chan')
  <2>1. \A k \in DOMAIN chan : chan[k] # i
    BY <1>2 DEF Range
  <2>. QED
    BY <1>1, <1>3, <2>1 DEF IsInjective
<1>6. AtStage("queued")' = AtStage("queued") \cup {i}
  BY DEF AtStage, Stage, Only
<1>7. Len(chan') <= Capacity
  BY <1>1, <1>3, BoundsAssumption
<1>. QED
  BY <1>1, <1>3, <1>4, <1>5, <1>6, <1>7 DEF ChanInv

LEMMA ChanShrinks ==
  ASSUME Inv, chan # <<>>, chan' = Tail(chan), Only(Head(chan)), item'[Head(chan)].stage # "queued"
  PROVE  ChanInv'
<1> DEFINE i == Head(chan)
<1>1. chan \in Seq(Items) /\ IsInjective(chan) /\ Range(chan) = AtStage("queued") /\ Len(chan) <= Capacity
  BY DEF Inv, ChanInv
<1>2. /\ chan' \in Seq(Items) /\ Len(chan') = Len(chan) - 1 /\ Len(chan) \in Nat
      /\ DOMAIN chan = 1..Len(chan) /\ DOMAIN chan' = 1..(Len(chan) - 1) /\ Len(chan) >= 1
      /\ \A k \in DOMAIN chan' : chan'[k] = chan[k + 1]
      /\ i = chan[1]
  BY <1>1, HeadTailProperties
<1>3. \A k \in DOMAIN chan' : k \in Nat /\ k + 1 \in DOMAIN chan /\ k + 1 # 1
  BY <1>2
<1>4. \A k \in DOMAIN chan \ {1} : k - 1 \in DOMAIN chan' /\ chan'[k - 1] = chan[k]
  BY <1>2
<1>5. Range(chan') = Range(chan) \ {i}
  <2>1. ASSUME NEW k \in DOMAIN chan' PROVE chan'[k] \in Range(chan) \ {i}
    <3>1. chan'[k] = chan[k + 1] /\ k + 1 \in DOMAIN chan /\ k + 1 # 1 /\ 1 \in DOMAIN chan
      BY <1>2, <1>3
    <3>2. chan[k + 1] # chan[1]
      BY <1>1, <3>1 DEF IsInjective
    <3>. QED
      BY <1>2, <3>1, <3>2 DEF Range
  <2>2. ASSUME NEW j \in Range(chan) \ {i} PROVE j \in Range(chan')
    <3>1. PICK k \in DOMAIN chan : chan[k] = j
      BY DEF Range
    <3>2. k # 1
      BY <1>2, <3>1
    <3>. QED
      BY <1>4, <3>1, <3>2 DEF Range
  <2>3. Range(chan') \subseteq Range(chan) \ {i}
    BY <2>1 DEF Range
  <2>. QED
    BY <2>2, <2>3
<1>6. IsInjective(chan')
  <2>1. SUFFICES ASSUME NEW k \in DOMAIN chan', NEW l \in DOMAIN chan', chan'[k] = chan'[l]
                 PROVE  k = l
    BY DEF IsInjective
  <2>2. k + 1 = l + 1
    BY <1>1, <1>2, <1>3, <2>1 DEF IsInjective
  <2>. QED
    BY <1>3, <2>2
<1>7. AtStage("queued")' = AtStage("queued") \ {i}
  BY DEF AtStage, Stage, Only
<1>8. Len(chan') <= Capacity
  BY <1>1, <1>2, BoundsAssumption
<1>. QED
  BY <1>1, <1>2, <1>5, <1>6, <1>7, <1>8 DEF ChanInv

LEMMA SentKeeps ==
  ASSUME Inv, NEW i \in Items, Sent(i)
  PROVE  Inv'
<1>0. Good(i) /\ ItemTypes
  BY FilesAreGood DEF Inv
<1>1. /\ Stage(i) = "accounted" /\ phase = "running" /\ item'[i].stage = "queued"
      /\ item'[i].kind = item[i].kind /\ item'[i].size = item[i].size /\ item'[i] \in Artifacts
      /\ item' \in [Items -> Artifacts] /\ \A j \in Items \ {i} : item'[j] = item[j]
      /\ chan' = Append(chan, i) /\ Len(chan) < Capacity
  <2>1. Goto(i, "queued") /\ "queued" \in Stages BY DEF Sent, Stages
  <2>2. Stage(i) = "accounted" /\ phase = "running" /\ chan' = Append(chan, i) /\ Len(chan) < Capacity
    BY DEF Sent
  <2>. QED BY <1>0, <2>1, <2>2, GotoMoves, Zenon
<1>2. Only(i)
  BY <1>0, <1>1 DEF Only, ItemTypes, Replies, Sent, files, life
<1>3. Good(i)'
  <2>1. i \in temps' /\ (HasSidecar(item[i].kind) => i \in sidecars')
    BY <1>0, <1>1 DEF Good, Sent, files
  <2>2. reply'[i] = "enqueued" => ~HasWaiter(item[i].kind)
    BY <1>0, <1>1 DEF Good, Calling, ItemTypes, Sent
  <2>3. reply'[i] = "enqueued" /\ item[i].kind # "enqueue" => HasSidecar(item[i].kind)
    <3>1. item[i].kind \in Kinds \cup {"enqueue", "recovered"}
      BY <1>0 DEF ItemTypes, Artifacts
    <3>. QED
      BY <2>2, <3>1, KindsAssumption DEF HasSidecar, HasWaiter
  <2>. QED
    BY <1>1, <2>1, <2>3 DEF Good, Stage, Accepted, InTask, Ending, RollingBack, Calling
<1>4. ItemTypes' /\ PlainTypes'
  BY <1>2 DEF Inv, Only, ItemTypes, PlainTypes, Sent, files, life
<1>5. HeldInv'
  <2>1. AtStage("held")' = AtStage("held")
    BY <1>1 DEF AtStage, Stage
  <2>. QED
    BY <2>1 DEF Inv, HeldInv, Sent
<1>6. SlotInv'
  BY <1>1, <1>2, OnlySlots DEF InTask, Ending, RollingBack, Calling, Sent
<1>7. CountInv'
  <2>1. item'[i].size \in {0, 1}
    BY <1>1 DEF Artifacts
  <2>. QED
    BY <1>1, <1>2, <2>1, OnlyCount
       DEF Pends, Charges, Accepted, InTask, Ending, RollingBack, Calling, Sent, stats
<1>8. MarkExact'
  <2>1. Marked(i)' = Marked(i)
    BY <1>1 DEF Marked, Stage, Accepted, InTask, Ending, RollingBack, Calling
  <2>. QED
    BY <1>2, <2>1, OnlyMarks DEF Sent
<1>9. PhaseInv'
  BY <1>1, <1>2, OnlyPhase DEF Sent, life
<1>. QED
  BY <1>1, <1>2, <1>3, <1>4, <1>5, <1>6, <1>7, <1>8, <1>9, OnlyGood, ChanGrows DEF Inv

LEMMA RecoverKeeps ==
  ASSUME Inv, NEW i \in Items, Recover(i)
  PROVE  Inv'
<1>0. Good(i) /\ ItemTypes /\ Stage(i) = "gone" /\ i \in sidecars
  BY FilesAreGood DEF Inv, PhaseInv, AtStage, Recover
<1>1. /\ item'[i].stage = "queued" /\ item'[i].kind = "recovered" /\ item'[i].size = 1
      /\ item' \in [Items -> Artifacts] /\ \A j \in Items \ {i} : item'[j] = item[j]
      /\ chan' = Append(chan, i) /\ Len(chan) < Capacity
  <2>1. "queued" \in Stages
    BY DEF Stages
  <2>2. /\ Artifact("queued", "recovered", 1) \in Artifacts
        /\ Artifact("queued", "recovered", 1).stage = "queued"
        /\ Artifact("queued", "recovered", 1).kind = "recovered"
        /\ Artifact("queued", "recovered", 1).size = 1
    BY <2>1, ArtifactType
  <2>. QED
    BY <1>0, <2>2 DEF Recover, ItemTypes
<1>2. Only(i)
  BY <1>0, <1>1 DEF Only, ItemTypes, Recover, files
<1>3. Good(i)'
  BY <1>0, <1>1 DEF Good, Stage, Accepted, InTask, Ending, RollingBack, Calling, Recover, files
<1>4. ItemTypes' /\ PlainTypes'
  BY <1>2 DEF Inv, Only, ItemTypes, PlainTypes, Recover, files
<1>5. HeldInv'
  <2>1. AtStage("held")' = AtStage("held")
    BY <1>0, <1>1 DEF AtStage, Stage
  <2>. QED
    BY <2>1 DEF Inv, HeldInv, Recover
<1>6. SlotInv'
  BY <1>0, <1>1, <1>2, OnlySlots DEF InTask, Ending, RollingBack, Calling, Recover
<1>7. CountInv'
  <2>1. /\ pending' = pending + 1 /\ bytes' = bytes + item'[i].size /\ item'[i].size \in {0, 1}
        /\ Stage(i) \notin Pends /\ item'[i].stage \in Pends
        /\ Stage(i) \notin Charges /\ item'[i].stage \in Charges
    BY <1>0, <1>1 DEF Pends, Charges, Accepted, InTask, Ending, RollingBack, Calling, Recover
  <2>. QED
    BY <1>2, <2>1, OnlyCount
<1>8. MarkExact'
  <2>1. Marked(i)' = FALSE /\ Marked(i) = FALSE
    BY <1>0, <1>1 DEF Marked, Stage, Accepted, InTask, Ending, RollingBack, Calling, Deduplicates
  <2>. QED
    BY <1>2, <2>1, OnlyMarks DEF Recover
<1>9. PhaseInv'
  BY <1>1 DEF Inv, PhaseInv, AtStage, Stage, Recover, files
<1>. QED
  BY <1>0, <1>1, <1>2, <1>3, <1>4, <1>5, <1>6, <1>7, <1>8, <1>9, OnlyGood, ChanGrows DEF Inv

LEMMA ReceiveKeeps ==
  ASSUME Inv, Receive
  PROVE  Inv'
<1>0. PICK i \in Items : /\ i = Head(chan) /\ Stage(i) = "queued"
                        /\ ItemTypes /\ chan # <<>> /\ held = Nobody
  <2>1. chan \in Seq(Items) /\ chan # <<>> /\ held = Nobody /\ Range(chan) = AtStage("queued")
    BY DEF Inv, ChanInv, Receive
  <2>2. Head(chan) = chan[1] /\ 1 \in DOMAIN chan
    BY <2>1
  <2>. QED
    BY <2>1, <2>2 DEF Inv, Range, AtStage
<1>00. Good(i)
  BY <1>0, FilesAreGood DEF Inv
<1>1. /\ item'[i].stage = "held"
      /\ item'[i].kind = item[i].kind /\ item'[i].size = item[i].size /\ item'[i] \in Artifacts
      /\ item' \in [Items -> Artifacts] /\ \A j \in Items \ {i} : item'[j] = item[j]
      /\ chan' = Tail(chan) /\ held' = i /\ phase # "down"
  <2>1. Goto(i, "held") /\ "held" \in Stages BY <1>0 DEF Receive, Stages
  <2>2. chan' = Tail(chan) /\ held' = i /\ phase # "down" BY <1>0 DEF Receive, Up
  <2>. QED BY <1>0, <2>1, <2>2, GotoMoves, Zenon
<1>2. Only(i)
  BY <1>0, <1>1 DEF Only, ItemTypes, Receive, files, life
<1>3. Good(i)'
  <2>1. /\ reply'[i] = reply[i] /\ (i \in temps') = (i \in temps) /\ (i \in sidecars') = (i \in sidecars)
        /\ (i \in old') = (i \in old) /\ (i \in resolved') = (i \in resolved)
    BY DEF Receive, files
  <2>. QED
    BY <1>0, <1>00, <1>1, <2>1 DEF Good, Stage, Accepted, InTask, Ending, RollingBack, Calling
<1>4. ItemTypes' /\ PlainTypes'
  BY <1>2 DEF Inv, Only, ItemTypes, PlainTypes, Receive, files, life
<1>5. HeldInv'
  <2>1. AtStage("held") = {}
    BY <1>0 DEF Inv, HeldInv
  <2>2. AtStage("held")' = {i}
    BY <1>0, <1>1, <2>1 DEF AtStage, Stage
  <2>. QED
    BY <1>0, <1>1, <2>2, ItemsAssumption DEF HeldInv
<1>6. SlotInv'
  BY <1>0, <1>1, <1>2, OnlySlots DEF InTask, Ending, RollingBack, Calling, Receive
<1>7. CountInv'
  <2>1. item'[i].size \in {0, 1}
    BY <1>1 DEF Artifacts
  <2>. QED
    BY <1>0, <1>1, <1>2, <2>1, OnlyCount
       DEF Pends, Charges, Accepted, InTask, Ending, RollingBack, Calling, Receive, stats
<1>8. MarkExact'
  <2>1. Marked(i)' = Marked(i)
    BY <1>0, <1>1 DEF Marked, Stage, Accepted, InTask, Ending, RollingBack, Calling
  <2>. QED
    BY <1>0, <1>2, <2>1, OnlyMarks DEF Receive
<1>9. PhaseInv'
  BY <1>0, <1>1, <1>2, OnlyPhase DEF Receive, life
<1>10. ChanInv'
  BY <1>0, <1>1, <1>2, ChanShrinks
<1>. QED
  BY <1>0, <1>2, <1>3, <1>4, <1>5, <1>6, <1>7, <1>8, <1>9, <1>10, OnlyGood DEF Inv

LEMMA DispatchKeeps ==
  ASSUME Inv, Dispatch
  PROVE  Inv'
<1>0. PICK i \in Items : i = held /\ Stage(i) = "held" /\ ItemTypes
  BY DEF Inv, HeldInv, AtStage, Dispatch
<1>00. Good(i)
  BY <1>0, FilesAreGood DEF Inv
<1>1. /\ item'[i].stage = "spawned"
      /\ item'[i].kind = item[i].kind /\ item'[i].size = item[i].size /\ item'[i] \in Artifacts
      /\ item' \in [Items -> Artifacts] /\ \A j \in Items \ {i} : item'[j] = item[j]
      /\ chan' = chan /\ held' = Nobody /\ phase # "down"
      /\ slots' = slots \cup {i} /\ Cardinality(slots) < MaxConcurrent
  BY <1>0 DEF Dispatch, Goto, Up, ItemTypes, Artifacts, Stages
<1>2. Only(i)
  BY <1>0, <1>1 DEF Only, ItemTypes, Dispatch, files, life
<1>3. Good(i)'
  <2>1. /\ reply'[i] = reply[i] /\ (i \in temps') = (i \in temps) /\ (i \in sidecars') = (i \in sidecars)
        /\ (i \in old') = (i \in old) /\ (i \in resolved') = (i \in resolved)
    BY DEF Dispatch, files
  <2>. QED
    BY <1>0, <1>00, <1>1, <2>1 DEF Good, Stage, Accepted, InTask, Ending, RollingBack, Calling
<1>4. ItemTypes' /\ PlainTypes'
  BY <1>2 DEF Inv, Only, ItemTypes, PlainTypes, Pcs, Dispatch, files, life
<1>5. HeldInv'
  <2>1. AtStage("held") = {i}
    BY <1>0, ItemsAssumption DEF Inv, HeldInv
  <2>2. AtStage("held")' = {}
    BY <1>0, <1>1, <2>1 DEF AtStage, Stage
  <2>. QED
    BY <1>1, <2>2 DEF HeldInv
<1>6. ChanInv'
  <2>1. AtStage("queued")' = AtStage("queued")
    BY <1>0, <1>1 DEF AtStage, Stage
  <2>. QED
    BY <1>1, <2>1 DEF Inv, ChanInv
<1>7. SlotInv'
  BY <1>0, <1>1, <1>2, OnlySlots DEF InTask, Ending, RollingBack, Calling
<1>8. CountInv'
  <2>1. item'[i].size \in {0, 1}
    BY <1>1 DEF Artifacts
  <2>. QED
    BY <1>0, <1>1, <1>2, <2>1, OnlyCount
       DEF Pends, Charges, Accepted, InTask, Ending, RollingBack, Calling, Dispatch, stats
<1>9. MarkExact'
  <2>1. Marked(i)' = Marked(i)
    BY <1>0, <1>1 DEF Marked, Stage, Accepted, InTask, Ending, RollingBack, Calling
  <2>. QED
    BY <1>0, <1>2, <2>1, OnlyMarks DEF Dispatch
<1>10. PhaseInv'
  BY <1>0, <1>1, <1>2, OnlyPhase DEF Dispatch, life
<1>. QED
  BY <1>0, <1>2, <1>3, <1>4, <1>5, <1>6, <1>7, <1>8, <1>9, <1>10, OnlyGood DEF Inv

-----------------------------------------------------------------------------
(***************************************************************************)
(* The steps that end a process, and what they make of every artifact.     *)
(***************************************************************************)
\* What is cut out of the statistics' sets leaves at least as much leaked.
LEMMA CutCount ==
  ASSUME NEW C, NEW S, C \subseteq Items, S \subseteq Items, NEW X, X \subseteq C
  PROVE  /\ Cardinality(C \ X) <= Cardinality(C) /\ Cardinality(S \ X) <= Cardinality(S)
         /\ Cardinality(S) - Cardinality(S \ X) <= Cardinality(C) - Cardinality(C \ X)
         /\ Cardinality(C) \in Nat /\ Cardinality(S) \in Nat
         /\ Cardinality(C \ X) \in Nat /\ Cardinality(S \ X) \in Nat
<1>1. IsFiniteSet(C) /\ IsFiniteSet(S)
  BY FS_Subset, ItemsAssumption
<1>2. /\ Cardinality(C) \in Nat /\ Cardinality(S) \in Nat
      /\ Cardinality(C \ X) \in Nat /\ Cardinality(S \ X) \in Nat
      /\ Cardinality(C \cap X) \in Nat /\ Cardinality(S \cap X) \in Nat
  <2>1. \A T \in SUBSET Items : Cardinality(T) \in Nat
    BY Finite
  <2>. QED
    BY <2>1
<1>3. /\ Cardinality(C \ X) = Cardinality(C) - Cardinality(C \cap X)
      /\ Cardinality(S \ X) = Cardinality(S) - Cardinality(S \cap X)
  BY <1>1, FS_Difference
<1>4. Cardinality(S \cap X) <= Cardinality(C \cap X)
  <2>1. IsFiniteSet(C \cap X) /\ S \cap X \subseteq C \cap X
    BY FS_Subset, ItemsAssumption
  <2>. QED
    BY <2>1, FS_Subset
<1>. QED
  BY <1>2, <1>3, <1>4

LEMMA DrainTimeoutKeeps ==
  ASSUME Inv, DrainTimeout
  PROVE  Inv'
<1> DEFINE cut == {i \in Items : Stage(i) \in Accepted \ Ending}
<1>0. ItemTypes /\ \A j \in Items : Good(j)
  BY FilesAreGood DEF Inv
<1>1. /\ item' = [i \in Items |-> IF i \in cut THEN Ended(i, "gone") ELSE item[i]]
      /\ reply' = [i \in Items |-> IF i \in cut /\ reply[i] = "waiting" THEN "told" ELSE reply[i]]
      /\ worker' = "aborted" /\ held' = Nobody /\ chan' = <<>>
      /\ slots' = slots \ cut /\ guards' = guards \ cut /\ phase = "running"
      /\ UNCHANGED <<files, failures, shutdown, draining, stats, resolved, life>>
  BY DEF DrainTimeout
<1>2. ASSUME NEW j \in Items
      PROVE  /\ j \in cut => /\ Stage(j) \in Accepted \ Ending
                             /\ item'[j] \in Artifacts /\ item'[j].stage = "gone"
                             /\ item'[j].kind \in {item[j].kind, "enqueue"}
             /\ j \notin cut => Stage(j) \notin Accepted \ Ending /\ item'[j] = item[j]
             /\ reply'[j] \in Replies /\ (reply'[j] = "enqueued") = (reply[j] = "enqueued")
             /\ j \notin cut => reply'[j] = reply[j]
  <2>1. reply[j] \in Replies /\ "gone" \in Stages
    BY <1>0 DEF ItemTypes, Stages
  <2>2. j \in cut => item'[j] = Ended(j, "gone")
    BY <1>1
  <2>3. Ended(j, "gone") \in Artifacts /\ Ended(j, "gone").stage = "gone"
        /\ Ended(j, "gone").kind \in {item[j].kind, "enqueue"}
    BY <1>0, <2>1, EndedType
  <2>4. reply'[j] = IF j \in cut /\ reply[j] = "waiting" THEN "told" ELSE reply[j]
    BY <1>1
  <2>5. /\ reply'[j] \in Replies /\ (reply'[j] = "enqueued") = (reply[j] = "enqueued")
        /\ j \notin cut => reply'[j] = reply[j]
    BY <2>1, <2>4 DEF Replies
  <2>6. j \notin cut => item'[j] = item[j]
    BY <1>1
  <2>. QED
    BY <2>2, <2>3, <2>5, <2>6
<1> HIDE DEF cut
<1>3. ItemTypes'
  <2>1. \A j \in Items : item'[j] \in Artifacts /\ reply'[j] \in Replies
    BY <1>0, <1>2 DEF ItemTypes
  <2>. QED
    BY <1>1, <2>1 DEF ItemTypes
<1>4. PlainTypes'
  BY <1>1 DEF Inv, PlainTypes, Pcs, files, life
<1>5. ChanInv' /\ HeldInv'
  <2>1. AtStage("queued")' = {} /\ AtStage("held")' = {}
    BY <1>2 DEF AtStage, Stage, Accepted, InTask, Ending, RollingBack, Calling
  <2>2. <<>> \in Seq(Items) /\ Len(<<>>) = 0 /\ DOMAIN <<>> = {}
    OBVIOUS
  <2>3. IsInjective(<<>>) /\ Range(<<>>) = {}
    BY DEF IsInjective, Range
  <2>4. Range(chan') = {} /\ IsInjective(chan') /\ chan' \in Seq(Items) /\ Len(chan') <= Capacity
    BY <1>1, <2>1, <2>2, <2>3, BoundsAssumption
  <2>5. HeldInv'
    BY <1>1, <2>1, <2>2, <2>3 DEF HeldInv
  <2>. QED
    BY <1>1, <2>1, <2>4, <2>5 DEF ChanInv
<1>6. SlotInv'
  <2>1. slots \subseteq Running /\ slots \subseteq Items /\ Cardinality(slots) <= MaxConcurrent
    BY DEF Inv, SlotInv, Running
  <2>2. slots' \subseteq Running'
    BY <1>1, <1>2, <2>1 DEF Running, Stage
  <2>3. Cardinality(slots') <= Cardinality(slots) /\ Cardinality(slots') \in Nat /\ Cardinality(slots) \in Nat
    <3>1. slots' \in SUBSET slots
      BY <1>1
    <3>. QED
      BY <2>1, <3>1, Finite
  <2>. QED
    BY <2>1, <2>2, <2>3, BoundsAssumption DEF SlotInv
<1>7. CountInv'
  <2>1. Counted' = Counted \ cut /\ Sized' = Sized \ cut
    BY <1>2 DEF Counted, Sized, Pends, Charges, Stage, Accepted, InTask, Ending, RollingBack, Calling
  <2>2. Counted \subseteq Items /\ Sized \subseteq Items /\ cut \subseteq Counted
    BY DEF Counted, Sized, Pends, Ending, cut
  <2>3. pending' = pending /\ bytes' = bytes /\ old' = old
    BY <1>1 DEF stats, files
  <2>4. /\ pending \in Nat /\ bytes \in Nat
        /\ Cardinality(Counted) <= pending /\ Cardinality(Sized) <= bytes
        /\ old = {} => bytes - Cardinality(Sized) <= pending - Cardinality(Counted)
    BY DEF Inv, CountInv
  <2>5. /\ Cardinality(Counted') <= Cardinality(Counted) /\ Cardinality(Sized') <= Cardinality(Sized)
        /\ Cardinality(Sized) - Cardinality(Sized') <= Cardinality(Counted) - Cardinality(Counted')
        /\ Cardinality(Counted) \in Nat /\ Cardinality(Sized) \in Nat
        /\ Cardinality(Counted') \in Nat /\ Cardinality(Sized') \in Nat
    BY <2>1, <2>2, CutCount
  <2>6. old = {} => bytes - Cardinality(Sized') <= pending - Cardinality(Counted')
    BY <2>4, <2>5
  <2>. QED
    BY <2>3, <2>4, <2>5, <2>6 DEF CountInv
<1>8. MarkExact'
  <2>1. guards = {j \in Items : Marked(j)} /\ Cardinality(guards) <= 1 /\ guards \subseteq Items
    BY ItemsAssumption DEF Inv, MarkExact, Marked
  <2>2. \A j \in Items : Marked(j)' <=> Marked(j) /\ j \notin cut
    BY <1>2 DEF Marked, Stage, Accepted, InTask, Ending, RollingBack, Calling
  <2>3. guards' = {j \in Items : Marked(j)'}
    BY <1>1, <2>1, <2>2
  <2>4. Cardinality(guards') <= 1
    <3>1. guards' \in SUBSET guards
      BY <1>1
    <3>2. Cardinality(guards') <= Cardinality(guards) /\ Cardinality(guards') \in Nat /\ Cardinality(guards) \in Nat
      BY <2>1, <3>1, Finite
    <3>. QED
      BY <2>1, <3>2
  <2>. QED
    BY <2>3, <2>4, ItemsAssumption DEF MarkExact, Marked
<1>9. PhaseInv'
  BY <1>1 DEF Inv, PhaseInv, life
<1>10. \A j \in Items : Good(j)'
  <2>1. SUFFICES ASSUME NEW j \in Items PROVE Good(j)'
    OBVIOUS
  <2>2. Good(j)
    BY <1>0
  <2>3. /\ (j \in temps') = (j \in temps) /\ (j \in sidecars') = (j \in sidecars) /\ (j \in old') = (j \in old)
        /\ (j \in resolved') = (j \in resolved) /\ phase' = phase
    BY <1>1 DEF files, life
  <2>4. CASE j \in cut
    <3>1. /\ item'[j].stage = "gone" /\ item'[j].kind \in {item[j].kind, "enqueue"}
          /\ (reply'[j] = "enqueued") = (reply[j] = "enqueued")
      BY <1>2, <2>4
    <3>. QED
      BY <2>2, <2>3, <3>1 DEF Good, Stage, Accepted, InTask, Ending, RollingBack, Calling
  <2>5. CASE j \notin cut
    <3>1. item'[j] = item[j] /\ reply'[j] = reply[j]
      BY <1>2, <2>5
    <3>. QED
      BY <2>2, <2>3, <3>1 DEF Good, Stage
  <2>. QED
    BY <2>4, <2>5
<1>11. FilesInv' /\ FilesFollowItem' /\ DurablyAccepted'
  BY <1>10 DEF FilesInv, FilesFollowItem, DurablyAccepted, Good
<1>. QED
  BY <1>3, <1>4, <1>5, <1>6, <1>7, <1>8, <1>9, <1>11 DEF Inv

\* A state with no artifact under way: the channel, the slots, the marks and the
\* statistics are empty.
LEMMA Idle ==
  ASSUME ItemTypes', PlainTypes', \A j \in Items : item'[j].stage \in {"new", "gone"},
         chan' = <<>>, held' = Nobody, slots' = {}, pending' = 0, bytes' = 0, guards' = {},
         \A j \in Items : Good(j)', scan' = {}, phase' # "starting"
  PROVE  Inv'
<1>1. /\ AtStage("queued")' = {} /\ AtStage("held")' = {} /\ Counted' = {} /\ Sized' = {}
      /\ \A j \in Items : ~Marked(j)'
  BY DEF AtStage, Counted, Sized, Pends, Charges, Marked, Stage, Accepted, InTask, Ending, RollingBack,
     Calling
<1>2. ChanInv' /\ HeldInv'
  <2>1. <<>> \in Seq(Items) /\ Len(<<>>) = 0 /\ DOMAIN <<>> = {}
    OBVIOUS
  <2>2. IsInjective(<<>>) /\ Range(<<>>) = {}
    BY DEF IsInjective, Range
  <2>4. Range(chan') = {} /\ IsInjective(chan') /\ chan' \in Seq(Items) /\ Len(chan') <= Capacity
    BY <1>1, <2>1, <2>2, BoundsAssumption
  <2>5. HeldInv'
    BY <1>1, <2>1, <2>2 DEF HeldInv
  <2>. QED
    BY <1>1, <2>1, <2>4, <2>5 DEF ChanInv
<1>3. Cardinality({}) = 0
  BY FS_EmptySet
<1>4. SlotInv' /\ CountInv'
  BY <1>1, <1>3, BoundsAssumption DEF SlotInv, CountInv
<1>5. MarkExact'
  <2>1. {i \in Twins : /\ Stage(i)' \in Calling \cup Accepted
                       /\ Deduplicates(item'[i].kind)} = {}
    BY <1>1, ItemsAssumption DEF Marked, Stage
  <2>. QED
    BY <1>3, <2>1 DEF MarkExact, Stage
<1>6. PhaseInv'
  BY DEF PhaseInv, Stage
<1>7. FilesInv' /\ FilesFollowItem' /\ DurablyAccepted'
  BY DEF FilesInv, FilesFollowItem, DurablyAccepted, Good
<1>. QED
  BY <1>2, <1>4, <1>5, <1>6, <1>7 DEF Inv

LEMMA CrashKeeps ==
  ASSUME Inv, Crash
  PROVE  Inv'
<1>0. ItemTypes /\ \A j \in Items : Good(j)
  BY FilesAreGood DEF Inv
<1>1. ASSUME NEW j \in Items
      PROVE  /\ Stage(j) = "new" => item'[j] = item[j]
             /\ Stage(j) # "new" => item'[j].stage = "gone" /\ item'[j].kind \in {item[j].kind, "enqueue"}
             /\ item'[j] \in Artifacts /\ reply'[j] \in Replies
             /\ reply'[j] = IF reply[j] = "waiting" THEN "none" ELSE reply[j]
  <2>1. item[j] \in Artifacts /\ reply[j] \in Replies /\ "gone" \in Stages
    BY <1>0 DEF ItemTypes, Stages
  <2>2. /\ Ended(j, "gone") \in Artifacts /\ Ended(j, "gone").stage = "gone"
        /\ Ended(j, "gone").kind \in {item[j].kind, "enqueue"}
    BY <1>0, <2>1, EndedType
  <2>3. /\ item'[j] = IF Stage(j) = "new" THEN item[j] ELSE Ended(j, "gone")
        /\ reply'[j] = IF reply[j] = "waiting" THEN "none" ELSE reply[j]
    BY DEF Crash
  <2>. QED
    BY <2>1, <2>2, <2>3 DEF Replies
<1>2. ItemTypes'
  BY <1>1 DEF ItemTypes, Crash
<1>3. PlainTypes'
  <2>1. failures' \in 0..Threshold /\ crashes' \in 0..MaxCrashes
    BY BoundsAssumption DEF Inv, PlainTypes, Crash
  <2>. QED
    BY <2>1 DEF Inv, PlainTypes, Pcs, Crash, files
<1>4. \A j \in Items : item'[j].stage \in {"new", "gone"}
  BY <1>1 DEF Stage
<1>5. ASSUME NEW j \in Items PROVE Good(j)'
  <2>1. Good(j)
    BY <1>0
  <2>2. /\ (j \in temps') = (j \in temps) /\ (j \in sidecars') = (j \in sidecars) /\ (j \in old') = (j \in old)
        /\ (j \in resolved') = (j \in resolved)
    BY DEF Crash, files
  <2>3. CASE Stage(j) = "new"
    <3>1. item'[j] = item[j] /\ reply[j] = "none" /\ reply'[j] = "none"
      BY <1>1, <2>1, <2>3 DEF Good
    <3>. QED
      BY <2>1, <2>2, <2>3, <3>1 DEF Good, Stage, Accepted, InTask, Ending, RollingBack, Calling
  <2>4. CASE Stage(j) # "new"
    <3>1. /\ item'[j].stage = "gone" /\ item'[j].kind \in {item[j].kind, "enqueue"}
          /\ reply'[j] = "enqueued" => reply[j] = "enqueued"
      BY <1>1, <2>4
    <3>. QED
      BY <2>1, <2>2, <3>1 DEF Good, Stage, Accepted, InTask, Ending, RollingBack, Calling
  <2>. QED
    BY <2>3, <2>4
<1>. QED
  BY <1>2, <1>3, <1>4, <1>5, Idle DEF Crash

-----------------------------------------------------------------------------
(***************************************************************************)
(* The invariant.                                                          *)
(***************************************************************************)
LEMMA InitInv == Init => Inv
<1>. SUFFICES ASSUME Init PROVE Inv
  OBVIOUS
<1>1. Fresh \in Artifacts /\ Fresh.stage = "new"
  <2>1. "new" \in Stages
    BY DEF Stages
  <2>. QED
    BY <2>1, ArtifactType DEF Fresh
<1>2. \A i \in Items : item[i] = Fresh /\ reply[i] = "none"
  BY DEF Init
<1>3. ItemTypes
  BY <1>1 DEF Init, ItemTypes, Replies
<1>4. PlainTypes
  <2>1. 0 \in 0..Threshold /\ 0 \in 0..MaxCrashes
    BY BoundsAssumption
  <2>. QED
    BY <2>1 DEF Init, PlainTypes, Pcs
<1>5. AtStage("queued") = {} /\ AtStage("held") = {} /\ Counted = {} /\ Sized = {}
  BY <1>1, <1>2
     DEF AtStage, Counted, Sized, Pends, Charges, Stage, Accepted, InTask, Ending, RollingBack, Calling
<1>6. ChanInv /\ HeldInv
  <2>1. <<>> \in Seq(Items) /\ Len(<<>>) = 0 /\ DOMAIN <<>> = {}
    OBVIOUS
  <2>2. IsInjective(<<>>) /\ Range(<<>>) = {}
    BY DEF IsInjective, Range
  <2>3. Range(chan) = {} /\ IsInjective(chan) /\ chan \in Seq(Items) /\ Len(chan) <= Capacity
    BY <2>1, <2>2, BoundsAssumption DEF Init
  <2>4. HeldInv
    BY <1>5 DEF HeldInv, Init
  <2>. QED
    BY <1>5, <2>3, <2>4 DEF ChanInv
<1>7. SlotInv /\ CountInv
  BY <1>5, FS_EmptySet, BoundsAssumption DEF SlotInv, CountInv, Init
<1>8. MarkExact
  <2>1. {i \in Twins : /\ Stage(i) \in Calling \cup Accepted
                       /\ Deduplicates(item[i].kind)} = {}
    BY <1>1, <1>2, ItemsAssumption DEF Stage, Accepted, InTask, Ending, RollingBack, Calling
  <2>. QED
    BY <2>1, FS_EmptySet DEF MarkExact, Init
<1>9. FilesInv /\ FilesFollowItem /\ DurablyAccepted
  BY <1>1, <1>2 DEF FilesInv, FilesFollowItem, DurablyAccepted, Stage, Accepted, InTask, Ending,
     RollingBack, Calling, Init
<1>10. PhaseInv
  BY DEF PhaseInv, Init
<1>. QED
  BY <1>3, <1>4, <1>6, <1>7, <1>8, <1>9, <1>10 DEF Inv

LEMMA StutterKeeps == Inv /\ UNCHANGED vars => Inv'
<1>. SUFFICES ASSUME Inv, UNCHANGED vars PROVE Inv'
  OBVIOUS
<1>1. UNCHANGED <<item, reply, files, queue, stats, guards, resolved, life>>
  BY DEF vars
<1>2. PlainTypes' /\ PhaseInv'
  BY <1>1 DEF Inv, PlainTypes, PhaseInv, AtStage, Stage, files, queue, life
<1>3. \A j \in Items : Good(j)'
  BY <1>1, FilesAreGood DEF Inv, Good, Stage, files, life
<1>. QED
  BY <1>1, <1>2, <1>3, QuietStep DEF files, queue

LEMMA EnqueueKeeps ==
  ASSUME Inv, NEW i \in Items, Enqueue(i)
  PROVE  Inv'
<1>1. \A k \in Kinds : Deduplicate(i, k) => Inv'
  BY DeduplicateKeeps
<1>2. \A k \in Kinds : SpillFails(i, k) => Inv'
  BY SpillFailsKeeps
<1>3. \A k \in Kinds : \A n \in {0, 1} : Spill(i, k, n) => Inv'
  BY SpillKeeps
<1>. QED
  BY <1>1, <1>2, <1>3, AccountKeeps, SidecarFailsKeeps, ChargeKeeps, SentKeeps, RejectedKeeps,
     RollBackKeeps DEF Enqueue

LEMMA TaskKeeps ==
  ASSUME Inv, NEW i \in Items, Task(i)
  PROVE  Inv'
<1>1. ASSUME Expired(i) \/ Succeed(i) \/ Terminal(i) \/ Exhausted(i) \/ Bail(i) \/ GiveUp(i)
      PROVE  Inv'
  <2>1. PICK o \in {"expired", "ok", "terminal", "failed"} : Finish(i, o)
    BY <1>1 DEF Expired, Succeed, Terminal, Exhausted, Bail, GiveUp
  <2>2. Stage(i) \in {"upload", "refused", "parked"} /\ Up
    BY <1>1 DEF Expired, Succeed, Terminal, Exhausted, Bail, GiveUp
  <2>. QED
    BY <2>1, <2>2, FinishKeeps
<1>2. ASSUME NEW d \in BOOLEAN, Refuse(i, d) PROVE Inv'
  BY <1>2, RefuseKeeps
<1>3. Attempt(i) => Inv'
  BY <1>1, <1>2, RetryKeeps DEF Attempt
<1>. QED
  BY <1>1, <1>3, StartKeeps, BackoffEndsKeeps, ParkKeeps, WakeKeeps, ReacquireKeeps, SettleKeeps,
     RepayKeeps DEF Task

LEMMA WorkerKeeps == Inv /\ Worker => Inv'
  BY SignalKeeps, ReceiveKeeps, DispatchKeeps DEF Worker

LEMMA NextKeeps == Inv /\ [Next]_vars => Inv'
<1>. SUFFICES ASSUME Inv, [Next]_vars PROVE Inv'
  OBVIOUS
<1>1. ASSUME NEW i \in Items, Enqueue(i) \/ Task(i) \/ Startup(i) \/ InlineDone(i)
      PROVE  Inv'
  BY <1>1, EnqueueKeeps, TaskKeeps, AgeKeeps, RecoverDropsKeeps, RecoverKeeps, RecoverLaterKeeps,
     InlineDoneKeeps DEF Startup
<1>2. CASE Worker \/ Drain \/ DropQueue \/ DrainTimeout \/ Crash \/ Restart \/ Cleanup
  BY <1>2, WorkerKeeps, SignalKeeps, DrainTimeoutKeeps, CrashKeeps, RestartKeeps, CleanupKeeps
<1>3. CASE UNCHANGED vars
  BY <1>3, StutterKeeps
<1>. QED
  BY <1>1, <1>2, <1>3 DEF Next

\* The inductive invariant holds of every state the upload queue reaches, over any
\* interleaving of callers, worker, tasks, drains, crashes and start-ups.
THEOREM QueueInvariant == Spec => []Inv
<1>1. Init => Inv
  BY InitInv
<1>2. Inv /\ [Next]_vars => Inv'
  BY NextKeeps
<1>. QED
  BY <1>1, <1>2, PTL DEF Spec

\* Every variable keeps its type: the channel never holds an artifact twice, at most
\* one artifact waits for a slot, and never more than MaxConcurrent tasks have one.
THEOREM TypeCorrect == Spec => []TypeOK
<1>1. Inv => TypeOK
  <2>. SUFFICES ASSUME Inv PROVE TypeOK
    OBVIOUS
  <2>1. /\ item \in [Items -> [stage : Stages, kind : Kinds \cup {"enqueue", "recovered"}, size : {0, 1},
                               attempts : 0..MaxAttempts, auth : {0, 1}, relation : BOOLEAN]]
        /\ reply \in [Items -> Replies]
    BY DEF Inv, ItemTypes, Artifacts
  <2>2. /\ IsInjective(chan) /\ Len(chan) <= Capacity
        /\ Range(chan) = {i \in Items : item[i].stage = "queued"}
    BY DEF Inv, ChanInv, AtStage, Stage
  <2>3. IF held = Nobody THEN \A i \in Items : item[i].stage # "held"
        ELSE held \in Items /\ item[held].stage = "held"
    BY DEF Inv, HeldInv, AtStage, Stage
  <2>4. slots \subseteq {i \in Items : item[i].stage \in InTask} /\ Cardinality(slots) <= MaxConcurrent
    BY DEF Inv, SlotInv, Running, Stage
  <2>5. pending \in Nat /\ bytes \in Nat /\ guards \subseteq Twins
    BY DEF Inv, CountInv, MarkExact
  <2>. QED
    BY <2>1, <2>2, <2>3, <2>4, <2>5 DEF Inv, PlainTypes, TypeOK
<1>. QED
  BY <1>1, QueueInvariant, PTL

\* When `pending' reads 0, as wait_idle and drain wait for, everything that the
\* channel took has its outcome, and the budget is charged with exactly the bytes that
\* threads past the first of the two counters still have to give back, for any number
\* of callers, aborts and crashes.
THEOREM FlushIsTruthful == Spec => []FlushTruthful
<1>1. Inv => FlushTruthful
  <2>. SUFFICES ASSUME Inv, pending = 0
                PROVE  /\ \A i \in Items : Stage(i) \notin Accepted \ {"repaying"}
                       /\ old = {} => bytes = Cardinality(Owing)
    BY DEF FlushTruthful
  <2>1. Counted \subseteq Items /\ Sized \subseteq Items
    BY DEF Counted, Sized
  <2>2. IsFiniteSet(Counted) /\ Cardinality(Counted) \in Nat /\ Cardinality(Sized) \in Nat
    BY <2>1, Finite
  <2>3. /\ bytes \in Nat /\ Cardinality(Counted) <= pending /\ Cardinality(Sized) <= bytes
        /\ old = {} => bytes - Cardinality(Sized) <= pending - Cardinality(Counted)
    BY DEF Inv, CountInv
  <2>4. Cardinality(Counted) = 0
    BY <2>2, <2>3
  <2>5. Counted = {}
    BY <2>2, <2>4, FS_EmptySet
  <2>6. \A i \in Items : Stage(i) \notin Pends
    BY <2>5 DEF Counted
  <2>7. Sized = Owing
    BY <2>6 DEF Sized, Owing, Charges, Pends, Accepted, InTask, Ending
  <2>8. old = {} => bytes = Cardinality(Owing)
    BY <2>2, <2>3, <2>4, <2>7
  <2>. QED
    BY <2>6, <2>8 DEF Pends
<1>. QED
  BY <1>1, QueueInvariant, PTL

\* What the caller of enqueue_bytes_blocking is told it may forget is stored, was
\* given up, or has both its files on disk, through every crash and recovery.
THEOREM AcceptedIsDurable == Spec => []DurablyAccepted
<1>1. Inv => DurablyAccepted
  BY DEF Inv
<1>. QED
  BY <1>1, QueueInvariant, PTL

\* The files of an artifact follow it: none is left when it is settled, and both
\* are there while the worker still has to upload it.
THEOREM FilesStayWithItem == Spec => []FilesFollowItem
<1>1. Inv => FilesFollowItem
  BY DEF Inv
<1>. QED
  BY <1>1, QueueInvariant, PTL

\* The in-flight mark of a content-addressed object is held by exactly the one
\* artifact that is on its way, and is gone with it on every path.
THEOREM MarksAreExact == Spec => []MarkExact
<1>1. Inv => MarkExact
  BY DEF Inv
<1>. QED
  BY <1>1, QueueInvariant, PTL

-----------------------------------------------------------------------------
(***************************************************************************)
(* Nobody waits on everybody.  NoStall is stated with ENABLED; here the    *)
(* guards of the steps of Progress take its place.                         *)
(***************************************************************************)
\* Only a task in one of the first stages holds a slot; a caller never waits for an
\* artifact in one of the second.
Busy == {"spawned", "upload", "backoff"} \cup Ending
Idling == {"new", "parked", "settled", "gone"}

Live(i) ==
  /\ i \in slots => Stage(i) \in Busy
  /\ reply[i] = "waiting" => Stage(i) \notin Idling

LiveInv == \A i \in Items : Live(i)

\* The signal belongs to a process that runs; a worker that saw it drains, and one
\* that is done with the channel left it empty.
SignalInv ==
  /\ shutdown # "no" => phase = "running"
  /\ Closed => shutdown # "no"
  /\ worker \in {"drain", "join", "exited"} => draining
  /\ worker \in {"join", "exited", "aborted"} => chan = <<>>

\* The guards of the steps of Progress, in its order: the worker,
WorkerReady ==
  /\ Up
  /\ \/ worker = "check" /\ held = Nobody
     \/ worker = "cooldown"
     \/ worker \in {"cooldown", "select"} /\ held = Nobody /\ shutdown # "no"
     \/ worker = "select" /\ held = Nobody /\ shutdown = "dropped" /\ chan = <<>>
     \/ worker \in {"select", "drain"} /\ held = Nobody /\ chan # <<>>
     \/ held # Nobody /\ Cardinality(slots) < MaxConcurrent
     \/ worker = "drain" /\ held = Nobody /\ chan = <<>>
     \/ worker = "join" /\ \A i \in Items : Stage(i) \notin InTask

\* ... the callers,
CallReady(i) ==
  /\ phase = "running"
  /\ \/ Stage(i) \in {"spilled", "counted"} \cup RollingBack
     \/ Stage(i) = "accounted" /\ ~Closed /\ Len(chan) < Capacity
     \/ Stage(i) = "accounted" /\ (Closed \/ (Len(chan) = Capacity /\ item[i].kind # "file_blocking"))

\* ... and the tasks, with Attempt and the inline upload.
AttemptReady(i) ==
  /\ Stage(i) = "upload"
  /\ \/ item[i].attempts = 0 \/ i \in temps \/ Tried(i) = MaxAttempts \/ Tried(i) < MaxAttempts

TaskReady(i) ==
  /\ Up
  /\ \/ Stage(i) \in {"inline", "spawned", "backoff"} \cup Ending
     \/ AttemptReady(i)
     \/ Stage(i) = "refused" /\ ~draining
     \/ Stage(i) \in {"refused", "parked"} /\ draining
     \/ Stage(i) = "woken" /\ Cardinality(slots) < MaxConcurrent

CanProgress == WorkerReady \/ \E i \in Items : CallReady(i) \/ TaskReady(i)

\* A step that neither moves nor answers an artifact other than i.
Aside(i) ==
  \A j \in Items \ {i} : item'[j] = item[j] /\ reply'[j] = reply[j] /\ (j \in slots' <=> j \in slots)

LEMMA EndedStage == ASSUME NEW i, NEW s PROVE Ended(i, s).stage = s
  BY DEF Ended, Artifact

LEMMA LiveElsewhere ==
  ASSUME LiveInv, NEW i \in Items, Live(i)',
         Aside(i)
  PROVE  LiveInv'
<1>1. \A j \in Items \ {i} : Live(j)'
  BY DEF Aside, LiveInv, Live, Stage
<1>. QED
  BY <1>1 DEF LiveInv

LEMMA DeduplicateLive ==
  ASSUME Inv, LiveInv, NEW i \in Items, NEW k \in Kinds, Deduplicate(i, k)
  PROVE  LiveInv'
<1>1. /\ Live(i) /\ Good(i) /\ item[i] \in Artifacts
      /\ item \in [Items -> Artifacts] /\ reply \in [Items -> Replies]
  BY FilesAreGood DEF LiveInv, Inv, ItemTypes
<1>2. Live(i)'
  BY <1>1 DEF Live, Good, Stage, Busy, Idling, Ending, RollingBack, Calling, Artifacts, Deduplicate,
     CanEnqueue, Goto, Tell, queue
<1>3. Aside(i)
  BY <1>1 DEF Aside, Deduplicate, CanEnqueue, Goto, Tell, queue
<1>. QED
  BY <1>2, <1>3, LiveElsewhere

LEMMA SpillFailsLive ==
  ASSUME Inv, LiveInv, NEW i \in Items, NEW k \in Kinds, SpillFails(i, k)
  PROVE  LiveInv'
<1>1. /\ Live(i) /\ Good(i) /\ item[i] \in Artifacts
      /\ item \in [Items -> Artifacts] /\ reply \in [Items -> Replies]
  BY FilesAreGood DEF LiveInv, Inv, ItemTypes
<1>2. Live(i)'
  BY <1>1 DEF Live, Good, Stage, Busy, Idling, Ending, RollingBack, Calling, Artifacts, SpillFails,
     CanEnqueue, Goto, Tell, queue
<1>3. Aside(i)
  BY <1>1 DEF Aside, SpillFails, CanEnqueue, Goto, Tell, queue
<1>. QED
  BY <1>2, <1>3, LiveElsewhere

LEMMA SpillLive ==
  ASSUME Inv, LiveInv, NEW i \in Items, NEW k \in Kinds, NEW n \in {0, 1}, Spill(i, k, n)
  PROVE  LiveInv'
<1>1. /\ Live(i) /\ Good(i) /\ item[i] \in Artifacts
      /\ item \in [Items -> Artifacts] /\ reply \in [Items -> Replies]
  BY FilesAreGood DEF LiveInv, Inv, ItemTypes
<1>2. Live(i)'
  BY <1>1 DEF Live, Good, Stage, Busy, Idling, Ending, RollingBack, Calling, Artifacts, Spill,
     CanEnqueue, Artifact, queue
<1>3. Aside(i)
  BY <1>1 DEF Aside, Spill, CanEnqueue, Artifact, queue
<1>. QED
  BY <1>2, <1>3, LiveElsewhere

LEMMA AccountLive ==
  ASSUME Inv, LiveInv, NEW i \in Items, Account(i)
  PROVE  LiveInv'
<1>1. /\ Live(i) /\ Good(i) /\ item[i] \in Artifacts
      /\ item \in [Items -> Artifacts] /\ reply \in [Items -> Replies]
  BY FilesAreGood DEF LiveInv, Inv, ItemTypes
<1>2. Live(i)'
  BY <1>1 DEF Live, Good, Stage, Busy, Idling, Ending, RollingBack, Calling, Artifacts, Account, Goto, queue
<1>3. Aside(i)
  BY <1>1 DEF Aside, Account, Goto, queue
<1>. QED
  BY <1>2, <1>3, LiveElsewhere

LEMMA ChargeLive ==
  ASSUME Inv, LiveInv, NEW i \in Items, Charge(i)
  PROVE  LiveInv'
<1>1. /\ Live(i) /\ Good(i) /\ item[i] \in Artifacts
      /\ item \in [Items -> Artifacts] /\ reply \in [Items -> Replies]
  BY FilesAreGood DEF LiveInv, Inv, ItemTypes
<1>2. Live(i)'
  BY <1>1 DEF Live, Good, Stage, Busy, Idling, Ending, RollingBack, Calling, Artifacts, Charge, Goto, queue
<1>3. Aside(i)
  BY <1>1 DEF Aside, Charge, Goto, queue
<1>. QED
  BY <1>2, <1>3, LiveElsewhere

LEMMA SidecarFailsLive ==
  ASSUME Inv, LiveInv, NEW i \in Items, SidecarFails(i)
  PROVE  LiveInv'
<1>0. Ended(i, "settled").stage = "settled"
  BY EndedStage
<1>1. /\ Live(i) /\ Good(i) /\ item[i] \in Artifacts
      /\ item \in [Items -> Artifacts] /\ reply \in [Items -> Replies]
  BY FilesAreGood DEF LiveInv, Inv, ItemTypes
<1>2. Live(i)'
  BY <1>1, <1>0 DEF Live, Good, Stage, Busy, Idling, Ending, RollingBack, Calling, Artifacts,
     SidecarFails, Tell, queue
<1>3. Aside(i)
  BY <1>1 DEF Aside, SidecarFails, Tell, queue
<1>. QED
  BY <1>2, <1>3, LiveElsewhere

LEMMA SentLive ==
  ASSUME Inv, LiveInv, NEW i \in Items, Sent(i)
  PROVE  LiveInv'
<1>1. /\ Live(i) /\ Good(i) /\ item[i] \in Artifacts
      /\ item \in [Items -> Artifacts] /\ reply \in [Items -> Replies]
  BY FilesAreGood DEF LiveInv, Inv, ItemTypes
<1>2. Live(i)'
  BY <1>1 DEF Live, Good, Stage, Busy, Idling, Ending, RollingBack, Calling, Artifacts, Sent, Goto, queue
<1>3. Aside(i)
  BY <1>1 DEF Aside, Sent, Goto, queue
<1>. QED
  BY <1>2, <1>3, LiveElsewhere

LEMMA RejectedLive ==
  ASSUME Inv, LiveInv, NEW i \in Items, Rejected(i)
  PROVE  LiveInv'
<1>1. /\ Live(i) /\ Good(i) /\ item[i] \in Artifacts
      /\ item \in [Items -> Artifacts] /\ reply \in [Items -> Replies]
  BY FilesAreGood DEF LiveInv, Inv, ItemTypes
<1>2. Live(i)'
  BY <1>1
     DEF Live, Good, Stage, Busy, Idling, Ending, RollingBack, Calling, Artifacts, Rejected, Goto, queue
<1>3. Aside(i)
  BY <1>1 DEF Aside, Rejected, Goto, queue
<1>. QED
  BY <1>2, <1>3, LiveElsewhere

LEMMA RollBackLive ==
  ASSUME Inv, LiveInv, NEW i \in Items, RollBack(i)
  PROVE  LiveInv'
<1>0. Ended(i, "settled").stage = "settled" /\ Ended(i, "inline").stage = "inline"
  BY EndedStage
<1>1. /\ Live(i) /\ Good(i) /\ item[i] \in Artifacts
      /\ item \in [Items -> Artifacts] /\ reply \in [Items -> Replies]
  BY FilesAreGood DEF LiveInv, Inv, ItemTypes
<1>2. Live(i)'
  BY <1>1, <1>0
     DEF Live, Good, Stage, Busy, Idling, Ending, RollingBack, Calling, Artifacts, RollBack, queue
<1>3. Aside(i)
  BY <1>1 DEF Aside, RollBack, queue
<1>. QED
  BY <1>2, <1>3, LiveElsewhere

LEMMA InlineDoneLive ==
  ASSUME Inv, LiveInv, NEW i \in Items, InlineDone(i)
  PROVE  LiveInv'
<1>0. Ended(i, "settled").stage = "settled"
  BY EndedStage
<1>1. /\ Live(i) /\ Good(i) /\ item[i] \in Artifacts
      /\ item \in [Items -> Artifacts] /\ reply \in [Items -> Replies]
  BY FilesAreGood DEF LiveInv, Inv, ItemTypes
<1>2. Live(i)'
  BY <1>1, <1>0 DEF Live, Good, Stage, Busy, Idling, Ending, RollingBack, Calling, Artifacts,
     InlineDone, NotifyCompletion, queue
<1>3. Aside(i)
  BY <1>1 DEF Aside, InlineDone, NotifyCompletion, queue
<1>. QED
  BY <1>2, <1>3, LiveElsewhere

LEMMA StartLive ==
  ASSUME Inv, LiveInv, NEW i \in Items, Start(i)
  PROVE  LiveInv'
<1>1. /\ Live(i) /\ Good(i) /\ item[i] \in Artifacts
      /\ item \in [Items -> Artifacts] /\ reply \in [Items -> Replies]
  BY FilesAreGood DEF LiveInv, Inv, ItemTypes
<1>2. Live(i)'
  BY <1>1 DEF Live, Good, Stage, Busy, Idling, Ending, RollingBack, Calling, Artifacts, Start, queue
<1>3. Aside(i)
  BY <1>1 DEF Aside, Start, queue
<1>. QED
  BY <1>2, <1>3, LiveElsewhere

LEMMA RetryLive ==
  ASSUME Inv, LiveInv, NEW i \in Items, Retry(i)
  PROVE  LiveInv'
<1>1. /\ Live(i) /\ Good(i) /\ item[i] \in Artifacts
      /\ item \in [Items -> Artifacts] /\ reply \in [Items -> Replies]
  BY FilesAreGood DEF LiveInv, Inv, ItemTypes
<1>2. Live(i)'
  BY <1>1 DEF Live, Good, Stage, Busy, Idling, Ending, RollingBack, Calling, Artifacts, Retry, queue
<1>3. Aside(i)
  BY <1>1 DEF Aside, Retry, queue
<1>. QED
  BY <1>2, <1>3, LiveElsewhere

LEMMA BackoffEndsLive ==
  ASSUME Inv, LiveInv, NEW i \in Items, BackoffEnds(i)
  PROVE  LiveInv'
<1>1. /\ Live(i) /\ Good(i) /\ item[i] \in Artifacts
      /\ item \in [Items -> Artifacts] /\ reply \in [Items -> Replies]
  BY FilesAreGood DEF LiveInv, Inv, ItemTypes
<1>2. Live(i)'
  BY <1>1
     DEF Live, Good, Stage, Busy, Idling, Ending, RollingBack, Calling, Artifacts, BackoffEnds, Goto, queue
<1>3. Aside(i)
  BY <1>1 DEF Aside, BackoffEnds, Goto, queue
<1>. QED
  BY <1>2, <1>3, LiveElsewhere

LEMMA RefuseLive ==
  ASSUME Inv, LiveInv, NEW i \in Items, NEW d \in BOOLEAN, Refuse(i, d)
  PROVE  LiveInv'
<1>1. /\ Live(i) /\ Good(i) /\ item[i] \in Artifacts
      /\ item \in [Items -> Artifacts] /\ reply \in [Items -> Replies]
  BY FilesAreGood DEF LiveInv, Inv, ItemTypes
<1>2. Live(i)'
  BY <1>1 DEF Live, Good, Stage, Busy, Idling, Ending, RollingBack, Calling, Artifacts, Refuse,
     ReleaseSlot, queue
<1>3. Aside(i)
  BY <1>1 DEF Aside, Refuse, ReleaseSlot, queue
<1>. QED
  BY <1>2, <1>3, LiveElsewhere

LEMMA ParkLive ==
  ASSUME Inv, LiveInv, NEW i \in Items, Park(i)
  PROVE  LiveInv'
<1>1. /\ Live(i) /\ Good(i) /\ item[i] \in Artifacts
      /\ item \in [Items -> Artifacts] /\ reply \in [Items -> Replies]
  BY FilesAreGood DEF LiveInv, Inv, ItemTypes
<1>2. Live(i)'
  BY <1>1 DEF Live, Good, Stage, Busy, Idling, Ending, RollingBack, Calling, Artifacts, Park, Goto,
     NotifyCompletion, queue
<1>3. Aside(i)
  BY <1>1 DEF Aside, Park, Goto, NotifyCompletion, queue
<1>. QED
  BY <1>2, <1>3, LiveElsewhere

LEMMA WakeLive ==
  ASSUME Inv, LiveInv, NEW i \in Items, Wake(i)
  PROVE  LiveInv'
<1>1. /\ Live(i) /\ Good(i) /\ item[i] \in Artifacts
      /\ item \in [Items -> Artifacts] /\ reply \in [Items -> Replies]
  BY FilesAreGood DEF LiveInv, Inv, ItemTypes
<1>2. Live(i)'
  BY <1>1 DEF Live, Good, Stage, Busy, Idling, Ending, RollingBack, Calling, Artifacts, Wake, Goto, queue
<1>3. Aside(i)
  BY <1>1 DEF Aside, Wake, Goto, queue
<1>. QED
  BY <1>2, <1>3, LiveElsewhere

LEMMA ReacquireLive ==
  ASSUME Inv, LiveInv, NEW i \in Items, Reacquire(i)
  PROVE  LiveInv'
<1>1. /\ Live(i) /\ Good(i) /\ item[i] \in Artifacts
      /\ item \in [Items -> Artifacts] /\ reply \in [Items -> Replies]
  BY FilesAreGood DEF LiveInv, Inv, ItemTypes
<1>2. Live(i)'
  BY <1>1 DEF Live, Good, Stage, Busy, Idling, Ending, RollingBack, Calling, Artifacts, Reacquire, queue
<1>3. Aside(i)
  BY <1>1 DEF Aside, Reacquire, queue
<1>. QED
  BY <1>2, <1>3, LiveElsewhere

LEMMA SettleLive ==
  ASSUME Inv, LiveInv, NEW i \in Items, Settle(i)
  PROVE  LiveInv'
<1>1. /\ Live(i) /\ Good(i) /\ item[i] \in Artifacts
      /\ item \in [Items -> Artifacts] /\ reply \in [Items -> Replies]
  BY FilesAreGood DEF LiveInv, Inv, ItemTypes
<1>2. Live(i)'
  BY <1>1 DEF Live, Good, Stage, Busy, Idling, Ending, RollingBack, Calling, Artifacts, Settle, Goto,
     NotifyCompletion, queue
<1>3. Aside(i)
  BY <1>1 DEF Aside, Settle, Goto, NotifyCompletion, queue
<1>. QED
  BY <1>2, <1>3, LiveElsewhere

LEMMA RepayLive ==
  ASSUME Inv, LiveInv, NEW i \in Items, Repay(i)
  PROVE  LiveInv'
<1>0. Ended(i, "settled").stage = "settled"
  BY EndedStage
<1>1. /\ Live(i) /\ Good(i) /\ item[i] \in Artifacts
      /\ item \in [Items -> Artifacts] /\ reply \in [Items -> Replies]
  BY FilesAreGood DEF LiveInv, Inv, ItemTypes
<1>2. Live(i)'
  BY <1>1, <1>0 DEF Live, Good, Stage, Busy, Idling, Ending, RollingBack, Calling, Artifacts, Repay,
     NotifyCompletion, queue
<1>3. Aside(i)
  BY <1>1 DEF Aside, Repay, NotifyCompletion, queue
<1>. QED
  BY <1>2, <1>3, LiveElsewhere

LEMMA RecoverLive ==
  ASSUME Inv, LiveInv, NEW i \in Items, Recover(i)
  PROVE  LiveInv'
<1>1. /\ Live(i) /\ Good(i) /\ item[i] \in Artifacts
      /\ item \in [Items -> Artifacts] /\ reply \in [Items -> Replies]
  BY FilesAreGood DEF LiveInv, Inv, ItemTypes
<1>0. i \notin slots /\ reply[i] # "waiting"
  <2>1. Stage(i) = "gone"
    BY DEF Inv, PhaseInv, AtStage, Recover
  <2>. QED
    BY <1>1, <2>1 DEF Inv, SlotInv, Running, InTask, Ending, RollingBack, Calling, Live, Idling
<1>2. Live(i)'
  BY <1>0, <1>1
     DEF Live, Good, Stage, Busy, Idling, Ending, RollingBack, Calling, Artifacts, Recover, Artifact, queue
<1>3. Aside(i)
  BY <1>1 DEF Aside, Recover, Artifact, queue
<1>. QED
  BY <1>2, <1>3, LiveElsewhere
LEMMA FinishLive ==
  ASSUME Inv, LiveInv, NEW i \in Items, NEW o, Finish(i, o)
  PROVE  LiveInv'
<1>1. Live(i) /\ item[i] \in Artifacts /\ item \in [Items -> Artifacts]
  BY DEF LiveInv, Inv, ItemTypes
<1>2. Live(i)'
  BY <1>1 DEF Live, Stage, Busy, Idling, Ending, Artifacts, Finish, Goto
<1>3. Aside(i)
  BY <1>1 DEF Aside, Finish, Goto
<1>. QED
  BY <1>2, <1>3, LiveElsewhere

LEMMA ReceiveLive ==
  ASSUME Inv, LiveInv, Receive
  PROVE  LiveInv'
<1>0. PICK i : i = Head(chan)
  OBVIOUS
<1>1. i \in Items /\ Stage(i) = "queued"
  <2>1. chan \in Seq(Items) /\ chan # <<>> /\ Range(chan) = AtStage("queued")
    BY DEF Inv, ChanInv, Receive
  <2>2. 1 \in DOMAIN chan /\ Head(chan) = chan[1]
    BY <2>1
  <2>. QED
    BY <1>0, <2>1, <2>2 DEF Range, AtStage
<1>2. i \notin slots /\ item \in [Items -> Artifacts] /\ item[i] \in Artifacts
  BY <1>1 DEF Inv, SlotInv, Running, InTask, Ending, RollingBack, Calling, ItemTypes
<1>3. Goto(i, "held") /\ slots' = slots /\ reply' = reply
  BY <1>0 DEF Receive
<1>4. Live(i)'
  BY <1>1, <1>2, <1>3 DEF Live, Stage, Idling, Goto, Artifacts
<1>5. Aside(i)
  BY <1>2, <1>3 DEF Aside, Goto
<1>. QED
  BY <1>1, <1>4, <1>5, LiveElsewhere

LEMMA DispatchLive ==
  ASSUME Inv, LiveInv, Dispatch
  PROVE  LiveInv'
<1>1. held \in Items /\ item \in [Items -> Artifacts] /\ item[held] \in Artifacts
  BY DEF Inv, HeldInv, ItemTypes, Dispatch
<1>2. Goto(held, "spawned") /\ slots' = slots \cup {held} /\ reply' = reply
  BY DEF Dispatch
<1>3. /\ item'[held].stage = "spawned"
      /\ Aside(held)
  BY <1>1, <1>2 DEF Aside, Goto, Artifacts
<1>. QED
  BY <1>1, <1>3 DEF Aside, LiveInv, Live, Stage, Busy, Idling

LEMMA DrainTimeoutLive ==
  ASSUME Inv, LiveInv, DrainTimeout
  PROVE  LiveInv'
<1>. SUFFICES ASSUME NEW j \in Items PROVE Live(j)'
  BY DEF LiveInv
<1>1. Live(j)
  BY DEF LiveInv
<1>2. CASE Stage(j) \in Accepted \ Ending
  <2>1. reply'[j] # "waiting" /\ j \notin slots'
    BY <1>2 DEF DrainTimeout
  <2>. QED
    BY <2>1 DEF Live
<1>3. CASE Stage(j) \notin Accepted \ Ending
  <2>1. item'[j] = item[j] /\ reply'[j] = reply[j] /\ (j \in slots' => j \in slots)
    BY <1>3 DEF DrainTimeout
  <2>. QED
    BY <1>1, <2>1 DEF Live, Stage
<1>. QED
  BY <1>2, <1>3

LEMMA CrashLive ==
  ASSUME Inv, LiveInv, Crash
  PROVE  LiveInv'
<1>1. \A j \in Items : reply'[j] # "waiting" /\ j \notin slots'
  BY DEF Crash
<1>. QED
  BY <1>1 DEF LiveInv, Live

\* Steps that move no artifact.
LEMMA QuietLive ==
  ASSUME LiveInv, item' = item, reply' = reply, slots' = slots
  PROVE  LiveInv'
  BY DEF LiveInv, Live, Stage

LEMMA NextLive == Inv /\ LiveInv /\ [Next]_vars => LiveInv'
<1>. SUFFICES ASSUME Inv, LiveInv, [Next]_vars PROVE LiveInv'
  OBVIOUS
<1>1. ASSUME NEW i \in Items, Enqueue(i) PROVE LiveInv'
  <2>1. ASSUME NEW k \in Kinds, Deduplicate(i, k) \/ SpillFails(i, k) \/ \E n \in {0, 1} : Spill(i, k, n)
        PROVE  LiveInv'
    BY <2>1, DeduplicateLive, SpillFailsLive, SpillLive
  <2>. QED
    BY <1>1, <2>1, AccountLive, SidecarFailsLive, ChargeLive, SentLive, RejectedLive,
       RollBackLive DEF Enqueue
<1>2. ASSUME NEW i \in Items, Task(i) PROVE LiveInv'
  <2>1. ASSUME Expired(i) \/ Succeed(i) \/ Terminal(i) \/ Exhausted(i) \/ Bail(i) \/ GiveUp(i)
        PROVE  LiveInv'
    <3>1. PICK o \in {"expired", "ok", "terminal", "failed"} : Finish(i, o)
      BY <2>1 DEF Expired, Succeed, Terminal, Exhausted, Bail, GiveUp
    <3>. QED
      BY <3>1, FinishLive
  <2>2. ASSUME NEW d \in BOOLEAN, Refuse(i, d) PROVE LiveInv'
    BY <2>2, RefuseLive
  <2>3. Attempt(i) => LiveInv'
    BY <2>1, <2>2, RetryLive DEF Attempt
  <2>. QED
    BY <1>2, <2>1, <2>3, StartLive, BackoffEndsLive, ParkLive, WakeLive, ReacquireLive,
       SettleLive, RepayLive DEF Task
<1>3. ASSUME NEW i \in Items, Startup(i) \/ InlineDone(i) PROVE LiveInv'
  <2>1. Age(i) \/ RecoverDrops(i) \/ RecoverLater(i) => LiveInv'
    BY QuietLive DEF Age, RecoverDrops, RecoverLater, queue
  <2>. QED
    BY <1>3, <2>1, RecoverLive, InlineDoneLive DEF Startup
<1>4. CASE Worker
  <2>1. CheckBreaker \/ CooldownEnds \/ ShutdownSeen \/ ChannelGone \/ Drained \/ Joined => LiveInv'
    BY QuietLive DEF CheckBreaker, CooldownEnds, ShutdownSeen, ChannelGone, Drained, Joined
  <2>. QED
    BY <1>4, <2>1, ReceiveLive, DispatchLive DEF Worker
<1>5. CASE Drain \/ DropQueue \/ Restart \/ Cleanup \/ UNCHANGED vars
  BY <1>5, QuietLive DEF Drain, DropQueue, Restart, Cleanup, vars, queue
<1>. QED
  BY <1>1, <1>2, <1>3, <1>4, <1>5, DrainTimeoutLive, CrashLive DEF Next

LEMMA NextSignal == Inv /\ SignalInv /\ [Next]_vars => SignalInv'
<1>. SUFFICES ASSUME Inv, SignalInv, [Next]_vars PROVE SignalInv'
  OBVIOUS
<1>0. worker' = worker /\ shutdown' = shutdown /\ draining' = draining /\ chan' = chan /\ phase' = phase
      => SignalInv'
  BY DEF SignalInv, Closed
<1>1. ASSUME NEW i \in Items, Enqueue(i) \/ Task(i) \/ Startup(i) \/ InlineDone(i) PROVE SignalInv'
  <2>1. ASSUME NEW k \in Kinds, Deduplicate(i, k) \/ SpillFails(i, k) \/ \E n \in {0, 1} : Spill(i, k, n)
        PROVE  SignalInv'
    BY <1>0, <2>1 DEF Deduplicate, SpillFails, Spill, queue, life
  <2>2. Account(i) \/ SidecarFails(i) \/ Charge(i) \/ Rejected(i) \/ RollBack(i) \/ InlineDone(i) => SignalInv'
    BY <1>0 DEF Account, SidecarFails, Charge, Rejected, RollBack, InlineDone, queue, life
  <2>3. Sent(i) => SignalInv'
    BY DEF Sent, SignalInv, Closed, life
  <2>4. ASSUME NEW o, Finish(i, o) PROVE SignalInv'
    BY <1>0, <2>4 DEF Finish, life
  <2>5. Attempt(i) \/ Bail(i) \/ GiveUp(i) => SignalInv'
    <3>1. ASSUME NEW d \in BOOLEAN, Refuse(i, d) PROVE SignalInv'
      BY <1>0, <3>1 DEF Refuse, life
    <3>2. Retry(i) => SignalInv'
      BY <1>0 DEF Retry, queue, life
    <3>. QED
      BY <2>4, <3>1, <3>2 DEF Attempt, Expired, Succeed, Terminal, Exhausted, Bail, GiveUp
  <2>6. Start(i) \/ BackoffEnds(i) \/ Park(i) \/ Wake(i) \/ Reacquire(i) \/ Settle(i) \/ Repay(i)
        => SignalInv'
    BY <1>0 DEF Start, BackoffEnds, Park, Wake, Reacquire, Settle, Repay, queue, life
  <2>7. Age(i) \/ RecoverDrops(i) \/ RecoverLater(i) => SignalInv'
    BY <1>0 DEF Age, RecoverDrops, RecoverLater, queue, life
  <2>8. Recover(i) => SignalInv'
    BY DEF Recover, SignalInv, Closed
  <2>. QED
    BY <1>1, <2>1, <2>2, <2>3, <2>5, <2>6, <2>7, <2>8 DEF Enqueue, Task, Startup
<1>2. CASE Worker
  <2>1. CheckBreaker \/ CooldownEnds \/ ShutdownSeen \/ ChannelGone => SignalInv'
    BY DEF CheckBreaker, CooldownEnds, ShutdownSeen, ChannelGone, SignalInv, Closed, life
  <2>2. Receive \/ Drained \/ Joined => SignalInv'
    BY DEF Receive, Drained, Joined, SignalInv, Closed, life
  <2>3. Dispatch => SignalInv'
    BY DEF Dispatch, SignalInv, Closed, life
  <2>. QED
    BY <1>2, <2>1, <2>2, <2>3 DEF Worker
<1>3. CASE Drain \/ DropQueue \/ DrainTimeout \/ Crash \/ Restart \/ Cleanup
  BY <1>3 DEF Drain, DropQueue, DrainTimeout, Crash, Restart, Cleanup, SignalInv, Closed, life, queue
<1>4. CASE UNCHANGED vars
  BY <1>0, <1>4 DEF vars, queue, life
<1>. QED
  BY <1>1, <1>2, <1>3, <1>4 DEF Next

\* A task that holds a slot can take its next step.
LEMMA SlotMoves ==
  ASSUME Inv, Up, NEW i \in Items, Stage(i) \in Busy PROVE TaskReady(i)
<1>1. CASE Stage(i) = "upload"
  <2>1. Tried(i) \in 0..MaxAttempts /\ MaxAttempts \in Nat
    BY TriedBound, BoundsAssumption DEF Inv, ItemTypes
  <2>. QED
    BY <1>1, <2>1 DEF TaskReady, AttemptReady
<1>. QED
  BY <1>1 DEF TaskReady, Busy

\* While somebody waits for a slot, one is free or its holder can move.
LEMMA SlotWait ==
  ASSUME Inv, LiveInv, Up, Cardinality(slots) >= MaxConcurrent PROVE CanProgress
<1>1. slots \subseteq Items
  BY DEF Inv, SlotInv, Running
<1>2. slots # {}
  BY BoundsAssumption, FS_EmptySet
<1>3. PICK i \in slots : TRUE
  BY <1>2
<1>4. i \in Items /\ Stage(i) \in Busy
  BY <1>1, <1>3 DEF LiveInv, Live
<1>. QED
  BY <1>4, SlotMoves DEF CanProgress

LEMMA HeldMoves ==
  ASSUME Inv, LiveInv, Up, held # Nobody PROVE CanProgress
<1>1. Cardinality(slots) \in Nat /\ MaxConcurrent \in Nat
  BY Finite, BoundsAssumption DEF Inv, SlotInv, Running
<1>. QED
  BY <1>1, SlotWait DEF CanProgress, WorkerReady

\* A task goes on by itself, except one that is parked, and that one too once the
\* queue drains.
LEMMA TaskMoves ==
  ASSUME Inv, LiveInv, Up, NEW i \in Items, Stage(i) \in InTask, Stage(i) = "parked" => draining
  PROVE  CanProgress
<1>1. CASE Stage(i) \in Busy
  BY <1>1, SlotMoves DEF CanProgress
<1>2. CASE Stage(i) = "woken"
  <2>1. Cardinality(slots) \in Nat /\ MaxConcurrent \in Nat
    BY Finite, BoundsAssumption DEF Inv, SlotInv, Running
  <2>. QED
    BY <1>2, <2>1, SlotWait DEF CanProgress, TaskReady
<1>3. CASE Stage(i) \in {"refused", "parked"}
  <2>1. TaskReady(i)
    BY <1>3 DEF TaskReady
  <2>. QED
    BY <2>1 DEF CanProgress
<1>. QED
  BY <1>1, <1>2, <1>3 DEF InTask, Ending, RollingBack, Calling, Busy

\* A worker that is not at its end has a step while a drain or a full channel
\* needs it.
LEMMA WorkerMoves ==
  ASSUME Inv, LiveInv, SignalInv, Up, worker \notin {"exited", "aborted"}, shutdown # "no" \/ chan # <<>>
  PROVE  CanProgress
<1>1. CASE held # Nobody
  BY <1>1, HeldMoves
<1>2. CASE held = Nobody /\ worker # "join"
  <2>1. worker \in {"check", "cooldown", "select", "drain"}
    BY <1>2 DEF Inv, PlainTypes, Pcs
  <2>2. WorkerReady
    BY <1>2, <2>1 DEF WorkerReady
  <2>. QED
    BY <2>2 DEF CanProgress
<1>3. CASE worker = "join"
  <2>1. CASE \A i \in Items : Stage(i) \notin InTask
    BY <1>3, <2>1 DEF CanProgress, WorkerReady
  <2>2. CASE \E i \in Items : Stage(i) \in InTask
    BY <1>3, <2>2, TaskMoves DEF SignalInv
  <2>. QED
    BY <2>1, <2>2
<1>. QED
  BY <1>1, <1>2, <1>3

LEMMA CallerMoves ==
  ASSUME Inv, LiveInv, SignalInv, Up, NEW i \in Items, reply[i] = "waiting"
  PROVE  CanProgress
<1>1. Stage(i) \in Stages \ Idling /\ Good(i)
  BY FilesAreGood DEF LiveInv, Live, Inv, ItemTypes, Artifacts, Stage
<1>2. CASE Stage(i) \in {"spilled", "counted"} \cup RollingBack
  BY <1>1, <1>2 DEF Good, Calling, CanProgress, CallReady
<1>3. CASE Stage(i) = "accounted"
  <2>1. phase = "running"
    BY <1>1, <1>3 DEF Good, Calling
  <2>2. /\ Len(chan) \in Nat /\ Len(chan) <= Capacity /\ Capacity \in Nat \ {0}
        /\ (Len(chan) = Capacity => chan # <<>>)
    BY BoundsAssumption DEF Inv, ChanInv
  <2>3. CASE Closed \/ Len(chan) < Capacity
    BY <1>3, <2>1, <2>3 DEF CanProgress, CallReady
  <2>4. CASE ~Closed /\ Len(chan) = Capacity
    BY <2>2, <2>4, WorkerMoves DEF Closed
  <2>. QED
    BY <2>2, <2>3, <2>4
<1>4. CASE Stage(i) = "queued"
  <2>1. chan # <<>>
    <3>1. i \in Range(chan)
      BY <1>4 DEF Inv, ChanInv, AtStage
    <3>. QED
      BY <3>1 DEF Range
  <2>. QED
    BY <2>1, WorkerMoves DEF SignalInv
<1>5. CASE Stage(i) = "held"
  <2>1. held # Nobody
    BY <1>5 DEF Inv, HeldInv, AtStage
  <2>. QED
    BY <2>1, HeldMoves
<1>6. CASE Stage(i) \in InTask
  BY <1>1, <1>6, TaskMoves DEF Idling
<1>7. CASE Stage(i) = "inline"
  BY <1>7 DEF CanProgress, TaskReady
<1>. QED
  BY <1>1, <1>2, <1>3, <1>4, <1>5, <1>6, <1>7 DEF Stages, Idling, InTask, Ending, RollingBack, Calling

\* Nobody waits on everybody, for any number of artifacts, slots and places in the
\* channel: while drain() waits for the worker or a caller for its upload, the guard
\* of some step of the worker, a caller or a task holds.  The slots can always be
\* given back, because a task that is refused, parked or woken holds none.
THEOREM SomebodyCanStep == Spec => [](Awaited => CanProgress)
<1>1. Init => LiveInv /\ SignalInv
  BY DEF Init, LiveInv, Live, SignalInv, Closed
<1>2. Inv /\ LiveInv /\ SignalInv /\ [Next]_vars => LiveInv' /\ SignalInv'
  BY NextLive, NextSignal
<1>3. Inv /\ LiveInv /\ SignalInv => (Awaited => CanProgress)
  <2>. SUFFICES ASSUME Inv, LiveInv, SignalInv, Awaited PROVE CanProgress
    OBVIOUS
  <2>1. CASE shutdown # "no" /\ worker \notin {"exited", "aborted"}
    BY <2>1, WorkerMoves DEF SignalInv, Up
  <2>2. CASE Up /\ \E i \in Items : reply[i] = "waiting"
    BY <2>2, CallerMoves
  <2>. QED
    BY <2>1, <2>2 DEF Awaited
<1>. QED
  BY <1>1, <1>2, <1>3, QueueInvariant, PTL DEF Spec

=============================================================================
