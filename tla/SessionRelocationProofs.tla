------------------------ MODULE SessionRelocationProofs ------------------------
(***************************************************************************)
(* What SessionRelocation guarantees for any cwds and any number of moves: *)
(* types, NeverLost, ViewServesWhole and the refinement of SessionMove.    *)
(***************************************************************************)
EXTENDS SessionRelocation, FiniteSetTheorems, TLAPS

-----------------------------------------------------------------------------
(***************************************************************************)
(* The inductive invariant.  Disk says what a power loss may leave, by the *)
(* journals it may leave; HolderInv what the holder of the lease relies on *)
(* at each of its steps; ViewInv what a reader's journal still means.      *)
(***************************************************************************)
HomeSlot(c, g) == [dir |-> [state |-> "whole", cwd |-> c, gen |-> g], staging |-> Nothing]

EmptySlot == [dir |-> Nothing, staging |-> Nothing]

StagedSlot(c, g) == [dir |-> Nothing, staging |-> [state |-> "whole", cwd |-> c, gen |-> g]]

DirIs(s, c, g) == s.dir # Nothing => s.dir.cwd = c /\ s.dir.gen = g

\* The source is untouched; whatever is at the target is of this move.
SourceSafe(may, j) ==
  /\ may[j.from] = {HomeSlot(j.from, j.gen - 1)}
  /\ \A s \in may[j.to] : DirIs(s, j.to, j.gen)

\* The target is complete and durable; what is left of the source is of this move.
TargetSafe(may, j) ==
  /\ may[j.to] = {HomeSlot(j.to, j.gen)}
  /\ \A s \in may[j.from] : s.staging = Nothing /\ DirIs(s, j.from, j.gen - 1)

Safe(may, j) ==
  /\ j.from # j.to /\ j.gen > 0
  /\ \A c \in Cwds \ {j.from, j.to} : may[c] = {EmptySlot}
  /\ TargetAuthority(j.phase) => TargetSafe(may, j)
  /\ ~TargetAuthority(j.phase) => SourceSafe(may, j)

\* The session is at its home and there is nothing else on disk.
Settled(may, h, g) == \A c \in Cwds : may[c] = IF c = h THEN {HomeSlot(h, g)} ELSE {EmptySlot}

Disk(journals, may) ==
  /\ \A j \in journals : j # Nothing => Safe(may, j)
  /\ Nothing \in journals => \E h \in Cwds, g \in Nat : Settled(may, h, g)

Contained == journal \in journalMay /\ \A c \in Cwds : slot[c] \in slotMay[c]

Synced == journal = mem /\ journalMay = {mem}

\* The journal on disk is an earlier one of the same relocation.
Precedes(target) ==
  \E p \in Phases : journalMay = {[mem EXCEPT !.phase = p]} /\ (TargetAuthority(p) <=> target)

\* What the holder relies on when it writes a journal of each phase.
WriteInv ==
  /\ mem.phase = "Prepared" =>
       Settled(slotMay, mem.from, mem.gen - 1) /\ (~barrier => journal = Nothing)
  /\ mem.phase # "Prepared" /\ ~barrier => Precedes(mem.phase = "Committed")
  /\ mem.phase = "Staged" /\ ~barrier => journalMay = {[mem EXCEPT !.phase = "Prepared"]}
  /\ mem.phase = "Staged" => slotMay[mem.to] = {StagedSlot(mem.to, mem.gen)}
  /\ mem.phase \in {"TargetPublished", "Ready"} => slotMay[mem.to] = {HomeSlot(mem.to, mem.gen)}
  /\ mem.phase = "Committed" => slotMay[mem.from] = {EmptySlot}
  /\ mem.phase = "RolledBack" => slotMay[mem.to] = {EmptySlot}
  /\ barrier => journal = mem

StageInv ==
  /\ at = "copy" => /\ mem.phase = "Prepared" /\ \A s \in slotMay[mem.to] : s.dir = Nothing
                    /\ barrier => slot[mem.to] = StagedSlot(mem.to, mem.gen)
  /\ at = "publish" =>
       /\ mem.phase = "Staged"
       /\ ~barrier => slotMay[mem.to] = {StagedSlot(mem.to, mem.gen)}
       /\ barrier => slot[mem.to] = HomeSlot(mem.to, mem.gen)
  /\ at = "held" =>
       mem.phase = "TargetPublished" /\ slotMay[mem.to] = {HomeSlot(mem.to, mem.gen)} /\ ~barrier

CommitInv ==
  /\ at \in {"commit", "dropSource", "dropLeftover"} => TargetAuthority(mem.phase)
  /\ at = "commit" => ~barrier
  /\ at = "dropSource" /\ barrier => slot[mem.from] = EmptySlot
  /\ at = "dropLeftover" => slotMay[mem.from] = {EmptySlot}

RollbackInv ==
  /\ at \in {"rollback", "dropStaging", "checkTarget", "dropTarget"} => ~TargetAuthority(mem.phase)
  /\ at \in {"rollback", "checkTarget"} => ~barrier
  /\ at = "dropStaging" /\ barrier => slot[mem.to].staging = Nothing
  /\ at \in {"checkTarget", "dropTarget"} => \A s \in slotMay[mem.to] : s.staging = Nothing
  /\ at = "dropTarget" /\ barrier => slot[mem.to] = EmptySlot

TerminalInv ==
  at = "terminal" =>
    /\ mem.phase \in {"Committed", "RolledBack"}
    /\ ~barrier => Synced
    /\ barrier => journal = Nothing
    /\ mem.phase = "Committed" => slotMay[mem.from] = {EmptySlot}
    /\ mem.phase = "RolledBack" => slotMay[mem.to] = {EmptySlot}

HolderInv ==
  /\ at = "idle" => ~barrier
  /\ at # "idle" => mem.from # mem.to /\ mem.gen > 0
  /\ at \notin {"idle", "write", "terminal"} => Synced
  /\ at = "write" => WriteInv
  /\ StageInv /\ CommitInv /\ RollbackInv /\ TerminalInv

\* No generation below n is current any more.
Reached(n) ==
  /\ journal = Nothing => \A c \in Cwds : slot[c].dir # Nothing => slot[c].dir.gen >= n
  /\ journal # Nothing =>
       IF TargetAuthority(journal.phase) THEN journal.gen >= n ELSE journal.gen - 1 >= n

\* The generation that a journal gives authority.
Current(j) == IF TargetAuthority(j.phase) THEN j.gen ELSE j.gen - 1

ViewInv == \A seen \in view : seen # Nothing => Reached(Current(seen))

FilesInv ==
  /\ journal \in Journals \cup {Nothing} /\ journalMay \in SUBSET (Journals \cup {Nothing})
  /\ slot \in [Cwds -> Slots] /\ slotMay \in [Cwds -> SUBSET Slots]
  /\ view \in SUBSET (Journals \cup {Nothing})
  /\ Contained /\ Disk(journalMay, slotMay) /\ ViewInv

HolderTypes ==
  /\ at \in Steps /\ barrier \in BOOLEAN /\ calm \in BOOLEAN
  /\ mem \in Journals \cup {Nothing} /\ (mem = Nothing <=> at = "idle")

IInv == FilesInv /\ HolderTypes /\ HolderInv

-----------------------------------------------------------------------------
LEMMA InitIInv == Init => IInv
<1> SUFFICES ASSUME Init PROVE IInv
  OBVIOUS
<1> USE RelocationAssumption
<1>1. PICK c \in Cwds : slot = [x \in Cwds |->
                [dir |-> IF x = c THEN [state |-> "whole", cwd |-> c, gen |-> 0] ELSE Nothing,
                 staging |-> Nothing]]
  BY DEF Init
<1>2. slot \in [Cwds -> Slots]
  <2>1. [state |-> "whole", cwd |-> c, gen |-> 0] \in Directories
    BY DEF Directories
  <2>. QED
    BY <1>1, <2>1 DEF Slots
<1>3. Contained
  BY <1>1 DEF Init, Contained
<1>4. Settled(slotMay, c, 0)
  BY <1>1 DEF Init, Settled, HomeSlot, EmptySlot
<1>5. Disk(journalMay, slotMay)
  BY <1>4 DEF Init, Disk
<1>6. FilesInv
  BY <1>2, <1>3, <1>5 DEF Init, FilesInv, ViewInv
<1>7. HolderTypes /\ HolderInv
  BY DEF Init, HolderTypes, Steps, HolderInv, StageInv, CommitInv, RollbackInv, TerminalInv
<1>. QED
  BY <1>6, <1>7 DEF IInv

-----------------------------------------------------------------------------
(***************************************************************************)
(* What the kinds of changes preserve.                                     *)
(***************************************************************************)

\* A barrier or a power loss narrows what may be on disk: Disk is kept.
LEMMA NarrowDisk ==
  ASSUME NEW js, NEW few \in SUBSET js,
         js \subseteq Journals \cup {Nothing},
         NEW may \in [Cwds -> SUBSET Slots], NEW less \in [Cwds -> SUBSET Slots],
         \A c \in Cwds : less[c] \subseteq may[c] /\ less[c] # {},
         Disk(js, may)
  PROVE  Disk(few, less)
<1>1. ASSUME NEW j \in few, j # Nothing PROVE Safe(less, j)
  <2>1. Safe(may, j) /\ j \in Journals
    BY <1>1 DEF Disk
  <2>2. j.from \in Cwds /\ j.to \in Cwds
    BY <2>1 DEF Journals
  <2>3. \A c \in Cwds : \A x : may[c] = {x} => less[c] = {x}
    OBVIOUS
  <2>4. TargetAuthority(j.phase) => TargetSafe(less, j)
    BY <2>1, <2>2, <2>3 DEF Safe, TargetSafe
  <2>5. ~TargetAuthority(j.phase) => SourceSafe(less, j)
    BY <2>1, <2>2, <2>3 DEF Safe, SourceSafe
  <2>. QED
    BY <2>1, <2>3, <2>4, <2>5 DEF Safe
<1>2. ASSUME Nothing \in few PROVE \E h \in Cwds, g \in Nat : Settled(less, h, g)
  <2>1. PICK h \in Cwds, g \in Nat : Settled(may, h, g)
    BY <1>2 DEF Disk
  <2>2. Settled(less, h, g)
    BY <2>1 DEF Settled
  <2>. QED
    BY <2>2
<1>. QED
  BY <1>1, <1>2 DEF Disk

LEMMA FilesKept ==
  ASSUME FilesInv, KeepJournal, KeepSlots, UNCHANGED view
  PROVE  FilesInv'
<1>1. ViewInv' /\ Contained'
  BY DEF FilesInv, KeepJournal, KeepSlots, ViewInv, Reached, Contained
<1>2. Disk(journalMay, slotMay)'
  BY DEF FilesInv, KeepJournal, KeepSlots
<1>. QED
  BY <1>1, <1>2 DEF FilesInv, KeepJournal, KeepSlots

LEMMA JournalSynced ==
  ASSUME FilesInv, SyncJournal, KeepSlots, UNCHANGED view
  PROVE  FilesInv'
<1>1. ViewInv' /\ Contained'
  BY DEF FilesInv, SyncJournal, KeepSlots, ViewInv, Reached, Contained
<1>2. Disk(journalMay, slotMay)'
  <2>1. Disk({journal}, slotMay)
    BY NarrowDisk DEF FilesInv, Contained
  <2>. QED
    BY <2>1 DEF SyncJournal, KeepSlots
<1>. QED
  BY <1>1, <1>2 DEF FilesInv, SyncJournal, KeepSlots

LEMMA SlotSynced ==
  ASSUME FilesInv, NEW c \in Cwds, SyncSlot(c), KeepJournal, UNCHANGED view
  PROVE  FilesInv'
<1>1. ViewInv' /\ Contained'
  BY DEF FilesInv, SyncSlot, KeepJournal, ViewInv, Reached, Contained
<1>2. slotMay' \in [Cwds -> SUBSET Slots]
  BY DEF FilesInv, SyncSlot
<1>3. Disk(journalMay, slotMay)'
  <2>1. \A d \in Cwds : slotMay'[d] \subseteq slotMay[d] /\ slotMay'[d] # {}
    BY DEF FilesInv, SyncSlot, Contained
  <2>2. Disk(journalMay, slotMay')
    BY <1>2, <2>1, NarrowDisk DEF FilesInv
  <2>. QED
    BY <2>2 DEF KeepJournal
<1>. QED
  BY <1>1, <1>2, <1>3 DEF FilesInv, SyncSlot, KeepJournal

\* Under a journal that gives the source authority, the target may change to
\* anything of this move.
LEMMA TargetChanges ==
  ASSUME FilesInv, Synced, mem \in Journals, ~TargetAuthority(mem.phase),
         NEW s \in Slots, DirIs(s, mem.to, mem.gen),
         ChangeSlot(mem.to, s), KeepJournal, UNCHANGED view
  PROVE  FilesInv'
<1>0. mem.from \in Cwds /\ mem.to \in Cwds /\ mem # Nothing
  BY RelocationAssumption DEF Journals
<1>1. ViewInv' /\ Contained'
  BY <1>0 DEF FilesInv, ChangeSlot, KeepJournal, ViewInv, Reached, Contained, Synced
<1>2. slotMay' \in [Cwds -> SUBSET Slots] /\ slot' \in [Cwds -> Slots]
  BY <1>0 DEF FilesInv, ChangeSlot
<1>3. Safe(slotMay, mem) /\ mem.from # mem.to
  BY <1>0 DEF FilesInv, Synced, Disk, Safe
<1>4. \A c \in Cwds : c # mem.to => slotMay'[c] = slotMay[c]
  BY DEF FilesInv, ChangeSlot
<1>5. slotMay'[mem.to] = slotMay[mem.to] \cup {s}
  BY <1>0 DEF FilesInv, ChangeSlot
<1>6. Safe(slotMay', mem)
  BY <1>0, <1>3, <1>4, <1>5 DEF Safe, SourceSafe
<1>7. Disk(journalMay, slotMay)'
  BY <1>0, <1>6 DEF Disk, Synced, KeepJournal
<1>. QED
  BY <1>1, <1>2, <1>7 DEF FilesInv, KeepJournal

\* Under a journal that gives the target authority, the source may lose files.
LEMMA SourceChanges ==
  ASSUME FilesInv, Synced, mem \in Journals, TargetAuthority(mem.phase),
         NEW s \in Slots, s.staging = Nothing, DirIs(s, mem.from, mem.gen - 1),
         ChangeSlot(mem.from, s), KeepJournal, UNCHANGED view
  PROVE  FilesInv'
<1>0. mem.from \in Cwds /\ mem.to \in Cwds /\ mem # Nothing
  BY RelocationAssumption DEF Journals
<1>1. ViewInv' /\ Contained'
  BY <1>0 DEF FilesInv, ChangeSlot, KeepJournal, ViewInv, Reached, Contained, Synced
<1>2. slotMay' \in [Cwds -> SUBSET Slots] /\ slot' \in [Cwds -> Slots]
  BY <1>0 DEF FilesInv, ChangeSlot
<1>3. Safe(slotMay, mem) /\ mem.from # mem.to
  BY <1>0 DEF FilesInv, Synced, Disk, Safe
<1>4. \A c \in Cwds : c # mem.from => slotMay'[c] = slotMay[c]
  BY DEF FilesInv, ChangeSlot
<1>5. slotMay'[mem.from] = slotMay[mem.from] \cup {s}
  BY <1>0 DEF FilesInv, ChangeSlot
<1>6. Safe(slotMay', mem)
  BY <1>0, <1>3, <1>4, <1>5 DEF Safe, TargetSafe
<1>7. Disk(journalMay, slotMay)'
  BY <1>0, <1>6 DEF Disk, Synced, KeepJournal
<1>. QED
  BY <1>1, <1>2, <1>7 DEF FilesInv, KeepJournal

-----------------------------------------------------------------------------
(***************************************************************************)
(* One lemma per action.                                                   *)
(***************************************************************************)
LEMMA MemIsJournal ==
  ASSUME IInv, at # "idle"
  PROVE  /\ mem \in Journals /\ mem # Nothing /\ mem.from # mem.to
         /\ mem.from \in Cwds /\ mem.to \in Cwds /\ mem.gen \in Nat \ {0} /\ mem.phase \in Phases
BY RelocationAssumption DEF IInv, HolderTypes, HolderInv, Journals

\* A call that returns leaves nothing to rely on but the files.
LEMMA ReturnIInv ==
  ASSUME IInv, Return, FilesInv', UNCHANGED calm
  PROVE  IInv'
BY DEF IInv, Return, Goto, HolderTypes, Steps, HolderInv, StageInv, CommitInv, RollbackInv, TerminalInv

LEMMA StageIInv ==
  ASSUME IInv, NEW from \in Cwds, NEW to \in Cwds, Stage(from, to), UNCHANGED <<view, calm>>
  PROVE  IInv'
<1> USE RelocationAssumption
<1>1. FilesInv'
  BY FilesKept DEF IInv, Stage
<1>2. PICK h \in Cwds, g \in Nat : Settled(slotMay, h, g)
  BY DEF IInv, FilesInv, Contained, Disk, Stage
<1>3. slot[from] \in slotMay[from] /\ slot[from].dir # Nothing
  BY DEF IInv, FilesInv, Contained, Stage
<1>4. h = from /\ slot[from] = HomeSlot(h, g)
  BY <1>2, <1>3 DEF Settled, EmptySlot
<1>5. slot[from].dir.gen = g
  BY <1>4 DEF HomeSlot
<1>6. mem' = [from |-> from, to |-> to, gen |-> g + 1, phase |-> "Prepared"]
  BY <1>5 DEF Stage
<1>7. mem' \in Journals
  BY <1>6 DEF Journals, Phases
<1>8. HolderTypes'
  BY <1>7 DEF IInv, Stage, Goto, HolderTypes, Steps
<1>9. Settled(slotMay', mem'.from, mem'.gen - 1)
  BY <1>2, <1>4, <1>6 DEF Stage, KeepSlots
<1>10. HolderInv'
  BY <1>6, <1>9 DEF Stage, Goto, KeepJournal, HolderInv, WriteInv, StageInv, CommitInv, RollbackInv, TerminalInv
<1>. QED
  BY <1>1, <1>8, <1>10 DEF IInv

\* The journal about to be written is safe with what is on disk.
LEMMA WriteSafe ==
  ASSUME IInv, at = "write"
  PROVE  Safe(slotMay, mem)
<1>1. mem \in Journals /\ mem # Nothing /\ mem.from # mem.to /\ mem.gen > 0
  BY MemIsJournal DEF IInv, HolderInv
<1>2. mem.from \in Cwds /\ mem.to \in Cwds /\ mem.phase \in Phases
  BY MemIsJournal
<1>3. WriteInv
  BY DEF IInv, HolderInv
<1>4. CASE mem.phase = "Prepared"
  BY <1>1, <1>2, <1>3, <1>4
     DEF WriteInv, Settled, Safe, SourceSafe, TargetAuthority, HomeSlot, EmptySlot, DirIs
<1>5. CASE barrier
  BY <1>1, <1>3, <1>5 DEF WriteInv, IInv, FilesInv, Contained, Disk
<1>6. CASE mem.phase # "Prepared" /\ ~barrier
  <2>1. PICK p \in Phases : /\ journalMay = {[mem EXCEPT !.phase = p]}
                            /\ TargetAuthority(p) <=> mem.phase = "Committed"
    BY <1>3, <1>6 DEF WriteInv, Precedes
  <2>2. [mem EXCEPT !.phase = p] \in Journals /\ [mem EXCEPT !.phase = p] # Nothing
    BY <1>1, RelocationAssumption DEF Journals
  <2>3. Safe(slotMay, [mem EXCEPT !.phase = p])
    BY <2>1, <2>2 DEF IInv, FilesInv, Disk
  <2>4. /\ [mem EXCEPT !.phase = p].from = mem.from /\ [mem EXCEPT !.phase = p].to = mem.to
        /\ [mem EXCEPT !.phase = p].gen = mem.gen /\ [mem EXCEPT !.phase = p].phase = p
    BY <1>1 DEF Journals
  <2>5. /\ \A c \in Cwds \ {mem.from, mem.to} : slotMay[c] = {EmptySlot}
        /\ mem.phase = "Committed" => TargetSafe(slotMay, mem)
        /\ mem.phase # "Committed" => SourceSafe(slotMay, mem)
    BY <2>1, <2>3, <2>4 DEF Safe, TargetSafe, SourceSafe
  <2>6. CASE mem.phase = "Ready"
    <3>1. TargetSafe(slotMay, mem)
      BY <1>3, <2>5, <2>6 DEF WriteInv, TargetSafe, SourceSafe, HomeSlot, DirIs
    <3>. QED
      BY <1>1, <2>5, <2>6, <3>1 DEF Safe, TargetAuthority
  <2>7. CASE mem.phase # "Ready"
    BY <1>1, <2>5, <2>7 DEF Safe, TargetAuthority
  <2>. QED
    BY <2>6, <2>7
<1>. QED
  BY <1>4, <1>5, <1>6

LEMMA WriteJournalIInv ==
  ASSUME IInv, WriteJournal, UNCHANGED <<view, calm>>
  PROVE  IInv'
<1> USE RelocationAssumption
<1>1. mem \in Journals /\ mem # Nothing /\ mem.from \in Cwds /\ mem.gen \in Nat \ {0} /\ mem.phase \in Phases
  BY MemIsJournal DEF WriteJournal
<1>2. at = "write" /\ ~barrier /\ WriteInv
  BY DEF WriteJournal, IInv, HolderInv
<1>3. Disk(journalMay, slotMay)'
  <2>1. Safe(slotMay, mem)
    BY <1>2, WriteSafe
  <2>. QED
    BY <1>1, <2>1 DEF WriteJournal, ChangeJournal, KeepSlots, IInv, FilesInv, Disk
<1>4. Contained'
  BY DEF WriteJournal, ChangeJournal, KeepSlots, IInv, FilesInv, Contained
<1>5. ASSUME NEW n \in Int, Reached(n) PROVE Reached(n)'
  <2>1. CASE mem.phase = "Prepared"
    <3>1. slot[mem.from] = HomeSlot(mem.from, mem.gen - 1) /\ journal = Nothing
      BY <1>1, <1>2, <2>1 DEF WriteInv, Settled, IInv, FilesInv, Contained
    <3>2. mem.gen - 1 >= n
      BY <1>1, <1>5, <3>1 DEF Reached, HomeSlot, IInv, FilesInv, Directories
    <3>. QED
      BY <1>1, <2>1, <3>2 DEF Reached, WriteJournal, ChangeJournal, TargetAuthority
  <2>2. CASE mem.phase # "Prepared"
    <3>1. PICK p \in Phases : /\ journalMay = {[mem EXCEPT !.phase = p]}
                              /\ TargetAuthority(p) <=> mem.phase = "Committed"
      BY <1>2, <2>2 DEF WriteInv, Precedes
    <3>2. journal = [mem EXCEPT !.phase = p] /\ journal \in Journals
      BY <1>1, <3>1 DEF IInv, FilesInv, Contained, Journals
    <3>3. journal.gen = mem.gen /\ journal.phase = p /\ journal # Nothing
      BY <1>1, <3>2 DEF Journals
    <3>. QED
      BY <1>1, <1>5, <2>2, <3>1, <3>3 DEF Reached, WriteJournal, ChangeJournal, TargetAuthority
  <2>. QED
    BY <2>1, <2>2
<1>6. ViewInv'
  <2>1. \A seen \in view : seen # Nothing => Current(seen) \in Int
    BY DEF IInv, FilesInv, Current, Journals
  <2>. QED
    BY <1>5, <2>1 DEF IInv, FilesInv, ViewInv
<1>7. FilesInv'
  BY <1>1, <1>3, <1>4, <1>6 DEF FilesInv, IInv, WriteJournal, ChangeJournal, KeepSlots
<1>8. HolderTypes'
  BY DEF WriteJournal, Await, IInv, HolderTypes
<1>9. WriteInv'
  BY <1>2 DEF WriteInv, WriteJournal, Await, ChangeJournal, KeepSlots, Settled
<1>10. HolderInv'
  BY <1>1, <1>2, <1>9 DEF WriteJournal, Await, IInv, HolderInv, StageInv, CommitInv, RollbackInv, TerminalInv
<1>. QED
  BY <1>7, <1>8, <1>10 DEF IInv

LEMMA JournalWrittenIInv ==
  ASSUME IInv, JournalWritten, UNCHANGED <<view, calm>>
  PROVE  IInv'
<1>1. mem \in Journals /\ mem # Nothing /\ mem.from # mem.to /\ mem.gen > 0
  BY MemIsJournal DEF JournalWritten, IInv, HolderInv
<1>2. mem.from \in Cwds /\ mem.to \in Cwds /\ mem.phase \in Phases
  BY MemIsJournal DEF JournalWritten
<1>3. WriteInv /\ journal = mem /\ at = "write"
  BY DEF JournalWritten, IInv, HolderInv, WriteInv
<1>4. FilesInv'
  BY JournalSynced DEF JournalWritten, IInv
<1>5. at' \in {"copy", "publish", "held", "commit", "terminal"} /\ barrier' = FALSE
  BY DEF JournalWritten, Goto
<1>6. HolderTypes'
  BY <1>1, <1>5 DEF JournalWritten, IInv, HolderTypes, Steps
<1>7. Synced'
  BY <1>3 DEF JournalWritten, SyncJournal, Synced
<1>8. slotMay' = slotMay /\ mem' = mem
  BY DEF JournalWritten, KeepSlots
<1>9. StageInv'
  BY <1>1, <1>2, <1>3, <1>5, <1>8
     DEF StageInv, JournalWritten, Goto, WriteInv, Settled, EmptySlot
<1>10. CommitInv' /\ RollbackInv'
  BY <1>5, <1>8 DEF CommitInv, RollbackInv, JournalWritten, Goto, TargetAuthority
<1>11. TerminalInv'
  BY <1>2, <1>3, <1>5, <1>7, <1>8 DEF TerminalInv, JournalWritten, Goto, WriteInv, Phases
<1>. QED
  BY <1>1, <1>4, <1>5, <1>6, <1>7, <1>8, <1>9, <1>10, <1>11 DEF IInv, HolderInv

\* What the holder of the lease has between two journals.
LEMMA AtWork ==
  ASSUME IInv, at \notin {"idle", "write", "terminal"}
  PROVE  /\ Synced /\ Safe(slotMay, mem) /\ slot[mem.to] \in slotMay[mem.to]
         /\ slot[mem.from] \in slotMay[mem.from] /\ slot[mem.to] \in Slots /\ slot[mem.from] \in Slots
BY MemIsJournal DEF IInv, HolderInv, Synced, FilesInv, Contained, Disk

LEMMA CopySomeIInv ==
  ASSUME IInv, CopySome, UNCHANGED <<view, calm>>
  PROVE  IInv'
<1> USE RelocationAssumption
<1>1. /\ mem \in Journals /\ mem.from \in Cwds /\ mem.to \in Cwds /\ mem.gen \in Nat \ {0}
      /\ Synced /\ slot[mem.to] \in slotMay[mem.to] /\ slot[mem.to] \in Slots
  BY MemIsJournal, AtWork DEF CopySome
<1>2. at = "copy" /\ ~barrier /\ mem.phase = "Prepared" /\ slot[mem.to].dir = Nothing
  BY <1>1 DEF CopySome, IInv, HolderInv, StageInv
<1>3. PICK w \in {"torn", "headless"} :
         ChangeSlot(mem.to, [slot[mem.to] EXCEPT
           !.staging = [state |-> w, cwd |-> mem.from, gen |-> mem.gen - 1]])
  BY DEF CopySome
<1> DEFINE s == [slot[mem.to] EXCEPT !.staging = [state |-> w, cwd |-> mem.from, gen |-> mem.gen - 1]]
<1>4. s \in Slots /\ s.dir = Nothing
  <2>1. [state |-> w, cwd |-> mem.from, gen |-> mem.gen - 1] \in Directories
    BY <1>1 DEF Directories
  <2>. QED
    BY <1>1, <1>2, <2>1 DEF Slots
<1>5. ChangeSlot(mem.to, s)
  BY <1>3
<1> HIDE DEF s
<1>6. FilesInv'
  BY <1>1, <1>2, <1>4, <1>5, TargetChanges DEF CopySome, IInv, TargetAuthority, DirIs
<1>7. slotMay'[mem.to] = slotMay[mem.to] \cup {s}
  BY <1>1, <1>5 DEF ChangeSlot, IInv, FilesInv
<1>8. HolderInv'
  BY <1>1, <1>2, <1>4, <1>7
     DEF CopySome, KeepJournal, IInv, HolderInv, Synced, StageInv, CommitInv, RollbackInv, TerminalInv
<1>. QED
  BY <1>6, <1>8 DEF IInv, CopySome, HolderTypes

LEMMA CopyRestIInv ==
  ASSUME IInv, CopyRest, UNCHANGED <<view, calm>>
  PROVE  IInv'
<1> USE RelocationAssumption
<1>1. /\ mem \in Journals /\ mem.from \in Cwds /\ mem.to \in Cwds /\ mem.gen \in Nat \ {0}
      /\ Synced /\ slot[mem.to] \in slotMay[mem.to] /\ slot[mem.to] \in Slots
  BY MemIsJournal, AtWork DEF CopyRest
<1>2. at = "copy" /\ mem.phase = "Prepared" /\ slot[mem.to].dir = Nothing
  BY <1>1 DEF CopyRest, IInv, HolderInv, StageInv
<1> DEFINE s == StagedSlot(mem.to, mem.gen)
<1>3. s \in Slots /\ s.dir = Nothing
  <2>1. [state |-> "whole", cwd |-> mem.to, gen |-> mem.gen] \in Directories
    BY <1>1 DEF Directories
  <2>. QED
    BY <2>1 DEF Slots, StagedSlot
<1>4. ChangeSlot(mem.to, s)
  <2>1. s = [slot[mem.to] EXCEPT !.staging = [state |-> "whole", cwd |-> mem.to, gen |-> mem.gen]]
    BY <1>1, <1>2 DEF Slots, StagedSlot
  <2>. QED
    BY <2>1 DEF CopyRest
<1> HIDE DEF s
<1>5. FilesInv'
  BY <1>1, <1>2, <1>3, <1>4, TargetChanges DEF CopyRest, IInv, TargetAuthority, DirIs
<1>6. slotMay'[mem.to] = slotMay[mem.to] \cup {s} /\ slot'[mem.to] = s
  BY <1>1, <1>4 DEF ChangeSlot, IInv, FilesInv
<1>7. HolderInv'
  BY <1>1, <1>2, <1>3, <1>6
     DEF CopyRest, Await, KeepJournal, IInv, HolderInv, Synced, StageInv, CommitInv, RollbackInv, TerminalInv, s
<1>. QED
  BY <1>5, <1>7 DEF IInv, CopyRest, Await, HolderTypes

\* The next journal of the same relocation has the same fields but the phase.
LEMMA WriteNext ==
  ASSUME IInv, at \notin {"idle", "write", "terminal"}, NEW phase \in Phases, Write(phase)
  PROVE  /\ mem' \in Journals /\ mem'.phase = phase
         /\ mem'.from = mem.from /\ mem'.to = mem.to /\ mem'.gen = mem.gen
         /\ mem = [mem' EXCEPT !.phase = mem.phase]
BY MemIsJournal DEF Write, Journals

\* Entering a write.
LEMMA WriteEntered ==
  ASSUME IInv, at \notin {"idle", "write", "terminal"}, NEW phase \in Phases, Write(phase),
         KeepJournal, UNCHANGED calm, FilesInv',
         phase # "Prepared", TargetAuthority(mem.phase) <=> phase = "Committed",
         phase = "Staged" => mem.phase = "Prepared",
         phase = "Staged" => slotMay'[mem.to] = {StagedSlot(mem.to, mem.gen)},
         phase \in {"TargetPublished", "Ready"} => slotMay'[mem.to] = {HomeSlot(mem.to, mem.gen)},
         phase = "Committed" => slotMay'[mem.from] = {EmptySlot},
         phase = "RolledBack" => slotMay'[mem.to] = {EmptySlot}
  PROVE  IInv'
<1>1. /\ mem' \in Journals /\ mem'.phase = phase
      /\ mem'.from = mem.from /\ mem'.to = mem.to /\ mem'.gen = mem.gen
      /\ mem = [mem' EXCEPT !.phase = mem.phase]
  BY WriteNext
<1>2. mem.phase \in Phases /\ mem.from # mem.to /\ mem.gen \in Nat \ {0}
  BY MemIsJournal
<1>3. journalMay' = {mem}
  BY AtWork DEF KeepJournal, Synced
<1>4. Precedes(mem.phase = "Committed")'
  BY <1>1, <1>2, <1>3 DEF Precedes
<1>5. WriteInv'
  BY <1>1, <1>3, <1>4 DEF WriteInv, Write, Goto
<1>6. HolderInv'
  BY <1>1, <1>2, <1>5 DEF Write, Goto, HolderInv, StageInv, CommitInv, RollbackInv, TerminalInv
<1>7. HolderTypes'
  BY <1>1, RelocationAssumption DEF HolderTypes, Write, Goto, IInv, Steps
<1>. QED
  BY <1>6, <1>7 DEF IInv

LEMMA CopiedIInv ==
  ASSUME IInv, Copied, UNCHANGED <<view, calm>>
  PROVE  IInv'
<1>1. mem.to \in Cwds
  BY MemIsJournal DEF Copied
<1>2. at = "copy" /\ mem.phase = "Prepared" /\ slot[mem.to] = StagedSlot(mem.to, mem.gen)
  BY DEF Copied, IInv, HolderInv, StageInv
<1>3. FilesInv'
  BY <1>1, SlotSynced DEF Copied, IInv
<1>4. slotMay'[mem.to] = {StagedSlot(mem.to, mem.gen)}
  BY <1>1, <1>2 DEF Copied, SyncSlot, IInv, FilesInv
<1>. QED
  BY <1>2, <1>3, <1>4, WriteEntered DEF Copied, TargetAuthority, Phases

LEMMA PublishIInv ==
  ASSUME IInv, Publish, UNCHANGED <<view, calm>>
  PROVE  IInv'
<1> USE RelocationAssumption
<1>1. /\ mem \in Journals /\ mem.from \in Cwds /\ mem.to \in Cwds /\ mem.gen \in Nat \ {0}
      /\ Synced /\ slot[mem.to] \in slotMay[mem.to]
  BY MemIsJournal, AtWork DEF Publish
<1>2. at = "publish" /\ mem.phase = "Staged" /\ slot[mem.to] = StagedSlot(mem.to, mem.gen)
  BY <1>1 DEF Publish, IInv, HolderInv, StageInv
<1> DEFINE s == HomeSlot(mem.to, mem.gen)
<1>3. s \in Slots /\ DirIs(s, mem.to, mem.gen)
  <2>1. [state |-> "whole", cwd |-> mem.to, gen |-> mem.gen] \in Directories
    BY <1>1 DEF Directories
  <2>. QED
    BY <2>1 DEF Slots, HomeSlot, DirIs
<1>4. ChangeSlot(mem.to, s)
  BY <1>2 DEF Publish, HomeSlot, StagedSlot
<1> HIDE DEF s
<1>5. FilesInv'
  BY <1>1, <1>2, <1>3, <1>4, TargetChanges DEF Publish, IInv, TargetAuthority
<1>6. slot'[mem.to] = s
  BY <1>1, <1>4 DEF ChangeSlot, IInv, FilesInv
<1>7. HolderInv'
  BY <1>1, <1>2, <1>6
     DEF Publish, Await, KeepJournal, IInv, HolderInv, Synced, StageInv, CommitInv, RollbackInv, TerminalInv, s
<1>. QED
  BY <1>5, <1>7 DEF IInv, Publish, Await, HolderTypes

LEMMA PublishedIInv ==
  ASSUME IInv, Published, UNCHANGED <<view, calm>>
  PROVE  IInv'
<1>1. mem.to \in Cwds
  BY MemIsJournal DEF Published
<1>2. at = "publish" /\ mem.phase = "Staged" /\ slot[mem.to] = HomeSlot(mem.to, mem.gen)
  BY DEF Published, IInv, HolderInv, StageInv
<1>3. FilesInv'
  BY <1>1, SlotSynced DEF Published, IInv
<1>4. slotMay'[mem.to] = {HomeSlot(mem.to, mem.gen)}
  BY <1>1, <1>2 DEF Published, SyncSlot, IInv, FilesInv
<1>. QED
  BY <1>2, <1>3, <1>4, WriteEntered DEF Published, TargetAuthority, Phases

LEMMA MarkReadyIInv ==
  ASSUME IInv, MarkReady, UNCHANGED <<view, calm>>
  PROVE  IInv'
<1>1. FilesInv'
  BY FilesKept DEF IInv, MarkReady
<1>2. at = "held" /\ mem.phase = "TargetPublished" /\ slotMay[mem.to] = {HomeSlot(mem.to, mem.gen)}
  BY DEF MarkReady, IInv, HolderInv, StageInv
<1>3. CASE Write("Ready")
  <2>1. slotMay'[mem.to] = {HomeSlot(mem.to, mem.gen)}
    BY <1>2 DEF MarkReady, KeepSlots
  <2>. QED
    BY <1>1, <1>2, <1>3, <2>1, WriteEntered DEF MarkReady, TargetAuthority, Phases
<1>4. CASE Return
  BY <1>1, <1>4, ReturnIInv
<1>. QED
  BY <1>3, <1>4 DEF MarkReady

LEMMA RollbackIInv ==
  ASSUME IInv, Rollback, UNCHANGED <<view, calm>>
  PROVE  IInv'
<1>1. FilesInv'
  BY FilesKept DEF IInv, Rollback
<1>2. HolderTypes'
  BY DEF IInv, Rollback, Goto, HolderTypes, Steps
<1>3. HolderInv'
  BY DEF Rollback, Goto, IInv, HolderInv, Synced, KeepJournal, TargetAuthority, StageInv, CommitInv, RollbackInv, TerminalInv
<1>. QED
  BY <1>1, <1>2, <1>3 DEF IInv

LEMMA RecoverIInv ==
  ASSUME IInv, Recover, UNCHANGED <<view, calm>>
  PROVE  IInv'
<1>1. FilesInv'
  BY JournalSynced DEF IInv, Recover
<1>2. HolderTypes'
  BY DEF IInv, FilesInv, Recover, Goto, HolderTypes, Steps
<1>3. journal.from # journal.to /\ journal.gen > 0
  BY DEF IInv, FilesInv, Contained, Disk, Safe, Recover
<1>4. HolderInv'
  BY <1>3 DEF Recover, Goto, HolderInv, Synced, SyncJournal, StageInv, CommitInv, RollbackInv, TerminalInv
<1>. QED
  BY <1>1, <1>2, <1>4 DEF IInv

LEMMA StartCommitIInv ==
  ASSUME IInv, StartCommit, UNCHANGED <<view, calm>>
  PROVE  IInv'
<1>1. FilesInv'
  BY JournalSynced DEF IInv, StartCommit
<1>2. CASE Return
  BY <1>1, <1>2, ReturnIInv
<1>3. CASE Goto("dropSource") /\ UNCHANGED mem
  <2>1. HolderTypes'
    BY <1>3 DEF IInv, StartCommit, Goto, HolderTypes, Steps
  <2>2. HolderInv'
    BY <1>3 DEF StartCommit, Goto, IInv, HolderInv, Synced, SyncJournal, StageInv, CommitInv, RollbackInv, TerminalInv
  <2>. QED
    BY <1>1, <2>1, <2>2 DEF IInv
<1>. QED
  BY <1>2, <1>3 DEF StartCommit

LEMMA StartRollbackIInv ==
  ASSUME IInv, StartRollback, UNCHANGED <<view, calm>>
  PROVE  IInv'
<1>1. FilesInv'
  BY FilesKept DEF IInv, StartRollback
<1>2. CASE Return
  BY <1>1, <1>2, ReturnIInv
<1>3. CASE Goto("dropStaging") /\ UNCHANGED mem
  <2>1. HolderTypes'
    BY <1>3 DEF IInv, StartRollback, Goto, HolderTypes, Steps
  <2>2. HolderInv'
    BY <1>3 DEF StartRollback, Goto, IInv, HolderInv, Synced, KeepJournal, StageInv, CommitInv, RollbackInv, TerminalInv
  <2>. QED
    BY <1>1, <2>1, <2>2 DEF IInv
<1>. QED
  BY <1>2, <1>3 DEF StartRollback

LEMMA CheckTargetIInv ==
  ASSUME IInv, CheckTarget, UNCHANGED <<view, calm>>
  PROVE  IInv'
<1>1. FilesInv'
  BY FilesKept DEF IInv, CheckTarget
<1>2. CASE Return
  BY <1>1, <1>2, ReturnIInv
<1>3. CASE Goto("dropTarget") /\ UNCHANGED mem
  <2>1. HolderTypes'
    BY <1>3 DEF IInv, CheckTarget, Goto, HolderTypes, Steps
  <2>2. HolderInv'
    BY <1>3 DEF CheckTarget, Goto, IInv, HolderInv, Synced, KeepJournal, KeepSlots, StageInv, CommitInv, RollbackInv, TerminalInv
  <2>. QED
    BY <1>1, <2>1, <2>2 DEF IInv
<1>. QED
  BY <1>2, <1>3 DEF CheckTarget

\* Removing files of the directory in question keeps what the files promise.
LEMMA DropChanges ==
  ASSUME IInv, Dropping, ~barrier, NEW d \in Directories \cup {Nothing},
         d # Nothing => Victim # Nothing /\ d.cwd = Victim.cwd /\ d.gen = Victim.gen,
         ChangeSlot(Place, With(d)), KeepJournal, UNCHANGED view
  PROVE  /\ FilesInv' /\ Place \in Cwds /\ slot'[Place] = With(d)
         /\ slotMay'[Place] = slotMay[Place] \cup {With(d)}
         /\ \A c \in Cwds : c # Place => slotMay'[c] = slotMay[c]
<1> USE RelocationAssumption
<1>1. /\ mem \in Journals /\ mem.from \in Cwds /\ mem.to \in Cwds /\ mem.gen \in Nat \ {0}
      /\ mem.from # mem.to
  BY MemIsJournal DEF Dropping
<1>2. /\ Synced /\ Safe(slotMay, mem)
      /\ slot[mem.to] \in slotMay[mem.to] /\ slot[mem.to] \in Slots
      /\ slot[mem.from] \in slotMay[mem.from] /\ slot[mem.from] \in Slots
  BY AtWork DEF Dropping
<1>3. Place \in Cwds /\ slot[Place] \in Slots
  BY <1>1, <1>2 DEF Place
<1>4. With(d) \in Slots
  BY <1>3 DEF With, Slots
<1>5. /\ slot'[Place] = With(d) /\ slotMay'[Place] = slotMay[Place] \cup {With(d)}
      /\ \A c \in Cwds : c # Place => slotMay'[c] = slotMay[c]
  BY <1>3 DEF ChangeSlot, IInv, FilesInv
<1>6. FilesInv'
  <2>1. CASE at = "dropSource"
    <3>1. TargetAuthority(mem.phase) /\ Place = mem.from
      BY <2>1 DEF IInv, HolderInv, CommitInv, Place
    <3>2. slot[mem.from].staging = Nothing /\ DirIs(slot[mem.from], mem.from, mem.gen - 1)
      BY <1>2, <3>1 DEF Safe, TargetSafe
    <3>3. With(d).staging = Nothing /\ DirIs(With(d), mem.from, mem.gen - 1)
      BY <1>2, <2>1, <3>1, <3>2 DEF With, Victim, DirIs, Slots
    <3>. QED
      BY <1>1, <1>2, <1>4, <3>1, <3>3, SourceChanges DEF IInv
  <2>2. CASE at = "dropLeftover"
    <3>1. TargetAuthority(mem.phase) /\ Place = mem.to
      BY <2>2 DEF IInv, HolderInv, CommitInv, Place
    <3>2. slot[mem.to] = HomeSlot(mem.to, mem.gen) /\ slotMay[mem.to] = {slot[mem.to]}
      BY <1>2, <3>1 DEF Safe, TargetSafe
    <3>3. Victim = Nothing
      BY <2>2, <3>1, <3>2 DEF Victim, HomeSlot
    <3>4. With(d) = slot[mem.to]
      BY <2>2, <3>1, <3>2, <3>3 DEF With, HomeSlot
    <3>5. KeepSlots
      BY <1>1, <3>1, <3>2, <3>4 DEF ChangeSlot, KeepSlots, IInv, FilesInv
    <3>. QED
      BY <3>5, FilesKept DEF IInv
  <2>3. CASE at \in {"dropStaging", "dropTarget"}
    <3>1. ~TargetAuthority(mem.phase) /\ Place = mem.to
      BY <2>3 DEF IInv, HolderInv, RollbackInv, Place
    <3>2. DirIs(slot[mem.to], mem.to, mem.gen)
      BY <1>2, <3>1 DEF Safe, SourceSafe
    <3>3. DirIs(With(d), mem.to, mem.gen)
      BY <1>2, <2>3, <3>1, <3>2 DEF With, Victim, DirIs, Slots
    <3>. QED
      BY <1>1, <1>2, <1>4, <3>1, <3>3, TargetChanges DEF IInv
  <2>. QED
    BY <2>1, <2>2, <2>3 DEF Dropping
<1>. QED
  BY <1>3, <1>5, <1>6

\* What the holder relies on while files disappear.
LEMMA DropHolder ==
  ASSUME IInv, Dropping, ~barrier, NEW d \in Directories \cup {Nothing},
         d # Nothing => Victim # Nothing,
         slotMay'[Place] = slotMay[Place] \cup {With(d)}, slot'[Place] = With(d),
         \A c \in Cwds : c # Place => slotMay'[c] = slotMay[c],
         KeepJournal, UNCHANGED <<at, mem>>, barrier' => d = Nothing
  PROVE  HolderInv'
<1>1. /\ Synced /\ Safe(slotMay, mem) /\ at \notin {"idle", "write", "terminal"}
      /\ slot[mem.to] \in slotMay[mem.to] /\ slot[mem.to] \in Slots
      /\ slot[mem.from] \in slotMay[mem.from] /\ slot[mem.from] \in Slots
      /\ mem.from # mem.to /\ mem.gen > 0 /\ mem.from \in Cwds /\ mem.to \in Cwds
  BY AtWork, MemIsJournal DEF Dropping
<1>2. CommitInv'
  <2>1. CASE at = "dropSource"
    <3>1. TargetAuthority(mem.phase) /\ Place = mem.from
      BY <2>1 DEF IInv, HolderInv, CommitInv, Place
    <3>2. slot[mem.from].staging = Nothing
      BY <1>1, <3>1 DEF Safe, TargetSafe
    <3>3. d = Nothing => With(d) = EmptySlot
      BY <1>1, <2>1, <3>1, <3>2 DEF With, EmptySlot, Slots
    <3>. QED
      BY <2>1, <3>1, <3>3 DEF CommitInv
  <2>2. CASE at = "dropLeftover"
    <3>1. TargetAuthority(mem.phase) /\ Place = mem.to
      BY <2>2 DEF IInv, HolderInv, CommitInv, Place
    <3>2. slotMay[mem.from] = {EmptySlot}
      BY <2>2 DEF IInv, HolderInv, CommitInv
    <3>. QED
      BY <1>1, <2>2, <3>1, <3>2 DEF CommitInv
  <2>. QED
    BY <2>1, <2>2 DEF CommitInv, Dropping
<1>3. RollbackInv'
  <2>1. CASE at = "dropStaging"
    <3>1. ~TargetAuthority(mem.phase) /\ Place = mem.to
      BY <2>1 DEF IInv, HolderInv, RollbackInv, Place
    <3>2. With(d).staging = d
      BY <1>1, <2>1, <3>1 DEF With, Slots
    <3>. QED
      BY <2>1, <3>1, <3>2 DEF RollbackInv
  <2>2. CASE at = "dropTarget"
    <3>1. /\ ~TargetAuthority(mem.phase) /\ Place = mem.to
          /\ \A s \in slotMay[mem.to] : s.staging = Nothing
      BY <2>2 DEF IInv, HolderInv, RollbackInv, Place
    <3>2. With(d).staging = Nothing /\ (d = Nothing => With(d) = EmptySlot)
      BY <1>1, <2>2, <3>1 DEF With, EmptySlot, Slots
    <3>. QED
      BY <2>2, <3>1, <3>2 DEF RollbackInv
  <2>. QED
    BY <2>1, <2>2 DEF RollbackInv, Dropping
<1>4. Synced'
  BY <1>1 DEF Synced, KeepJournal
<1>5. StageInv' /\ TerminalInv'
  BY DEF StageInv, TerminalInv, Dropping
<1>. QED
  BY <1>1, <1>2, <1>3, <1>4, <1>5 DEF HolderInv

LEMMA ErodeIInv ==
  ASSUME IInv, Erode, UNCHANGED <<view, calm>>
  PROVE  IInv'
<1>1. PICK s \in {"torn", "headless"} : ChangeSlot(Place, With([Victim EXCEPT !.state = s]))
  BY DEF Erode
<1>2. Victim \in Directories
  <2>1. slot[mem.to] \in Slots /\ slot[mem.from] \in Slots
    BY AtWork DEF Erode, Dropping
  <2>. QED
    BY <2>1 DEF Erode, Victim, Place, Slots
<1> DEFINE d == [Victim EXCEPT !.state = s]
<1>3. d \in Directories /\ d.cwd = Victim.cwd /\ d.gen = Victim.gen
  BY <1>2 DEF Directories
<1>4. ChangeSlot(Place, With(d))
  BY <1>1
<1> HIDE DEF d
<1>5. /\ FilesInv' /\ slot'[Place] = With(d) /\ slotMay'[Place] = slotMay[Place] \cup {With(d)}
      /\ \A c \in Cwds : c # Place => slotMay'[c] = slotMay[c]
  BY <1>3, <1>4, DropChanges DEF Erode
<1>6. HolderInv'
  BY <1>3, <1>5, DropHolder DEF Erode
<1>. QED
  BY <1>5, <1>6 DEF IInv, Erode, HolderTypes

LEMMA RemoveIInv ==
  ASSUME IInv, Remove, UNCHANGED <<view, calm>>
  PROVE  IInv'
<1>1. /\ FilesInv' /\ slot'[Place] = With(Nothing)
      /\ slotMay'[Place] = slotMay[Place] \cup {With(Nothing)}
      /\ \A c \in Cwds : c # Place => slotMay'[c] = slotMay[c]
  BY DropChanges DEF Remove
<1>2. HolderInv'
  BY <1>1, DropHolder DEF Remove, Await
<1>. QED
  BY <1>1, <1>2 DEF IInv, Remove, Await, HolderTypes

LEMMA RemovedIInv ==
  ASSUME IInv, Removed, UNCHANGED <<view, calm>>
  PROVE  IInv'
<1>1. /\ Synced /\ at \notin {"idle", "write", "terminal"} /\ mem \in Journals /\ mem # Nothing
      /\ mem.from # mem.to /\ mem.gen > 0 /\ mem.from \in Cwds /\ mem.to \in Cwds /\ mem.phase \in Phases
      /\ Safe(slotMay, mem)
  BY AtWork, MemIsJournal DEF Removed, Dropping, IInv, HolderInv
<1>2. Place \in Cwds
  BY <1>1 DEF Place
<1>3. FilesInv'
  BY <1>2, SlotSynced DEF Removed, IInv
<1>4. slotMay'[Place] = {slot[Place]} /\ \A c \in Cwds : c # Place => slotMay'[c] = slotMay[c]
  BY <1>2 DEF Removed, SyncSlot, IInv, FilesInv
<1>5. Synced' \/ mem' # mem
  BY <1>1 DEF Synced, Removed, KeepJournal
<1>6. CASE at = "dropSource"
  <2>1. TargetAuthority(mem.phase) /\ slot[mem.from] = EmptySlot /\ Place = mem.from
    BY <1>6 DEF Removed, IInv, HolderInv, CommitInv, Place
  <2>2. at' = "dropLeftover" /\ barrier' = FALSE /\ mem' = mem
    BY <1>6 DEF Removed, Goto
  <2>3. slotMay'[mem.from] = {EmptySlot}
    BY <1>4, <2>1
  <2>4. HolderInv'
    BY <1>1, <1>5, <2>1, <2>2, <2>3 DEF HolderInv, StageInv, CommitInv, RollbackInv, TerminalInv
  <2>. QED
    BY <1>1, <1>3, <2>2, <2>4 DEF IInv, HolderTypes, Steps
<1>7. CASE at = "dropLeftover"
  <2>1. TargetAuthority(mem.phase) /\ Place = mem.to /\ slotMay[mem.from] = {EmptySlot}
    BY <1>7 DEF IInv, HolderInv, CommitInv, Place
  <2>2. slotMay'[mem.from] = {EmptySlot}
    BY <1>1, <1>4, <2>1
  <2>3. CASE Goto("terminal") /\ UNCHANGED mem /\ mem.phase = "Committed"
    <3>1. HolderInv'
      BY <1>1, <1>5, <2>2, <2>3 DEF Goto, HolderInv, StageInv, CommitInv, RollbackInv, TerminalInv
    <3>. QED
      BY <1>1, <1>3, <2>3, <3>1 DEF IInv, HolderTypes, Steps, Goto
  <2>4. CASE Write("Committed")
    BY <1>1, <1>3, <2>1, <2>2, <2>4, WriteEntered DEF Removed, Phases
  <2>. QED
    BY <1>7, <2>3, <2>4 DEF Removed, Finished
<1>8. CASE at = "dropStaging"
  <2>1. ~TargetAuthority(mem.phase) /\ slot[mem.to].staging = Nothing /\ Place = mem.to
    BY <1>8 DEF Removed, IInv, HolderInv, RollbackInv, Place
  <2>2. at' = "checkTarget" /\ barrier' = FALSE /\ mem' = mem
    BY <1>8 DEF Removed, Goto
  <2>3. slotMay'[mem.to] = {slot[mem.to]}
    BY <1>4, <2>1
  <2>4. HolderInv'
    BY <1>1, <1>5, <2>1, <2>2, <2>3 DEF HolderInv, StageInv, CommitInv, RollbackInv, TerminalInv
  <2>. QED
    BY <1>1, <1>3, <2>2, <2>4 DEF IInv, HolderTypes, Steps
<1>9. CASE at = "dropTarget"
  <2>1. ~TargetAuthority(mem.phase) /\ slot[mem.to] = EmptySlot /\ Place = mem.to
    BY <1>9 DEF Removed, IInv, HolderInv, RollbackInv, Place
  <2>2. slotMay'[mem.to] = {EmptySlot}
    BY <1>4, <2>1
  <2>3. CASE Goto("terminal") /\ UNCHANGED mem /\ mem.phase = "RolledBack"
    <3>1. HolderInv'
      BY <1>1, <1>5, <2>2, <2>3 DEF Goto, HolderInv, StageInv, CommitInv, RollbackInv, TerminalInv
    <3>. QED
      BY <1>1, <1>3, <2>3, <3>1 DEF IInv, HolderTypes, Steps, Goto
  <2>4. CASE Write("RolledBack")
    BY <1>1, <1>3, <2>1, <2>2, <2>4, WriteEntered DEF Removed, Phases
  <2>. QED
    BY <1>9, <2>3, <2>4 DEF Removed, Finished
<1>. QED
  BY <1>6, <1>7, <1>8, <1>9 DEF Removed, Dropping

LEMMA FinalizeIInv ==
  ASSUME IInv, Finalize, UNCHANGED <<view, calm>>
  PROVE  IInv'
<1> USE RelocationAssumption
<1>1. CASE Return /\ KeepJournal
  BY <1>1, FilesKept, ReturnIInv DEF Finalize, IInv
<1>2. CASE ChangeJournal(Nothing) /\ Await /\ UNCHANGED mem
  <2>1. /\ mem \in Journals /\ mem # Nothing /\ mem.from # mem.to /\ mem.gen \in Nat \ {0}
        /\ mem.from \in Cwds /\ mem.to \in Cwds
    BY MemIsJournal DEF Finalize
  <2>2. Synced /\ TerminalInv /\ at = "terminal"
    BY DEF Finalize, IInv, HolderInv, TerminalInv
  <2>3. Safe(slotMay, mem)
    BY <2>1, <2>2 DEF IInv, FilesInv, Disk, Synced
  <2>4. Settled(slotMay, AuthoritativeCwd(mem), Current(mem))
    <3>1. CASE mem.phase = "Committed"
      BY <2>1, <2>2, <2>3, <3>1
         DEF TerminalInv, Safe, TargetSafe, TargetAuthority, Settled, AuthoritativeCwd, Current
    <3>2. CASE mem.phase = "RolledBack"
      BY <2>1, <2>2, <2>3, <3>2
         DEF TerminalInv, Safe, SourceSafe, TargetAuthority, Settled, AuthoritativeCwd, Current
    <3>. QED
      BY <2>2, <3>1, <3>2 DEF TerminalInv
  <2>5. AuthoritativeCwd(mem) \in Cwds /\ Current(mem) \in Nat
    BY <2>1 DEF AuthoritativeCwd, Current
  <2>6. Disk(journalMay, slotMay)'
    BY <1>2, <2>2, <2>3, <2>4, <2>5 DEF Disk, ChangeJournal, Synced, Finalize, KeepSlots
  <2>7. ASSUME NEW n \in Int, Reached(n) PROVE Reached(n)'
    <3>1. Current(mem) >= n
      BY <2>1, <2>2, <2>7 DEF Reached, Synced, Current
    <3>2. \A c \in Cwds : slot[c].dir # Nothing => slot[c].dir.gen = Current(mem)
      BY <2>4 DEF Settled, IInv, FilesInv, Contained, HomeSlot, EmptySlot
    <3>. QED
      BY <1>2, <3>1, <3>2 DEF Reached, ChangeJournal, Finalize, KeepSlots
  <2>8. ViewInv'
    <3>1. \A seen \in view : seen # Nothing => Current(seen) \in Int
      BY DEF IInv, FilesInv, Current, Journals
    <3>. QED
      BY <2>7, <3>1 DEF IInv, FilesInv, ViewInv
  <2>9. FilesInv'
    BY <1>2, <2>6, <2>8 DEF FilesInv, IInv, Contained, ChangeJournal, Finalize, KeepSlots
  <2>10. HolderTypes'
    BY <1>2 DEF Await, IInv, HolderTypes
  <2>11. HolderInv'
    BY <1>2, <2>1, <2>2
       DEF Await, ChangeJournal, Finalize, KeepSlots, HolderInv, StageInv, CommitInv, RollbackInv, TerminalInv
  <2>. QED
    BY <2>9, <2>10, <2>11 DEF IInv
<1>. QED
  BY <1>1, <1>2 DEF Finalize

LEMMA FinalizedIInv ==
  ASSUME IInv, Finalized, UNCHANGED <<view, calm>>
  PROVE  IInv'
BY JournalSynced, ReturnIInv DEF Finalized, IInv

\* An error before a change: the code rolls back or returns.
LEMMA ChangeFailsIInv ==
  ASSUME IInv, ChangeFails, UNCHANGED <<view, calm>>
  PROVE  IInv'
<1>1. FilesInv'
  BY FilesKept DEF IInv, ChangeFails
<1>2. CASE Return
  BY <1>1, <1>2, ReturnIInv
<1>3. CASE at = "write" /\ mem.phase = "Staged" /\ Goto("rollback") /\ mem' = [mem EXCEPT !.phase = "Prepared"]
  <2>1. mem \in Journals /\ mem # Nothing /\ mem.from # mem.to /\ mem.gen \in Nat \ {0}
    BY <1>3, MemIsJournal
  <2>2. /\ mem' \in Journals /\ mem'.from = mem.from /\ mem'.to = mem.to /\ mem'.gen = mem.gen
        /\ mem'.phase = "Prepared"
    BY <1>3, <2>1 DEF Journals, Phases
  <2>3. Synced'
    BY <1>3, <2>2 DEF Synced, ChangeFails, KeepJournal, IInv, HolderInv, WriteInv, FilesInv, Contained
  <2>4. HolderInv'
    BY <1>3, <2>1, <2>2, <2>3 DEF Goto, HolderInv, TargetAuthority, StageInv, CommitInv, RollbackInv, TerminalInv
  <2>5. HolderTypes'
    BY <1>3, <2>2, RelocationAssumption DEF Goto, HolderTypes, IInv, Steps
  <2>. QED
    BY <1>1, <2>4, <2>5 DEF IInv
<1>4. CASE at \in {"copy", "publish"} /\ Goto("rollback") /\ UNCHANGED mem
  <2>1. HolderTypes'
    BY <1>4 DEF IInv, ChangeFails, Goto, HolderTypes, Steps
  <2>2. HolderInv'
    BY <1>4 DEF ChangeFails, Goto, IInv, HolderInv, Synced, KeepJournal, TargetAuthority, StageInv, CommitInv, RollbackInv, TerminalInv
  <2>. QED
    BY <1>1, <2>1, <2>2 DEF IInv
<1>. QED
  BY <1>2, <1>3, <1>4 DEF ChangeFails

LEMMA BarrierFailsIInv ==
  ASSUME IInv, BarrierFails, UNCHANGED <<view, calm>>
  PROVE  IInv'
<1>1. FilesInv'
  BY FilesKept DEF IInv, BarrierFails
<1>2. CASE Return
  BY <1>1, <1>2, ReturnIInv
<1>3. CASE at = "copy" /\ Goto("rollback") /\ UNCHANGED mem
  <2>1. HolderTypes'
    BY <1>3 DEF IInv, BarrierFails, Goto, HolderTypes, Steps
  <2>2. HolderInv'
    BY <1>3 DEF BarrierFails, Goto, IInv, HolderInv, Synced, KeepJournal, TargetAuthority, StageInv, CommitInv, RollbackInv, TerminalInv
  <2>. QED
    BY <1>1, <2>1, <2>2 DEF IInv
<1>. QED
  BY <1>2, <1>3 DEF BarrierFails

LEMMA CrashIInv ==
  ASSUME IInv, Crash, UNCHANGED <<view, calm>>
  PROVE  IInv'
BY FilesKept, ReturnIInv DEF Crash, IInv

LEMMA PowerLossIInv ==
  ASSUME IInv, PowerLoss, UNCHANGED calm
  PROVE  IInv'
<1>1. PICK j \in journalMay, s \in [Cwds -> UNION {slotMay[c] : c \in Cwds}] :
       /\ \A c \in Cwds : s[c] \in slotMay[c]
       /\ journal' = j /\ journalMay' = {j}
       /\ slot' = s /\ slotMay' = [c \in Cwds |-> {s[c]}]
  BY DEF PowerLoss
<1>2. slot' \in [Cwds -> Slots] /\ slotMay' \in [Cwds -> SUBSET Slots]
  BY <1>1 DEF IInv, FilesInv
<1>3. \A c \in Cwds : slotMay'[c] \subseteq slotMay[c] /\ slotMay'[c] # {}
  BY <1>1
<1>4. Disk(journalMay', slotMay')
  <2>1. /\ journalMay \subseteq Journals \cup {Nothing} /\ slotMay \in [Cwds -> SUBSET Slots]
        /\ Disk(journalMay, slotMay) /\ journalMay' \in SUBSET journalMay
    BY <1>1 DEF IInv, FilesInv
  <2>. QED
    BY <1>2, <1>3, <2>1, NarrowDisk
<1>5. FilesInv'
  BY <1>1, <1>2, <1>4 DEF PowerLoss, FilesInv, Contained, ViewInv, IInv
<1>. QED
  BY <1>5, ReturnIInv DEF PowerLoss

LEMMA ViewIInv ==
  ASSUME IInv, LoadJournals \/ SelectDir
  PROVE  IInv'
<1>1. view' = {} \/ view' = {journal}
  BY DEF LoadJournals, SelectDir
<1>2. UNCHANGED <<journal, journalMay, slot, slotMay, at, barrier, mem, calm>>
  BY DEF LoadJournals, SelectDir, KeepJournal, KeepSlots
<1>3. journal # Nothing => Reached(Current(journal))
  BY DEF Reached, Current, IInv, FilesInv, Journals
<1>4. ViewInv'
  BY <1>1, <1>2, <1>3 DEF ViewInv, Reached
<1>5. Contained' /\ Disk(journalMay, slotMay)'
  BY <1>2 DEF Contained, IInv, FilesInv
<1>6. FilesInv'
  BY <1>1, <1>2, <1>4, <1>5 DEF IInv, FilesInv
<1>. QED
  BY <1>2, <1>6 DEF IInv, HolderTypes, HolderInv, Synced, WriteInv, Precedes, StageInv, CommitInv,
     RollbackInv, TerminalInv

LEMMA SettleIInv ==
  ASSUME IInv, UNCHANGED <<journal, journalMay, slot, slotMay, at, barrier, mem, view>>, calm' \in BOOLEAN
  PROVE  IInv'
<1>1. FilesInv'
  BY FilesKept DEF IInv, KeepJournal, KeepSlots
<1>. QED
  BY <1>1 DEF IInv, HolderTypes, HolderInv, Synced, WriteInv, Precedes, StageInv, CommitInv,
     RollbackInv, TerminalInv

LEMMA NextIInv == IInv /\ [Next]_vars => IInv'
<1> SUFFICES ASSUME IInv, [Next]_vars PROVE IInv'
  OBVIOUS
<1>1. CASE HolderStep /\ UNCHANGED <<view, calm>>
  BY <1>1, WriteJournalIInv, JournalWrittenIInv, CopyRestIInv, CopiedIInv, PublishIInv, PublishedIInv,
     MarkReadyIInv, RollbackIInv, StartCommitIInv, StartRollbackIInv, CheckTargetIInv, RemoveIInv,
     RemovedIInv, FinalizeIInv, FinalizedIInv DEF HolderStep
<1>2. CASE (Recover \/ CopySome \/ Erode) /\ UNCHANGED <<view, calm>>
  BY <1>2, RecoverIInv, CopySomeIInv, ErodeIInv
<1>3. CASE (\E from, to \in Cwds : Stage(from, to)) /\ UNCHANGED <<view, calm>>
  BY <1>3, StageIInv
<1>4. CASE (ChangeFails \/ BarrierFails \/ Crash) /\ UNCHANGED <<view, calm>>
  BY <1>4, ChangeFailsIInv, BarrierFailsIInv, CrashIInv
<1>5. CASE PowerLoss /\ UNCHANGED calm
  BY <1>5, PowerLossIInv
<1>6. CASE LoadJournals \/ SelectDir
  BY <1>6, ViewIInv
<1>7. CASE Settle
  BY <1>7, SettleIInv DEF Settle, KeepJournal, KeepSlots
<1>8. CASE UNCHANGED vars
  BY <1>8, SettleIInv DEF vars, IInv, HolderTypes
<1>. QED
  BY <1>1, <1>2, <1>3, <1>4, <1>5, <1>6, <1>7, <1>8 DEF Next

\* The invariant of the relocation holds in every state: what each power loss
\* can leave, what the holder of the lease relies on at each step, and what a
\* loaded journal still means to a reader.
THEOREM RelocationInvariant == Spec => []IInv
BY InitIInv, NextIInv, PTL DEF Spec

-----------------------------------------------------------------------------
(***************************************************************************)
(* What the runs check, for any cwds and any bound on the generations.     *)
(***************************************************************************)

\* The files, the journal and the holder of relocation.rs have their types.
THEOREM TypeCorrect == Spec => []TypeOK
<1>1. IInv => TypeOK
  BY DEF IInv, FilesInv, HolderTypes, TypeOK
<1>. QED
  BY <1>1, RelocationInvariant, PTL

LEMMA DiskIsSound ==
  ASSUME IInv, NEW j \in journalMay, NEW s, \A c \in Cwds : s[c] \in slotMay[c]
  PROVE  Sound(j, s)
<1> USE RelocationAssumption
<1>1. CASE j = Nothing
  <2>1. PICK h \in Cwds, g \in Nat : Settled(slotMay, h, g)
    BY <1>1 DEF IInv, FilesInv, Disk
  <2>2. s[h] = HomeSlot(h, g) /\ \A d \in Cwds \ {h} : s[d] = EmptySlot
    BY <2>1 DEF Settled
  <2>3. HomeSlot(h, g).dir \in Directories
    BY DEF HomeSlot, Directories
  <2>. QED
    BY <1>1, <2>2, <2>3 DEF Sound, Whole, Empty, HomeSlot, EmptySlot
<1>2. CASE j # Nothing
  <2>1. Safe(slotMay, j) /\ j.from \in Cwds /\ j.to \in Cwds
    BY <1>2 DEF IInv, FilesInv, Disk, Journals
  <2>. QED
    BY <1>2, <2>1 DEF Safe, SourceSafe, TargetSafe, Sound, AuthoritativeCwd, Whole, HomeSlot
<1>. QED
  BY <1>1, <1>2

\* Whenever the power fails, the cwd with authority holds the complete session.
THEOREM NothingLost == Spec => []NeverLost
<1>1. IInv => NeverLost
  BY DiskIsSound DEF NeverLost
<1>. QED
  BY <1>1, RelocationInvariant, PTL

LEMMA ViewIsWhole == IInv => ViewServesWhole
<1> USE RelocationAssumption
<1> SUFFICES ASSUME IInv, NEW seen \in view, NEW c \in Selected(seen)
             PROVE  \/ slot[c].dir.state = "whole"
                    \/ journal # Nothing /\ TargetAuthority(journal.phase) /\ c = journal.from
  BY DEF ViewServesWhole
<1>1. /\ \A d \in Cwds : slot[d] \in slotMay[d] /\ slot[d] \in Slots
      /\ journal \in journalMay /\ Disk(journalMay, slotMay)
      /\ seen \in Journals \cup {Nothing} /\ journal \in Journals \cup {Nothing}
  BY DEF IInv, FilesInv, Contained
<1>2. c \in Cwds /\ slot[c].dir # Nothing
  BY <1>1 DEF Selected, Persisted, ValidSource, ValidTarget, HasSummary, AuthoritativeCwd, Journals
<1>3. CASE journal = Nothing
  <2>1. PICK h \in Cwds, g \in Nat : Settled(slotMay, h, g)
    BY <1>1, <1>3 DEF Disk
  <2>2. slot[c] = HomeSlot(h, g)
    BY <1>1, <1>2, <2>1 DEF Settled, EmptySlot
  <2>. QED
    BY <2>2 DEF HomeSlot
<1>4. CASE journal # Nothing
  <2>1. /\ Safe(slotMay, journal) /\ journal \in Journals
        /\ journal.from \in Cwds /\ journal.to \in Cwds /\ journal.gen \in Nat
    BY <1>1, <1>4 DEF Disk, Journals
  <2>2. c \in {journal.from, journal.to}
    BY <1>1, <1>2, <2>1 DEF Safe, EmptySlot
  <2>3. CASE TargetAuthority(journal.phase)
    <3>1. slot[journal.to] = HomeSlot(journal.to, journal.gen)
      BY <1>1, <2>1, <2>3 DEF Safe, TargetSafe
    <3>. QED
      BY <1>4, <2>2, <2>3, <3>1 DEF HomeSlot
  <2>4. CASE ~TargetAuthority(journal.phase)
    <3>1. slot[journal.from] = HomeSlot(journal.from, journal.gen - 1) /\ DirIs(slot[journal.to], journal.to, journal.gen)
      BY <1>1, <2>1, <2>4 DEF Safe, SourceSafe
    <3>2. CASE c = journal.from
      BY <3>1, <3>2 DEF HomeSlot
    <3>3. ASSUME c = journal.to, c # journal.from PROVE FALSE
      <4>1. CASE seen # Nothing
        <5>1. slot[c].dir.gen = Current(seen)
          BY <1>1, <4>1 DEF Selected, ValidSource, ValidTarget, HasSummary, AuthoritativeCwd, Current, Journals
        <5>2. slot[c].dir.gen = journal.gen
          BY <1>2, <3>1, <3>3 DEF DirIs
        <5>3. journal.gen - 1 >= Current(seen)
          BY <1>4, <2>4, <4>1 DEF IInv, FilesInv, ViewInv, Reached
        <5>. QED
          BY <2>1, <5>1, <5>2, <5>3
      <4>2. CASE seen = Nothing
        <5>1. Cardinality(Persisted) = 1 /\ c \in Persisted
          BY <4>2 DEF Selected
        <5>2. journal.from \in Persisted
          <6>1. HomeSlot(journal.from, journal.gen - 1).dir \in Directories
            BY <2>1 DEF Safe, HomeSlot, Directories
          <6>. QED
            BY <2>1, <3>1, <6>1 DEF Persisted, HomeSlot
        <5>3. Persisted \subseteq {journal.from, journal.to}
          BY <1>1, <2>1 DEF Persisted, Safe, EmptySlot
        <5>4. IsFiniteSet(Persisted)
          <6>1. IsFiniteSet({journal.from} \cup {journal.to})
            BY FS_Singleton, FS_AddElement
          <6>2. Persisted \in SUBSET ({journal.from} \cup {journal.to})
            BY <5>3
          <6>. QED
            BY <6>1, <6>2, FS_Subset
        <5>5. PICK x : Persisted = {x}
          BY <5>1, <5>4, FS_Singleton
        <5>. QED
          BY <3>3, <5>1, <5>2, <5>5
      <4>. QED
        BY <4>1, <4>2
    <3>. QED
      BY <2>2, <3>2, <3>3
  <2>. QED
    BY <2>3, <2>4
<1>. QED
  BY <1>3, <1>4

\* A reader of RelocationView is never sent to an unfinished copy.
THEOREM ReadersServedWhole == Spec => []ViewServesWhole
BY ViewIsWhole, RelocationInvariant, PTL

-----------------------------------------------------------------------------
(***************************************************************************)
(* The relocation implements SessionMove.  The lemmas take the journals    *)
(* and slots as parameters: they serve for the old and for the new state.  *)
(***************************************************************************)
OfSource(j) == j # Nothing /\ ~TargetAuthority(j.phase)

OfTarget(j) == j # Nothing /\ TargetAuthority(j.phase)

\* A state of the files: the journals and slots that may be, the slots that are.
FilesAt(js, may, sl) ==
  /\ js \in SUBSET (Journals \cup {Nothing}) /\ js # {}
  /\ \A c \in Cwds : sl[c] \in may[c]
  /\ Disk(js, may)

\* h is the home of the session and g its generation.
Lives(js, sl, h, g) == HomeOf(js, sl) = h /\ sl[h].dir.gen = g

LEMMA HomeSlotIs ==
  ASSUME NEW c \in Cwds, NEW g \in Nat
  PROVE  /\ HomeSlot(c, g) # EmptySlot /\ HomeSlot(c, g).dir # Nothing
         /\ HomeSlot(c, g).dir.cwd = c /\ HomeSlot(c, g).dir.gen = g
<1>1. HomeSlot(c, g).dir \in Directories
  BY DEF HomeSlot, Directories
<1>. QED
  BY <1>1, RelocationAssumption DEF HomeSlot, EmptySlot

LEMMA HomeChosen ==
  ASSUME NEW js, NEW sl, NEW h \in Cwds,
         \/ /\ \E j \in js : OfSource(j)
            /\ \A j \in js : OfSource(j) => j.from = h
         \/ /\ ~ \E j \in js : OfSource(j)
            /\ \E j \in js : OfTarget(j)
            /\ \A j \in js : OfTarget(j) => j.to = h
         \/ /\ \A j \in js : j = Nothing
            /\ \A c \in Cwds : sl[c].dir # Nothing <=> c = h
  PROVE  HomeOf(js, sl) = h
<1> DEFINE bySource == {j.from : j \in {x \in js \ {Nothing} : ~TargetAuthority(x.phase)}}
           byTarget == {j.to : j \in {x \in js \ {Nothing} : TargetAuthority(x.phase)}}
           present  == {c \in Cwds : sl[c].dir # Nothing}
           pick == IF bySource # {} THEN bySource ELSE IF byTarget # {} THEN byTarget ELSE present
<1>1. pick = {h}
  <2>1. CASE /\ \E j \in js : OfSource(j)
             /\ \A j \in js : OfSource(j) => j.from = h
    BY <2>1 DEF OfSource
  <2>2. CASE /\ ~ \E j \in js : OfSource(j)
             /\ \E j \in js : OfTarget(j)
             /\ \A j \in js : OfTarget(j) => j.to = h
    <3>1. bySource = {}
      BY <2>2 DEF OfSource
    <3>2. byTarget = {h}
      BY <2>2 DEF OfTarget
    <3>. QED
      BY <3>1, <3>2
  <2>3. CASE /\ \A j \in js : j = Nothing
             /\ \A c \in Cwds : sl[c].dir # Nothing <=> c = h
    <3>1. bySource = {} /\ byTarget = {}
      BY <2>3
    <3>2. present = {h}
      BY <2>3
    <3>. QED
      BY <3>1, <3>2
  <2>. QED
    BY <2>1, <2>2, <2>3
<1>2. HomeOf(js, sl) = CHOOSE c \in Cwds : c \in pick
  BY DEF HomeOf
<1> HIDE DEF pick
<1>. QED
  BY <1>1, <1>2

LEMMA SafeFields ==
  ASSUME NEW js, NEW may, NEW sl, FilesAt(js, may, sl), NEW j \in js, j # Nothing
  PROVE  /\ j.from \in Cwds /\ j.to \in Cwds /\ j.gen \in Nat \ {0} /\ j.gen - 1 \in Nat
         /\ j.from # j.to /\ Safe(may, j)
BY DEF FilesAt, Disk, Safe, Journals

\* A journal that gives the source authority decides, and all such agree.
LEMMA LivesAtSource ==
  ASSUME NEW js, NEW may, NEW sl, FilesAt(js, may, sl), NEW j \in js, OfSource(j)
  PROVE  Lives(js, sl, j.from, j.gen - 1)
<1>1. /\ j.from \in Cwds /\ j.to \in Cwds /\ j.gen \in Nat \ {0} /\ j.gen - 1 \in Nat
      /\ j.from # j.to /\ Safe(may, j) /\ SourceSafe(may, j)
  BY SafeFields DEF OfSource, Safe
<1>2. ASSUME NEW k \in js, OfSource(k), k.from # j.from PROVE FALSE
  <2>1. /\ k.from \in Cwds /\ k.to \in Cwds /\ k.gen \in Nat \ {0} /\ k.gen - 1 \in Nat
        /\ k.from # k.to /\ Safe(may, k) /\ SourceSafe(may, k)
    BY <1>2, SafeFields DEF OfSource, Safe
  <2>2. k.from = j.to /\ j.from = k.to
    <3>1. HomeSlot(k.from, k.gen - 1) # EmptySlot /\ HomeSlot(j.from, j.gen - 1) # EmptySlot
      BY <1>1, <2>1, HomeSlotIs
    <3>2. may[k.from] # {EmptySlot} /\ may[j.from] # {EmptySlot}
      BY <1>1, <2>1, <3>1 DEF SourceSafe
    <3>. QED
      BY <1>1, <1>2, <2>1, <3>2 DEF Safe
  <2>3. DirIs(HomeSlot(k.from, k.gen - 1), j.to, j.gen) /\ DirIs(HomeSlot(j.from, j.gen - 1), k.to, k.gen)
    BY <1>1, <2>1, <2>2 DEF SourceSafe
  <2>4. k.gen - 1 = j.gen /\ j.gen - 1 = k.gen
    BY <1>1, <2>1, <2>3, HomeSlotIs DEF DirIs
  <2>. QED
    BY <1>1, <2>1, <2>4
<1>3. HomeOf(js, sl) = j.from
  BY <1>1, <1>2, HomeChosen
<1>4. sl[j.from] = HomeSlot(j.from, j.gen - 1)
  BY <1>1 DEF FilesAt, SourceSafe
<1>. QED
  BY <1>1, <1>3, <1>4, HomeSlotIs DEF Lives

\* Without one, a journal that gives the target authority decides, and all agree.
LEMMA LivesAtTarget ==
  ASSUME NEW js, NEW may, NEW sl, FilesAt(js, may, sl), NEW j \in js, OfTarget(j),
         \A k \in js : ~OfSource(k)
  PROVE  Lives(js, sl, j.to, j.gen)
<1>1. /\ j.from \in Cwds /\ j.to \in Cwds /\ j.gen \in Nat \ {0} /\ j.gen - 1 \in Nat
      /\ j.from # j.to /\ Safe(may, j) /\ TargetSafe(may, j)
  BY SafeFields DEF OfTarget, Safe
<1>2. ASSUME NEW k \in js, OfTarget(k), k.to # j.to PROVE FALSE
  <2>1. /\ k.from \in Cwds /\ k.to \in Cwds /\ k.gen \in Nat \ {0} /\ k.gen - 1 \in Nat
        /\ k.from # k.to /\ Safe(may, k) /\ TargetSafe(may, k)
    BY <1>2, SafeFields DEF OfTarget, Safe
  <2>2. k.from = j.to /\ j.from = k.to
    <3>1. HomeSlot(k.to, k.gen) # EmptySlot /\ HomeSlot(j.to, j.gen) # EmptySlot
      BY <1>1, <2>1, HomeSlotIs
    <3>2. may[k.to] # {EmptySlot} /\ may[j.to] # {EmptySlot}
      BY <1>1, <2>1, <3>1 DEF TargetSafe
    <3>. QED
      BY <1>1, <1>2, <2>1, <3>2 DEF Safe
  <2>3. DirIs(HomeSlot(k.to, k.gen), j.from, j.gen - 1) /\ DirIs(HomeSlot(j.to, j.gen), k.from, k.gen - 1)
    BY <1>1, <2>1, <2>2 DEF TargetSafe
  <2>4. k.gen = j.gen - 1 /\ j.gen = k.gen - 1
    BY <1>1, <2>1, <2>3, HomeSlotIs DEF DirIs
  <2>. QED
    BY <1>1, <2>1, <2>4
<1>3. HomeOf(js, sl) = j.to
  BY <1>1, <1>2, HomeChosen
<1>4. sl[j.to] = HomeSlot(j.to, j.gen)
  BY <1>1 DEF FilesAt, TargetSafe
<1>. QED
  BY <1>1, <1>3, <1>4, HomeSlotIs DEF Lives

\* When nothing but the session is on disk, its directory decides, whatever
\* journals may be left.
LEMMA LivesSettled ==
  ASSUME NEW js, NEW may, NEW sl, FilesAt(js, may, sl),
         NEW h \in Cwds, NEW g \in Nat, Settled(may, h, g)
  PROVE  Lives(js, sl, h, g)
<1>1. ASSUME NEW j \in js, OfSource(j) PROVE j.from = h
  <2>1. j.from \in Cwds /\ j.gen - 1 \in Nat /\ SourceSafe(may, j)
    BY <1>1, SafeFields DEF OfSource, Safe
  <2>2. HomeSlot(j.from, j.gen - 1) # EmptySlot
    BY <2>1, HomeSlotIs
  <2>. QED
    BY <2>1, <2>2 DEF SourceSafe, Settled
<1>2. ASSUME NEW j \in js, OfTarget(j) PROVE j.to = h
  <2>1. j.to \in Cwds /\ j.gen \in Nat /\ TargetSafe(may, j)
    BY <1>2, SafeFields DEF OfTarget, Safe
  <2>2. HomeSlot(j.to, j.gen) # EmptySlot
    BY <2>1, HomeSlotIs
  <2>. QED
    BY <2>1, <2>2 DEF TargetSafe, Settled
<1>3. \A c \in Cwds : sl[c] = IF c = h THEN HomeSlot(h, g) ELSE EmptySlot
  BY DEF FilesAt, Settled
<1>4. \A c \in Cwds : sl[c].dir # Nothing <=> c = h
  BY <1>3, HomeSlotIs DEF EmptySlot
<1>5. HomeOf(js, sl) = h
  BY <1>1, <1>2, <1>4, HomeChosen DEF OfSource, OfTarget
<1>. QED
  BY <1>3, <1>5, HomeSlotIs DEF Lives

\* The session stays or moves once between two states of the files.
StayOrMove(js, sl, few, tl) ==
  \E h, k \in Cwds, g, n \in Nat :
    /\ Lives(js, sl, h, g) /\ Lives(few, tl, k, n)
    /\ (k = h /\ n = g) \/ (k # h /\ n = g + 1)

\* What a barrier or a power loss decides.
LEMMA Decided ==
  ASSUME NEW js, NEW may, NEW sl, FilesAt(js, may, sl),
         NEW few \in SUBSET js, NEW less, NEW tl, FilesAt(few, less, tl),
         \A c \in Cwds : less[c] \subseteq may[c]
  PROVE  StayOrMove(js, sl, few, tl)
<1>1. CASE \E j \in few : OfSource(j)
  <2>1. PICK j \in few : OfSource(j)
    BY <1>1
  <2>2. Lives(js, sl, j.from, j.gen - 1) /\ Lives(few, tl, j.from, j.gen - 1)
    BY <2>1, LivesAtSource
  <2>3. j.from \in Cwds /\ j.gen - 1 \in Nat
    BY <2>1, SafeFields DEF OfSource
  <2>. QED
    BY <2>2, <2>3 DEF StayOrMove
<1>2. CASE Nothing \in few
  <2>1. PICK h \in Cwds, g \in Nat : Settled(may, h, g)
    BY <1>2 DEF FilesAt, Disk
  <2>2. Settled(less, h, g)
    <3>1. \A c \in Cwds : less[c] # {}
      BY DEF FilesAt
    <3>. QED
      BY <2>1, <3>1 DEF Settled
  <2>3. Lives(js, sl, h, g) /\ Lives(few, tl, h, g)
    BY <2>1, <2>2, LivesSettled
  <2>. QED
    BY <2>3 DEF StayOrMove
<1>3. CASE Nothing \notin few /\ ~ \E j \in few : OfSource(j)
  <2>1. PICK k \in few : OfTarget(k)
    BY <1>3 DEF FilesAt, OfSource, OfTarget
  <2>2. Lives(few, tl, k.to, k.gen)
    BY <1>3, <2>1, LivesAtTarget
  <2>3. /\ k.from \in Cwds /\ k.to \in Cwds /\ k.gen \in Nat
        /\ k.from # k.to /\ Safe(may, k) /\ TargetSafe(may, k)
    BY <2>1, SafeFields DEF OfTarget, Safe
  <2>4. CASE \A j \in js : ~OfSource(j)
    <3>1. Lives(js, sl, k.to, k.gen)
      BY <2>1, <2>4, LivesAtTarget
    <3>. QED
      BY <2>2, <2>3, <3>1 DEF StayOrMove
  <2>5. CASE \E j \in js : OfSource(j)
    <3>1. PICK j \in js : OfSource(j)
      BY <2>5
    <3>2. /\ j.from \in Cwds /\ j.to \in Cwds /\ j.gen \in Nat /\ j.gen - 1 \in Nat
          /\ j.from # j.to /\ Safe(may, j) /\ SourceSafe(may, j)
      BY <3>1, SafeFields DEF OfSource, Safe
    <3>3. Lives(js, sl, j.from, j.gen - 1)
      BY <3>1, LivesAtSource
    <3>4. HomeSlot(k.to, k.gen) # EmptySlot /\ HomeSlot(k.to, k.gen).dir.gen = k.gen
      BY <2>3, HomeSlotIs
    <3>5. k.to \in {j.from, j.to}
      BY <2>3, <3>2, <3>4 DEF Safe, TargetSafe
    <3>6. CASE k.to = j.from
      <4>1. HomeSlot(j.from, j.gen - 1).dir.gen = j.gen - 1
        BY <3>2, HomeSlotIs
      <4>2. k.gen = j.gen - 1
        BY <2>3, <3>2, <3>4, <3>6, <4>1 DEF TargetSafe, SourceSafe
      <4>. QED
        BY <2>2, <2>3, <3>3, <3>6, <4>2 DEF StayOrMove
    <3>7. CASE k.to = j.to
      <4>1. DirIs(HomeSlot(k.to, k.gen), j.to, j.gen) /\ HomeSlot(k.to, k.gen).dir # Nothing
        BY <2>3, <3>2, <3>7, HomeSlotIs DEF TargetSafe, SourceSafe
      <4>2. k.gen = (j.gen - 1) + 1
        BY <3>2, <3>4, <4>1 DEF DirIs
      <4>. QED
        BY <2>2, <2>3, <3>2, <3>3, <3>7, <4>2 DEF StayOrMove
    <3>. QED
      BY <3>5, <3>6, <3>7
  <2>. QED
    BY <2>4, <2>5
<1>. QED
  BY <1>1, <1>2, <1>3

LEMMA IInvFilesAt == IInv => FilesAt(journalMay, slotMay, slot)
BY DEF IInv, FilesInv, Contained, FilesAt

LEMMA IInvFilesAtNext == IInv' => FilesAt(journalMay', slotMay', slot')
BY DEF IInv, FilesInv, Contained, FilesAt

\* While the files change under a synced journal, the session stays.
LEMMA StaysUnderJournal ==
  ASSUME IInv, IInv', Synced, mem \in Journals, KeepJournal
  PROVE  StayOrMove(journalMay, slot, journalMay', slot')
<1>1. mem \in journalMay /\ mem \in journalMay' /\ mem # Nothing
  BY RelocationAssumption DEF Synced, KeepJournal
<1>2. FilesAt(journalMay, slotMay, slot) /\ FilesAt(journalMay', slotMay', slot')
  BY IInvFilesAt, IInvFilesAtNext
<1>3. mem.from \in Cwds /\ mem.to \in Cwds /\ mem.gen \in Nat /\ mem.gen - 1 \in Nat
  BY <1>1, <1>2, SafeFields
<1>4. CASE OfSource(mem)
  <2>1. Lives(journalMay, slot, mem.from, mem.gen - 1) /\ Lives(journalMay', slot', mem.from, mem.gen - 1)
    BY <1>1, <1>2, <1>4, LivesAtSource
  <2>. QED
    BY <1>3, <2>1 DEF StayOrMove
<1>5. CASE OfTarget(mem)
  <2>1. \A k \in journalMay : ~OfSource(k)
    BY <1>5 DEF Synced, OfSource, OfTarget
  <2>2. \A k \in journalMay' : ~OfSource(k)
    BY <2>1 DEF KeepJournal
  <2>3. Lives(journalMay, slot, mem.to, mem.gen) /\ Lives(journalMay', slot', mem.to, mem.gen)
    BY <1>1, <1>2, <1>5, <2>1, <2>2, LivesAtTarget
  <2>. QED
    BY <1>3, <2>3 DEF StayOrMove
<1>. QED
  BY <1>1, <1>4, <1>5 DEF OfSource, OfTarget

\* A journal that is renamed into place and not yet synced decides nothing.
LEMMA StaysAtWrite ==
  ASSUME IInv, IInv', WriteJournal
  PROVE  StayOrMove(journalMay, slot, journalMay', slot')
<1>1. FilesAt(journalMay, slotMay, slot) /\ FilesAt(journalMay', slotMay', slot')
  BY IInvFilesAt, IInvFilesAtNext
<1>2. /\ mem \in Journals /\ mem # Nothing /\ mem.from \in Cwds /\ mem.to \in Cwds
      /\ mem.gen \in Nat \ {0} /\ mem.gen - 1 \in Nat
  BY MemIsJournal DEF WriteJournal
<1>3. WriteInv /\ ~barrier
  BY DEF WriteJournal, IInv, HolderInv
<1>4. journalMay' = journalMay \cup {mem} /\ slot' = slot /\ slotMay' = slotMay
  BY DEF WriteJournal, ChangeJournal, KeepSlots
<1>5. CASE mem.phase = "Prepared"
  <2>1. Settled(slotMay, mem.from, mem.gen - 1) /\ Settled(slotMay', mem.from, mem.gen - 1)
    BY <1>3, <1>4, <1>5 DEF WriteInv
  <2>2. Lives(journalMay, slot, mem.from, mem.gen - 1) /\ Lives(journalMay', slot', mem.from, mem.gen - 1)
    BY <1>1, <1>2, <2>1, LivesSettled
  <2>. QED
    BY <1>2, <2>2 DEF StayOrMove
<1>6. CASE mem.phase # "Prepared"
  <2>1. PICK p \in Phases : /\ journalMay = {[mem EXCEPT !.phase = p]}
                            /\ TargetAuthority(p) <=> mem.phase = "Committed"
    BY <1>3, <1>6 DEF WriteInv, Precedes
  <2> DEFINE j == [mem EXCEPT !.phase = p]
  <2>2. /\ j # Nothing /\ j.from = mem.from /\ j.to = mem.to /\ j.gen = mem.gen /\ j.phase = p
    BY <1>2, RelocationAssumption DEF Journals
  <2>3. j \in journalMay /\ j \in journalMay' /\ mem \in journalMay'
    BY <1>4, <2>1
  <2>4. \A k \in journalMay' : k = j \/ k = mem
    BY <1>4, <2>1
  <2>5. \A k \in journalMay : k = j
    BY <2>1
  <2> HIDE DEF j
  <2>6. CASE OfSource(j)
    <3>1. Lives(journalMay, slot, j.from, j.gen - 1) /\ Lives(journalMay', slot', j.from, j.gen - 1)
      BY <1>1, <2>3, <2>6, LivesAtSource
    <3>. QED
      BY <1>2, <2>2, <3>1 DEF StayOrMove
  <2>7. CASE OfTarget(j)
    <3>1. mem.phase = "Committed"
      BY <2>1, <2>2, <2>7 DEF OfTarget
    <3>2. \A k \in journalMay' : ~OfSource(k)
      BY <2>4, <2>7, <3>1 DEF OfSource, OfTarget, TargetAuthority
    <3>3. \A k \in journalMay : ~OfSource(k)
      BY <2>5, <2>7 DEF OfSource, OfTarget
    <3>4. Lives(journalMay, slot, j.to, j.gen) /\ Lives(journalMay', slot', j.to, j.gen)
      BY <1>1, <2>3, <2>7, <3>2, <3>3, LivesAtTarget
    <3>. QED
      BY <1>2, <2>2, <3>4 DEF StayOrMove
  <2>. QED
    BY <2>2, <2>6, <2>7 DEF OfSource, OfTarget
<1>. QED
  BY <1>5, <1>6

\* The removal of a journal decides nothing new, synced or not.
LEMMA StaysAtFinalize ==
  ASSUME IInv, IInv', Finalize
  PROVE  StayOrMove(journalMay, slot, journalMay', slot') \/ UNCHANGED <<journalMay, slot>>
<1>1. CASE ChangeJournal(Nothing)
  <2>1. FilesAt(journalMay, slotMay, slot) /\ FilesAt(journalMay', slotMay', slot')
    BY IInvFilesAt, IInvFilesAtNext
  <2>2. Nothing \in journalMay' /\ slotMay' = slotMay
    BY <1>1 DEF ChangeJournal, Finalize, KeepSlots
  <2>3. PICK h \in Cwds, g \in Nat : Settled(slotMay', h, g)
    BY <2>1, <2>2 DEF FilesAt, Disk
  <2>4. Lives(journalMay, slot, h, g) /\ Lives(journalMay', slot', h, g)
    BY <2>1, <2>2, <2>3, LivesSettled
  <2>. QED
    BY <2>4 DEF StayOrMove
<1>2. CASE KeepJournal
  BY <1>2 DEF KeepJournal, KeepSlots, Finalize
<1>. QED
  BY <1>1, <1>2 DEF Finalize

\* A sync of the journal keeps or narrows the journals that may be.
LEMMA DecidedBySync ==
  ASSUME IInv, IInv', SyncJournal, KeepSlots
  PROVE  StayOrMove(journalMay, slot, journalMay', slot')
<1>1. FilesAt(journalMay, slotMay, slot) /\ FilesAt(journalMay', slotMay', slot')
  BY IInvFilesAt, IInvFilesAtNext
<1>2. journalMay' \in SUBSET journalMay /\ \A c \in Cwds : slotMay'[c] \subseteq slotMay[c]
  BY DEF SyncJournal, KeepSlots, IInv, FilesInv, Contained
<1>. QED
  BY <1>1, <1>2, Decided

LEMMA DecidedByPowerLoss ==
  ASSUME IInv, IInv', PowerLoss
  PROVE  StayOrMove(journalMay, slot, journalMay', slot')
<1>1. FilesAt(journalMay, slotMay, slot) /\ FilesAt(journalMay', slotMay', slot')
  BY IInvFilesAt, IInvFilesAtNext
<1>2. journalMay' \in SUBSET journalMay /\ \A c \in Cwds : slotMay'[c] \subseteq slotMay[c]
  BY DEF PowerLoss
<1>. QED
  BY <1>1, <1>2, Decided

LEMMA StepMoves ==
  ASSUME IInv, IInv', [Next]_vars
  PROVE  StayOrMove(journalMay, slot, journalMay', slot') \/ UNCHANGED <<journalMay, slot>>
<1>1. CASE CopySome \/ CopyRest \/ Publish \/ Erode \/ Remove
  <2>1. at \notin {"idle", "write", "terminal"} /\ KeepJournal
    BY <1>1 DEF CopySome, CopyRest, Publish, Erode, Remove, Dropping
  <2>. QED
    BY <2>1, AtWork, MemIsJournal, StaysUnderJournal
<1>2. CASE JournalWritten \/ Recover \/ StartCommit \/ Finalized
  BY <1>2, DecidedBySync DEF JournalWritten, Recover, StartCommit, Finalized
<1>3. CASE WriteJournal
  BY <1>3, StaysAtWrite
<1>4. CASE Finalize
  BY <1>4, StaysAtFinalize
<1>5. CASE PowerLoss
  BY <1>5, DecidedByPowerLoss
<1>6. CASE Copied \/ Published \/ Removed \/ MarkReady \/ Rollback \/ StartRollback \/ CheckTarget
  BY <1>6 DEF Copied, Published, Removed, MarkReady, Rollback, StartRollback, CheckTarget,
     SyncSlot, KeepJournal, KeepSlots
<1>7. CASE (\E from, to \in Cwds : Stage(from, to)) \/ ChangeFails \/ BarrierFails \/ Crash
  BY <1>7 DEF Stage, ChangeFails, BarrierFails, Crash, KeepJournal, KeepSlots
<1>8. CASE LoadJournals \/ SelectDir \/ Settle \/ UNCHANGED vars
  BY <1>8 DEF LoadJournals, SelectDir, Settle, vars, KeepJournal, KeepSlots
<1>. QED
  BY <1>1, <1>2, <1>3, <1>4, <1>5, <1>6, <1>7, <1>8 DEF Next, HolderStep

\* Whatever fails and when, the relocation is an atomic move of the session.
THEOREM RelocationIsAtomic == Spec => AtomicMove
<1>1. Init => Abstract!Init
  <2> SUFFICES ASSUME Init PROVE Home \in Cwds /\ slot[Home].dir.gen = 0
    BY DEF Abstract!Init
  <2>1. PICK c \in Cwds : slot = [x \in Cwds |->
                [dir |-> IF x = c THEN [state |-> "whole", cwd |-> c, gen |-> 0] ELSE Nothing,
                 staging |-> Nothing]]
    BY DEF Init
  <2>2. Settled(slotMay, c, 0)
    BY <2>1 DEF Init, Settled, HomeSlot, EmptySlot
  <2>3. Lives(journalMay, slot, c, 0)
    BY <2>2, InitIInv, IInvFilesAt, LivesSettled
  <2>. QED
    BY <2>3 DEF Lives, Home
<1>2. IInv /\ IInv' /\ [Next]_vars => [Abstract!Move]_<<Home, slot[Home].dir.gen>>
  <2> SUFFICES ASSUME IInv, IInv', [Next]_vars
               PROVE  \/ Home' \in Cwds \ {Home} /\ slot'[Home'].dir.gen = slot[Home].dir.gen + 1
                      \/ Home' = Home /\ slot'[Home'].dir.gen = slot[Home].dir.gen
    BY DEF Abstract!Move
  <2>1. CASE StayOrMove(journalMay, slot, journalMay', slot')
    BY <2>1 DEF StayOrMove, Lives, Home
  <2>2. CASE UNCHANGED <<journalMay, slot>>
    BY <2>2 DEF Home, HomeOf
  <2>. QED
    BY <2>1, <2>2, StepMoves
<1>. QED
  BY <1>1, <1>2, RelocationInvariant, PTL DEF Spec, AtomicMove, Abstract!Spec

=============================================================================
