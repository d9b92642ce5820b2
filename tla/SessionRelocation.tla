--------------------------- MODULE SessionRelocation ---------------------------
(***************************************************************************)
(* The journalled move of a dormant session directory from the storage of  *)
(* one working directory (cwd) to that of another, its recovery, and the   *)
(* view readers have of it.                                                *)
(*                                                                         *)
(* A change of a directory is volatile until the directory is synced.  For *)
(* the journal file and for the storage of every cwd the module keeps what *)
(* a process sees now and the set of states a power loss may leave behind. *)
(* Every step of the code is a change followed by a barrier (the sync).    *)
(* The lease admits one process, so one program counter is enough.         *)
(***************************************************************************)
EXTENDS Naturals, FiniteSets

CONSTANTS
  Cwds,      \* working directories
  Nothing,   \* no such file
  MaxGen     \* bound on the generations of the session

VARIABLES
  journal, journalMay,  \* the journal file; what a power loss may leave of it
  slot, slotMay,        \* per cwd the session directory and the staging one
  at, barrier,          \* where the holder of the lease is; its change awaits a sync
  mem,                  \* the holder's copy of the journal
  view,                 \* a reader that has loaded the journals: what it saw
  calm                  \* no more failures (for liveness only)

vars == <<journal, journalMay, slot, slotMay, at, barrier, mem, view, calm>>

Phases == {"Prepared", "Staged", "TargetPublished", "Ready", "Committed", "RolledBack"}

Journals == [from : Cwds, to : Cwds, gen : Nat, phase : Phases]

\* A session directory: complete; some file missing but summary.json there;
\* summary.json missing.  cwd and gen are those of the summary.
Directories == [state : {"whole", "torn", "headless"}, cwd : Cwds, gen : Nat]

Slots == [dir : Directories \cup {Nothing}, staging : Directories \cup {Nothing}]

ASSUME RelocationAssumption == Nothing \notin Journals \cup Directories /\ MaxGen \in Nat

Steps == {"idle", "write", "copy", "publish", "held", "commit", "dropSource",
          "dropLeftover", "rollback", "dropStaging", "checkTarget", "dropTarget",
          "terminal"}

TargetAuthority(phase) == phase \in {"Ready", "Committed"}

AuthoritativeCwd(j) == IF TargetAuthority(j.phase) THEN j.to ELSE j.from

\* validate_source_summary and validate_target read the summary only.  The
\* generation stands for the previous cwd and the reminder, which move with it.
HasSummary(d, c, g) == d # Nothing /\ d.state # "headless" /\ d.cwd = c /\ d.gen = g

ValidSource(j) == HasSummary(slot[j.from].dir, j.from, j.gen - 1)
ValidTarget(j) == HasSummary(slot[j.to].dir, j.to, j.gen)

-----------------------------------------------------------------------------
(***************************************************************************)
(* Volatile changes and barriers.                                          *)
(***************************************************************************)
ChangeSlot(c, s) ==
  /\ slot' = [slot EXCEPT ![c] = s]
  /\ slotMay' = [slotMay EXCEPT ![c] = @ \cup {s}]

ChangeJournal(j) == journal' = j /\ journalMay' = journalMay \cup {j}

SyncSlot(c) == slotMay' = [slotMay EXCEPT ![c] = {slot[c]}] /\ UNCHANGED slot

SyncJournal == journalMay' = {journal} /\ UNCHANGED journal

Goto(step) == at' = step /\ barrier' = FALSE

Await == at' = at /\ barrier' = TRUE

KeepSlots == UNCHANGED <<slot, slotMay>>

KeepJournal == UNCHANGED <<journal, journalMay>>

ReturnKeepsMem == Goto("idle") /\ UNCHANGED mem

\* The lease is given up with whatever the caller was told.
Return == Goto("idle") /\ mem' = Nothing

Write(phase) == Goto("write") /\ mem' = [mem EXCEPT !.phase = phase]

-----------------------------------------------------------------------------
(***************************************************************************)
(* stage_and_publish.                                                      *)
(***************************************************************************)
Stage(from, to) ==
  /\ at = "idle" /\ from # to
  /\ journal = Nothing
  /\ slot[from].dir # Nothing /\ slot[from].dir.gen < MaxGen
  /\ HasSummary(slot[from].dir, from, slot[from].dir.gen)
  /\ slot[to] = [dir |-> Nothing, staging |-> Nothing]
  /\ mem' = [from |-> from, to |-> to, gen |-> slot[from].dir.gen + 1, phase |-> "Prepared"]
  /\ Goto("write")
  /\ KeepSlots /\ KeepJournal

\* write_atomic_durable on the journal: the rename, then the sync of its directory.
WriteJournal ==
  /\ at = "write" /\ ~barrier
  /\ ChangeJournal(mem)
  /\ Await /\ KeepSlots /\ UNCHANGED mem

JournalWritten ==
  /\ at = "write" /\ barrier
  /\ SyncJournal /\ KeepSlots
  /\ UNCHANGED mem
  /\ Goto(CASE mem.phase = "Prepared" -> "copy"
            [] mem.phase = "Staged" -> "publish"
            [] mem.phase = "TargetPublished" -> "held"
            [] mem.phase = "Ready" -> "commit"
            [] OTHER -> "terminal")

\* copy_directory and rewrite_staged_summary, in any order of the files.
CopySome ==
  /\ at = "copy" /\ ~barrier
  /\ \E s \in {"torn", "headless"} :
       ChangeSlot(mem.to, [slot[mem.to] EXCEPT
         !.staging = [state |-> s, cwd |-> mem.from, gen |-> mem.gen - 1]])
  /\ KeepJournal /\ UNCHANGED <<at, barrier, mem>>

CopyRest ==
  /\ at = "copy" /\ ~barrier
  /\ ChangeSlot(mem.to, [slot[mem.to] EXCEPT
       !.staging = [state |-> "whole", cwd |-> mem.to, gen |-> mem.gen]])
  /\ Await /\ KeepJournal /\ UNCHANGED mem

Copied ==
  /\ at = "copy" /\ barrier
  /\ SyncSlot(mem.to) /\ KeepJournal
  /\ Write("Staged")

\* rename_no_replace of the staging directory onto the target.
Publish ==
  /\ at = "publish" /\ ~barrier
  /\ slot[mem.to].dir = Nothing
  /\ ChangeSlot(mem.to, [dir |-> slot[mem.to].staging, staging |-> Nothing])
  /\ Await /\ KeepJournal /\ UNCHANGED mem

PublishedUnsynced ==
  /\ at = "publish" /\ barrier
  /\ KeepSlots /\ KeepJournal
  /\ Write("TargetPublished")

Published ==
  /\ at = "publish" /\ barrier
  /\ SyncSlot(mem.to) /\ KeepJournal
  /\ Write("TargetPublished")

-----------------------------------------------------------------------------
(***************************************************************************)
(* mark_ready_and_commit, rollback, and recover: three ways into           *)
(* finish_commit and finish_rollback.                                      *)
(***************************************************************************)
MarkReady ==
  /\ at = "held"
  /\ IF ValidTarget(mem) THEN Write("Ready") ELSE Return
  /\ KeepJournal /\ KeepSlots

Rollback ==
  /\ at = "held"
  /\ Goto("rollback")
  /\ KeepJournal /\ KeepSlots /\ UNCHANGED mem

RecoverPrefersSource ==
  /\ at = "idle" /\ journal # Nothing
  /\ SyncJournal
  /\ IF ValidSource(journal) /\ journal.phase = "Ready"
     THEN mem' = [journal EXCEPT !.phase = "RolledBack"] /\ Goto("write")
     ELSE mem' = journal /\ Goto(IF TargetAuthority(journal.phase) THEN "commit" ELSE "rollback")
  /\ KeepSlots

\* recover: by the phase on disk, after a sync of the journal's directory.
Recover ==
  /\ at = "idle" /\ journal # Nothing
  /\ SyncJournal
  /\ mem' = journal
  /\ Goto(IF TargetAuthority(journal.phase) THEN "commit" ELSE "rollback")
  /\ KeepSlots

\* The head of finish_commit: sync the journal's directory, then check the target.
StartCommit ==
  /\ at = "commit"
  /\ SyncJournal
  /\ IF ValidTarget(mem) THEN Goto("dropSource") /\ UNCHANGED mem ELSE Return
  /\ KeepSlots

\* The head of finish_rollback.
StartRollback ==
  /\ at = "rollback"
  /\ IF ValidSource(mem) THEN Goto("dropStaging") /\ UNCHANGED mem ELSE Return
  /\ KeepJournal /\ KeepSlots

\* finish_rollback checks a target that exists before it removes it.
CheckTarget ==
  /\ at = "checkTarget"
  /\ IF slot[mem.to].dir = Nothing \/ ValidTarget(mem)
     THEN Goto("dropTarget") /\ UNCHANGED mem
     ELSE Return
  /\ KeepJournal /\ KeepSlots

\* Where the directory removed at a step is.
Place == IF at = "dropSource" THEN mem.from ELSE mem.to

With(d) == IF at \in {"dropSource", "dropTarget"}
           THEN [slot[Place] EXCEPT !.dir = d]
           ELSE [slot[Place] EXCEPT !.staging = d]

Victim == IF at \in {"dropSource", "dropTarget"} THEN slot[Place].dir ELSE slot[Place].staging

Dropping == at \in {"dropSource", "dropLeftover", "dropStaging", "dropTarget"}

\* remove_dir_all removes the files one by one, in no particular order.
Erode ==
  /\ Dropping /\ ~barrier /\ Victim # Nothing
  /\ \E s \in {"torn", "headless"} :
       /\ Victim.state = "headless" => s = "headless"
       /\ ChangeSlot(Place, With([Victim EXCEPT !.state = s]))
  /\ KeepJournal /\ UNCHANGED <<at, barrier, mem>>

Remove ==
  /\ Dropping /\ ~barrier
  /\ ChangeSlot(Place, With(Nothing))
  /\ Await /\ KeepJournal /\ UNCHANGED mem

FinishedOnce(phase) == IF mem.phase = phase THEN Return ELSE Write(phase)

Finished(phase) ==
  IF mem.phase = phase THEN Goto("terminal") /\ UNCHANGED mem ELSE Write(phase)

Removed ==
  /\ Dropping /\ barrier
  /\ SyncSlot(Place) /\ KeepJournal
  /\ CASE at = "dropSource"   -> Goto("dropLeftover") /\ UNCHANGED mem
       [] at = "dropLeftover" -> Finished("Committed")
       [] at = "dropStaging"  -> Goto("checkTarget") /\ UNCHANGED mem
       [] at = "dropTarget"   -> Finished("RolledBack")

\* finalize_terminal.
Finalize ==
  /\ at = "terminal" /\ ~barrier
  /\ IF journal = mem THEN ChangeJournal(Nothing) /\ Await /\ UNCHANGED mem
     ELSE Return /\ KeepJournal
  /\ KeepSlots

Finalized ==
  /\ at = "terminal" /\ barrier
  /\ SyncJournal /\ Return /\ KeepSlots

-----------------------------------------------------------------------------
(***************************************************************************)
(* Failures.  An I/O error before a change, an error of a barrier, the     *)
(* death of the process, a power loss.                                     *)
(***************************************************************************)
ChangeFails ==
  /\ ~barrier /\ (Dropping \/ at \in {"write", "copy", "publish", "commit", "terminal"})
  /\ CASE at = "write" /\ mem.phase = "Staged" ->
            Goto("rollback") /\ mem' = [mem EXCEPT !.phase = "Prepared"]
       [] at \in {"copy", "publish"} -> Goto("rollback") /\ UNCHANGED mem
       [] OTHER -> Return
  /\ KeepJournal /\ KeepSlots

BarrierFails ==
  /\ barrier
  /\ IF at = "copy" THEN Goto("rollback") /\ UNCHANGED mem ELSE Return
  /\ KeepJournal /\ KeepSlots

Crash == at # "idle" /\ Return /\ KeepJournal /\ KeepSlots

PowerLoss ==
  /\ \E j \in journalMay, s \in [Cwds -> UNION {slotMay[c] : c \in Cwds}] :
       /\ \A c \in Cwds : s[c] \in slotMay[c]
       /\ journal' = j /\ journalMay' = {j}
       /\ slot' = s /\ slotMay' = [c \in Cwds |-> {s[c]}]
  /\ Return
  /\ view' = {}

-----------------------------------------------------------------------------
(***************************************************************************)
(* RelocationView: the journals are loaded first, the directories after.   *)
(* A view that has loaded the journals is a singleton of what it saw.      *)
(***************************************************************************)
LoadJournals ==
  /\ view = {} /\ view' = {journal}
  /\ KeepJournal /\ KeepSlots /\ UNCHANGED <<at, barrier, mem, calm>>

\* load_candidates and select.  A directory without a summary is no candidate.
Persisted == {c \in Cwds : slot[c].dir # Nothing /\ slot[c].dir.state # "headless"}

SelectedByPresence(seen) ==
  IF seen # Nothing /\ ValidTarget(seen) THEN {seen.to}
  ELSE IF seen # Nothing /\ ValidSource(seen) THEN {seen.from}
  ELSE IF seen = Nothing /\ Cardinality(Persisted) = 1 THEN Persisted ELSE {}

Selected(seen) ==
  IF seen # Nothing
  THEN LET c == AuthoritativeCwd(seen) IN
       IF IF TargetAuthority(seen.phase) THEN ValidTarget(seen) ELSE ValidSource(seen)
       THEN {c} ELSE {}
  ELSE IF Cardinality(Persisted) = 1 THEN Persisted ELSE {}

SelectDir ==
  /\ view # {} /\ view' = {}
  /\ KeepJournal /\ KeepSlots /\ UNCHANGED <<at, barrier, mem, calm>>

-----------------------------------------------------------------------------
Init ==
  /\ journal = Nothing /\ journalMay = {Nothing}
  /\ \E c \in Cwds :
       slot = [x \in Cwds |->
                [dir |-> IF x = c THEN [state |-> "whole", cwd |-> c, gen |-> 0] ELSE Nothing,
                 staging |-> Nothing]]
  /\ slotMay = [x \in Cwds |-> {slot[x]}]
  /\ at = "idle" /\ barrier = FALSE /\ mem = Nothing
  /\ view = {} /\ calm = FALSE

HolderStep ==
  \/ WriteJournal \/ JournalWritten \/ CopyRest \/ Copied \/ Publish \/ Published
  \/ MarkReady \/ Rollback \/ StartCommit \/ StartRollback \/ CheckTarget
  \/ Remove \/ Removed \/ Finalize \/ Finalized

Settle == ~calm /\ calm' = TRUE /\ KeepJournal /\ KeepSlots /\ UNCHANGED <<at, barrier, mem, view>>

Next ==
  \/ /\ \/ HolderStep
        \/ Recover
        \/ CopySome
        \/ Erode
        \/ \E from, to \in Cwds : Stage(from, to)
        \/ ~calm /\ (ChangeFails \/ BarrierFails \/ Crash)
     /\ UNCHANGED <<view, calm>>
  \/ ~calm /\ PowerLoss /\ UNCHANGED calm
  \/ LoadJournals
  \/ SelectDir
  \/ Settle

Spec == Init /\ [][Next]_vars

\* The caller of stage_and_publish decides, and every listing of sessions
\* starts with recover_all.
Fairness ==
  /\ WF_vars(HolderStep /\ UNCHANGED <<view, calm>>)
  /\ WF_vars(Recover /\ UNCHANGED <<view, calm>>)

FairSpec == Spec /\ Fairness

-----------------------------------------------------------------------------
(***************************************************************************)
(* Properties.                                                             *)
(***************************************************************************)

\* The files, the journal and the holder have their types.
TypeOK ==
  /\ journal \in Journals \cup {Nothing} /\ journalMay \subseteq Journals \cup {Nothing}
  /\ slot \in [Cwds -> Slots] /\ \A c \in Cwds : slotMay[c] \subseteq Slots
  /\ at \in Steps /\ barrier \in BOOLEAN /\ calm \in BOOLEAN
  /\ mem \in Journals \cup {Nothing} /\ (mem = Nothing <=> at = "idle")
  /\ view \subseteq Journals \cup {Nothing}

\* The storage of cwd c holds the complete session of generation g and nothing else.
Whole(s, c, g) == s.dir = [state |-> "whole", cwd |-> c, gen |-> g]

Empty(s) == s = [dir |-> Nothing, staging |-> Nothing]

\* What a power loss leaves is a session that recovery can finish moving.
Sound(j, s) ==
  IF j = Nothing
  THEN \E c \in Cwds :
         /\ s[c].dir # Nothing /\ Whole(s[c], c, s[c].dir.gen)
         /\ s[c].staging = Nothing
         /\ \A d \in Cwds \ {c} : Empty(s[d])
  ELSE LET c == AuthoritativeCwd(j) IN
       Whole(s[c], c, IF TargetAuthority(j.phase) THEN j.gen ELSE j.gen - 1)

\* Whenever the power fails, the cwd that the surviving journal gives authority
\* holds the complete session; without a journal exactly one cwd holds it and
\* no staging directory is left (the phases and barriers of stage_and_publish,
\* finish_commit, finish_rollback and finalize_terminal).
NeverLost ==
  \A j \in journalMay, s \in [Cwds -> UNION {slotMay[c] : c \in Cwds}] :
    (\A c \in Cwds : s[c] \in slotMay[c]) => Sound(j, s)

\* RelocationView never sends a reader to an unfinished copy: what it selects
\* is complete, unless it is a source whose removal a commit has begun since
\* the reader loaded the journals.
ViewServesWhole ==
  \A seen \in view : \A c \in Selected(seen) :
    \/ slot[c].dir.state = "whole"
    \/ journal # Nothing /\ TargetAuthority(journal.phase) /\ c = journal.from

\* The home of the session, as decided for good: a journal that may be lost
\* decides nothing.
HomeOf(journals, slots) ==
  LET bySource == {j.from : j \in {x \in journals \ {Nothing} : ~TargetAuthority(x.phase)}}
      byTarget == {j.to : j \in {x \in journals \ {Nothing} : TargetAuthority(x.phase)}}
      present  == {c \in Cwds : slots[c].dir # Nothing}
  IN CHOOSE c \in Cwds :
       c \in IF bySource # {} THEN bySource ELSE IF byTarget # {} THEN byTarget ELSE present

Home == HomeOf(journalMay, slot)

Abstract == INSTANCE SessionMove WITH home <- Home, gen <- slot[Home].dir.gen

\* Whatever fails and when, the relocation is an atomic move: the session leaves
\* its home once per generation, at the barrier that makes Ready durable, and a
\* rollback or a lost journal never undoes a move.
AtomicMove == Abstract!Spec

\* An interrupted removal of the target that took its summary with it.
Headless ==
  /\ journal # Nothing /\ ~TargetAuthority(journal.phase)
  /\ slot[journal.to].dir # Nothing /\ slot[journal.to].dir.state = "headless"

\* Once failures stop, recovery ends every relocation and removes its journal,
\* unless a rollback was interrupted while it removed the target.
RecoveryFinishes == (calm /\ ~Headless) ~> (journal = Nothing)

\* recover_all finalizes a relocation found in any phase.
RecoverAllFinalizes == calm ~> (journal = Nothing)

-----------------------------------------------------------------------------
=============================================================================
