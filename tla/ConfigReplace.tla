--------------------------- MODULE ConfigReplace ---------------------------
(***************************************************************************)
(* How a prepared configuration replaces the file: PrepareDefaults and     *)
(* PrepareReplacement, then ApplyDefaults (internal/config:                *)
(* defaults_plan.go, defaults_apply_identity.go, recovery.go,              *)
(* defaults_rename_linux.go).  A planner is a process that runs setup or   *)
(* reset; meanwhile the operator saves the file under a new inode or in    *)
(* place, removes it, turns it into a symbolic link or moves its directory,*)
(* any call may fail, and the machine may crash.                           *)
(*                                                                         *)
(* Files and directories are numbers that are never used twice: the code   *)
(* compares inode and birth time and keeps the inodes of a plan open, so an*)
(* edit in place is a change it does not see.                              *)
(***************************************************************************)
EXTENDS Integers, Sequences, FiniteSets, SequencesExt, Functions

CONSTANTS Planners,       \* the processes that replace the configuration
          MaxObjects,     \* bound on the files and directories ever made
          MaxPathEdits,   \* bound on what the operator does
          MaxCrashes,     \* bound on the crashes of the machine
          MaxPlans        \* bound on the plans prepared

VARIABLES at,             \* place -> the directory there, 0 when missing
          entry,          \* directory -> name -> the file it names, 0 when none
          file,           \* the files: kind, data and when the operator saved them
          plan,           \* planner -> its plan and how far it has come
          made,           \* how many files and directories have been made
          destroyed,      \* what the planners unlinked, and their plans then
          edits, crashes, plans

replaceVars == <<at, entry, file, plan, made, destroyed, edits, crashes, plans>>

EntryPlaces == {"home", "dotfiles"}
Objects == 1..MaxObjects

(* The name of the configuration; the others are the random names of the   *)
(* temporary files, each the number of its file.                           *)
Config == 0
Names == {Config} \cup Objects

(* The data of a file is "empty", "written", "synced" (on disk), or "torn", *)
(* which is what a crash makes of data that is not on disk.  read and      *)
(* swapped are when the target was read and when the new file took its     *)
(* name, counted in the operator's edits; alone says that no other planner *)
(* was between its exchange and its end while this one prepared or applied.*)
NoPlan == [pc |-> "idle", first |-> <<>>, seen |-> 0, read |-> 0, path |-> <<>>,
           dir |-> 0, temp |-> 0, had |-> FALSE, swapped |-> MaxPathEdits,
           alone |-> TRUE, outcome |-> "none"]

-----------------------------------------------------------------------------
\* The path.

(* captureDefaultsPathState: the directories and the entries along the     *)
(* path, through the link when the entry is one.                           *)
EntryIn(dir, name) == IF dir = 0 THEN 0 ELSE entry[dir][name]
HomeEntry == EntryIn(at["home"], Config)
IsLink(f) == f # 0 /\ file[f].kind = "link"
captureDefaultsPathState ==
    IF IsLink(HomeEntry)
    THEN <<at["home"], HomeEntry, at["dotfiles"],
           EntryIn(at["dotfiles"], Config)>>
    ELSE <<at["home"], HomeEntry>>
ApplyPlace(path) == IF Len(path) = 4 THEN "dotfiles" ELSE "home"
Target(path) == Last(path)
Parent(path) == path[Len(path) - 1]

sameDefaultsPathState(a, b) == a = b
sameDefaultsPathStateExceptTarget(a, b) ==
    Len(a) = Len(b) /\ SubSeq(a, 1, Len(a) - 1) = SubSeq(b, 1, Len(b) - 1)

(* A missing directory may have been made; everything else is unchanged.   *)
validPreparedDefaultsPathTransition(a, b) ==
    /\ Len(a) = Len(b)
    /\ \A i \in 1..Len(a) : a[i] = b[i] \/ (a[i] = 0 /\ i % 2 = 1 /\ b[i] # 0)

At(p, pc) == plan[p].pc = pc
FinishReplace(p, outcome) == plan' = [plan EXCEPT ![p] = [@ EXCEPT !.pc = "done",
                                                            !.outcome = outcome]]
Unlink(dir, name) == entry' = [entry EXCEPT ![dir][name] = 0]
Destroy(p, f) ==
    destroyed' = destroyed \cup {[f |-> f, saved |-> file[f].saved,
                                  inPlace |-> file[f].inPlace, plan |-> plan[p]]}
NewFile(kind, data) == [kind |-> kind, data |-> data, saved |-> 0, inPlace |-> FALSE]
Saved(kind) == [kind |-> kind, data |-> "synced", saved |-> edits + 1, inPlace |-> FALSE]
Replacing == {"displaced", "placed", "committing", "syncing directory", "restoring"}
OtherPlanners(p) == {q \in Planners \ {p} : plan[q].pc \in Replacing}
FileSystem == <<at, entry, file, made, destroyed>>
Bounds == <<edits, crashes, plans>>

-----------------------------------------------------------------------------
\* Preparing.

PrepareCapture(p) ==
    /\ plan[p].pc \in {"idle", "done"}
    /\ plans < MaxPlans
    /\ plans' = plans + 1
    /\ plan' = [plan EXCEPT ![p] = [NoPlan EXCEPT !.pc = "reading",
                                        !.first = captureDefaultsPathState,
                                        !.alone = OtherPlanners(p) = {}]]
    /\ UNCHANGED <<FileSystem, edits, crashes>>

(* The file is read, or the default taken when there is none; the merged   *)
(* text may be refused by the merge or by the strict load.                 *)
PrepareRead(p) ==
    /\ At(p, "reading")
    /\ \/ plan' = [plan EXCEPT ![p] = [@ EXCEPT !.pc = "merged",
                                !.seen = Target(captureDefaultsPathState),
                                !.read = edits]]
       \/ FinishReplace(p, "refused")
    /\ UNCHANGED <<FileSystem, Bounds>>

PrepareRetain(p) ==
    /\ At(p, "merged")
    /\ IF sameDefaultsPathState(plan[p].first, captureDefaultsPathState)
       THEN plan' = [plan EXCEPT ![p] = [@ EXCEPT !.pc = "planned",
                                !.path = captureDefaultsPathState]]
       ELSE FinishReplace(p, "refused")
    /\ UNCHANGED <<FileSystem, Bounds>>

(* Close gives a plan up; it is used by one Apply or one Close.            *)
ClosePlan(p) ==
    /\ At(p, "planned")
    /\ FinishReplace(p, "closed")
    /\ UNCHANGED <<FileSystem, Bounds>>

-----------------------------------------------------------------------------
\* Applying.

Advance(p, pc) == plan' = [plan EXCEPT ![p].pc = pc]

ApplyBegin(p) ==
    /\ At(p, "planned")
    /\ IF sameDefaultsPathState(plan[p].path, captureDefaultsPathState)
       THEN Advance(p, "making") ELSE FinishReplace(p, "refused")
    /\ UNCHANGED <<FileSystem, Bounds>>

ApplyMkdir(p) ==
    /\ At(p, "making")
    /\ Advance(p, "checking")
    /\ LET place == ApplyPlace(plan[p].path)
       IN  IF at[place] # 0 THEN UNCHANGED <<at, made>>
           ELSE /\ made < MaxObjects
                /\ made' = made + 1
                /\ at' = [at EXCEPT ![place] = made + 1]
    /\ UNCHANGED <<entry, file, destroyed, Bounds>>

(* The path after the directories were made is the one to write to.        *)
ApplyCheck(p) ==
    /\ At(p, "checking")
    /\ IF validPreparedDefaultsPathTransition(plan[p].path, captureDefaultsPathState)
       THEN plan' = [plan EXCEPT ![p] = [@ EXCEPT !.pc = "opening",
                                !.path = captureDefaultsPathState]]
       ELSE FinishReplace(p, "refused")
    /\ UNCHANGED <<FileSystem, Bounds>>

openDefaultsApplyDirectory(p) ==
    /\ At(p, "opening")
    /\ LET dir == at[ApplyPlace(plan[p].path)]
       IN  IF dir = Parent(plan[p].path) /\ dir # 0
           THEN plan' = [plan EXCEPT ![p] = [@ EXCEPT !.pc = "creating", !.dir = dir]]
           ELSE FinishReplace(p, "refused")
    /\ UNCHANGED <<FileSystem, Bounds>>

createDefaultsTempFile(p) ==
    /\ At(p, "creating")
    /\ made < MaxObjects
    /\ made' = made + 1
    /\ file' = [file EXCEPT ![made + 1] = NewFile("file", "empty")]
    /\ entry' = [entry EXCEPT ![plan[p].dir][made + 1] = made + 1]
    /\ plan' = [plan EXCEPT ![p] = [@ EXCEPT !.pc = "writing", !.temp = made + 1]]
    /\ UNCHANGED <<at, destroyed, Bounds>>

ApplyWrite(p) ==
    /\ At(p, "writing")
    /\ Advance(p, "syncing")
    /\ file' = [file EXCEPT ![plan[p].temp].data = "written"]
    /\ UNCHANGED <<at, entry, made, destroyed, Bounds>>

ApplySyncSkipped(p) ==
    /\ At(p, "syncing")
    /\ Advance(p, "validating")
    /\ UNCHANGED <<FileSystem, Bounds>>
ApplySync(p) ==
    /\ At(p, "syncing")
    /\ Advance(p, "validating")
    /\ file' = [file EXCEPT ![plan[p].temp].data = "synced"]
    /\ UNCHANGED <<at, entry, made, destroyed, Bounds>>

(* Giving up before the replacement: the temporary file is removed again,  *)
(* and it is not an error of its own when that fails.                      *)
removeTemp(p) ==
    \/ /\ FinishReplace(p, "refused")
       /\ IF plan[p].temp = 0 THEN UNCHANGED entry ELSE Unlink(plan[p].dir, plan[p].temp)
    \/ plan[p].temp # 0 /\ FinishReplace(p, "half") /\ UNCHANGED entry

(* An I/O error up to the replacement, or an exchange the file system      *)
(* refuses.                                                                *)
ApplyFails(p) ==
    /\ plan[p].pc \in {"making", "checking", "opening", "creating", "writing", "syncing",
                       "validating", "swapping"}
    /\ removeTemp(p)
    /\ UNCHANGED <<at, file, made, destroyed, Bounds>>

ApplyValidate(p) ==
    /\ At(p, "validating")
    /\ IF sameDefaultsPathState(plan[p].path, captureDefaultsPathState)
       THEN Advance(p, "swapping") /\ UNCHANGED entry
       ELSE removeTemp(p)
    /\ UNCHANGED <<at, file, made, destroyed, Bounds>>

Exchanged(dir, name) ==
    [entry EXCEPT ![dir][Config] = entry[dir][name], ![dir][name] = entry[dir][Config]]

(* beginDefaultsTargetReplacement: a target that was missing is taken only *)
(* if it still is, one that was there is exchanged with the new file.      *)
ApplySwap(p) ==
    LET dir == plan[p].dir
        had == Target(plan[p].path) # 0
    IN  /\ At(p, "swapping")
        /\ IF had = (entry[dir][Config] # 0)
           THEN /\ entry' = Exchanged(dir, plan[p].temp)
                /\ plan' = [q \in Planners |->
                       IF q = p
                       THEN [plan[p] EXCEPT !.pc = IF had THEN "displaced" ELSE "placed",
                                            !.had = had, !.swapped = edits]
                       ELSE IF plan[q].pc \in {"idle", "done"} THEN plan[q]
                       ELSE [plan[q] EXCEPT !.alone = FALSE]]
           ELSE removeTemp(p)
        /\ UNCHANGED <<at, file, made, destroyed, Bounds>>

(* What the exchange displaced must be the file the plan was made from; it *)
(* is put back also when it cannot be opened or inspected.                 *)
ApplyInspectSkipped(p) ==
    /\ At(p, "displaced")
    /\ Advance(p, "placed")
    /\ UNCHANGED <<FileSystem, Bounds>>
ApplyInspect(p) ==
    /\ At(p, "displaced")
    /\ \/ /\ entry[plan[p].dir][plan[p].temp] = Target(plan[p].path)
          /\ Advance(p, "placed")
       \/ Advance(p, "restoring")
    /\ UNCHANGED <<FileSystem, Bounds>>

(* Back out: exchange again and remove what is then under the temporary    *)
(* name.  Either may fail, the exchange always when the target has gone.   *)
BackOut(p) ==
    LET dir == plan[p].dir
    IN  \/ FinishReplace(p, "half") /\ UNCHANGED <<entry, destroyed>>
        \/ /\ entry[dir][Config] # 0
           /\ \/ /\ entry' = [Exchanged(dir, plan[p].temp) EXCEPT ![dir][plan[p].temp] = 0]
                 /\ Destroy(p, entry[dir][Config])
                 /\ FinishReplace(p, "refused")
              \/ /\ entry' = Exchanged(dir, plan[p].temp)
                 /\ FinishReplace(p, "half") /\ UNCHANGED destroyed

ApplyRestore(p) ==
    /\ At(p, "restoring")
    /\ BackOut(p)
    /\ UNCHANGED <<at, file, made, Bounds>>

(* rollback: a target that was not there before is unlinked.               *)
RollbackOf(p) ==
    LET dir == plan[p].dir
    IN  IF plan[p].had THEN BackOut(p)
        ELSE \/ /\ entry[dir][Config] # 0
                /\ FinishReplace(p, "refused")
                /\ Unlink(dir, Config)
                /\ Destroy(p, entry[dir][Config])
             \/ FinishReplace(p, "half") /\ UNCHANGED <<entry, destroyed>>
(* validateDefaultsApplyParents: the way to the target must be the same,   *)
(* and must be read without an error.                                      *)
ApplyVerify(p) ==
    /\ At(p, "placed")
    /\ \/ /\ sameDefaultsPathStateExceptTarget(plan[p].path, captureDefaultsPathState)
          /\ Advance(p, "committing") /\ UNCHANGED <<entry, destroyed>>
       \/ RollbackOf(p)
    /\ UNCHANGED <<at, file, made, Bounds>>

(* commit removes the displaced file, if there was one; when that fails the *)
(* new file stays, with an error.                                          *)
ApplyCommit(p) ==
    /\ At(p, "committing")
    /\ \/ ~plan[p].had /\ Advance(p, "syncing directory") /\ UNCHANGED <<entry, destroyed>>
       \/ /\ plan[p].had
          /\ Advance(p, "syncing directory")
          /\ Unlink(plan[p].dir, plan[p].temp)
          /\ Destroy(p, entry[plan[p].dir][plan[p].temp])
       \/ plan[p].had /\ FinishReplace(p, "half") /\ UNCHANGED <<entry, destroyed>>
    /\ UNCHANGED <<at, file, made, Bounds>>

(* The new file stays also when the directory cannot be synchronized.      *)
ApplySyncDirectory(p) ==
    /\ At(p, "syncing directory")
    /\ \E outcome \in {"applied", "unsynced"} : FinishReplace(p, outcome)
    /\ UNCHANGED <<FileSystem, Bounds>>

-----------------------------------------------------------------------------
\* The operator and the machine.

Edit == edits < MaxPathEdits /\ edits' = edits + 1
Operator == UNCHANGED <<plan, destroyed, crashes, plans>>
TargetDir == at[ApplyPlace(captureDefaultsPathState)]

(* An editor saves by renaming a new file over the one it read.            *)
OperatorSaves ==
    /\ Edit /\ made < MaxObjects /\ TargetDir # 0
    /\ made' = made + 1
    /\ file' = [file EXCEPT ![made + 1] = Saved("file")]
    /\ entry' = [entry EXCEPT ![TargetDir][Config] = made + 1]
    /\ Operator /\ UNCHANGED at

(* Another editor, or a shell, writes into the file that is there.         *)
OperatorWrites ==
    LET f == Target(captureDefaultsPathState)
    IN  /\ Edit /\ f # 0 /\ file[f].kind = "file"
        /\ file' = [file EXCEPT ![f].saved = edits + 1, ![f].inPlace = TRUE]
        /\ Operator /\ UNCHANGED <<at, entry, made>>

OperatorRemoves ==
    /\ Edit /\ TargetDir # 0
    /\ Unlink(TargetDir, Config)
    /\ Operator /\ UNCHANGED <<at, file, made>>

OperatorLinks ==
    /\ Edit /\ made < MaxObjects /\ at["home"] # 0
    /\ made' = made + 1
    /\ file' = [file EXCEPT ![made + 1] = Saved("link")]
    /\ entry' = [entry EXCEPT ![at["home"]][Config] = made + 1]
    /\ Operator /\ UNCHANGED at

(* Another directory, empty, takes the place of the one that is moved.     *)
OperatorMoves(place) ==
    /\ Edit /\ made < MaxObjects
    /\ made' = made + 1
    /\ at' = [at EXCEPT ![place] = made + 1]
    /\ Operator /\ UNCHANGED <<entry, file>>

CrashMachine ==
    /\ crashes < MaxCrashes
    /\ crashes' = crashes + 1
    /\ file' = [f \in Objects |-> IF file[f].data \in {"empty", "written"}
                                  THEN [file[f] EXCEPT !.data = "torn"] ELSE file[f]]
    /\ plan' = [p \in Planners |-> IF plan[p].pc \in {"idle", "done"} THEN plan[p]
                                   ELSE [plan[p] EXCEPT !.pc = "done",
                                                        !.outcome = "crashed"]]
    /\ UNCHANGED <<at, entry, made, destroyed, edits, plans>>

-----------------------------------------------------------------------------
(* The configuration is a file of the home directory, a link to one of the *)
(* dotfiles directory (which may be broken), or there is none yet.         *)
FirstPaths ==
    {<<0, 0, 0, 0>>, <<1, 0, 0, 0>>, <<1, 2, 0, 0>>, <<1, 3, 4, 2>>, <<1, 3, 0, 0>>}
ReplaceInit ==
    /\ \E s \in FirstPaths :
          /\ at = [place \in EntryPlaces |-> IF place = "home" THEN s[1] ELSE s[3]]
          /\ entry = [d \in Objects |-> [n \in Names |->
                         IF n = Config /\ d = s[1] THEN s[2]
                         ELSE IF n = Config /\ d = s[3] THEN s[4] ELSE 0]]
    /\ file = [f \in Objects |-> NewFile(IF f = 3 THEN "link" ELSE "file", "synced")]
    /\ made = 4
    /\ plan = [p \in Planners |-> NoPlan]
    /\ destroyed = {}
    /\ edits = 0 /\ crashes = 0 /\ plans = 0

ReplaceNext ==
    \/ \E p \in Planners :
          \/ PrepareCapture(p) \/ PrepareRead(p) \/ PrepareRetain(p) \/ ClosePlan(p)
          \/ ApplyBegin(p) \/ ApplyMkdir(p) \/ ApplyCheck(p)
          \/ openDefaultsApplyDirectory(p) \/ createDefaultsTempFile(p)
          \/ ApplyWrite(p) \/ ApplySync(p) \/ ApplyFails(p) \/ ApplyValidate(p)
          \/ ApplySwap(p) \/ ApplyInspect(p) \/ ApplyRestore(p)
          \/ ApplyVerify(p) \/ ApplyCommit(p) \/ ApplySyncDirectory(p)
    \/ OperatorSaves \/ OperatorWrites \/ OperatorRemoves \/ OperatorLinks
    \/ \E place \in EntryPlaces : OperatorMoves(place)
    \/ CrashMachine

ReplaceSpec == ReplaceInit /\ [][ReplaceNext]_replaceVars

-----------------------------------------------------------------------------
Named(name) == {f \in Objects : \E d \in Objects : entry[d][name] = f}

(* Whatever the moment of a crash, the configuration name is never a file  *)
(* whose bytes are not all on disk: the new file is synchronized before it *)
(* takes the name (ApplyDefaults).                                         *)
TargetWhole == \A f \in Named(Config) : file[f].data = "synced"

(* A planner destroys nothing that the operator saved and it has not read, *)
(* but in two windows that its checks leave open: a file saved after its   *)
(* own took the name, and before it backs out, and an edit in place of the *)
(* file it read, which keeps the identity that the checks compare.  Two    *)
(* planners at once may read or undo each other's exchange: then nothing is*)
(* claimed.                                                                *)
OnlyReadFilesDestroyed ==
    \A gone \in destroyed :
        gone.plan.alone =>
            \/ gone.f = gone.plan.temp
            \/ gone.f = gone.plan.seen /\ (gone.saved <= gone.plan.read \/ gone.inPlace)
            \/ gone.saved > gone.plan.swapped

(* A planner that refuses leaves nothing of its own at the path and no     *)
(* temporary file behind.  When a call failed on the way back or in the    *)
(* clean-up, its error does not say which file has the name, but the one   *)
(* that was displaced is still there, under the name or the temporary one. *)
RefusalLeavesNothing ==
    \A p \in Planners : At(p, "done") /\ plan[p].temp # 0 /\ plan[p].alone =>
        /\ plan[p].outcome = "refused" =>
              /\ plan[p].temp \notin Named(Config)
              /\ entry[plan[p].dir][plan[p].temp] = 0
        /\ plan[p].outcome = "half" /\ plan[p].had =>
              /\ entry[plan[p].dir][plan[p].temp] # 0
              /\ ~\E gone \in destroyed : gone.plan.temp = plan[p].temp

(* Whoever else edits or links the paths, and wherever the process dies, a   *)
(* replacement is whole or did not happen, and destroys nothing unread but   *)
(* in the windows named above.                                               *)
(* (defaults_plan.go: Apply; defaults_rename_linux.go)                       *)
ReplaceSafe == TargetWhole /\ OnlyReadFilesDestroyed /\ RefusalLeavesNothing
=============================================================================
