--------------------------- MODULE InstallTransaction ---------------------------
(* The installation of built files at their destinations, executeInstall    *)
(* (src/install.ts): all files are staged beside their destinations, each   *)
(* destination is then moved to a backup and its stage moved in; an error   *)
(* undoes the items from the last to the first, success removes the backups.*)
EXTENDS PublishedFiles

VARIABLES
    ipc, at,        \* what the installation does next, and to which item
    seenBuild,      \* the build directory's snapshot in the plan
    expected,       \* the destinations' snapshots in the plan
    dest,           \* the destinations
    istage, ibackup,                \* their stage and backup files
    staged,         \* how many items were staged
    installed, ibackupCreated,      \* the flags of each item
    partial, cleanupFailed          \* the flags of these names

files == <<dest, istage, ibackup>>
iplan == <<seenBuild, expected>>
iflags == <<installed, ibackupCreated, partial, cleanupFailed>>
install == <<ipc, at, iplan, files, staged, iflags>>

Prior(k) == IF k \in HasPrior THEN "prior" ELSE None

InstallInit ==
    /\ ipc = "new" /\ at = 1
    /\ seenBuild = None
    /\ expected = [k \in Destinations |-> None]
    /\ dest = [k \in Destinations |-> Prior(k)]
    /\ istage = [k \in Destinations |-> None]
    /\ ibackup = [k \in Destinations |-> None]
    /\ staged = 0
    /\ installed = [k \in Destinations |-> FALSE]
    /\ ibackupCreated = [k \in Destinations |-> FALSE]
    /\ partial = FALSE /\ cleanupFailed = FALSE

InstallOutcomes == {"installed", "cleanupFailed", "rolledBack", "partial", "refused"}

IGoto(here, there) == ipc = here /\ ipc' = there

\* The build and every destination are as the plan saw them.
AsPlanned == target = seenBuild /\ dest = expected

\* The catch begins with the last item that was staged.
Undoing(here) ==
    /\ IGoto(here, IF staged = 0 THEN "throw" ELSE "undo")
    /\ at' = staged
    /\ UNCHANGED <<iplan, staged, iflags>>

-----------------------------------------------------------------------------
\* planInstall: the build must be there and be the current one.
PlanInstall ==
    /\ IGoto("new", "planned")
    /\ target \in WholeBuilds
    /\ seenBuild' = target /\ expected' = dest
    /\ UNCHANGED <<at, files, staged, iflags, lock, world>>

StartInstall ==
    /\ IGoto("planned", "check") /\ Acquire(Installer)
    /\ UNCHANGED <<at, iplan, files, staged, iflags, world>>

InstallLocked ==
    /\ IGoto("planned", "refused") /\ Locked(Installer)
    /\ UNCHANGED <<at, iplan, files, staged, iflags, world>>

CheckInstall ==
    /\ IGoto("check", IF Items = 0 THEN "recheck" ELSE "stage") /\ AsPlanned
    /\ UNCHANGED <<at, iplan, files, staged, iflags, lock, world>>

RefuseInstall ==
    /\ IGoto("check", "refused")
    /\ \/ Fault /\ UNCHANGED late
       \/ ~AsPlanned /\ UNCHANGED world
    /\ Unlock(Installer)
    /\ UNCHANGED <<at, iplan, files, staged, iflags>>

StageItem ==
    /\ IGoto("stage", IF at = Items THEN "recheck" ELSE "stage")
    /\ istage' = [istage EXCEPT ![at] = "new"]
    /\ staged' = at /\ at' = IF at = Items THEN 1 ELSE at + 1
    /\ UNCHANGED <<iplan, dest, ibackup, iflags, lock, world>>

\* A stage that could not be written whole is not among the staged: the
\* rollback leaves it behind.
StagingFails ==
    /\ Undoing("stage")
    /\ istage' \in {istage, [istage EXCEPT ![at] = "part"]}
    /\ Fault /\ UNCHANGED <<late, dest, ibackup, lock>>

RecheckInstall ==
    /\ IGoto("recheck", IF Items = 0 THEN "clean" ELSE "verify") /\ AsPlanned
    /\ UNCHANGED <<at, iplan, files, staged, iflags, lock, world>>

\* Mutant: the item is replaced whatever became of its destination.
VerifyItem_Unchecked ==
    /\ IGoto("verify", IF expected[at] = None THEN "promote" ELSE "backup")
    /\ UNCHANGED <<at, iplan, files, staged, iflags, lock, world>>

VerifyItem ==
    /\ IGoto("verify", IF expected[at] = None THEN "promote" ELSE "backup")
    /\ dest[at] = expected[at]
    /\ UNCHANGED <<at, iplan, files, staged, iflags, lock, world>>

\* Mutant: the prior file is overwritten in place.
BackUpItem_Skipped ==
    /\ IGoto("backup", "promote")
    /\ UNCHANGED <<at, iplan, files, staged, iflags, lock, world>>

BackUpItem ==
    /\ IGoto("backup", "promote")
    /\ ibackup' = [ibackup EXCEPT ![at] = dest[at]]
    /\ dest' = [dest EXCEPT ![at] = None]
    /\ ibackupCreated' = [ibackupCreated EXCEPT ![at] = TRUE]
    /\ UNCHANGED <<at, iplan, istage, staged, installed, partial, cleanupFailed, lock, world>>

\* A file is renamed onto whatever is at its destination by now.
PromoteItem ==
    /\ IGoto("promote", "sync")
    /\ dest' = [dest EXCEPT ![at] = istage[at]]
    /\ istage' = [istage EXCEPT ![at] = None]
    /\ installed' = [installed EXCEPT ![at] = TRUE]
    /\ UNCHANGED <<at, iplan, ibackup, staged, ibackupCreated, partial, cleanupFailed, lock, world>>

SyncItem ==
    /\ IGoto("sync", IF at = Items THEN "clean" ELSE "verify")
    /\ at' = IF at = Items THEN 1 ELSE at + 1
    /\ UNCHANGED <<iplan, files, staged, iflags, lock, world>>

DestinationChanged ==
    /\ \/ Undoing("recheck") /\ ~AsPlanned
       \/ Undoing("verify") /\ dest[at] # expected[at]
    /\ UNCHANGED <<files, lock, world>>

InstallFails ==
    /\ \E here \in {"recheck", "verify", "backup", "promote", "sync"} : Undoing(here)
    /\ Fault /\ UNCHANGED <<late, files, lock>>

-----------------------------------------------------------------------------
(* The catch: an item whose undoing fails is left as it is, the others are  *)
(* still undone.                                                            *)

Below == /\ at' = at - 1
         /\ ipc' = IF at = 1 THEN "throw" ELSE "undo"

UndoItem ==
    /\ IGoto("undo", "restore")
    /\ dest' = IF installed[at] THEN [dest EXCEPT ![at] = None] ELSE dest
    /\ UNCHANGED <<at, iplan, istage, ibackup, staged, iflags, lock, world>>

RestoreItem ==
    /\ IGoto("restore", "unstage")
    /\ IF ibackupCreated[at]
       THEN /\ dest' = [dest EXCEPT ![at] = ibackup[at]]
            /\ ibackup' = [ibackup EXCEPT ![at] = None]
       ELSE UNCHANGED <<dest, ibackup>>
    /\ UNCHANGED <<at, iplan, istage, staged, iflags, lock, world>>

UnstageItem ==
    /\ ipc = "unstage" /\ Below
    /\ istage' = [istage EXCEPT ![at] = None]
    /\ UNCHANGED <<iplan, dest, ibackup, staged, iflags, lock, world>>

\* Mutant: an item that could not be undone is forgotten.
UndoFails_Forgotten ==
    /\ ipc \in {"undo", "restore", "unstage"} /\ Below
    /\ Fault /\ UNCHANGED late
    /\ UNCHANGED <<iplan, files, staged, iflags, lock>>

UndoFails ==
    /\ ipc \in {"undo", "restore", "unstage"} /\ Below
    /\ \/ UNCHANGED istage
       \/ ipc = "unstage" /\ istage' = [istage EXCEPT ![at] = None]
    /\ partial' = TRUE
    /\ Fault /\ UNCHANGED late
    /\ UNCHANGED <<iplan, dest, ibackup, staged, installed, ibackupCreated, cleanupFailed, lock>>

EndRollback ==
    /\ IGoto("throw", IF partial THEN "partial" ELSE "rolledBack")
    /\ Unlock(Installer)
    /\ UNCHANGED <<at, iplan, files, staged, iflags, world>>

-----------------------------------------------------------------------------
(* Success: the backups go, one after the other.                            *)

CleanItem ==
    /\ ipc = "clean" /\ at <= Items
    /\ at' = at + 1
    /\ ibackup' = [ibackup EXCEPT ![at] = None]
    /\ ibackupCreated' = [ibackupCreated EXCEPT ![at] = FALSE]
    /\ UNCHANGED <<ipc, iplan, dest, istage, staged, installed, partial, cleanupFailed, lock, world>>

CleaningFails ==
    /\ ipc = "clean" /\ at <= Items /\ ibackupCreated[at]
    /\ at' = at + 1
    /\ \/ UNCHANGED <<ibackup, ibackupCreated>>
       \/ /\ ibackup' = [ibackup EXCEPT ![at] = None]
          /\ ibackupCreated' = [ibackupCreated EXCEPT ![at] = FALSE]
    /\ cleanupFailed' = TRUE
    /\ Fault /\ UNCHANGED late
    /\ UNCHANGED <<ipc, iplan, dest, istage, staged, installed, partial, lock>>

EndInstall ==
    /\ at > Items
    /\ IGoto("clean", IF cleanupFailed THEN "cleanupFailed" ELSE "installed")
    /\ Unlock(Installer)
    /\ UNCHANGED <<at, iplan, files, staged, iflags, world>>

InstallSteps ==
    \/ PlanInstall \/ StartInstall \/ InstallLocked \/ CheckInstall \/ RefuseInstall
    \/ StageItem \/ StagingFails \/ RecheckInstall \/ VerifyItem \/ BackUpItem \/ PromoteItem
    \/ SyncItem \/ DestinationChanged \/ InstallFails
    \/ UndoItem \/ RestoreItem \/ UnstageItem \/ UndoFails \/ EndRollback
    \/ CleanItem \/ CleaningFails \/ EndInstall

\* The destinations past their last look that a rollback may still touch.
Past ==
    {k \in Destinations :
        \/ ipc \in {"backup", "promote", "sync"} /\ k <= at
        \/ ipc = "verify" /\ k < at
        \/ ipc \in {"undo", "restore", "unstage", "throw"} /\ (installed[k] \/ ibackupCreated[k])}

InstallTypeOK ==
    /\ ipc \in {"new", "planned", "check", "stage", "recheck", "verify", "backup", "promote", "sync",
                "undo", "restore", "unstage", "throw", "clean", "killed"} \cup InstallOutcomes
    /\ at \in 0..(Items + 1) /\ staged \in 0..Items
    /\ seenBuild \in WholeBuilds \cup {None}
    /\ \A f \in {expected, dest, ibackup} : f \in [Destinations -> {"prior", "foreign", None, "new"}]
    /\ istage \in [Destinations -> {"new", "part", None}]
    /\ installed \in [Destinations -> BOOLEAN] /\ ibackupCreated \in [Destinations -> BOOLEAN]
    /\ partial \in BOOLEAN /\ cleanupFailed \in BOOLEAN
=============================================================================
