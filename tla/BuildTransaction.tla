---------------------------- MODULE BuildTransaction ----------------------------
(* The replacement of the build directory, executeBuild (src/build.ts): the *)
(* new tree is staged beside it, the old one moved to a backup, the stage   *)
(* moved in and the backup removed; an error undoes what the flags record.  *)
EXTENDS PublishedFiles

VARIABLES
    bpc,            \* what each build does next
    planned,        \* the target's snapshot in each plan
    stage,          \* stage directories
    backup,         \* backup directories
    backupCreated, promoted, rollbackFailed     \* the flags of these names

flags == <<backupCreated, promoted, rollbackFailed>>
build == <<bpc, planned, stage, backup, flags>>

BuildInit ==
    /\ bpc = [b \in Builds |-> "new"]
    /\ planned = [b \in Builds |-> None]
    /\ stage = [b \in Builds |-> None]
    /\ backup = [b \in Builds |-> None]
    /\ backupCreated = [b \in Builds |-> FALSE]
    /\ promoted = [b \in Builds |-> FALSE]
    /\ rollbackFailed = [b \in Builds |-> FALSE]

Outcomes == {"built", "failed", "rollbackFailed", "refused"}
At(b, here) == bpc[b] = here
Goto(b, there) == bpc' = [bpc EXCEPT ![b] = there]

\* A step from one await to the next that touches no flag.
Moves(b, here, there) == At(b, here) /\ Goto(b, there) /\ UNCHANGED <<planned, flags>>

\* An error, thrown by a failing call or by a check: the catch begins.
Throws(b, here) == Moves(b, here, "undo") /\ UNCHANGED <<stage, backup, lock, target>>

-----------------------------------------------------------------------------
\* planBuild: only a directory with this project's receipt, or none.
PlanBuild(b) ==
    /\ At(b, "new") /\ target # "foreign"
    /\ planned' = [planned EXCEPT ![b] = target]
    /\ Goto(b, "planned")
    /\ UNCHANGED <<stage, backup, flags, lock, target, world>>

StartBuild(b) ==
    /\ Moves(b, "planned", "check")
    /\ Acquire(b)
    /\ UNCHANGED <<stage, backup, target, world>>

BuildLocked(b) ==
    /\ Moves(b, "planned", "refused")
    /\ Locked(b)
    /\ UNCHANGED <<stage, backup, target, world>>

\* The canonical tree and the target are compared with the plan's before any
\* file is written ...
CheckBuild(b) ==
    /\ Moves(b, "check", "stage")
    /\ target = planned[b]
    /\ UNCHANGED <<stage, backup, lock, target, world>>

\* ... and what fails there leaves nothing to undo.
RefuseBuild(b) ==
    /\ Moves(b, "check", "refused")
    /\ \/ Fault /\ UNCHANGED late
       \/ target # planned[b] /\ UNCHANGED world
    /\ Unlock(b)
    /\ UNCHANGED <<stage, backup, target>>

StageBuild(b) ==
    /\ At(b, "stage")
    /\ \/ Goto(b, "recheck") /\ stage' = [stage EXCEPT ![b] = b] /\ UNCHANGED world
       \/ Goto(b, "undo") /\ stage' = [stage EXCEPT ![b] = "part"] /\ Fault /\ UNCHANGED late
    /\ UNCHANGED <<planned, flags, backup, lock, target>>

RecheckBuild(b) ==
    /\ Moves(b, "recheck", IF target = None THEN "reserve" ELSE "backup")
    /\ target = planned[b]
    /\ UNCHANGED <<stage, backup, lock, target, world>>

\* Mutant: the old tree is removed instead of moved away.
BackUpBuild_Removes(b) ==
    /\ At(b, "backup") /\ target # None
    /\ Goto(b, "reserve")
    /\ target' = None
    /\ backupCreated' = [backupCreated EXCEPT ![b] = TRUE]
    /\ UNCHANGED <<planned, stage, promoted, rollbackFailed, backup, lock, world>>

BackUpBuild(b) ==
    /\ At(b, "backup") /\ target # None
    /\ Goto(b, "reserve")
    /\ backup' = [backup EXCEPT ![b] = target] /\ target' = None
    /\ backupCreated' = [backupCreated EXCEPT ![b] = TRUE]
    /\ UNCHANGED <<planned, stage, promoted, rollbackFailed, lock, world>>

ReserveBuild(b) ==
    /\ Moves(b, "reserve", "promote")
    /\ target = None
    /\ UNCHANGED <<stage, backup, lock, target, world>>

\* A directory cannot be renamed onto one that has files.
PromoteBuild(b) ==
    /\ At(b, "promote") /\ target = None
    /\ Goto(b, "syncPromoted")
    /\ target' = stage[b] /\ stage' = [stage EXCEPT ![b] = None]
    /\ promoted' = [promoted EXCEPT ![b] = TRUE]
    /\ UNCHANGED <<planned, backup, backupCreated, rollbackFailed, lock, world>>

SyncPromoted(b) ==
    /\ Moves(b, "syncPromoted", IF backupCreated[b] THEN "removeBackup" ELSE "built")
    /\ IF backupCreated[b] THEN UNCHANGED lock ELSE Unlock(b)
    /\ UNCHANGED <<stage, backup, target, world>>

RemoveBackup(b) ==
    /\ At(b, "removeBackup")
    /\ Goto(b, "syncRemoved")
    /\ backup' = [backup EXCEPT ![b] = None]
    /\ backupCreated' = [backupCreated EXCEPT ![b] = FALSE]
    /\ UNCHANGED <<planned, stage, promoted, rollbackFailed, lock, target, world>>

SyncRemoved(b) ==
    /\ Moves(b, "syncRemoved", "built")
    /\ Unlock(b)
    /\ UNCHANGED <<stage, backup, target, world>>

\* What throws inside the try: the target is not what it should be, or a
\* call fails.  Removing the backup can fail half way.
TargetChanged(b) ==
    /\ \/ Throws(b, "recheck") /\ target # planned[b]
       \/ Throws(b, "backup") /\ target = None
       \/ Throws(b, "reserve") /\ target # None
       \/ Throws(b, "promote") /\ target # None
    /\ UNCHANGED world

BuildFails(b) ==
    /\ \E here \in {"recheck", "backup", "reserve", "promote", "syncPromoted"} : Throws(b, here)
    /\ Fault /\ UNCHANGED late

RemovalFails(b) ==
    /\ \/ /\ Moves(b, "removeBackup", "undo")
          /\ \E rest \in {backup[b], "part"} : backup' = [backup EXCEPT ![b] = rest]
       \/ /\ Moves(b, "syncRemoved", "undo")
          /\ UNCHANGED backup
    /\ Fault /\ late' = late \cup {0}
    /\ UNCHANGED <<stage, lock, target>>

-----------------------------------------------------------------------------
(* The catch: each part is tried whatever became of the one before.         *)

RollbackFails(b) ==
    /\ Fault /\ UNCHANGED late
    /\ rollbackFailed' = [rollbackFailed EXCEPT ![b] = TRUE]
    /\ UNCHANGED <<backupCreated, promoted>>

UndoPromotion(b) ==
    /\ At(b, "undo") /\ Goto(b, "restore")
    /\ \/ ~promoted[b] /\ UNCHANGED <<target, flags, world>>
       \/ promoted[b] /\ target' = None /\ UNCHANGED <<flags, world>>
       \/ promoted[b] /\ target # None /\ target' \in {target, "part"} /\ RollbackFails(b)
    /\ UNCHANGED <<planned, stage, backup, lock>>

\* The rename back fails on a directory that has files again.
RestoreBackup(b) ==
    /\ At(b, "restore") /\ Goto(b, "unstage")
    /\ \/ ~backupCreated[b] /\ UNCHANGED <<target, backup, flags, world>>
       \/ /\ backupCreated[b] /\ target = None
          /\ target' = backup[b] /\ backup' = [backup EXCEPT ![b] = None]
          /\ UNCHANGED <<flags, world>>
       \/ /\ backupCreated[b] /\ target # None
          /\ rollbackFailed' = [rollbackFailed EXCEPT ![b] = TRUE]
          /\ UNCHANGED <<target, backup, backupCreated, promoted, world>>
       \/ /\ backupCreated[b] /\ RollbackFails(b)
          /\ UNCHANGED <<target, backup>>
    /\ UNCHANGED <<planned, stage, lock>>

RemoveStage(b) ==
    /\ At(b, "unstage") /\ Goto(b, "throw")
    /\ \/ stage' = [stage EXCEPT ![b] = None] /\ UNCHANGED <<flags, world>>
       \/ stage[b] # None /\ RollbackFails(b) /\ UNCHANGED stage
    /\ UNCHANGED <<planned, backup, lock, target>>

EndBuild(b) ==
    /\ Moves(b, "throw", IF rollbackFailed[b] THEN "rollbackFailed" ELSE "failed")
    /\ Unlock(b)
    /\ UNCHANGED <<stage, backup, target, world>>

BuildSteps(b) ==
    \/ PlanBuild(b) \/ StartBuild(b) \/ BuildLocked(b) \/ CheckBuild(b) \/ RefuseBuild(b)
    \/ StageBuild(b) \/ RecheckBuild(b) \/ BackUpBuild(b) \/ ReserveBuild(b)
    \/ PromoteBuild(b) \/ SyncPromoted(b) \/ RemoveBackup(b) \/ SyncRemoved(b)
    \/ TargetChanged(b) \/ BuildFails(b) \/ RemovalFails(b)
    \/ UndoPromotion(b) \/ RestoreBackup(b) \/ RemoveStage(b) \/ EndBuild(b)

\* Past the last look at the target.
Replacing(b) == bpc[b] \notin {"new", "planned", "check", "stage", "recheck", "killed"} \cup Outcomes

BuildTypeOK ==
    /\ bpc \in [Builds -> {"new", "planned", "check", "stage", "recheck", "backup", "reserve",
                           "promote", "syncPromoted", "removeBackup", "syncRemoved", "undo",
                           "restore", "unstage", "throw", "killed"} \cup Outcomes]
    /\ planned \in [Builds -> Trees] /\ backup \in [Builds -> Trees]
    /\ stage \in [Builds -> Trees] /\ \A b \in Builds : stage[b] \in {b, "part", None}
    /\ backupCreated \in [Builds -> BOOLEAN] /\ promoted \in [Builds -> BOOLEAN]
    /\ rollbackFailed \in [Builds -> BOOLEAN]
=============================================================================
