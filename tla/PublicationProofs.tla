---------------------------- MODULE PublicationProofs ----------------------------
(* What the replacement of the build directory and the installation of      *)
(* built files never destroy, for any number of builds, destinations,       *)
(* failing calls, killed programs and edits.                                *)
(*                                                                          *)
(* Both arguments are the same: the flags of a transaction, and its place   *)
(* in the code, say where the thing it replaces is now.  That stays true    *)
(* because one program holds the lock, and as long as nobody edits past the *)
(* code's last look; the variable late says where somebody did.             *)
EXTENDS Publication, TLAPS

HoldingBuild == {"check", "stage", "recheck", "backup", "reserve", "promote", "syncPromoted",
                 "removeBackup", "syncRemoved", "undo", "restore", "unstage", "throw", "killed"}
HoldingInstall == {"check", "stage", "recheck", "verify", "backup", "promote", "sync",
                   "undo", "restore", "unstage", "throw", "clean", "killed"}

\* A program has the lock exactly while it is between taking and returning
\* it, or was killed there.
OneHolder ==
    /\ \A b \in Builds : bpc[b] \in HoldingBuild <=> lock = b
    /\ ipc \in HoldingInstall <=> lock = Installer

\* Only what somebody edited was edited too late.
LateEdited == \A k \in Destinations : k \in late => k \in edited

-----------------------------------------------------------------------------
(* One build.                                                               *)

Pristine(b) ==
    stage[b] = None /\ backup[b] = None /\ ~backupCreated[b] /\ ~promoted[b] /\ ~rollbackFailed[b]

\* What the flags and the names of a build say at each place, whatever the
\* others do.
FlagsTell(b) ==
    /\ bpc[b] = "new" => planned[b] = None
    /\ bpc[b] \in {"new", "planned", "check", "stage"} => Pristine(b)
    /\ bpc[b] \in {"recheck", "backup"} =>
          stage[b] = b /\ backup[b] = None /\ ~backupCreated[b] /\ ~promoted[b]
    /\ bpc[b] \in {"reserve", "promote"} => stage[b] = b /\ ~promoted[b]
    /\ bpc[b] \in {"syncPromoted", "removeBackup", "syncRemoved"} => stage[b] = None /\ promoted[b]
    /\ bpc[b] \in {"reserve", "promote", "syncPromoted"} /\ ~backupCreated[b] => backup[b] = None
    /\ bpc[b] = "removeBackup" => backupCreated[b]
    /\ bpc[b] = "syncRemoved" => ~backupCreated[b] /\ backup[b] = None
    /\ bpc[b] \in {"recheck", "backup", "reserve", "promote", "syncPromoted", "removeBackup",
                   "syncRemoved", "undo"} => ~rollbackFailed[b]

\* The tree that the plan saw is in the backup, when there was one.
Saved(b) ==
    IF backupCreated[b] THEN backup[b] = planned[b] /\ planned[b] # None
                        ELSE backup[b] = None /\ (promoted[b] => planned[b] = None)

AsFound(b) == target = planned[b] \/ 0 \in edited

\* Where the target is while the build goes forward ...
Forward(b) ==
    /\ bpc[b] \in {"stage", "recheck"} => AsFound(b)
    /\ bpc[b] = "backup" => target = planned[b] /\ planned[b] # None
    /\ bpc[b] \in {"reserve", "promote"} =>
          target = None /\ Saved(b) /\ (~backupCreated[b] => planned[b] = None)
    /\ bpc[b] \in {"syncPromoted", "removeBackup"} => target = b /\ Saved(b)
    /\ bpc[b] = "syncRemoved" => target = b

\* ... and while its catch goes back.
Backward(b) ==
    /\ bpc[b] \in {"undo", "restore"} => Saved(b)
    /\ bpc[b] = "undo" =>
          /\ promoted[b] => target = b
          /\ ~promoted[b] /\ backupCreated[b] => target = None
          /\ ~promoted[b] /\ ~backupCreated[b] => AsFound(b)
    /\ bpc[b] = "restore" =>
          /\ rollbackFailed[b] => promoted[b] /\ target \in {b, "part"}
          /\ ~rollbackFailed[b] /\ (promoted[b] \/ backupCreated[b]) => target = None
          /\ ~rollbackFailed[b] /\ ~promoted[b] /\ ~backupCreated[b] => AsFound(b)
    /\ bpc[b] = "unstage" =>
          /\ rollbackFailed[b] => target # planned[b] \/ backup[b] # None
          /\ ~rollbackFailed[b] => AsFound(b) /\ backup[b] = None
    /\ bpc[b] = "throw" =>
          /\ rollbackFailed[b] => target # planned[b] \/ backup[b] # None \/ stage[b] # None
          /\ ~rollbackFailed[b] => AsFound(b) /\ backup[b] = None /\ stage[b] = None

\* What the catch has done, with nothing taken from it by an edit: where what
\* remained of the prior build is, at its place, in the backup, or nowhere.
Returned(b) == backup[b] = None /\ target \in Remains(b)
StillAway(b) == backupCreated[b] /\ backup[b] \in Remains(b)
NewLeft(b) == ~backupCreated[b] /\ promoted[b] /\ target \in {b, "part"}

Catching(b) ==
    /\ bpc[b] \in {"undo", "restore"} =>
          /\ backupCreated[b] => backup[b] \in Remains(b)
          /\ ~backupCreated[b] /\ promoted[b] => None \in Remains(b)
          /\ ~backupCreated[b] /\ ~promoted[b] => target = planned[b]
    /\ bpc[b] = "undo" =>
          /\ promoted[b] => target = b
          /\ ~promoted[b] /\ backupCreated[b] => target = None
    /\ bpc[b] = "restore" =>
          /\ rollbackFailed[b] => promoted[b] /\ target \in {b, "part"}
          /\ ~rollbackFailed[b] /\ (promoted[b] \/ backupCreated[b]) => target = None
    /\ bpc[b] = "unstage" =>
          IF rollbackFailed[b] THEN StillAway(b) \/ NewLeft(b) ELSE Returned(b)
    /\ bpc[b] = "throw" =>
          IF rollbackFailed[b] THEN StillAway(b) \/ NewLeft(b) \/ (Returned(b) /\ stage[b] # None)
                               ELSE Returned(b)

\* The catch throws the original error only when it has left nothing.
LeavesNothing(b) ==
    /\ bpc[b] \in {"undo", "restore"} /\ ~backupCreated[b] => backup[b] = None
    /\ bpc[b] \in {"unstage", "throw"} /\ ~rollbackFailed[b] => backup[b] = None
    /\ bpc[b] = "throw" /\ ~rollbackFailed[b] => stage[b] = None

CatchTold(b) == LeavesNothing(b) /\ (0 \notin edited => Catching(b))

BuildTold(b) ==
    /\ FlagsTell(b)
    /\ 0 \notin edited \/ 0 \notin late => Forward(b)
    /\ 0 \notin late => Backward(b)

Calm == 0 \notin edited /\ 0 \notin late

\* A build that has begun to replace a whole one.
Began(b) == planned[b] \in WholeBuilds /\ (stage[b] # None \/ promoted[b] \/ backupCreated[b])

\* While a build works, the whole build that its predecessors owe is the one
\* it planned to replace, or in the backup of one of them.
Beside(b) ==
    bpc[b] \in HoldingBuild \ {"check", "killed"} /\ (\E c \in Builds \ {b} : Began(c)) =>
        planned[b] \in WholeBuilds \/ \E c \in Builds \ {b} : backup[c] \in WholeBuilds

Kept ==
    (\E b \in Builds : Began(b)) => target \in WholeBuilds \/ \E b \in Builds : backup[b] \in WholeBuilds

\* An edit in the build directory is there, in a backup, or in a plan.
TargetEditTraced ==
    0 \in edited /\ 0 \notin late =>
        \E v \in {"changed", "foreign"} :
            target = v \/ \E b \in Builds : backup[b] = v \/ planned[b] = v

BuildInv ==
    /\ \A b \in Builds : BuildTold(b) /\ CatchTold(b)
    /\ Calm => Kept /\ \A b \in Builds : Beside(b)
    /\ TargetEditTraced

-----------------------------------------------------------------------------
(* The installation.                                                        *)

Forth == {"verify", "backup", "promote", "sync"}
Back == {"undo", "restore", "unstage"}

\* The item the installation is at, and what it knows of the build.
Position ==
    /\ ipc \in {"stage"} \cup Forth \cup Back => at \in Destinations
    /\ ipc \in {"new", "planned", "check", "recheck"} => at = 1
    /\ ipc \in {"new", "planned", "check"} => staged = 0
    /\ ipc = "stage" => staged = at - 1
    /\ ipc \in {"recheck"} \cup Forth => staged = Items
    /\ ipc \in Back => at <= staged
    /\ ipc = "clean" => at > 0
    /\ ipc \in {"new", "planned", "check", "stage", "recheck"} \cup Forth => ~partial /\ ~cleanupFailed
    /\ ipc \in {"stage", "recheck", "clean"} \cup Forth => target = seenBuild \/ 0 \in edited

\* Where an item stands: nothing was done to it, its new file is in place,
\* or its undoing lies ahead or behind.
Ahead(k) ==
    \/ ipc \in {"new", "planned", "check", "stage", "recheck"}
    \/ ipc = "verify" /\ k >= at
    \/ ipc \in {"backup", "promote", "sync"} /\ k > at
InPlace(k) ==
    \/ ipc \in {"verify", "backup", "promote"} /\ k < at
    \/ ipc = "sync" /\ k <= at
ToUndo(k) ==
    \/ ipc = "undo" /\ k <= at
    \/ ipc \in {"restore", "unstage"} /\ k < at
Undone(k) ==
    \/ ipc \in Back /\ k > at
    \/ ipc = "unstage" /\ k = at
    \/ ipc = "throw"

AsSeen(k) == dest[k] = expected[k] \/ k \in edited

\* The file the plan saw is in the backup, when the flag says so.
BackedUp(k) ==
    IF ibackupCreated[k] THEN k \notin late => ibackup[k] = expected[k] ELSE ibackup[k] = None

ItemAhead(k) ==
    /\ Ahead(k) => ~installed[k] /\ ~ibackupCreated[k] /\ ibackup[k] = None
    /\ Ahead(k) /\ ipc # "new" => AsSeen(k)
    /\ ipc = "new" => expected[k] = None
    /\ ipc = "stage" /\ k < at => istage[k] = "new"
    /\ Ahead(k) /\ ipc \in {"recheck"} \cup Forth => istage[k] = "new"

ItemHere(k) ==
    /\ ipc \in {"backup", "promote"} /\ k = at => istage[k] = "new" /\ ~installed[k]
    /\ ipc = "backup" /\ k = at =>
          /\ ~ibackupCreated[k] /\ ibackup[k] = None /\ expected[k] # None
          /\ k \notin late => dest[k] = expected[k]
    /\ ipc = "promote" /\ k = at =>
          /\ BackedUp(k) /\ (ibackupCreated[k] <=> expected[k] # None)
          /\ k \notin late => dest[k] = None
    /\ ipc = "restore" /\ k = at =>
          /\ BackedUp(k)
          /\ ibackupCreated[k] /\ k \notin late => dest[k] = None
          /\ ~ibackupCreated[k] => AsSeen(k)

ItemInPlace(k) ==
    InPlace(k) =>
        /\ istage[k] = None /\ installed[k]
        /\ BackedUp(k) /\ (ibackupCreated[k] <=> expected[k] # None)
        /\ k \notin late => dest[k] = "new"

ItemBack(k) ==
    /\ ToUndo(k) =>
          /\ BackedUp(k)
          /\ installed[k] => (ibackupCreated[k] <=> expected[k] # None) /\ (k \notin late => dest[k] = "new")
          /\ ~installed[k] /\ ibackupCreated[k] /\ k \notin late => dest[k] = None
          /\ ~installed[k] /\ ~ibackupCreated[k] => AsSeen(k)
    /\ Undone(k) /\ ~partial => ibackup[k] = None /\ AsSeen(k)

ItemDone(k) ==
    /\ ipc \in {"clean", "installed", "cleanupFailed"} => istage[k] = None /\ (dest[k] = "new" \/ k \in edited)
    /\ ipc = "clean" =>
          /\ ~ibackupCreated[k] \/ (k < at /\ ~cleanupFailed) => ibackup[k] = None
          /\ k \notin late => ibackup[k] \in {expected[k], None}

\* An edit is at the destination, in the backup, or the plan had seen it.
EditTraced(k) ==
    k \in edited /\ k \notin late => dest[k] = "foreign" \/ ibackup[k] = "foreign" \/ expected[k] = "foreign"

\* What the plan found at the destination is there or in the backup.
Clear(k) == k \in edited => expected[k] = "foreign" /\ k \notin late
PriorKept(k) == Clear(k) => expected[k] \in {None, dest[k], ibackup[k]}

Finished == {"clean", "installed", "cleanupFailed"}
NewOrEdited == \A k \in Destinations : dest[k] = "new" \/ k \in edited

\* Until the new files are all in place, the prior ones are all kept.
PriorsKeptSoFar ==
    \/ ipc \in Finished
    \/ \A k \in Destinations : PriorKept(k)
    \/ ipc = "killed" /\ NewOrEdited

\* What lies beside a destination that nobody edited, and at it.
StageLeft(k) ==
    /\ ipc \in {"new", "planned", "check"} => istage[k] = None
    /\ ipc = "stage" /\ k >= at => istage[k] = None
    /\ ipc \in Back \cup {"throw"} /\ k > staged => istage[k] \in {None, "part"}
    /\ (ipc \in Back /\ k > at) \/ ipc = "throw" => k > staged \/ partial \/ istage[k] = None
OwnFiles(k) ==
    ipc # "new" /\ k \notin edited =>
        dest[k] \in {expected[k], "new", None} /\ ibackup[k] \in {expected[k], None}
ItemLeft(k) == StageLeft(k) /\ OwnFiles(k)

ItemTold(k) ==
    ItemAhead(k) /\ ItemHere(k) /\ ItemInPlace(k) /\ ItemBack(k) /\ ItemDone(k) /\ EditTraced(k)

InstallInv ==
    /\ Position
    /\ \A k \in Destinations : ItemTold(k)
    /\ \A k \in Destinations : ItemLeft(k)
    /\ PriorsKeptSoFar

IInv == TypeOK /\ OneHolder /\ LateEdited /\ BuildInv /\ InstallInv

-----------------------------------------------------------------------------
(* A build's step: types, the other builds, the lock.                       *)

\* The positions that a step leaves from and goes to.
LEMMA BuildStepsTyped ==
    ASSUME FilesTypeOK, BuildTypeOK, NEW b \in Builds, BuildSteps(b)
    PROVE  FilesTypeOK' /\ BuildTypeOK'
<1> USE PublishedFilesAssumption DEF FilesTypeOK, BuildTypeOK, Trees, Outcomes, Moves, Throws, At, Goto, Fault,
        world, flags, RollbackFails
<1>1. CASE PlanBuild(b)
      BY <1>1 DEF PlanBuild, Acquire, Locked, Unlock
<1>2. CASE StartBuild(b)
      BY <1>2 DEF StartBuild, Acquire, Locked, Unlock
<1>3. CASE BuildLocked(b)
      BY <1>3 DEF BuildLocked, Acquire, Locked, Unlock
<1>4. CASE CheckBuild(b)
      BY <1>4 DEF CheckBuild, Acquire, Locked, Unlock
<1>5. CASE RefuseBuild(b)
      BY <1>5 DEF RefuseBuild, Acquire, Locked, Unlock
<1>6. CASE StageBuild(b)
      BY <1>6 DEF StageBuild, Acquire, Locked, Unlock
<1>7. CASE RecheckBuild(b)
      BY <1>7 DEF RecheckBuild, Acquire, Locked, Unlock
<1>8. CASE BackUpBuild(b)
      BY <1>8 DEF BackUpBuild, Acquire, Locked, Unlock
<1>9. CASE ReserveBuild(b)
      BY <1>9 DEF ReserveBuild, Acquire, Locked, Unlock
<1>10. CASE PromoteBuild(b)
      BY <1>10 DEF PromoteBuild, Acquire, Locked, Unlock
<1>11. CASE SyncPromoted(b)
      BY <1>11 DEF SyncPromoted, Acquire, Locked, Unlock
<1>12. CASE RemoveBackup(b)
      BY <1>12 DEF RemoveBackup, Acquire, Locked, Unlock
<1>13. CASE SyncRemoved(b)
      BY <1>13 DEF SyncRemoved, Acquire, Locked, Unlock
<1>14. CASE TargetChanged(b)
      BY <1>14 DEF TargetChanged, Acquire, Locked, Unlock
<1>15. CASE BuildFails(b)
      BY <1>15 DEF BuildFails, Acquire, Locked, Unlock
<1>16. CASE RemovalFails(b)
      BY <1>16 DEF RemovalFails, Acquire, Locked, Unlock
<1>17. CASE UndoPromotion(b)
  <2> USE <1>17 DEF UndoPromotion
  <2>1. faults' \in 0..MaxFaults /\ crashes' \in 0..MaxCrashes /\ edits' \in 0..MaxEdits
        /\ edited' = edited /\ late' = late /\ lock' = lock /\ target' \in Trees
        OBVIOUS
  <2>2. /\ rollbackFailed' \in [Builds -> BOOLEAN] /\ promoted' = promoted /\ backupCreated' = backupCreated
        OBVIOUS
  <2>3. planned' = planned /\ stage' \in [Builds -> Trees] /\ backup' \in [Builds -> Trees]
        OBVIOUS
  <2>4. \A c \in Builds : stage'[c] \in {c, "part", None}
        OBVIOUS
  <2> QED BY <2>1, <2>2, <2>3, <2>4
<1>18. CASE RestoreBackup(b)
  <2> USE <1>18 DEF RestoreBackup
  <2>1. faults' \in 0..MaxFaults /\ crashes' \in 0..MaxCrashes /\ edits' \in 0..MaxEdits
        /\ edited' = edited /\ late' = late /\ lock' = lock /\ target' \in Trees
        OBVIOUS
  <2>2. /\ rollbackFailed' \in [Builds -> BOOLEAN] /\ promoted' = promoted /\ backupCreated' = backupCreated
        OBVIOUS
  <2>3. planned' = planned /\ stage' \in [Builds -> Trees] /\ backup' \in [Builds -> Trees]
        OBVIOUS
  <2>4. \A c \in Builds : stage'[c] \in {c, "part", None}
        OBVIOUS
  <2> QED BY <2>1, <2>2, <2>3, <2>4
<1>19. CASE RemoveStage(b)
  <2> USE <1>19 DEF RemoveStage
  <2>1. faults' \in 0..MaxFaults /\ crashes' \in 0..MaxCrashes /\ edits' \in 0..MaxEdits
        /\ edited' = edited /\ late' = late /\ lock' = lock /\ target' \in Trees
        OBVIOUS
  <2>2. /\ rollbackFailed' \in [Builds -> BOOLEAN] /\ promoted' = promoted /\ backupCreated' = backupCreated
        OBVIOUS
  <2>3. planned' = planned /\ stage' \in [Builds -> Trees] /\ backup' \in [Builds -> Trees]
        OBVIOUS
  <2>4. \A c \in Builds : stage'[c] \in {c, "part", None}
        OBVIOUS
  <2> QED BY <2>1, <2>2, <2>3, <2>4
<1>20. CASE EndBuild(b)
      BY <1>20 DEF EndBuild, Acquire, Locked, Unlock
<1> QED BY <1>1, <1>2, <1>3, <1>4, <1>5, <1>6, <1>7, <1>8, <1>9, <1>10, <1>11, <1>12, <1>13, <1>14, <1>15, <1>16, <1>17, <1>18, <1>19, <1>20 DEF BuildSteps

\* What is another build's stays as it is.
SameBuild(c) ==
    /\ bpc'[c] = bpc[c] /\ planned'[c] = planned[c] /\ stage'[c] = stage[c] /\ backup'[c] = backup[c]
    /\ backupCreated'[c] = backupCreated[c] /\ promoted'[c] = promoted[c]
    /\ rollbackFailed'[c] = rollbackFailed[c]

\* A build's step touches nothing of another build, edits nothing, and
\* touches the target only while it has the lock.
LEMMA BuildAside ==
    ASSUME BuildTypeOK, NEW b \in Builds, BuildSteps(b)
    PROVE  /\ \A c \in Builds \ {b} : SameBuild(c)
           /\ edited' = edited /\ (late' = late \/ late' = late \cup {0})
           /\ bpc[b] \in HoldingBuild \/ (target' = target /\ late' = late)
<1> USE DEF BuildTypeOK, Moves, Throws, At, Goto, Fault, world, flags, SameBuild, RollbackFails, HoldingBuild
<1>1. CASE PlanBuild(b)
      BY <1>1 DEF PlanBuild
<1>2. CASE StartBuild(b)
      BY <1>2 DEF StartBuild
<1>3. CASE BuildLocked(b)
      BY <1>3 DEF BuildLocked
<1>4. CASE CheckBuild(b)
      BY <1>4 DEF CheckBuild
<1>5. CASE RefuseBuild(b)
      BY <1>5 DEF RefuseBuild
<1>6. CASE StageBuild(b)
      BY <1>6 DEF StageBuild
<1>7. CASE RecheckBuild(b)
      BY <1>7 DEF RecheckBuild
<1>8. CASE BackUpBuild(b)
      BY <1>8 DEF BackUpBuild
<1>9. CASE ReserveBuild(b)
      BY <1>9 DEF ReserveBuild
<1>10. CASE PromoteBuild(b)
      BY <1>10 DEF PromoteBuild
<1>11. CASE SyncPromoted(b)
      BY <1>11 DEF SyncPromoted
<1>12. CASE RemoveBackup(b)
      BY <1>12 DEF RemoveBackup
<1>13. CASE SyncRemoved(b)
      BY <1>13 DEF SyncRemoved
<1>14. CASE TargetChanged(b)
      BY <1>14 DEF TargetChanged
<1>15. CASE BuildFails(b)
      BY <1>15 DEF BuildFails
<1>16. CASE RemovalFails(b)
      BY <1>16 DEF RemovalFails
<1>17. CASE UndoPromotion(b)
      BY <1>17 DEF UndoPromotion
<1>18. CASE RestoreBackup(b)
      BY <1>18 DEF RestoreBackup
<1>19. CASE RemoveStage(b)
      BY <1>19 DEF RemoveStage
<1>20. CASE EndBuild(b)
      BY <1>20 DEF EndBuild
<1> QED BY <1>1, <1>2, <1>3, <1>4, <1>5, <1>6, <1>7, <1>8, <1>9, <1>10, <1>11, <1>12, <1>13, <1>14, <1>15, <1>16, <1>17, <1>18, <1>19, <1>20 DEF BuildSteps

\* The lock goes with the position.
LEMMA BuildHolds ==
    ASSUME BuildTypeOK, OneHolder, lock \in Builds \cup {Installer, None},
           NEW b \in Builds, BuildSteps(b), UNCHANGED install
    PROVE  OneHolder'
<1> USE PublishedFilesAssumption DEF BuildTypeOK, Moves, Throws, At, Goto, flags, HoldingBuild
<1>1. \A c \in Builds \ {b} : bpc'[c] = bpc[c] BY BuildAside DEF SameBuild
<1>2. ipc' = ipc BY DEF install
<1>4. \/ lock' = lock /\ (bpc[b] \in HoldingBuild <=> bpc'[b] \in HoldingBuild)
      \/ lock = None /\ lock' = b /\ bpc'[b] \in HoldingBuild
      \/ lock = b /\ lock' = None /\ bpc'[b] \notin HoldingBuild
  <2>1. CASE PlanBuild(b)
        BY <2>1 DEF PlanBuild, Acquire, Locked, Unlock
  <2>2. CASE StartBuild(b)
        BY <2>2 DEF StartBuild, Acquire, Locked, Unlock
  <2>3. CASE BuildLocked(b)
        BY <2>3 DEF BuildLocked, Acquire, Locked, Unlock
  <2>4. CASE CheckBuild(b)
        BY <2>4 DEF CheckBuild, Acquire, Locked, Unlock
  <2>5. CASE RefuseBuild(b)
        BY <2>5 DEF RefuseBuild, Acquire, Locked, Unlock
  <2>6. CASE StageBuild(b)
        BY <2>6 DEF StageBuild, Acquire, Locked, Unlock
  <2>7. CASE RecheckBuild(b)
        BY <2>7 DEF RecheckBuild, Acquire, Locked, Unlock
  <2>8. CASE BackUpBuild(b)
        BY <2>8 DEF BackUpBuild, Acquire, Locked, Unlock
  <2>9. CASE ReserveBuild(b)
        BY <2>9 DEF ReserveBuild, Acquire, Locked, Unlock
  <2>10. CASE PromoteBuild(b)
        BY <2>10 DEF PromoteBuild, Acquire, Locked, Unlock
  <2>11. CASE SyncPromoted(b)
        BY <2>11 DEF SyncPromoted, Acquire, Locked, Unlock
  <2>12. CASE RemoveBackup(b)
        BY <2>12 DEF RemoveBackup, Acquire, Locked, Unlock
  <2>13. CASE SyncRemoved(b)
        BY <2>13 DEF SyncRemoved, Acquire, Locked, Unlock
  <2>14. CASE TargetChanged(b)
        BY <2>14 DEF TargetChanged, Acquire, Locked, Unlock
  <2>15. CASE BuildFails(b)
        BY <2>15 DEF BuildFails, Acquire, Locked, Unlock
  <2>16. CASE RemovalFails(b)
        BY <2>16 DEF RemovalFails, Acquire, Locked, Unlock
  <2>17. CASE UndoPromotion(b)
        BY <2>17 DEF UndoPromotion, Acquire, Locked, Unlock
  <2>18. CASE RestoreBackup(b)
        BY <2>18 DEF RestoreBackup, Acquire, Locked, Unlock
  <2>19. CASE RemoveStage(b)
        BY <2>19 DEF RemoveStage, Acquire, Locked, Unlock
  <2>20. CASE EndBuild(b)
        BY <2>20 DEF EndBuild, Acquire, Locked, Unlock
  <2> QED BY <2>1, <2>2, <2>3, <2>4, <2>5, <2>6, <2>7, <2>8, <2>9, <2>10, <2>11, <2>12, <2>13, <2>14, <2>15, <2>16, <2>17, <2>18, <2>19, <2>20 DEF BuildSteps
<1> QED BY <1>1, <1>2, <1>4 DEF OneHolder

\* A build's step leaves what its flags and its place say true.
LEMMA OwnTold ==
    ASSUME FilesTypeOK, BuildTypeOK, NEW b \in Builds, BuildTold(b), BuildSteps(b)
    PROVE  BuildTold(b)'
<1> USE PublishedFilesAssumption DEF BuildTold, FilesTypeOK, BuildTypeOK, FlagsTell, Pristine, Saved, AsFound,
        Moves, Throws, At, Goto, Fault, world, flags, RollbackFails
<1>1. CASE PlanBuild(b)
      BY <1>1 DEF PlanBuild, Outcomes, Forward, Backward
<1>2. CASE StartBuild(b)
      BY <1>2 DEF StartBuild, Outcomes, Forward, Backward
<1>3. CASE BuildLocked(b)
      BY <1>3 DEF BuildLocked, Outcomes, Forward, Backward
<1>4. CASE CheckBuild(b)
      BY <1>4 DEF CheckBuild, Outcomes, Forward, Backward
<1>5. CASE RefuseBuild(b)
      BY <1>5 DEF RefuseBuild, Outcomes, Forward, Backward
<1>6. CASE StageBuild(b)
      BY <1>6 DEF StageBuild, Outcomes, Forward, Backward
<1>7. CASE RecheckBuild(b)
      BY <1>7 DEF RecheckBuild, Outcomes, Forward, Backward
<1>8. CASE BackUpBuild(b)
      BY <1>8 DEF BackUpBuild, Outcomes, Forward, Backward
<1>9. CASE ReserveBuild(b)
      BY <1>9 DEF ReserveBuild, Outcomes, Forward, Backward
<1>10. CASE PromoteBuild(b)
      BY <1>10 DEF PromoteBuild, Outcomes, Forward, Backward
<1>11. CASE SyncPromoted(b)
      BY <1>11 DEF SyncPromoted, Outcomes, Forward, Backward
<1>12. CASE RemoveBackup(b)
      BY <1>12 DEF RemoveBackup, Outcomes, Forward, Backward
<1>13. CASE SyncRemoved(b)
      BY <1>13 DEF SyncRemoved, Outcomes, Forward, Backward
<1>14. CASE TargetChanged(b)
      BY <1>14 DEF TargetChanged, Outcomes, Forward, Backward
<1>15. CASE BuildFails(b)
      BY <1>15 DEF BuildFails, Outcomes, Forward, Backward
<1>16. CASE RemovalFails(b)
      BY <1>16 DEF RemovalFails, Outcomes, Forward, Backward
<1>17. CASE UndoPromotion(b)
      BY <1>17 DEF UndoPromotion, Outcomes, Forward, Backward
<1>18. CASE RestoreBackup(b)
      BY <1>18 DEF RestoreBackup, Outcomes, Forward, Backward
<1>19. CASE RemoveStage(b)
      BY <1>19 DEF RemoveStage, Outcomes, Forward, Backward
<1>20. CASE EndBuild(b)
      BY <1>20 DEF EndBuild, Outcomes, Forward, Backward
<1> QED BY <1>1, <1>2, <1>3, <1>4, <1>5, <1>6, <1>7, <1>8, <1>9, <1>10, <1>11, <1>12, <1>13, <1>14, <1>15, <1>16, <1>17, <1>18, <1>19, <1>20 DEF BuildSteps

\* A build's step leaves what its catch has done true.  Only a throw begins
\* the catch: nothing is removed from the backup before, unless by a removal.
LEMMA OwnCatch ==
    ASSUME FilesTypeOK, BuildTypeOK, NEW b \in Builds, BuildTold(b), CatchTold(b), BuildSteps(b)
    PROVE  CatchTold(b)'
<1>0. /\ FlagsTell(b) /\ LeavesNothing(b) /\ edited' = edited
      /\ 0 \notin edited => Forward(b) /\ Catching(b)
      BY BuildAside DEF BuildTold, CatchTold
<1> USE PublishedFilesAssumption DEF FilesTypeOK, BuildTypeOK, Moves, Throws, At, Goto, flags
<1>1. CASE bpc'[b] \notin {"undo", "restore", "unstage", "throw"}
      BY <1>1 DEF CatchTold, LeavesNothing, Catching
<1>2. CASE StageBuild(b) /\ bpc'[b] = "undo"
  <2>1. /\ UNCHANGED <<planned, flags, backup, target, late>> /\ bpc[b] = "stage"
        BY <1>2 DEF StageBuild
  <2>2. backup[b] = None /\ ~backupCreated[b] /\ ~promoted[b] BY <1>0, <2>1 DEF FlagsTell, Pristine
  <2>3. LeavesNothing(b)' BY <1>2, <2>1, <2>2 DEF LeavesNothing
  <2>4. ASSUME 0 \notin edited PROVE Catching(b)'
        BY <1>0, <1>2, <2>1, <2>2, <2>4 DEF Catching, Forward, AsFound
  <2> QED BY <1>0, <2>3, <2>4 DEF CatchTold
<1>3. CASE TargetChanged(b) \/ BuildFails(b)
  <2>1. /\ UNCHANGED <<planned, flags, stage, backup, target, late>> /\ bpc'[b] = "undo"
        /\ bpc[b] \in {"recheck", "backup", "reserve", "promote", "syncPromoted"}
        BY <1>3 DEF TargetChanged, BuildFails, world
  <2>2. ~backupCreated[b] => backup[b] = None BY <1>0, <2>1 DEF FlagsTell
  <2>3. LeavesNothing(b)' BY <2>1, <2>2 DEF LeavesNothing
  <2>4. ASSUME 0 \notin edited PROVE Catching(b)'
    <3>1. CASE bpc[b] \in {"recheck", "backup"}
      <4>1. ~backupCreated[b] /\ ~promoted[b] BY <1>0, <3>1 DEF FlagsTell
      <4>2. target = planned[b] BY <1>0, <2>4, <3>1 DEF Forward, AsFound
      <4> QED BY <2>1, <4>1, <4>2 DEF Catching
    <3>2. CASE bpc[b] \in {"reserve", "promote"}
      <4>1. ~promoted[b] BY <1>0, <3>2 DEF FlagsTell
      <4>2. target = None /\ Saved(b) /\ (~backupCreated[b] => planned[b] = None)
            BY <1>0, <2>4, <3>2 DEF Forward
      <4>3. backupCreated[b] => backup[b] \in Remains(b)' BY <2>1, <4>1, <4>2 DEF Saved, Remains
      <4> QED BY <2>1, <4>1, <4>2, <4>3 DEF Catching
    <3>3. CASE bpc[b] = "syncPromoted"
      <4>1. promoted[b] BY <1>0, <3>3 DEF FlagsTell
      <4>2. target = b /\ Saved(b) BY <1>0, <2>4, <3>3 DEF Forward
      <4>3. backupCreated[b] => backup[b] \in Remains(b)' BY <2>1, <4>1, <4>2 DEF Saved, Remains
      <4>4. ~backupCreated[b] => None \in Remains(b)' BY <2>1, <4>1, <4>2 DEF Saved, Remains
      <4> QED BY <2>1, <4>1, <4>2, <4>3, <4>4 DEF Catching
    <3> QED BY <2>1, <3>1, <3>2, <3>3
  <2> QED BY <1>0, <2>3, <2>4 DEF CatchTold
<1>4. CASE RemovalFails(b)
  <2>1. /\ UNCHANGED <<planned, flags, stage, target>> /\ bpc'[b] = "undo" /\ 0 \in late'
        /\ bpc[b] \in {"removeBackup", "syncRemoved"}
        /\ bpc[b] = "removeBackup" => backup'[b] \in {backup[b], "part"}
        /\ bpc[b] = "syncRemoved" => backup' = backup
        BY <1>4 DEF RemovalFails
  <2>2. /\ promoted[b]
        /\ bpc[b] = "removeBackup" => backupCreated[b]
        /\ bpc[b] = "syncRemoved" => ~backupCreated[b] /\ backup[b] = None
        BY <1>0, <2>1 DEF FlagsTell
  <2>3. LeavesNothing(b)' BY <2>1, <2>2 DEF LeavesNothing
  <2>4. ASSUME 0 \notin edited PROVE Catching(b)'
    <3>1. target = b BY <1>0, <2>1, <2>4 DEF Forward
    <3>2. backupCreated[b] => backup[b] = planned[b]
          BY <1>0, <2>1, <2>2, <2>4 DEF Forward, Saved
    <3>3. backupCreated[b] => backup'[b] \in Remains(b)' BY <2>1, <2>2, <3>2 DEF Remains
    <3>4. ~backupCreated[b] => None \in Remains(b)' BY <2>1, <2>2 DEF Remains
    <3> QED BY <2>1, <2>2, <3>1, <3>3, <3>4 DEF Catching
  <2> QED BY <1>0, <2>3, <2>4 DEF CatchTold
<1>5. CASE UndoPromotion(b)
  <2>1. /\ UNCHANGED <<planned, stage, backup, backupCreated, promoted, late>>
        /\ bpc[b] = "undo" /\ bpc'[b] = "restore"
        BY <1>5 DEF UndoPromotion, RollbackFails, Fault, world
  <2>2. \/ ~promoted[b] /\ target' = target /\ rollbackFailed' = rollbackFailed
        \/ promoted[b] /\ target' = None /\ rollbackFailed' = rollbackFailed
        \/ promoted[b] /\ target' \in {target, "part"} /\ rollbackFailed'[b] = TRUE
        BY <1>5 DEF UndoPromotion, RollbackFails
  <2>3. LeavesNothing(b)' BY <1>0, <2>1 DEF LeavesNothing
  <2>4. ~rollbackFailed[b] BY <1>0, <2>1 DEF FlagsTell
  <2>5. Remains(b)' = Remains(b) BY <2>1 DEF Remains
  <2>6. ASSUME 0 \notin edited PROVE Catching(b)'
    <3>1. /\ backupCreated[b] => backup[b] \in Remains(b)
          /\ ~backupCreated[b] /\ promoted[b] => None \in Remains(b)
          /\ ~backupCreated[b] /\ ~promoted[b] => target = planned[b]
          /\ promoted[b] => target = b
          /\ ~promoted[b] /\ backupCreated[b] => target = None
          BY <1>0, <2>1, <2>6 DEF Catching
    <3> QED BY <2>1, <2>2, <2>4, <2>5, <3>1 DEF Catching
  <2> QED BY <1>0, <2>3, <2>6 DEF CatchTold
<1>6. CASE RestoreBackup(b)
  <2>1. /\ UNCHANGED <<planned, stage, backupCreated, promoted, late>>
        /\ bpc[b] = "restore" /\ bpc'[b] = "unstage"
        BY <1>6 DEF RestoreBackup, RollbackFails, Fault, world
  <2>2. \/ ~backupCreated[b] /\ UNCHANGED <<target, backup, rollbackFailed>>
        \/ /\ backupCreated[b] /\ target = None
           /\ target' = backup[b] /\ backup'[b] = None /\ rollbackFailed' = rollbackFailed
        \/ backupCreated[b] /\ rollbackFailed'[b] = TRUE /\ UNCHANGED <<target, backup>>
        BY <1>6 DEF RestoreBackup, RollbackFails
  <2>3. LeavesNothing(b)' BY <1>0, <2>1, <2>2 DEF LeavesNothing
  <2>4. Remains(b)' = Remains(b) BY <2>1 DEF Remains
  <2>5. ASSUME 0 \notin edited PROVE Catching(b)'
    <3>1. /\ backupCreated[b] => backup[b] \in Remains(b)
          /\ ~backupCreated[b] /\ promoted[b] => None \in Remains(b)
          /\ ~backupCreated[b] /\ ~promoted[b] => target = planned[b]
          /\ rollbackFailed[b] => promoted[b] /\ target \in {b, "part"}
          /\ ~rollbackFailed[b] /\ (promoted[b] \/ backupCreated[b]) => target = None
          BY <1>0, <2>1, <2>5 DEF Catching
    <3>2. CASE backupCreated[b] /\ rollbackFailed'[b] = TRUE /\ UNCHANGED <<target, backup>>
      <4>1. StillAway(b)' BY <2>1, <2>4, <3>1, <3>2 DEF StillAway
      <4> QED BY <2>1, <3>2, <4>1 DEF Catching
    <3>3. CASE backupCreated[b] /\ target = None
                /\ target' = backup[b] /\ backup'[b] = None /\ rollbackFailed' = rollbackFailed
      <4>1. ~rollbackFailed[b] BY <3>1, <3>3
      <4>2. Returned(b)' BY <2>4, <3>1, <3>3 DEF Returned
      <4> QED BY <2>1, <3>3, <4>1, <4>2 DEF Catching
    <3>4. CASE ~backupCreated[b] /\ UNCHANGED <<target, backup, rollbackFailed>>
      <4>1. CASE rollbackFailed[b]
        <5>1. NewLeft(b)' BY <2>1, <3>1, <3>4, <4>1 DEF NewLeft
        <5> QED BY <2>1, <3>4, <4>1, <5>1 DEF Catching
      <4>2. CASE ~rollbackFailed[b]
        <5>1. backup[b] = None BY <1>0, <2>1, <3>4 DEF LeavesNothing
        <5>2. target \in Remains(b)
              BY <3>1, <3>4, <4>2 DEF Remains
        <5>3. Returned(b)' BY <2>4, <3>4, <5>1, <5>2 DEF Returned
        <5> QED BY <2>1, <3>4, <4>2, <5>3 DEF Catching
      <4> QED BY <4>1, <4>2
    <3> QED BY <2>2, <3>2, <3>3, <3>4
  <2> QED BY <1>0, <2>3, <2>5 DEF CatchTold
<1>7. CASE RemoveStage(b)
  <2>1. /\ UNCHANGED <<planned, backup, target, backupCreated, promoted, late>>
        /\ bpc[b] = "unstage" /\ bpc'[b] = "throw"
        BY <1>7 DEF RemoveStage, RollbackFails, Fault, world
  <2>2. \/ stage'[b] = None /\ rollbackFailed' = rollbackFailed
        \/ stage'[b] # None /\ rollbackFailed'[b] = TRUE
        BY <1>7 DEF RemoveStage, RollbackFails
  <2>3. LeavesNothing(b)' BY <1>0, <2>1, <2>2 DEF LeavesNothing
  <2>4. Remains(b)' = Remains(b) BY <2>1 DEF Remains
  <2>5. /\ StillAway(b) => StillAway(b)'
        /\ NewLeft(b) => NewLeft(b)'
        /\ Returned(b) => Returned(b)'
        BY <2>1, <2>4 DEF StillAway, NewLeft, Returned
  <2>6. ASSUME 0 \notin edited PROVE Catching(b)'
    <3>1. IF rollbackFailed[b] THEN StillAway(b) \/ NewLeft(b) ELSE Returned(b)
          BY <1>0, <2>1, <2>6 DEF Catching
    <3>2. IF rollbackFailed'[b] THEN StillAway(b)' \/ NewLeft(b)' \/ (Returned(b)' /\ stage'[b] # None)
                                ELSE Returned(b)'
          BY <2>2, <2>5, <3>1
    <3> QED BY <2>1, <3>2 DEF Catching
  <2> QED BY <1>0, <2>3, <2>6 DEF CatchTold
<1>8. BuildSteps(b) => \/ bpc'[b] \notin {"undo", "restore", "unstage", "throw"}
                       \/ StageBuild(b) /\ bpc'[b] = "undo"
                       \/ TargetChanged(b) \/ BuildFails(b) \/ RemovalFails(b)
                       \/ UndoPromotion(b) \/ RestoreBackup(b) \/ RemoveStage(b)
      BY DEF BuildSteps, PlanBuild, StartBuild, BuildLocked, CheckBuild, RefuseBuild, StageBuild,
             RecheckBuild, BackUpBuild, ReserveBuild, PromoteBuild, SyncPromoted, RemoveBackup,
             SyncRemoved, EndBuild
<1> QED BY <1>1, <1>2, <1>3, <1>4, <1>5, <1>6, <1>7, <1>8

\* What the catch of one build has done stands while another build works, and
\* no other works on the target while it is at it.
LEMMA OthersCatch ==
    ASSUME BuildTypeOK, OneHolder, NEW b \in Builds, BuildSteps(b), NEW c \in Builds \ {b}, CatchTold(c)
    PROVE  CatchTold(c)'
<1>1. SameBuild(c) /\ edited' = edited BY BuildAside
<1>2. CASE target' = target /\ late' = late
  <2>1. Remains(c)' = Remains(c) BY <1>1, <1>2 DEF SameBuild, Remains
  <2>2. (LeavesNothing(c) => LeavesNothing(c)') /\ (Catching(c) => Catching(c)')
        BY <1>1, <1>2, <2>1 DEF SameBuild, LeavesNothing, Catching, Returned, StillAway, NewLeft
  <2> QED BY <1>1, <2>2 DEF CatchTold
<1>3. CASE bpc[b] \in HoldingBuild
  <2>1. bpc'[c] \notin HoldingBuild BY <1>1, <1>3 DEF OneHolder, SameBuild
  <2> QED BY <2>1 DEF HoldingBuild, CatchTold, LeavesNothing, Catching
<1> QED BY <1>2, <1>3, BuildAside

\* A build's step leaves true what is told of the others: they are not at a
\* place that says anything about the target while this one has the lock.
LEMMA OthersTold ==
    ASSUME BuildTypeOK, OneHolder, NEW b \in Builds, BuildSteps(b), NEW c \in Builds \ {b}, BuildTold(c)
    PROVE  BuildTold(c)'
<1>1. SameBuild(c) /\ edited' = edited /\ (late' = late \/ late' = late \cup {0}) BY BuildAside
<1>2. FlagsTell(c)' BY <1>1 DEF SameBuild, BuildTold, FlagsTell, Pristine
<1>3. CASE target' = target /\ late' = late
  <2>1. (Forward(c) => Forward(c)') /\ (Backward(c) => Backward(c)')
        BY <1>1, <1>3 DEF SameBuild, Forward, Backward, Saved, AsFound
  <2> QED BY <1>1, <1>2, <1>3, <2>1 DEF BuildTold
<1>4. CASE bpc[b] \in HoldingBuild
  <2>1. bpc'[c] \notin HoldingBuild BY <1>1, <1>4 DEF OneHolder, SameBuild
  <2>2. Forward(c)' /\ Backward(c)' BY <2>1 DEF HoldingBuild, Forward, Backward
  <2> QED BY <1>2, <2>2 DEF BuildTold
<1> QED BY <1>3, <1>4, BuildAside

-----------------------------------------------------------------------------
(* Something whole is kept.                                                 *)

\* Without the lock a build can only plan, or ask for the lock.
LEMMA BuildOutside ==
    ASSUME NEW b \in Builds, BuildSteps(b), bpc[b] \notin HoldingBuild
    PROVE  PlanBuild(b) \/ StartBuild(b) \/ BuildLocked(b)
BY DEF BuildSteps, HoldingBuild, Moves, Throws, At,
      CheckBuild, RefuseBuild, StageBuild, RecheckBuild, BackUpBuild, ReserveBuild,
      PromoteBuild, SyncPromoted, RemoveBackup, SyncRemoved, TargetChanged,
      BuildFails, RemovalFails, UndoPromotion, RestoreBackup, RemoveStage, EndBuild

\* A working build that has the tree it planned to replace, and whose
\* predecessors' debt is covered beside it, keeps a whole build.
LEMMA HereKept ==
    ASSUME NEW b \in Builds, Beside(b), bpc[b] \in HoldingBuild \ {"check", "killed"},
           planned[b] \in WholeBuilds => target \in WholeBuilds \/ backup[b] \in WholeBuilds
    PROVE  Kept
BY DEF Kept, Beside, Began

\* What a build's predecessors owe stays covered beside it.
LEMMA BesideStays ==
    ASSUME FilesTypeOK, BuildTypeOK, OneHolder, BuildInv, NEW b \in Builds, BuildSteps(b), Calm'
    PROVE  \A c \in Builds : Beside(c)'
<1>1. /\ \A c \in Builds \ {b} : SameBuild(c)
      /\ edited' = edited /\ (late' = late \/ late' = late \cup {0})
      BY BuildAside
<1>2. Calm /\ Kept /\ \A c \in Builds : Beside(c) /\ FlagsTell(c)
      BY <1>1 DEF Calm, BuildInv, BuildTold
<1>3. \A c \in Builds \ {b} : Began(c)' <=> Began(c)
      BY <1>1 DEF SameBuild, Began
<1>4. Beside(b)'
  <2>1. CASE CheckBuild(b)
    <3>1. target = planned[b] /\ backup[b] = None /\ planned' = planned /\ backup' = backup
          BY <1>2, <2>1 DEF CheckBuild, Moves, At, FlagsTell, Pristine
    <3> QED BY <1>2, <1>3, <3>1, PublishedFilesAssumption DEF Kept, Beside, WholeBuilds
  <2>2. CASE bpc[b] \in HoldingBuild \ {"check", "killed"} /\ planned'[b] = planned[b]
    <3>1. \A c \in Builds \ {b} : backup'[c] = backup[c] BY <1>1 DEF SameBuild
    <3> QED BY <1>2, <1>3, <2>2, <3>1 DEF Beside, WholeBuilds
  <2>3. CASE bpc'[b] \notin HoldingBuild \ {"check", "killed"}
        BY <2>3 DEF Beside
  <2> QED
    <3> USE DEF Moves, Throws, At, Goto, BuildTypeOK, HoldingBuild, Outcomes
    <3>1. CASE PlanBuild(b)
          BY <3>1, <2>1, <2>2, <2>3 DEF PlanBuild
    <3>2. CASE StartBuild(b)
          BY <3>2, <2>1, <2>2, <2>3 DEF StartBuild
    <3>3. CASE BuildLocked(b)
          BY <3>3, <2>1, <2>2, <2>3 DEF BuildLocked
    <3>4. CASE CheckBuild(b)
          BY <3>4, <2>1, <2>2, <2>3 DEF CheckBuild
    <3>5. CASE RefuseBuild(b)
          BY <3>5, <2>1, <2>2, <2>3 DEF RefuseBuild
    <3>6. CASE StageBuild(b)
          BY <3>6, <2>1, <2>2, <2>3 DEF StageBuild
    <3>7. CASE RecheckBuild(b)
          BY <3>7, <2>1, <2>2, <2>3 DEF RecheckBuild
    <3>8. CASE BackUpBuild(b)
          BY <3>8, <2>1, <2>2, <2>3 DEF BackUpBuild
    <3>9. CASE ReserveBuild(b)
          BY <3>9, <2>1, <2>2, <2>3 DEF ReserveBuild
    <3>10. CASE PromoteBuild(b)
          BY <3>10, <2>1, <2>2, <2>3 DEF PromoteBuild
    <3>11. CASE SyncPromoted(b)
          BY <3>11, <2>1, <2>2, <2>3 DEF SyncPromoted
    <3>12. CASE RemoveBackup(b)
          BY <3>12, <2>1, <2>2, <2>3 DEF RemoveBackup
    <3>13. CASE SyncRemoved(b)
          BY <3>13, <2>1, <2>2, <2>3 DEF SyncRemoved
    <3>14. CASE TargetChanged(b)
          BY <3>14, <2>1, <2>2, <2>3 DEF TargetChanged
    <3>15. CASE BuildFails(b)
          BY <3>15, <2>1, <2>2, <2>3 DEF BuildFails
    <3>16. CASE RemovalFails(b)
          BY <3>16, <2>1, <2>2, <2>3 DEF RemovalFails
    <3>17. CASE UndoPromotion(b)
          BY <3>17, <2>1, <2>2, <2>3 DEF UndoPromotion
    <3>18. CASE RestoreBackup(b)
          BY <3>18, <2>1, <2>2, <2>3 DEF RestoreBackup
    <3>19. CASE RemoveStage(b)
          BY <3>19, <2>1, <2>2, <2>3 DEF RemoveStage
    <3>20. CASE EndBuild(b)
          BY <3>20, <2>1, <2>2, <2>3 DEF EndBuild
    <3> QED BY <3>1, <3>2, <3>3, <3>4, <3>5, <3>6, <3>7, <3>8, <3>9, <3>10, <3>11, <3>12, <3>13, <3>14, <3>15, <3>16, <3>17, <3>18, <3>19, <3>20 DEF BuildSteps
<1>5. ASSUME NEW c \in Builds \ {b} PROVE Beside(c)'
  <2>1. CASE bpc[c] \in HoldingBuild \ {"check", "killed"}
    <3>1. lock = c /\ lock # b BY <2>1 DEF OneHolder
    <3>2. bpc[b] \notin HoldingBuild BY <3>1 DEF OneHolder
    <3>3. planned'[c] = planned[c] /\ bpc'[c] = bpc[c] /\ backup' = backup /\ (Began(b)' => Began(b))
      <4> USE <3>1, <3>2, <1>2 DEF HoldingBuild, Moves, Throws, At, Goto, BuildTypeOK, Began, FlagsTell, Pristine
      <4>1. CASE PlanBuild(b) BY <4>1 DEF PlanBuild, flags
      <4>2. CASE BuildLocked(b) BY <4>2 DEF BuildLocked, flags
      <4>3. ~StartBuild(b) BY PublishedFilesAssumption DEF StartBuild, Acquire
      <4> QED BY <4>1, <4>2, <4>3, BuildOutside
    <3> QED BY <1>1, <1>2, <1>3, <3>3 DEF Beside, SameBuild, WholeBuilds
  <2> QED BY <1>1, <2>1 DEF Beside, SameBuild
<1> QED BY <1>4, <1>5

\* Only six steps touch what keeps a build, or make one begin.
LEMMA KeptStays ==
    ASSUME FilesTypeOK, BuildTypeOK, OneHolder, BuildInv, NEW b \in Builds, BuildSteps(b), Calm'
    PROVE  Kept'
<1>1. /\ \A c \in Builds \ {b} : SameBuild(c)
      /\ edited' = edited /\ (late' = late \/ late' = late \cup {0})
      BY BuildAside
<1>2. Calm /\ Kept /\ \A c \in Builds : Beside(c) /\ FlagsTell(c) /\ Forward(c) /\ Backward(c)
      BY <1>1 DEF Calm, BuildInv, BuildTold
<1> USE PublishedFilesAssumption DEF Moves, Throws, At, Goto, FilesTypeOK, BuildTypeOK, WholeBuilds, RollbackFails, flags
<1>3. ASSUME target' = target, backup' = backup, planned' = planned, promoted' = promoted,
             backupCreated' = backupCreated, stage'[b] # None => stage[b] # None
      PROVE  Kept'
  <2>1. \A c \in Builds : Began(c)' => Began(c) BY <1>1, <1>3 DEF SameBuild, Began
  <2> QED BY <1>2, <1>3, <2>1 DEF Kept
<1>4. ASSUME bpc'[b] \in HoldingBuild \ {"check", "killed"},
             (planned[b] \in WholeBuilds => target \in WholeBuilds \/ backup[b] \in WholeBuilds)'
      PROVE  Kept'
  <2>1. Beside(b)' BY BesideStays
  <2> QED BY <1>4, <2>1 DEF Kept, Beside, Began
<1>5. CASE PlanBuild(b)
  <2>1. Pristine(b) /\ ~Began(b)' BY <1>2, <1>5 DEF PlanBuild, FlagsTell, Pristine, Began
  <2>2. \A c \in Builds : Began(c)' => Began(c) BY <1>1, <2>1 DEF SameBuild, Began
  <2> QED BY <1>2, <1>5, <2>2 DEF Kept, PlanBuild
<1>6. CASE StageBuild(b)
      BY <1>6, <1>4, <1>2 DEF StageBuild, Forward, Backward, FlagsTell, Saved, AsFound, Calm, HoldingBuild
<1>7. CASE BackUpBuild(b)
      BY <1>7, <1>4, <1>2 DEF BackUpBuild, Forward, Backward, FlagsTell, Saved, AsFound, Calm, HoldingBuild
<1>8. CASE PromoteBuild(b)
      BY <1>8, <1>4, <1>2 DEF PromoteBuild, Forward, Backward, FlagsTell, Saved, AsFound, Calm, HoldingBuild
<1>9. CASE RemoveBackup(b)
      BY <1>9, <1>4, <1>2 DEF RemoveBackup, Forward, Backward, FlagsTell, Saved, AsFound, Calm, HoldingBuild
<1>10. CASE UndoPromotion(b)
      BY <1>10, <1>4, <1>2 DEF UndoPromotion, Forward, Backward, FlagsTell, Saved, AsFound, Calm, HoldingBuild
<1>11. CASE RestoreBackup(b)
      BY <1>11, <1>4, <1>2 DEF RestoreBackup, Forward, Backward, FlagsTell, Saved, AsFound, Calm, HoldingBuild
<1>12. ~RemovalFails(b) BY DEF RemovalFails, Calm
<1>13. CASE StartBuild(b)
      BY <1>13, <1>3 DEF StartBuild
<1>14. CASE BuildLocked(b)
      BY <1>14, <1>3 DEF BuildLocked
<1>15. CASE CheckBuild(b)
      BY <1>15, <1>3 DEF CheckBuild
<1>16. CASE RefuseBuild(b)
      BY <1>16, <1>3 DEF RefuseBuild
<1>17. CASE RecheckBuild(b)
      BY <1>17, <1>3 DEF RecheckBuild
<1>18. CASE ReserveBuild(b)
      BY <1>18, <1>3 DEF ReserveBuild
<1>19. CASE SyncPromoted(b)
      BY <1>19, <1>3 DEF SyncPromoted
<1>20. CASE SyncRemoved(b)
      BY <1>20, <1>3 DEF SyncRemoved
<1>21. CASE TargetChanged(b)
      BY <1>21, <1>3 DEF TargetChanged
<1>22. CASE BuildFails(b)
      BY <1>22, <1>3 DEF BuildFails
<1>23. CASE RemoveStage(b)
      BY <1>23, <1>3 DEF RemoveStage
<1>24. CASE EndBuild(b)
      BY <1>24, <1>3 DEF EndBuild
<1> QED BY <1>5, <1>6, <1>7, <1>8, <1>9, <1>10, <1>11, <1>12, <1>13, <1>14, <1>15, <1>16, <1>17, <1>18, <1>19, <1>20, <1>21, <1>22, <1>23, <1>24 DEF BuildSteps

\* An edit in the build directory stays where a build, or a plan, has it.
LEMMA TargetEditStays ==
    ASSUME FilesTypeOK, BuildTypeOK, OneHolder, BuildInv, NEW b \in Builds, BuildSteps(b),
           0 \in edited', 0 \notin late'
    PROVE  TargetEditTraced'
<1>1. /\ \A c \in Builds \ {b} : SameBuild(c)
      /\ edited' = edited /\ (late' = late \/ late' = late \cup {0})
      BY BuildAside
<1>2. FlagsTell(b) /\ Forward(b) /\ Backward(b)
      BY <1>1 DEF BuildInv, BuildTold
<1>3. PICK v \in {"changed", "foreign"} :
          target = v \/ \E c \in Builds : backup[c] = v \/ planned[c] = v
      BY <1>1 DEF BuildInv, TargetEditTraced
<1> USE PublishedFilesAssumption DEF Moves, Throws, At, Goto, BuildTypeOK, RollbackFails, flags
<1>4. SUFFICES ASSUME target = v \/ backup[b] = v \/ planned[b] = v
               PROVE  target' = v \/ backup'[b] = v \/ planned'[b] = v
  <2>1. CASE \E c \in Builds \ {b} : backup[c] = v \/ planned[c] = v
        BY <1>1, <2>1 DEF SameBuild, TargetEditTraced
  <2> QED BY <1>3, <2>1 DEF TargetEditTraced
<1>5. CASE PlanBuild(b)
      BY <1>5, <1>4, <1>2 DEF PlanBuild, Forward, Backward, FlagsTell, Pristine, Saved
<1>6. CASE StartBuild(b)
      BY <1>6, <1>4, <1>2 DEF StartBuild, Forward, Backward, FlagsTell, Pristine, Saved
<1>7. CASE BuildLocked(b)
      BY <1>7, <1>4, <1>2 DEF BuildLocked, Forward, Backward, FlagsTell, Pristine, Saved
<1>8. CASE CheckBuild(b)
      BY <1>8, <1>4, <1>2 DEF CheckBuild, Forward, Backward, FlagsTell, Pristine, Saved
<1>9. CASE RefuseBuild(b)
      BY <1>9, <1>4, <1>2 DEF RefuseBuild, Forward, Backward, FlagsTell, Pristine, Saved
<1>10. CASE StageBuild(b)
      BY <1>10, <1>4, <1>2 DEF StageBuild, Forward, Backward, FlagsTell, Pristine, Saved
<1>11. CASE RecheckBuild(b)
      BY <1>11, <1>4, <1>2 DEF RecheckBuild, Forward, Backward, FlagsTell, Pristine, Saved
<1>12. CASE BackUpBuild(b)
      BY <1>12, <1>4, <1>2 DEF BackUpBuild, Forward, Backward, FlagsTell, Pristine, Saved
<1>13. CASE ReserveBuild(b)
      BY <1>13, <1>4, <1>2 DEF ReserveBuild, Forward, Backward, FlagsTell, Pristine, Saved
<1>14. CASE PromoteBuild(b)
      BY <1>14, <1>4, <1>2 DEF PromoteBuild, Forward, Backward, FlagsTell, Pristine, Saved
<1>15. CASE SyncPromoted(b)
      BY <1>15, <1>4, <1>2 DEF SyncPromoted, Forward, Backward, FlagsTell, Pristine, Saved
<1>16. CASE RemoveBackup(b)
      BY <1>16, <1>4, <1>2 DEF RemoveBackup, Forward, Backward, FlagsTell, Pristine, Saved
<1>17. CASE SyncRemoved(b)
      BY <1>17, <1>4, <1>2 DEF SyncRemoved, Forward, Backward, FlagsTell, Pristine, Saved
<1>18. CASE TargetChanged(b)
      BY <1>18, <1>4, <1>2 DEF TargetChanged, Forward, Backward, FlagsTell, Pristine, Saved
<1>19. CASE BuildFails(b)
      BY <1>19, <1>4, <1>2 DEF BuildFails, Forward, Backward, FlagsTell, Pristine, Saved
<1>20. CASE RemovalFails(b)
      BY <1>20, <1>4, <1>2 DEF RemovalFails, Forward, Backward, FlagsTell, Pristine, Saved
<1>21. CASE UndoPromotion(b)
      BY <1>21, <1>4, <1>2 DEF UndoPromotion, Forward, Backward, FlagsTell, Pristine, Saved
<1>22. CASE RestoreBackup(b)
      BY <1>22, <1>4, <1>2 DEF RestoreBackup, Forward, Backward, FlagsTell, Pristine, Saved
<1>23. CASE RemoveStage(b)
      BY <1>23, <1>4, <1>2 DEF RemoveStage, Forward, Backward, FlagsTell, Pristine, Saved
<1>24. CASE EndBuild(b)
      BY <1>24, <1>4, <1>2 DEF EndBuild, Forward, Backward, FlagsTell, Pristine, Saved
<1> QED BY <1>5, <1>6, <1>7, <1>8, <1>9, <1>10, <1>11, <1>12, <1>13, <1>14, <1>15, <1>16, <1>17, <1>18, <1>19, <1>20, <1>21, <1>22, <1>23, <1>24 DEF BuildSteps

\* No step of the installation edits anything or touches a build.
LEMMA InstallAside ==
    ASSUME InstallSteps
    PROVE  edited' = edited /\ late' = late
BY DEF InstallSteps, PlanInstall, StartInstall, InstallLocked, CheckInstall, RefuseInstall, 
      StageItem, StagingFails, RecheckInstall, VerifyItem, BackUpItem, PromoteItem, 
      SyncItem, DestinationChanged, InstallFails, UndoItem, RestoreItem, UnstageItem, 
      UndoFails, EndRollback, CleanItem, CleaningFails, EndInstall,
      Fault, world, Undoing, Below

\* What is said of a build's catch depends on the build directory only.
LEMMA CatchAside ==
    ASSUME UNCHANGED <<target, build>>, 0 \in edited' <=> 0 \in edited, 0 \in late' <=> 0 \in late,
           NEW b \in Builds, CatchTold(b)
    PROVE  CatchTold(b)'
<1>1. Remains(b)' = Remains(b) BY DEF build, flags, Remains
<1> QED BY <1>1 DEF build, flags, CatchTold, LeavesNothing, Catching, Returned, StillAway, NewLeft

\* Every step keeps what is said of the builds.
LEMMA NextBuild ==
    ASSUME TypeOK, OneHolder, BuildInv, [Next]_vars
    PROVE  BuildInv'
<1>1. CASE vars' = vars
  <2>1. \A b \in Builds : BuildTold(b) => BuildTold(b)'
        BY <1>1 DEF vars, world, build, flags, BuildTold, FlagsTell, Pristine, Forward, Backward, Saved, AsFound
  <2>2. Calm' => (Kept => Kept') /\ \A b \in Builds : Beside(b) => Beside(b)'
        BY <1>1 DEF vars, world, build, flags, Kept, Beside, Began
  <2>3. \A b \in Builds : CatchTold(b) => CatchTold(b)' BY <1>1, CatchAside DEF vars, world
  <2> QED BY <1>1, <2>1, <2>2, <2>3 DEF vars, world, build, BuildInv, Calm, TargetEditTraced
<1>2. ASSUME NEW b \in Builds, BuildSteps(b) PROVE BuildInv'
  <2>1. \A c \in Builds : BuildTold(c)' BY <1>2, OwnTold, OthersTold DEF BuildInv, TypeOK
  <2>2. Calm' => Kept' /\ \A c \in Builds : Beside(c)' BY <1>2, KeptStays, BesideStays DEF TypeOK
  <2>3. TargetEditTraced' BY <1>2, TargetEditStays DEF TypeOK, TargetEditTraced
  <2>4. \A c \in Builds : CatchTold(c)' BY <1>2, OwnCatch, OthersCatch DEF BuildInv, TypeOK
  <2> QED BY <2>1, <2>2, <2>3, <2>4 DEF BuildInv
<1>3. ASSUME UNCHANGED <<target, build>>,
             0 \in edited' <=> 0 \in edited, 0 \in late' <=> 0 \in late
      PROVE  BuildInv'
  <2>1. \A b \in Builds : BuildTold(b) => BuildTold(b)'
        BY <1>3 DEF build, flags, BuildTold, FlagsTell, Pristine, Forward, Backward, Saved, AsFound
  <2>2. Calm' => Calm /\ (Kept => Kept') /\ \A b \in Builds : Beside(b) => Beside(b)'
        BY <1>3 DEF build, flags, Kept, Beside, Began, Calm
  <2>3. \A b \in Builds : CatchTold(b) => CatchTold(b)' BY <1>3, CatchAside
  <2> QED BY <1>3, <2>1, <2>2, <2>3 DEF build, BuildInv, TargetEditTraced
<1>4. CASE InstallSteps /\ UNCHANGED <<target, build>> BY <1>3, <1>4, InstallAside
<1>5. CASE \E k \in Destinations : EditDestination(k)
      BY <1>3, <1>5, PublishedFilesAssumption DEF EditDestination, Destinations
<1>6. CASE KillInstall BY <1>3, <1>6 DEF KillInstall
<1>7. CASE EditTarget
  <2>1. /\ 0 \in edited' /\ UNCHANGED build /\ target' \in {"changed", "foreign"}
        /\ 0 \notin late' => 0 \notin late /\ \A b \in Builds : ~Replacing(b)
        BY <1>7 DEF EditTarget
  <2>2. \A b \in Builds : BuildTold(b)'
        BY <2>1 DEF BuildInv, build, flags, BuildTold, FlagsTell, Pristine, Forward, Backward, AsFound, Replacing, Outcomes
  <2>3. \A b \in Builds : CatchTold(b)'
        BY <2>1 DEF BuildInv, build, flags, CatchTold, LeavesNothing
  <2> QED BY <2>1, <2>2, <2>3 DEF BuildInv, Calm, TargetEditTraced
<1>8. ASSUME NEW b \in Builds, KillBuild(b) PROVE BuildInv'
  <2>1. /\ UNCHANGED <<target, edited, late, planned, stage, backup, flags>>
        /\ bpc'[b] = "killed" /\ \A c \in Builds \ {b} : bpc'[c] = bpc[c]
        BY <1>8 DEF KillBuild, Goto, TypeOK, BuildTypeOK
  <2>2. \A c \in Builds : BuildTold(c)'
        BY <2>1 DEF BuildInv, flags, BuildTold, FlagsTell, Pristine, Forward, Backward, Saved, AsFound
  <2>3. Calm' => Calm /\ (Kept => Kept') /\ \A c \in Builds : Beside(c) => Beside(c)'
        BY <2>1 DEF flags, Kept, Beside, Began, Calm
  <2>4. \A c \in Builds : CatchTold(c)'
    <3>1. CatchTold(b)' BY <2>1 DEF CatchTold, LeavesNothing, Catching
    <3>2. ASSUME NEW c \in Builds \ {b} PROVE CatchTold(c)'
      <4>1. Remains(c)' = Remains(c) BY <2>1 DEF flags, Remains
      <4> QED BY <2>1, <4>1 DEF BuildInv, flags, CatchTold, LeavesNothing, Catching, Returned,
                                StillAway, NewLeft
    <3> QED BY <3>1, <3>2
  <2> QED BY <2>1, <2>2, <2>3, <2>4 DEF BuildInv, TargetEditTraced
<1> QED BY <1>1, <1>2, <1>4, <1>5, <1>6, <1>7, <1>8 DEF Next

-----------------------------------------------------------------------------
(* The lock and the edits.                                                  *)

\* The lock goes with the position of the installation, too.
LEMMA InstallHolds ==
    ASSUME OneHolder, FilesTypeOK, InstallSteps, UNCHANGED <<target, build>>
    PROVE  OneHolder'
<1> USE PublishedFilesAssumption DEF FilesTypeOK, IGoto, Undoing, Below, HoldingInstall, InstallOutcomes
<1>1. \/ lock' = lock /\ (ipc \in HoldingInstall <=> ipc' \in HoldingInstall)
      \/ lock = None /\ lock' = Installer /\ ipc' \in HoldingInstall
      \/ lock = Installer /\ lock' = None /\ ipc' \notin HoldingInstall
  <2>1. CASE PlanInstall
        BY <2>1 DEF PlanInstall, Acquire, Locked, Unlock
  <2>2. CASE StartInstall
        BY <2>2 DEF StartInstall, Acquire, Locked, Unlock
  <2>3. CASE InstallLocked
        BY <2>3 DEF InstallLocked, Acquire, Locked, Unlock
  <2>4. CASE CheckInstall
        BY <2>4 DEF CheckInstall, Acquire, Locked, Unlock
  <2>5. CASE RefuseInstall
        BY <2>5 DEF RefuseInstall, Acquire, Locked, Unlock
  <2>6. CASE StageItem
        BY <2>6 DEF StageItem, Acquire, Locked, Unlock
  <2>7. CASE StagingFails
        BY <2>7 DEF StagingFails, Acquire, Locked, Unlock
  <2>8. CASE RecheckInstall
        BY <2>8 DEF RecheckInstall, Acquire, Locked, Unlock
  <2>9. CASE VerifyItem
        BY <2>9 DEF VerifyItem, Acquire, Locked, Unlock
  <2>10. CASE BackUpItem
        BY <2>10 DEF BackUpItem, Acquire, Locked, Unlock
  <2>11. CASE PromoteItem
        BY <2>11 DEF PromoteItem, Acquire, Locked, Unlock
  <2>12. CASE SyncItem
        BY <2>12 DEF SyncItem, Acquire, Locked, Unlock
  <2>13. CASE DestinationChanged
        BY <2>13 DEF DestinationChanged, Acquire, Locked, Unlock
  <2>14. CASE InstallFails
        BY <2>14 DEF InstallFails, Acquire, Locked, Unlock
  <2>15. CASE UndoItem
        BY <2>15 DEF UndoItem, Acquire, Locked, Unlock
  <2>16. CASE RestoreItem
        BY <2>16 DEF RestoreItem, Acquire, Locked, Unlock
  <2>17. CASE UnstageItem
        BY <2>17 DEF UnstageItem, Acquire, Locked, Unlock
  <2>18. CASE UndoFails
        BY <2>18 DEF UndoFails, Acquire, Locked, Unlock
  <2>19. CASE EndRollback
        BY <2>19 DEF EndRollback, Acquire, Locked, Unlock
  <2>20. CASE CleanItem
        BY <2>20 DEF CleanItem, Acquire, Locked, Unlock
  <2>21. CASE CleaningFails
        BY <2>21 DEF CleaningFails, Acquire, Locked, Unlock
  <2>22. CASE EndInstall
        BY <2>22 DEF EndInstall, Acquire, Locked, Unlock
  <2> QED BY <2>1, <2>2, <2>3, <2>4, <2>5, <2>6, <2>7, <2>8, <2>9, <2>10, <2>11, <2>12, 
            <2>13, <2>14, <2>15, <2>16, <2>17, <2>18, <2>19, <2>20, <2>21, <2>22
        DEF InstallSteps
<1> QED BY <1>1 DEF OneHolder, build

\* Every step keeps lock and positions together.
LEMMA NextHolds ==
    ASSUME TypeOK, OneHolder, [Next]_vars
    PROVE  OneHolder'
<1>1. CASE vars' = vars BY <1>1 DEF vars, build, install, OneHolder
<1>2. CASE \E b \in Builds : BuildSteps(b) /\ UNCHANGED install
      BY <1>2, BuildHolds DEF TypeOK, FilesTypeOK
<1>3. CASE InstallSteps /\ UNCHANGED <<target, build>> BY <1>3, InstallHolds DEF TypeOK
<1>4. CASE EditTarget \/ \E k \in Destinations : EditDestination(k)
      BY <1>4 DEF EditTarget, EditDestination, build, install, OneHolder
<1>5. CASE \E b \in Builds : KillBuild(b)
      BY <1>5 DEF KillBuild, Goto, install, OneHolder, TypeOK, BuildTypeOK, HoldingBuild
<1>6. CASE KillInstall BY <1>6 DEF KillInstall, build, OneHolder, HoldingInstall
<1> QED BY <1>1, <1>2, <1>3, <1>4, <1>5, <1>6 DEF Next

\* Every step that adds a late edit of a destination adds the edit.
LEMMA NextLate ==
    ASSUME TypeOK, LateEdited, [Next]_vars
    PROVE  LateEdited'
<1> USE PublishedFilesAssumption DEF LateEdited, Destinations
<1>1. CASE vars' = vars BY <1>1 DEF vars, world
<1>2. CASE \E b \in Builds : BuildSteps(b) BY <1>2, BuildAside DEF TypeOK
<1>3. CASE InstallSteps BY <1>3, InstallAside
<1>4. CASE EditTarget \/ \E k \in Destinations : EditDestination(k)
      BY <1>4 DEF EditTarget, EditDestination
<1>5. CASE (\E b \in Builds : KillBuild(b)) \/ KillInstall BY <1>5 DEF KillBuild, KillInstall
<1> QED BY <1>1, <1>2, <1>3, <1>4, <1>5 DEF Next

-----------------------------------------------------------------------------
(* A step of the installation.                                              *)

\* An item that is moved is one of the destinations, and what is moved in is
\* a whole stage.
LEMMA InstallStepsTyped ==
    ASSUME FilesTypeOK, InstallTypeOK, Position, \A k \in Destinations : ItemTold(k),
           InstallSteps, UNCHANGED <<target, build>>
    PROVE  FilesTypeOK' /\ InstallTypeOK'
<1> USE PublishedFilesAssumption DEF FilesTypeOK, InstallTypeOK, Position, Destinations, IGoto, Undoing, Below, Forth, Back,
        Fault, world, iplan, iflags, files, InstallOutcomes
<1>1. CASE PlanInstall
      BY <1>1 DEF PlanInstall, Acquire, Locked, Unlock, ItemTold, ItemHere, InPlace, Trees, WholeBuilds
<1>2. CASE StartInstall
      BY <1>2 DEF StartInstall, Acquire, Locked, Unlock, ItemTold, ItemHere, InPlace, Trees, WholeBuilds
<1>3. CASE InstallLocked
      BY <1>3 DEF InstallLocked, Acquire, Locked, Unlock, ItemTold, ItemHere, InPlace, Trees, WholeBuilds
<1>4. CASE CheckInstall
      BY <1>4 DEF CheckInstall, Acquire, Locked, Unlock, ItemTold, ItemHere, InPlace, Trees, WholeBuilds
<1>5. CASE RefuseInstall
  <2> USE <1>5 DEF RefuseInstall, Unlock
  <2>1. /\ faults' \in 0..MaxFaults /\ lock' = None
        /\ UNCHANGED <<crashes, edits, edited, late, target>>
        OBVIOUS
  <2>2. ipc' = "refused" /\ UNCHANGED <<at, iplan, files, staged, iflags>> OBVIOUS
  <2>3. FilesTypeOK' BY <2>1
  <2>4. InstallTypeOK' BY <2>2
  <2> QED BY <2>3, <2>4
<1>6. CASE StageItem
      BY <1>6 DEF StageItem, Acquire, Locked, Unlock, ItemTold, ItemHere, InPlace, Trees, WholeBuilds
<1>7. CASE StagingFails
      BY <1>7 DEF StagingFails, Acquire, Locked, Unlock, ItemTold, ItemHere, InPlace, Trees, WholeBuilds
<1>8. CASE RecheckInstall
      BY <1>8 DEF RecheckInstall, Acquire, Locked, Unlock, ItemTold, ItemHere, InPlace, Trees, WholeBuilds
<1>9. CASE VerifyItem
      BY <1>9 DEF VerifyItem, Acquire, Locked, Unlock, ItemTold, ItemHere, InPlace, Trees, WholeBuilds
<1>10. CASE BackUpItem
  <2> USE <1>10 DEF BackUpItem
  <2>1. at \in 1..Items /\ dest[at] \in {"prior", "foreign", None, "new"} OBVIOUS
  <2>2. dest' \in [1..Items -> {"prior", "foreign", None, "new"}] BY <2>1
  <2>3. ibackup' \in [1..Items -> {"prior", "foreign", None, "new"}] BY <2>1
  <2>4. ibackupCreated' \in [1..Items -> BOOLEAN] OBVIOUS
  <2>5. FilesTypeOK' OBVIOUS
  <2> QED BY <2>2, <2>3, <2>4, <2>5
<1>11. CASE PromoteItem
      BY <1>11 DEF PromoteItem, Acquire, Locked, Unlock, ItemTold, ItemHere, InPlace, Trees, WholeBuilds
<1>12. CASE SyncItem
      BY <1>12 DEF SyncItem, Acquire, Locked, Unlock, ItemTold, ItemHere, InPlace, Trees, WholeBuilds
<1>13. CASE DestinationChanged
      BY <1>13 DEF DestinationChanged, Acquire, Locked, Unlock, ItemTold, ItemHere, InPlace, Trees, WholeBuilds
<1>14. CASE InstallFails
      BY <1>14 DEF InstallFails, Acquire, Locked, Unlock, ItemTold, ItemHere, InPlace, Trees, WholeBuilds
<1>15. CASE UndoItem
      BY <1>15 DEF UndoItem, Acquire, Locked, Unlock, ItemTold, ItemHere, InPlace, Trees, WholeBuilds
<1>16. CASE RestoreItem
  <2>1. /\ UNCHANGED <<at, iplan, istage, staged, iflags, lock, world>>
        /\ ipc = "restore" /\ ipc' = "unstage"
        BY <1>16 DEF RestoreItem
  <2>2. \/ UNCHANGED <<dest, ibackup>>
        \/ /\ dest' = [dest EXCEPT ![at] = ibackup[at]]
           /\ ibackup' = [ibackup EXCEPT ![at] = None]
        BY <1>16 DEF RestoreItem
  <2>3. at \in 1..Items /\ ibackup[at] \in {"prior", "foreign", None, "new"} BY <2>1
  <2>4. dest' \in [1..Items -> {"prior", "foreign", None, "new"}] BY <2>2, <2>3
  <2>5. ibackup' \in [1..Items -> {"prior", "foreign", None, "new"}] BY <2>2, <2>3
  <2>6. FilesTypeOK' BY <2>1
  <2> QED BY <2>1, <2>4, <2>5, <2>6
<1>17. CASE UnstageItem
      BY <1>17 DEF UnstageItem, Acquire, Locked, Unlock, ItemTold, ItemHere, InPlace, Trees, WholeBuilds
<1>18. CASE UndoFails
      BY <1>18 DEF UndoFails, Acquire, Locked, Unlock, ItemTold, ItemHere, InPlace, Trees, WholeBuilds
<1>19. CASE EndRollback
      BY <1>19 DEF EndRollback, Acquire, Locked, Unlock, ItemTold, ItemHere, InPlace, Trees, WholeBuilds
<1>20. CASE CleanItem
      BY <1>20 DEF CleanItem, Acquire, Locked, Unlock, ItemTold, ItemHere, InPlace, Trees, WholeBuilds
<1>21. CASE CleaningFails
  <2>1. /\ UNCHANGED <<ipc, iplan, dest, istage, staged, installed, partial, target, lock>>
        /\ at' = at + 1 /\ at <= Items /\ cleanupFailed' = TRUE
        BY <1>21 DEF CleaningFails
  <2>2. \/ UNCHANGED <<ibackup, ibackupCreated>>
        \/ /\ ibackup' = [ibackup EXCEPT ![at] = None]
           /\ ibackupCreated' = [ibackupCreated EXCEPT ![at] = FALSE]
        BY <1>21 DEF CleaningFails
  <2>3. ibackup' \in [1..Items -> {"prior", "foreign", None, "new"}] BY <2>2
  <2>4. ibackupCreated' \in [1..Items -> BOOLEAN] BY <2>2, Zenon
  <2>5. at' \in 0..(Items + 1) BY <2>1
  <2>6. FilesTypeOK' BY <1>21 DEF CleaningFails
  <2>7. InstallTypeOK' BY <2>1, <2>3, <2>4, <2>5
  <2> QED BY <2>6, <2>7
<1>22. CASE EndInstall
      BY <1>22 DEF EndInstall, Acquire, Locked, Unlock, ItemTold, ItemHere, InPlace, Trees, WholeBuilds
<1> QED BY <1>1, <1>2, <1>3, <1>4, <1>5, <1>6, <1>7, <1>8, <1>9, <1>10, <1>11, <1>12, 
          <1>13, <1>14, <1>15, <1>16, <1>17, <1>18, <1>19, <1>20, <1>21, <1>22
      DEF InstallSteps

\* A step of an installation leaves its destinations where its new place in the
\* code says they are.
LEMMA PositionStays ==
    ASSUME InstallTypeOK, Position, \A k \in Destinations : ItemTold(k),
           InstallSteps, UNCHANGED <<target, build>>
    PROVE  Position'
<1> USE PublishedFilesAssumption DEF InstallTypeOK, Position, Destinations, IGoto, Undoing, Below, Forth, Back,
        world, iplan, iflags, files, InstallOutcomes, AsPlanned
<1>0. edited' = edited BY InstallAside
<1>1. CASE PlanInstall
      BY <1>0, <1>1 DEF PlanInstall
<1>2. CASE StartInstall
      BY <1>0, <1>2 DEF StartInstall
<1>3. CASE InstallLocked
      BY <1>0, <1>3 DEF InstallLocked
<1>4. CASE CheckInstall
      BY <1>0, <1>4 DEF CheckInstall
<1>5. CASE RefuseInstall
      BY <1>0, <1>5 DEF RefuseInstall
<1>6. CASE StageItem
      BY <1>0, <1>6 DEF StageItem
<1>7. CASE StagingFails
      BY <1>0, <1>7 DEF StagingFails
<1>8. CASE RecheckInstall
      BY <1>0, <1>8 DEF RecheckInstall
<1>9. CASE VerifyItem
      BY <1>0, <1>9 DEF VerifyItem
<1>10. CASE BackUpItem
      BY <1>0, <1>10 DEF BackUpItem
<1>11. CASE PromoteItem
      BY <1>0, <1>11 DEF PromoteItem
<1>12. CASE SyncItem
      BY <1>0, <1>12 DEF SyncItem
<1>13. CASE DestinationChanged
      BY <1>0, <1>13 DEF DestinationChanged
<1>14. CASE InstallFails
      BY <1>0, <1>14 DEF InstallFails
<1>15. CASE UndoItem
      BY <1>0, <1>15 DEF UndoItem
<1>16. CASE RestoreItem
      BY <1>0, <1>16 DEF RestoreItem
<1>17. CASE UnstageItem
      BY <1>0, <1>17 DEF UnstageItem
<1>18. CASE UndoFails
      BY <1>0, <1>18 DEF UndoFails
<1>19. CASE EndRollback
      BY <1>0, <1>19 DEF EndRollback
<1>20. CASE CleanItem
      BY <1>0, <1>20 DEF CleanItem
<1>21. CASE CleaningFails
      BY <1>0, <1>21 DEF CleaningFails
<1>22. CASE EndInstall
      BY <1>0, <1>22 DEF EndInstall
<1> QED BY <1>1, <1>2, <1>3, <1>4, <1>5, <1>6, <1>7, <1>8, <1>9, <1>10, <1>11, <1>12, 
          <1>13, <1>14, <1>15, <1>16, <1>17, <1>18, <1>19, <1>20, <1>21, <1>22
      DEF InstallSteps

\* A step of the installation leaves of every item what its flags and the
\* place say true.
LEMMA ItemsTold ==
    ASSUME InstallTypeOK, Position, LateEdited, \A k \in Destinations : ItemTold(k),
           InstallSteps, UNCHANGED <<target, build>>, NEW k \in Destinations
    PROVE  ItemTold(k)'
<1>0. edited' = edited /\ late' = late BY InstallAside
<1> USE PublishedFilesAssumption DEF InstallTypeOK, Position, Destinations, IGoto, Undoing, Below, Forth, Back,
        iplan, iflags, files, InstallOutcomes, AsPlanned, LateEdited, AsSeen, BackedUp,
        ItemTold, Ahead, InPlace, ToUndo, Undone
<1>1. CASE PlanInstall
      BY <1>0, <1>1 DEF PlanInstall, ItemAhead, ItemHere, ItemInPlace, ItemBack, ItemDone, EditTraced
<1>2. CASE StartInstall
      BY <1>0, <1>2 DEF StartInstall, ItemAhead, ItemHere, ItemInPlace, ItemBack, ItemDone, EditTraced
<1>3. CASE InstallLocked
      BY <1>0, <1>3 DEF InstallLocked, ItemAhead, ItemHere, ItemInPlace, ItemBack, ItemDone, EditTraced
<1>4. CASE CheckInstall
      BY <1>0, <1>4 DEF CheckInstall, ItemAhead, ItemHere, ItemInPlace, ItemBack, ItemDone, EditTraced
<1>5. CASE RefuseInstall
      BY <1>0, <1>5 DEF RefuseInstall, ItemAhead, ItemHere, ItemInPlace, ItemBack, ItemDone, EditTraced
<1>6. CASE StageItem
      BY <1>0, <1>6 DEF StageItem, ItemAhead, ItemHere, ItemInPlace, ItemBack, ItemDone, EditTraced
<1>7. CASE StagingFails
      BY <1>0, <1>7 DEF StagingFails, ItemAhead, ItemHere, ItemInPlace, ItemBack, ItemDone, EditTraced
<1>8. CASE RecheckInstall
      BY <1>0, <1>8 DEF RecheckInstall, ItemAhead, ItemHere, ItemInPlace, ItemBack, ItemDone, EditTraced
<1>9. CASE VerifyItem
      BY <1>0, <1>9 DEF VerifyItem, ItemAhead, ItemHere, ItemInPlace, ItemBack, ItemDone, EditTraced
<1>10. CASE BackUpItem
      BY <1>0, <1>10 DEF BackUpItem, ItemAhead, ItemHere, ItemInPlace, ItemBack, ItemDone, EditTraced
<1>11. CASE PromoteItem
      BY <1>0, <1>11 DEF PromoteItem, ItemAhead, ItemHere, ItemInPlace, ItemBack, ItemDone, EditTraced
<1>12. CASE SyncItem
      BY <1>0, <1>12 DEF SyncItem, ItemAhead, ItemHere, ItemInPlace, ItemBack, ItemDone, EditTraced
<1>13. CASE DestinationChanged
      BY <1>0, <1>13 DEF DestinationChanged, ItemAhead, ItemHere, ItemInPlace, ItemBack, ItemDone, EditTraced
<1>14. CASE InstallFails
      BY <1>0, <1>14 DEF InstallFails, ItemAhead, ItemHere, ItemInPlace, ItemBack, ItemDone, EditTraced
<1>15. CASE UndoItem
      BY <1>0, <1>15 DEF UndoItem, ItemAhead, ItemHere, ItemInPlace, ItemBack, ItemDone, EditTraced
<1>16. CASE RestoreItem
  <2>1. ItemAhead(k)' BY <1>0, <1>16 DEF RestoreItem, ItemAhead, ItemHere, ItemInPlace, ItemBack, ItemDone, EditTraced
  <2>2. ItemHere(k)' BY <1>0, <1>16 DEF RestoreItem, ItemAhead, ItemHere, ItemInPlace, ItemBack, ItemDone, EditTraced
  <2>3. ItemInPlace(k)' BY <1>0, <1>16 DEF RestoreItem, ItemAhead, ItemHere, ItemInPlace, ItemBack, ItemDone, EditTraced
  <2>4. ItemBack(k)'
    <3>1. CASE k # at BY <1>0, <1>16, <3>1 DEF RestoreItem, ItemBack
    <3>2. CASE k = at
      <4>1. ibackup'[k] = None /\ AsSeen(k)'
            BY <1>0, <1>16, <3>2 DEF RestoreItem, ItemHere
      <4> QED BY <1>16, <3>2, <4>1 DEF RestoreItem, ItemBack
    <3> QED BY <3>1, <3>2
  <2>5. ItemDone(k)' BY <1>0, <1>16 DEF RestoreItem, ItemAhead, ItemHere, ItemInPlace, ItemBack, ItemDone, EditTraced
  <2>6. EditTraced(k)'
    <3>1. CASE k # at BY <1>0, <1>16, <3>1 DEF RestoreItem, EditTraced
    <3>2. CASE k = at
      <4>1. /\ dest'[k] = IF ibackupCreated[k] THEN ibackup[k] ELSE dest[k]
            /\ ~ibackupCreated[k] => ibackup'[k] = ibackup[k]
            /\ ibackupCreated[k] /\ k \notin late => dest[k] = None
            BY <1>0, <1>16, <3>2 DEF RestoreItem, ItemHere
      <4>2. expected' = expected BY <1>16 DEF RestoreItem
      <4> QED BY <1>0, <4>1, <4>2 DEF EditTraced
    <3> QED BY <3>1, <3>2
  <2> QED BY <2>1, <2>2, <2>3, <2>4, <2>5, <2>6
<1>17. CASE UnstageItem
      BY <1>0, <1>17 DEF UnstageItem, ItemAhead, ItemHere, ItemInPlace, ItemBack, ItemDone, EditTraced
<1>18. CASE UndoFails
      BY <1>0, <1>18 DEF UndoFails, ItemAhead, ItemHere, ItemInPlace, ItemBack, ItemDone, EditTraced
<1>19. CASE EndRollback
      BY <1>0, <1>19 DEF EndRollback, ItemAhead, ItemHere, ItemInPlace, ItemBack, ItemDone, EditTraced
<1>20. CASE CleanItem
      BY <1>0, <1>20 DEF CleanItem, ItemAhead, ItemHere, ItemInPlace, ItemBack, ItemDone, EditTraced
<1>21. CASE CleaningFails
  <2>1. ItemAhead(k)' /\ ItemHere(k)' /\ ItemInPlace(k)' BY <1>0, <1>21 DEF CleaningFails, ItemAhead, ItemHere, ItemInPlace, ItemDone
  <2>2. ItemBack(k)' BY <1>0, <1>21 DEF CleaningFails, ItemBack
  <2>3. ItemDone(k)' BY <1>0, <1>21 DEF CleaningFails, ItemDone
  <2>4. EditTraced(k)' BY <1>0, <1>21 DEF CleaningFails, EditTraced, ItemDone
  <2> QED BY <2>1, <2>2, <2>3, <2>4
<1>22. CASE EndInstall
      BY <1>0, <1>22 DEF EndInstall, ItemAhead, ItemHere, ItemInPlace, ItemBack, ItemDone, EditTraced
<1> QED BY <1>1, <1>2, <1>3, <1>4, <1>5, <1>6, <1>7, <1>8, <1>9, <1>10, <1>11, <1>12, 
          <1>13, <1>14, <1>15, <1>16, <1>17, <1>18, <1>19, <1>20, <1>21, <1>22
      DEF InstallSteps

\* A step of the installation leaves beside a destination only what its
\* rollback has yet to remove, or could not, or never knew of.
LEMMA StagesLeft ==
    ASSUME InstallTypeOK, Position, LateEdited, \A k \in Destinations : ItemTold(k),
           InstallSteps, UNCHANGED <<target, build>>, NEW k \in Destinations, StageLeft(k)
    PROVE  StageLeft(k)'
<1>0. edited' = edited /\ late' = late BY InstallAside
<1> USE DEF InstallTypeOK, Position, Destinations, IGoto, Undoing, Below, Forth, Back,
        iplan, iflags, files, InstallOutcomes, StageLeft
<1>1. CASE PlanInstall BY <1>0, <1>1 DEF PlanInstall
<1>2. CASE StartInstall BY <1>0, <1>2 DEF StartInstall
<1>3. CASE InstallLocked BY <1>0, <1>3 DEF InstallLocked
<1>4. CASE CheckInstall BY <1>0, <1>4 DEF CheckInstall
<1>5. CASE RefuseInstall BY <1>0, <1>5 DEF RefuseInstall
<1>6. CASE StageItem
  <2>1. ipc = "stage" /\ istage' = [istage EXCEPT ![at] = "new"] BY <1>6 DEF StageItem
  <2>2. CASE at = Items
    <3>1. ipc' = "recheck" BY <1>6, <2>2 DEF StageItem
    <3> QED BY <3>1
  <2>3. CASE at # Items
    <3>1. ipc' = "stage" /\ at' = at + 1 BY <1>6, <2>3 DEF StageItem
    <3>2. k >= at + 1 => istage'[k] = None BY <2>1
    <3> QED BY <3>1, <3>2
  <2> QED BY <2>2, <2>3
<1>7. CASE StagingFails
  <2>1. /\ ipc = "stage" /\ ipc' = IF staged = 0 THEN "throw" ELSE "undo"
        /\ at' = staged /\ staged' = staged
        BY <1>7 DEF StagingFails
  <2>2. istage'[k] \in {istage[k], "part"} BY <1>7 DEF StagingFails
  <2>3. staged = at - 1 /\ at \in 1..Items BY <2>1
  <2>4. k >= at => istage[k] = None BY <2>1
  <2>5. k > staged => istage'[k] \in {None, "part"} BY <2>2, <2>3, <2>4
  <2> QED BY <2>1, <2>5
<1>8. CASE RecheckInstall BY <1>0, <1>8 DEF RecheckInstall
<1>9. CASE VerifyItem BY <1>0, <1>9 DEF VerifyItem
<1>10. CASE BackUpItem BY <1>0, <1>10 DEF BackUpItem
<1>11. CASE PromoteItem BY <1>0, <1>11 DEF PromoteItem
<1>12. CASE SyncItem BY <1>0, <1>12 DEF SyncItem
<1>13. CASE DestinationChanged BY <1>0, <1>13 DEF DestinationChanged
<1>14. CASE InstallFails BY <1>0, <1>14 DEF InstallFails
<1>15. CASE UndoItem BY <1>0, <1>15 DEF UndoItem
<1>16. CASE RestoreItem BY <1>0, <1>16 DEF RestoreItem
<1>17. CASE UnstageItem BY <1>0, <1>17 DEF UnstageItem
<1>18. CASE UndoFails BY <1>0, <1>18 DEF UndoFails
<1>19. CASE EndRollback BY <1>0, <1>19 DEF EndRollback
<1>20. CASE CleanItem BY <1>0, <1>20 DEF CleanItem
<1>21. CASE CleaningFails BY <1>0, <1>21 DEF CleaningFails
<1>22. CASE EndInstall BY <1>0, <1>22 DEF EndInstall
<1> QED BY <1>1, <1>2, <1>3, <1>4, <1>5, <1>6, <1>7, <1>8, <1>9, <1>10, <1>11, <1>12,
          <1>13, <1>14, <1>15, <1>16, <1>17, <1>18, <1>19, <1>20, <1>21, <1>22
      DEF InstallSteps

\* ... and at and beside it only the prior file, the new one or none.
LEMMA FilesOwn ==
    ASSUME InstallTypeOK, Position, LateEdited, \A k \in Destinations : ItemTold(k),
           InstallSteps, UNCHANGED <<target, build>>, NEW k \in Destinations, OwnFiles(k)
    PROVE  OwnFiles(k)'
<1>0. edited' = edited /\ late' = late BY InstallAside
<1> USE DEF InstallTypeOK, Position, Destinations, IGoto, Undoing, Below, Forth, Back,
        iplan, iflags, files, InstallOutcomes, OwnFiles
<1>1. CASE PlanInstall BY <1>0, <1>1 DEF PlanInstall, ItemTold, ItemAhead, Ahead
<1>2. CASE StartInstall BY <1>0, <1>2 DEF StartInstall
<1>3. CASE InstallLocked BY <1>0, <1>3 DEF InstallLocked
<1>4. CASE CheckInstall BY <1>0, <1>4 DEF CheckInstall
<1>5. CASE RefuseInstall BY <1>0, <1>5 DEF RefuseInstall
<1>6. CASE StageItem BY <1>0, <1>6 DEF StageItem
<1>7. CASE StagingFails BY <1>0, <1>7 DEF StagingFails
<1>8. CASE RecheckInstall BY <1>0, <1>8 DEF RecheckInstall
<1>9. CASE VerifyItem BY <1>0, <1>9 DEF VerifyItem
<1>10. CASE BackUpItem BY <1>0, <1>10 DEF BackUpItem, ItemTold, ItemHere, LateEdited
<1>11. CASE PromoteItem BY <1>0, <1>11 DEF PromoteItem, ItemTold, ItemHere
<1>12. CASE SyncItem BY <1>0, <1>12 DEF SyncItem
<1>13. CASE DestinationChanged BY <1>0, <1>13 DEF DestinationChanged
<1>14. CASE InstallFails BY <1>0, <1>14 DEF InstallFails
<1>15. CASE UndoItem BY <1>0, <1>15 DEF UndoItem
<1>16. CASE RestoreItem
  <2>1. /\ ipc = "restore" /\ expected' = expected
        /\ \/ UNCHANGED <<dest, ibackup>>
           \/ /\ dest' = [dest EXCEPT ![at] = ibackup[at]]
              /\ ibackup' = [ibackup EXCEPT ![at] = None]
        BY <1>16 DEF RestoreItem
  <2>2. dest'[k] \in {dest[k], ibackup[k]} /\ ibackup'[k] \in {ibackup[k], None} BY <2>1
  <2>3. k \notin edited => dest[k] \in {expected[k], "new", None} /\ ibackup[k] \in {expected[k], None}
        BY <2>1
  <2> QED BY <1>0, <2>1, <2>2, <2>3
<1>17. CASE UnstageItem BY <1>0, <1>17 DEF UnstageItem
<1>18. CASE UndoFails BY <1>0, <1>18 DEF UndoFails
<1>19. CASE EndRollback BY <1>0, <1>19 DEF EndRollback
<1>20. CASE CleanItem BY <1>0, <1>20 DEF CleanItem
<1>21. CASE CleaningFails BY <1>0, <1>21 DEF CleaningFails
<1>22. CASE EndInstall BY <1>0, <1>22 DEF EndInstall
<1> QED BY <1>1, <1>2, <1>3, <1>4, <1>5, <1>6, <1>7, <1>8, <1>9, <1>10, <1>11, <1>12,
          <1>13, <1>14, <1>15, <1>16, <1>17, <1>18, <1>19, <1>20, <1>21, <1>22
      DEF InstallSteps

\* No step of the installation loses a prior file before that.
LEMMA PriorsStay ==
    ASSUME InstallTypeOK, Position, LateEdited, \A k \in Destinations : ItemTold(k),
           PriorsKeptSoFar, InstallSteps, UNCHANGED <<target, build>>
    PROVE  PriorsKeptSoFar'
<1>0. edited' = edited /\ late' = late BY InstallAside
<1> USE DEF IGoto, Undoing, Below, InstallOutcomes, Finished
<1>1. ipc # "killed" /\ (ipc \in Finished => ipc' \in Finished)
      BY DEF InstallSteps, PlanInstall, StartInstall, InstallLocked, CheckInstall, RefuseInstall, 
      StageItem, StagingFails, RecheckInstall, VerifyItem, BackUpItem, PromoteItem, 
      SyncItem, DestinationChanged, InstallFails, UndoItem, RestoreItem, UnstageItem, 
      UndoFails, EndRollback, CleanItem, CleaningFails, EndInstall
<1>2. SUFFICES ASSUME ipc' \notin Finished, NEW k \in Destinations, PriorKept(k)
               PROVE  PriorKept(k)'
      BY <1>1 DEF PriorsKeptSoFar
<1> USE DEF InstallTypeOK, Position, Destinations, Forth, Back, iplan, files, LateEdited, AsSeen, BackedUp,
        ItemTold, ItemAhead, ItemHere, ItemBack, Ahead, ToUndo, PriorKept, Clear
<1>3. CASE PlanInstall
      BY <1>0, <1>2, <1>3 DEF PlanInstall
<1>4. CASE StartInstall
      BY <1>0, <1>2, <1>4 DEF StartInstall
<1>5. CASE InstallLocked
      BY <1>0, <1>2, <1>5 DEF InstallLocked
<1>6. CASE CheckInstall
      BY <1>0, <1>2, <1>6 DEF CheckInstall
<1>7. CASE RefuseInstall
      BY <1>0, <1>2, <1>7 DEF RefuseInstall
<1>8. CASE StageItem
      BY <1>0, <1>2, <1>8 DEF StageItem
<1>9. CASE StagingFails
      BY <1>0, <1>2, <1>9 DEF StagingFails
<1>10. CASE RecheckInstall
      BY <1>0, <1>2, <1>10 DEF RecheckInstall
<1>11. CASE VerifyItem
      BY <1>0, <1>2, <1>11 DEF VerifyItem
<1>12. CASE BackUpItem
      BY <1>0, <1>2, <1>12 DEF BackUpItem
<1>13. CASE PromoteItem
      BY <1>0, <1>2, <1>13 DEF PromoteItem
<1>14. CASE SyncItem
      BY <1>0, <1>2, <1>14 DEF SyncItem
<1>15. CASE DestinationChanged
      BY <1>0, <1>2, <1>15 DEF DestinationChanged
<1>16. CASE InstallFails
      BY <1>0, <1>2, <1>16 DEF InstallFails
<1>17. CASE UndoItem
      BY <1>0, <1>2, <1>17 DEF UndoItem
<1>18. CASE RestoreItem
      BY <1>0, <1>2, <1>18 DEF RestoreItem
<1>19. CASE UnstageItem
      BY <1>0, <1>2, <1>19 DEF UnstageItem
<1>20. CASE UndoFails
      BY <1>0, <1>2, <1>20 DEF UndoFails
<1>21. CASE EndRollback
      BY <1>0, <1>2, <1>21 DEF EndRollback
<1>22. CASE CleanItem
      BY <1>0, <1>2, <1>22 DEF CleanItem
<1>23. CASE CleaningFails
      BY <1>0, <1>2, <1>23 DEF CleaningFails
<1>24. CASE EndInstall
      BY <1>0, <1>2, <1>24 DEF EndInstall
<1> QED BY <1>3, <1>4, <1>5, <1>6, <1>7, <1>8, <1>9, <1>10, <1>11, <1>12, <1>13, <1>14, 
          <1>15, <1>16, <1>17, <1>18, <1>19, <1>20, <1>21, <1>22, <1>23, <1>24
      DEF InstallSteps

\* What is said of the items depends on nothing of the builds but the edits.
LEMMA ItemsAside ==
    ASSUME UNCHANGED install, \A k \in Destinations : k \in edited' <=> k \in edited,
           \A k \in Destinations : k \in late' <=> k \in late
    PROVE  /\ \A k \in Destinations : ItemTold(k) => ItemTold(k)'
           /\ \A k \in Destinations : ItemLeft(k) => ItemLeft(k)'
           /\ PriorsKeptSoFar => PriorsKeptSoFar'
<1> USE DEF install, iplan, files, iflags, AsSeen
<1>1. ASSUME NEW k \in Destinations PROVE ItemTold(k) => ItemTold(k)'
      BY DEF ItemTold, ItemAhead, ItemHere, ItemInPlace, ItemBack, ItemDone, EditTraced, BackedUp,
             Ahead, InPlace, ToUndo, Undone
<1>2. PriorsKeptSoFar => PriorsKeptSoFar'
      BY DEF PriorsKeptSoFar, Finished, NewOrEdited, PriorKept, Clear
<1>3. ASSUME NEW k \in Destinations PROVE ItemLeft(k) => ItemLeft(k)'
      BY DEF ItemLeft, StageLeft, OwnFiles, Back
<1> QED BY <1>1, <1>2, <1>3

\* An edit of a destination past the last look is late; before it, the item
\* has its edit at the destination.
LEMMA EditTold ==
    ASSUME TypeOK, InstallInv, NEW j \in Destinations, EditDestination(j)
    PROVE  InstallInv'
<1>1. /\ UNCHANGED <<target, ipc, at, iplan, istage, ibackup, staged, iflags>>
      /\ edited' = edited \cup {j} /\ dest' = [dest EXCEPT ![j] = "foreign"]
      /\ late' = IF j \in Past THEN late \cup {j} ELSE late
      BY DEF EditDestination
<1> USE DEF TypeOK, InstallTypeOK, iplan, iflags
<1>2. Position' BY <1>1 DEF InstallInv, Position
<1>3. ASSUME NEW k \in Destinations PROVE ItemTold(k)'
  <2>1. ItemTold(k) BY DEF InstallInv
  <2> USE <1>1, <2>1 DEF ItemTold, AsSeen, BackedUp, Ahead, InPlace, ToUndo, Undone, Forth, Back, Past, InstallInv,
          Position, Destinations
  <2>2. ItemAhead(k)' BY DEF ItemAhead
  <2>3. ItemHere(k)' BY DEF ItemHere
  <2>4. ItemInPlace(k)' BY DEF ItemInPlace
  <2>5. ItemBack(k)' BY DEF ItemBack
  <2>6. ItemDone(k)' /\ EditTraced(k)' BY DEF ItemDone, EditTraced
  <2> QED BY <2>2, <2>3, <2>4, <2>5, <2>6
<1>4. PriorsKeptSoFar'
      BY <1>1 DEF InstallInv, PriorsKeptSoFar, Finished, NewOrEdited, PriorKept, Clear
<1>5. ASSUME NEW k \in Destinations PROVE ItemLeft(k)'
      BY <1>1 DEF InstallInv, ItemLeft, StageLeft, OwnFiles, Back
<1> QED BY <1>2, <1>3, <1>4, <1>5 DEF InstallInv

\* Every step keeps what is said of the installation.
LEMMA NextInstall ==
    ASSUME TypeOK, OneHolder, LateEdited, InstallInv, [Next]_vars
    PROVE  InstallInv'
<1>1. CASE vars' = vars
      BY <1>1, ItemsAside DEF vars, world, install, iplan, iflags, InstallInv, Position
<1>2. ASSUME NEW b \in Builds, BuildSteps(b), UNCHANGED install PROVE InstallInv'
  <2>1. edited' = edited /\ (late' = late \/ late' = late \cup {0}) BY <1>2, BuildAside DEF TypeOK
  <2>2. \A k \in Destinations : k \in late' <=> k \in late
        BY <2>1, PublishedFilesAssumption DEF Destinations
  <2>3. ipc \in HoldingInstall => target' = target
        BY <1>2, BuildAside, PublishedFilesAssumption DEF TypeOK, OneHolder
  <2>4. Position' BY <1>2, <2>1, <2>3 DEF InstallInv, Position, install, iplan, iflags, HoldingInstall, Forth
  <2> QED BY <1>2, <2>1, <2>2, <2>4, ItemsAside DEF InstallInv
<1>3. CASE InstallSteps /\ UNCHANGED <<target, build>>
      BY <1>3, PositionStays, ItemsTold, StagesLeft, FilesOwn, PriorsStay DEF TypeOK, InstallInv, ItemLeft
<1>4. CASE EditTarget
  <2>1. /\ 0 \in edited' /\ UNCHANGED install /\ edited' = edited \cup {0}
        /\ late' = late \/ late' = late \cup {0}
        BY <1>4 DEF EditTarget
  <2>2. \A k \in Destinations : (k \in late' <=> k \in late) /\ (k \in edited' <=> k \in edited)
        BY <2>1, PublishedFilesAssumption DEF Destinations
  <2> QED BY <2>1, <2>2, ItemsAside DEF InstallInv, Position, install, iplan, iflags
<1>5. CASE \E k \in Destinations : EditDestination(k) BY <1>5, EditTold
<1>6. CASE \E b \in Builds : KillBuild(b)
      BY <1>6, ItemsAside DEF KillBuild, InstallInv, Position, install, iplan, iflags
<1>7. CASE KillInstall
  <2>1. /\ lock = Installer /\ ipc' = "killed"
        /\ UNCHANGED <<edited, late, at, iplan, files, staged, iflags>>
        BY <1>7 DEF KillInstall
  <2>2. \A k \in Destinations : ItemTold(k)'
        BY <2>1 DEF InstallInv, ItemTold, ItemAhead, ItemHere, ItemInPlace, ItemBack, ItemDone, EditTraced,
                    Ahead, InPlace, ToUndo, Undone, Forth, Back, iplan, files
  <2>3. PriorsKeptSoFar'
    <3>1. CASE ipc \in Finished
          BY <2>1, <3>1 DEF InstallInv, ItemTold, ItemDone, PriorsKeptSoFar, Finished, NewOrEdited, files
    <3>2. CASE ipc \notin Finished
          BY <2>1, <3>2 DEF InstallInv, PriorsKeptSoFar, NewOrEdited, PriorKept, Clear, files, iplan
    <3> QED BY <3>1, <3>2
  <2>4. \A k \in Destinations : ItemLeft(k)'
    <3>1. ipc # "new" BY <2>1 DEF IInv, OneHolder, HoldingInstall
    <3>2. ASSUME NEW k \in Destinations PROVE OwnFiles(k)
          BY DEF InstallInv, ItemLeft
    <3> QED BY <2>1, <3>1, <3>2 DEF ItemLeft, StageLeft, OwnFiles, Back, iplan, files
  <2> QED BY <2>1, <2>2, <2>3, <2>4 DEF InstallInv, Position, Forth, Back
<1> QED BY <1>1, <1>2, <1>3, <1>4, <1>5, <1>6, <1>7 DEF Next

-----------------------------------------------------------------------------
\* The initial states satisfy the invariant.
LEMMA InitInv ==
    ASSUME Init
    PROVE  IInv
<1> USE PublishedFilesAssumption DEF Init, FilesInit, BuildInit, InstallInit, Prior, Destinations
<1>1. TypeOK
  <2>1. FilesTypeOK BY DEF FilesTypeOK, Trees
  <2>2. BuildTypeOK BY DEF BuildTypeOK, Trees
  <2>3. InstallTypeOK
    <3>1. 1 \in 0..(Items + 1) /\ 0 \in 0..Items OBVIOUS
    <3>2. \A k \in 1..Items : Prior(k) \in {"prior", "foreign", None, "new"} OBVIOUS
    <3>3. dest \in [1..Items -> {"prior", "foreign", None, "new"}] BY <3>2
    <3>4. /\ expected \in [1..Items -> {"prior", "foreign", None, "new"}]
          /\ ibackup \in [1..Items -> {"prior", "foreign", None, "new"}]
          OBVIOUS
    <3>5. /\ istage \in [1..Items -> {"new", "part", None}]
          /\ installed \in [1..Items -> BOOLEAN] /\ ibackupCreated \in [1..Items -> BOOLEAN]
          OBVIOUS
    <3> QED BY <3>1, <3>3, <3>4, <3>5 DEF InstallTypeOK
  <2> QED BY <2>1, <2>2, <2>3 DEF TypeOK
<1>2. OneHolder /\ LateEdited BY DEF OneHolder, LateEdited, HoldingBuild, HoldingInstall
<1>3. BuildInv
      BY DEF BuildInv, BuildTold, FlagsTell, Pristine, Forward, Backward, Kept, Beside, Began, WholeBuilds,
             TargetEditTraced, CatchTold, LeavesNothing, Catching
<1>4. InstallInv
      BY DEF InstallInv, ItemLeft, StageLeft, OwnFiles, Position, Forth, Back, PriorsKeptSoFar, PriorKept, ItemTold, ItemAhead, ItemHere,
             ItemInPlace, ItemBack, ItemDone, EditTraced, Ahead, InPlace, ToUndo, Undone, AsSeen
<1> QED BY <1>1, <1>2, <1>3, <1>4 DEF IInv

\* Every step of the system keeps the types.
LEMMA NextTyped ==
    ASSUME IInv, [Next]_vars
    PROVE  TypeOK'
<1>1. CASE vars' = vars
      BY <1>1 DEF vars, world, build, flags, install, iplan, files, iflags, IInv, TypeOK, FilesTypeOK,
                  BuildTypeOK, InstallTypeOK
<1>2. ASSUME NEW b \in Builds, BuildSteps(b), UNCHANGED install PROVE TypeOK'
      BY <1>2, BuildStepsTyped DEF IInv, TypeOK, install, iplan, files, iflags, InstallTypeOK
<1>3. CASE InstallSteps /\ UNCHANGED <<target, build>>
      BY <1>3, InstallStepsTyped DEF IInv, InstallInv, TypeOK, build, flags, BuildTypeOK
<1>4. CASE EditTarget
  <2>1. FilesTypeOK' BY <1>4, PublishedFilesAssumption DEF EditTarget, IInv, TypeOK, FilesTypeOK, Trees
  <2> QED BY <1>4, <2>1 DEF EditTarget, IInv, TypeOK, build, flags, install, iplan, files, iflags,
                            BuildTypeOK, InstallTypeOK
<1>5. ASSUME NEW k \in Destinations, EditDestination(k) PROVE TypeOK'
  <2>1. FilesTypeOK' BY <1>5, PublishedFilesAssumption DEF EditDestination, IInv, TypeOK, FilesTypeOK
  <2>2. BuildTypeOK' BY <1>5 DEF EditDestination, IInv, TypeOK, build, flags, BuildTypeOK
  <2>3. InstallTypeOK' BY <1>5 DEF EditDestination, IInv, TypeOK, InstallTypeOK, iplan, iflags
  <2> QED BY <2>1, <2>2, <2>3 DEF TypeOK
<1>6. ASSUME NEW b \in Builds, KillBuild(b) PROVE TypeOK'
  <2>1. FilesTypeOK' BY <1>6, PublishedFilesAssumption DEF KillBuild, IInv, TypeOK, FilesTypeOK
  <2>2. BuildTypeOK' BY <1>6 DEF KillBuild, Goto, IInv, TypeOK, flags, BuildTypeOK
  <2>3. InstallTypeOK' BY <1>6 DEF KillBuild, IInv, TypeOK, install, iplan, files, iflags, InstallTypeOK
  <2> QED BY <2>1, <2>2, <2>3 DEF TypeOK
<1>7. CASE KillInstall
  <2>1. FilesTypeOK' BY <1>7, PublishedFilesAssumption DEF KillInstall, IInv, TypeOK, FilesTypeOK
  <2>2. BuildTypeOK' BY <1>7 DEF KillInstall, IInv, TypeOK, build, flags, BuildTypeOK
  <2>3. InstallTypeOK' BY <1>7 DEF KillInstall, IInv, TypeOK, iplan, files, iflags, InstallTypeOK
  <2> QED BY <2>1, <2>2, <2>3 DEF TypeOK
<1> QED BY <1>1, <1>2, <1>3, <1>4, <1>5, <1>6, <1>7 DEF Next

\* The inductive invariant holds throughout.
LEMMA Inductive == Spec => []IInv
<1>1. Init => IInv BY InitInv
<1>2. IInv /\ [Next]_vars => IInv'
      BY NextTyped, NextHolds, NextLate, NextBuild, NextInstall DEF IInv
<1> QED BY <1>1, <1>2, PTL DEF Spec

\* Both transactions and what they share keep their shape: a destination
\* that is moved is one of the configured ones, and nothing half written ever
\* takes the name of a destination.
THEOREM PublicationTyped == Spec => []TypeOK
<1>1. IInv => TypeOK BY DEF IInv
<1> QED BY <1>1, Inductive, PTL

\* Whoever is killed and whatever fails but the removal of an old build's
\* backup, a whole build exists once one was replaced, and whatever fails every
\* prior file until all are replaced; edits past the last look are excepted.
THEOREM NothingIsLost == Spec => []NothingLost
<1>1. ASSUME IInv PROVE BuildKept
      BY <1>1 DEF IInv, BuildInv, Calm, Kept, Began, BuildKept
<1>2. ASSUME IInv PROVE PriorsKept
  <2>1. CASE ipc \in Finished
        BY <1>2, <2>1 DEF IInv, InstallInv, ItemTold, ItemDone, Finished, PriorsKept
  <2>2. CASE ipc \notin Finished
        BY <1>2, <2>2 DEF IInv, InstallInv, PriorsKeptSoFar, NewOrEdited, PriorKept, Clear, PriorsKept
  <2> QED BY <2>1, <2>2
<1>3. IInv => NothingLost BY <1>1, <1>2 DEF NothingLost
<1> QED BY <1>3, Inductive, PTL

\* An edit made before the last look at its place is there, in a backup, or
\* was seen by a plan.
THEOREM EditsSurvive == Spec => []EditSurvives
<1>1. ASSUME IInv, 0 \in edited \ late
      PROVE  {"changed", "foreign"} \cap ({target} \cup {backup[b] : b \in Builds}
                                                \cup {planned[b] : b \in Builds}) # {}
      BY <1>1 DEF IInv, BuildInv, TargetEditTraced
<1>2. ASSUME IInv, NEW k \in Destinations \cap (edited \ late)
      PROVE  "foreign" \in {dest[k], ibackup[k], expected[k]}
      BY <1>2 DEF IInv, InstallInv, ItemTold, EditTraced
<1>3. IInv => EditSurvives BY <1>1, <1>2 DEF EditSurvives
<1> QED BY <1>3, Inductive, PTL

-----------------------------------------------------------------------------
(* What the ends report.                                                    *)

\* A build ends where it is refused, where it syncs what it promoted, or where
\* it throws.
LEMMA BuildEnds ==
    ASSUME IInv, [Next]_vars, NEW b \in Builds
    PROVE  BuildHonest(b)
<1> USE DEF BuildHonest, Ends
<1>1. CASE bpc'[b] = bpc[b] BY <1>1
<1>2. CASE BuildSteps(b)
  <2>1. FlagsTell(b) /\ LeavesNothing(b) /\ (0 \notin edited => Forward(b) /\ Catching(b))
        BY DEF IInv, BuildInv, BuildTold, CatchTold
  <2> USE DEF IInv, TypeOK, BuildTypeOK, Moves, Throws, At, Goto, flags
  <2>2. CASE SyncPromoted(b) BY <2>1, <2>2 DEF SyncPromoted, FlagsTell, Forward
  <2>3. CASE SyncRemoved(b) BY <2>1, <2>3 DEF SyncRemoved, FlagsTell, Forward
  <2>4. CASE EndBuild(b)
    <3>1. /\ UNCHANGED <<stage, backup, target>> /\ bpc[b] = "throw"
          /\ bpc'[b] = IF rollbackFailed[b] THEN "rollbackFailed" ELSE "failed"
          BY <2>4 DEF EndBuild
    <3>2. CASE rollbackFailed[b]
      <4>1. 0 \notin edited => StillAway(b) \/ NewLeft(b) \/ (Returned(b) /\ stage[b] # None)
            BY <2>1, <3>1, <3>2 DEF Catching
      <4> QED BY <3>1, <3>2, <4>1 DEF StillAway, NewLeft, Returned
    <3>3. CASE ~rollbackFailed[b]
      <4>1. backup[b] = None /\ stage[b] = None BY <2>1, <3>1, <3>3 DEF LeavesNothing
      <4>2. 0 \notin edited => target \in Remains(b) BY <2>1, <3>1, <3>3 DEF Catching, Returned
      <4> QED BY <3>1, <3>3, <4>1, <4>2
    <3> QED BY <3>2, <3>3
  <2>5. CASE BuildLocked(b) BY <2>1, <2>5 DEF BuildLocked, FlagsTell, Pristine
  <2>6. CASE RefuseBuild(b) BY <2>1, <2>6 DEF RefuseBuild, FlagsTell, Pristine
  <2>7. CASE bpc'[b] \notin {"built", "failed", "rollbackFailed", "refused"} BY <2>7
  <2> QED BY <1>2, <2>2, <2>3, <2>4, <2>5, <2>6, <2>7
          DEF BuildSteps, PlanBuild, StartBuild, CheckBuild, StageBuild, 
              RecheckBuild, BackUpBuild, ReserveBuild, PromoteBuild, RemoveBackup, 
              TargetChanged, BuildFails, RemovalFails, UndoPromotion, RestoreBackup, 
              RemoveStage
<1>3. ASSUME NEW c \in Builds \ {b}, BuildSteps(c) PROVE bpc'[b] = bpc[b]
      BY <1>3, BuildAside DEF IInv, TypeOK, SameBuild
<1>4. CASE vars' = vars \/ EditTarget \/ KillInstall \/ \E k \in Destinations : EditDestination(k)
      BY <1>1, <1>4 DEF vars, EditTarget, KillInstall, EditDestination, build
<1>5. CASE InstallSteps /\ UNCHANGED <<target, build>> BY <1>1, <1>5 DEF build
<1>6. CASE \E c \in Builds : KillBuild(c)
  <2>1. bpc'[b] = bpc[b] \/ bpc'[b] = "killed" BY <1>6 DEF KillBuild, Goto, IInv, TypeOK, BuildTypeOK
  <2> QED BY <2>1
<1> QED BY <1>1, <1>2, <1>3, <1>4, <1>5, <1>6 DEF Next

\* An installation ends where it is refused, with its rollback or with its
\* cleaning.
LEMMA InstallEndsHonestly ==
    ASSUME IInv, [Next]_vars
    PROVE  InstallHonest
<1> USE DEF InstallHonest, InstallEnds
<1>1. CASE ipc' = ipc BY <1>1
<1>2. CASE EndRollback
  <2>1. /\ UNCHANGED <<files, iplan, staged, edited, late>> /\ ipc = "throw"
        /\ ipc' = IF partial THEN "partial" ELSE "rolledBack"
        BY <1>2 DEF EndRollback, IGoto, world
  <2>2. CASE partial
    <3>1. ASSUME NEW k \in Destinations \ edited
          PROVE  /\ dest[k] \in {expected[k], "new", None} /\ ibackup[k] \in {expected[k], None}
                 /\ expected[k] \in {None, dest[k], ibackup[k]}
          BY <2>1 DEF IInv, InstallInv, ItemLeft, OwnFiles, PriorsKeptSoFar, PriorKept, Clear, Finished
    <3> QED BY <2>1, <2>2, <3>1 DEF files
  <2>3. CASE ~partial
    <3>1. ASSUME NEW k \in Destinations
          PROVE  ibackup[k] = None /\ (dest[k] = expected[k] \/ k \in edited)
          BY <2>1, <2>3 DEF IInv, InstallInv, ItemTold, ItemBack, Undone, AsSeen
    <3>2. ASSUME NEW k \in Destinations
          PROVE  istage[k] = None \/ (k > staged /\ istage[k] = "part")
          BY <2>1, <2>3 DEF IInv, InstallInv, ItemLeft, StageLeft
    <3> QED BY <2>1, <2>3, <3>1, <3>2 DEF files
  <2> QED BY <2>2, <2>3
<1>3. CASE EndInstall
  <2>1. \A k \in Destinations : k < at
        BY <1>3, PublishedFilesAssumption DEF EndInstall, IInv, TypeOK, InstallTypeOK, Destinations
  <2>2. \A k \in Destinations : ibackup[k] \in {None, expected[k]} \/ k \in edited
        BY <1>3 DEF EndInstall, IGoto, IInv, InstallInv, ItemLeft, OwnFiles
  <2> QED BY <1>3, <2>1, <2>2
          DEF EndInstall, IGoto, files, iplan, iflags, IInv, InstallInv, Position, ItemTold, ItemDone
<1>4. CASE ipc' \notin {"rolledBack", "partial", "installed", "cleanupFailed", "refused"} BY <1>4
<1>9. CASE InstallLocked \/ RefuseInstall
  <2>1. /\ UNCHANGED files /\ ipc \in {"planned", "check"} /\ ipc' = "refused"
        BY <1>9 DEF InstallLocked, RefuseInstall, IGoto
  <2>2. \A k \in Destinations : istage[k] = None /\ ibackup[k] = None
        BY <2>1 DEF IInv, InstallInv, ItemLeft, StageLeft, ItemTold, ItemAhead, Ahead
  <2> QED BY <2>1, <2>2 DEF files
<1>5. CASE InstallSteps
      BY <1>2, <1>3, <1>4, <1>5, <1>9
         DEF InstallSteps, PlanInstall, StartInstall, CheckInstall,
             StageItem, StagingFails, RecheckInstall, VerifyItem, BackUpItem, PromoteItem, 
             SyncItem, DestinationChanged, InstallFails, UndoItem, RestoreItem, UnstageItem, 
             UndoFails, CleanItem, CleaningFails,
             IGoto, Undoing, Below
<1>6. CASE vars' = vars \/ EditTarget \/ (\E k \in Destinations : EditDestination(k))
           \/ (\E b \in Builds : KillBuild(b))
      BY <1>1, <1>6 DEF vars, EditTarget, EditDestination, KillBuild, install
<1>7. CASE KillInstall BY <1>4, <1>7 DEF KillInstall
<1>8. CASE \E b \in Builds : BuildSteps(b) /\ UNCHANGED install BY <1>1, <1>8 DEF install
<1> QED BY <1>5, <1>6, <1>7, <1>8 DEF Next

\* The code that a build or an installation ends with tells what stands at its
\* place and what was left beside it, whatever failed before: also what a failed
\* removal of the backup has left to put back, and where, if it cannot be put
\* back, the prior build or file is.
THEOREM EndsHonest == Spec => OutcomeHonest
<1>1. ASSUME IInv, [Next]_vars
      PROVE  (\A b \in Builds : BuildHonest(b)) /\ InstallHonest
      BY <1>1, BuildEnds, InstallEndsHonestly
<1>2. IInv /\ [Next]_vars => [(\A b \in Builds : BuildHonest(b)) /\ InstallHonest]_vars BY <1>1
<1> QED BY <1>2, Inductive, PTL DEF Spec, OutcomeHonest
=============================================================================
