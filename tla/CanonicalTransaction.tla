------------------------ MODULE CanonicalTransaction ------------------------
(***************************************************************************)
(* The transactional replacement of a project's `.tfsb` tree, as           *)
(* executeCanonicalTransaction (src/transaction.ts) performs it.  Each     *)
(* transaction stages a complete tree beside `.tfsb`, compares the live    *)
(* tree with the snapshot its plan was made from, moves `.tfsb` to a       *)
(* backup name, moves the stage to `.tfsb`, and removes the backup; errors *)
(* roll the move back.  The transactions are separate programs (or calls)  *)
(* working on one root: their file-system calls interleave, any of them    *)
(* can fail or die, a human edits `.tfsb` beside them, and the power can   *)
(* go, which undoes directory changes that no fsync of the root forced.    *)
(*                                                                         *)
(* Bytes are abstracted: a tree is named by who made it (a transaction,    *)
(* one human edit, or Orig, the tree found at the start), since the code   *)
(* tells trees apart only by content and identity (snapshotsEqual).        *)
(***************************************************************************)
EXTENDS Naturals, FiniteSets

CONSTANTS
    Txns,           \* calls of executeCanonicalTransaction, each with its own token
    Edits,          \* human edits; each happens at most once
    Orig,           \* the tree present at the start, if one is
    None,           \* no directory under that name
    Partial,        \* a stage whose files are not all written and synced
    LateEdits,      \* TRUE: a human may edit between the comparison and the rename
    MaxFaults,      \* bound on failing file-system calls, validators and hooks
    MaxCrashes,     \* bound on transactions that die
    MaxPowerCuts    \* bound on power cuts

Trees == Txns \cup Edits \cup {Orig}

ASSUME TreesDistinct ==
    /\ Orig \notin Txns \cup Edits
    /\ Txns \cap Edits = {}
    /\ None \notin Trees
    /\ Partial \notin Trees \cup {None}
ASSUME BoundsAssumption ==
    /\ LateEdits \in BOOLEAN
    /\ MaxFaults \in Nat /\ MaxCrashes \in Nat /\ MaxPowerCuts \in Nat

VARIABLES
    dir,            \* the entries of the root directory
    exposed,        \* the directories a power cut could leave behind
    whole,          \* the trees all of whose files are on disk
    pc,             \* what each transaction does next
    expected,       \* the snapshot each plan was made from
    backupCreated,  \* the flag of that name
    promoted,       \* the flag of that name
    code,           \* the diagnostic being raised, "none" when there is none
    cause,          \* inFlightError, which the diagnostics of a failed cleanup name
    initial,        \* what `.tfsb` was at the start: Orig, or None before a first import
    edited,         \* the human edits made so far
    committed,      \* the transactions whose tree became `.tfsb`
    superseded,     \* the trees replaced by someone who had seen them
    faults, crashes, cuts

disk == <<dir, exposed, whole>>
local == <<pc, expected, backupCreated, promoted, code, cause>>
history == <<initial, edited, committed, superseded>>
budget == <<faults, crashes, cuts>>
vars == <<disk, local, history, budget>>

-----------------------------------------------------------------------------
Codes == {"none", "FAILED", "ROOT_LOCKED", "RECOVERY_REQUIRED", "CANONICAL_CHANGED",
          "PROMOTION_DURABILITY", "ROLLBACK_FAILED", "BACKUP_CLEANUP",
          "CLEANUP_DURABILITY", "STAGE_CLEANUP", "LOCK_CLEANUP"}

(* From the lock's creation to its removal.                                 *)
Holding == {"stage", "write", "compare", "recheck", "moveOld", "preflight", "promote",
            "syncPromoted", "rmBackup", "rmdirBackup", "syncCleanup",
            "rollback", "syncRollback", "cleanStage", "unlock"}
Before == {"new", "planned", "acquire"}
Dead == {"done", "crashed"}

Directories == [lock : Txns \cup {None}, canonical : Trees \cup {None},
                stage : [Txns -> Trees \cup {None, Partial}],
                backup : [Txns -> Trees \cup {None}]]

(* findRecoveryResidue sees the stages and backups of every transaction.    *)
Residue(d) == {u \in Txns : d.stage[u] # None \/ d.backup[u] # None}

(* The trees a directory has under the canonical and the backup names.      *)
Held(d) == ({d.canonical} \cup {d.backup[t] : t \in Txns}) \ {None}

(* A change of the root directory that nothing forces to disk yet.          *)
Change(d) == /\ dir' = d
             /\ exposed' = exposed \cup {d}

(* Mutant: an fsync that forces nothing.                                    *)
SyncRoot_Noop == UNCHANGED <<dir, exposed>>

(* fsync of the root: only the present directory can survive a power cut.   *)
SyncRoot == /\ exposed' = {dir}
            /\ UNCHANGED dir

Goto(t, label) == pc' = [pc EXCEPT ![t] = label]
(* The error of the call itself.                                            *)
Raise(t, c, label) == /\ code' = [code EXCEPT ![t] = c]
                      /\ cause' = [cause EXCEPT ![t] = c]
                      /\ Goto(t, label)

(* A cleanup that fails speaks instead of the error, and names it.          *)
RaiseOver(t, c, label) == /\ code' = [code EXCEPT ![t] = c]
                          /\ Goto(t, label)
                          /\ UNCHANGED cause

(* A call that throws: a failing system call, validator or hook.            *)
Fault == /\ faults < MaxFaults
         /\ faults' = faults + 1
         /\ UNCHANGED <<crashes, cuts>>

(* The first error raised by the body of the outer try, before any rename.  *)
Abort(t, c) == /\ Raise(t, c, "cleanStage")
               /\ UNCHANGED <<expected, backupCreated, promoted>>

(* Mutant: the catch forgets that the old tree was moved away.              *)
AbortPromotion_NoRollback(t, c) ==
    /\ Raise(t, c, "cleanStage")
    /\ UNCHANGED <<expected, backupCreated, promoted>>

(* An error raised by the body of the inner try: promoted, roll back, or    *)
(* nothing to undo.                                                         *)
AbortPromotion(t, c) ==
    /\ Raise(t, c, IF backupCreated[t] THEN "rollback" ELSE "cleanStage")
    /\ UNCHANGED <<expected, backupCreated, promoted>>

-----------------------------------------------------------------------------
Init ==
    /\ initial \in {Orig, None}
    /\ dir = [lock |-> None, canonical |-> initial,
              stage |-> [t \in Txns |-> None], backup |-> [t \in Txns |-> None]]
    /\ exposed = {dir}
    /\ whole = {initial} \ {None}
    /\ pc = [t \in Txns |-> "new"]
    /\ expected = [t \in Txns |-> None]
    /\ backupCreated = [t \in Txns |-> FALSE]
    /\ promoted = [t \in Txns |-> FALSE]
    /\ code = [t \in Txns |-> "none"] /\ cause = code
    /\ edited = {} /\ committed = {} /\ superseded = {}
    /\ faults = 0 /\ crashes = 0 /\ cuts = 0

(* snapshotCanonicalTree: every directory is statted before and after it is *)
(* read, so the snapshot is one tree or the call fails and nothing starts.  *)
Plan(t) ==
    /\ pc[t] = "new"
    /\ expected' = [expected EXCEPT ![t] = dir.canonical]
    /\ Goto(t, "planned")
    /\ UNCHANGED <<disk, backupCreated, promoted, code, cause, history, budget>>

(* Residue is looked for before the lock is taken.                          *)
CheckResidue(t) ==
    /\ pc[t] = "planned"
    /\ IF Residue(dir) = {}
       THEN Goto(t, "acquire") /\ UNCHANGED <<code, cause>>
       ELSE Raise(t, "RECOVERY_REQUIRED", "done")
    /\ UNCHANGED <<disk, expected, backupCreated, promoted, history, budget>>

CheckResidueFails(t) ==
    /\ pc[t] = "planned" /\ Fault
    /\ Raise(t, "FAILED", "done")
    /\ UNCHANGED <<disk, expected, backupCreated, promoted, history>>

(* Mutant: the flag "w", which opens an existing lock.                      *)
AcquireLock_Overwrite(t) ==
    /\ pc[t] = "acquire"
    /\ Change([dir EXCEPT !.lock = t])
    /\ Goto(t, "stage")
    /\ UNCHANGED <<whole, code, cause, expected, backupCreated, promoted, history, budget>>

(* open(".tfsb.lock", "wx"), which only the creator of the file passes.     *)
AcquireLock(t) ==
    /\ pc[t] = "acquire"
    /\ dir.lock = None
    /\ Change([dir EXCEPT !.lock = t])
    /\ Goto(t, "stage")
    /\ UNCHANGED <<whole, code, cause, expected, backupCreated, promoted, history, budget>>

RefuseLocked(t) ==
    /\ pc[t] = "acquire"
    /\ dir.lock # None
    /\ Raise(t, "ROOT_LOCKED", "done")
    /\ UNCHANGED <<disk, expected, backupCreated, promoted, history, budget>>

OpenLockFails(t) ==
    /\ pc[t] = "acquire" /\ Fault
    /\ Raise(t, "FAILED", "done")
    /\ UNCHANGED <<disk, expected, backupCreated, promoted, history>>

(* The stat after the open fails: the throw leaves the function before its  *)
(* outer try, so the lock just created stays.                               *)
StatLockFails(t) ==
    /\ pc[t] = "acquire" /\ Fault
    /\ dir.lock = None
    /\ Change([dir EXCEPT !.lock = t])
    /\ Raise(t, "FAILED", "done")
    /\ UNCHANGED <<whole, expected, backupCreated, promoted, history>>

(* verifyExternalState and the mkdirs of the stage.                         *)
CreateStage(t) ==
    /\ pc[t] = "stage"
    /\ Change([dir EXCEPT !.stage[t] = Partial])
    /\ Goto(t, "write")
    /\ UNCHANGED <<whole, expected, backupCreated, promoted, code, cause, history, budget>>

CreateStageFails(t) ==
    /\ pc[t] = "stage" /\ Fault
    /\ Abort(t, "FAILED")
    /\ UNCHANGED <<disk, history>>

(* Every file and directory of the stage is written and synced, then        *)
(* validateStagedTree reads it back.                                        *)
WriteStage(t) ==
    /\ pc[t] = "write"
    /\ Change([dir EXCEPT !.stage[t] = t])
    /\ whole' = whole \cup {t}
    /\ Goto(t, "compare")
    /\ UNCHANGED <<expected, backupCreated, promoted, code, cause, history, budget>>

WriteStageFails(t) ==
    /\ pc[t] = "write" /\ Fault
    /\ Abort(t, "FAILED")
    /\ UNCHANGED <<disk, history>>

(* Mutant: the live tree is not compared again.                             *)
CompareSnapshot_Skip(t) ==
    /\ pc[t] = "compare"
    /\ Goto(t, "recheck")
    /\ UNCHANGED <<disk, expected, backupCreated, promoted, code, cause, history, budget>>

(* The live tree is read again and compared with the plan's snapshot.       *)
CompareSnapshot(t) ==
    /\ pc[t] = "compare"
    /\ IF dir.canonical = expected[t]
       THEN /\ Goto(t, "recheck")
            /\ UNCHANGED <<expected, backupCreated, promoted, code, cause>>
       ELSE Abort(t, "CANONICAL_CHANGED")
    /\ UNCHANGED <<disk, history, budget>>

(* Archive, external state, residue other than the own stage, and a backup  *)
(* of the same name.                                                        *)
Recheck(t) ==
    /\ pc[t] = "recheck"
    /\ IF Residue(dir) \subseteq {t} /\ dir.backup[t] = None
       THEN /\ Goto(t, "moveOld")
            /\ UNCHANGED <<expected, backupCreated, promoted, code, cause>>
       ELSE Abort(t, "RECOVERY_REQUIRED")
    /\ UNCHANGED <<disk, history, budget>>

CheckFails(t) ==
    /\ pc[t] \in {"compare", "recheck"} /\ Fault
    /\ Abort(t, "FAILED")
    /\ UNCHANGED <<disk, history>>

(* rename(".tfsb", backup): whatever tree is there now is moved, which need *)
(* not be the one CompareSnapshot saw.  Nobody else removes `.tfsb`.        *)
MoveOld(t) ==
    /\ pc[t] = "moveOld"
    /\ expected[t] # None /\ dir.canonical # None
    /\ Change([dir EXCEPT !.canonical = None, !.backup[t] = dir.canonical])
    /\ backupCreated' = [backupCreated EXCEPT ![t] = TRUE]
    /\ Goto(t, "preflight")
    /\ UNCHANGED <<whole, expected, promoted, code, cause, history, budget>>

(* A first import has nothing to move.                                      *)
MoveNothing(t) ==
    /\ pc[t] = "moveOld"
    /\ expected[t] = None
    /\ Goto(t, "preflight")
    /\ UNCHANGED <<disk, expected, backupCreated, promoted, code, cause, history, budget>>

MoveOldFails(t) ==
    /\ pc[t] = "moveOld" /\ Fault
    /\ Abort(t, "FAILED")
    /\ UNCHANGED <<disk, history>>

(* The checks repeated inside the inner try.                                *)
Preflight(t) ==
    /\ pc[t] = "preflight"
    /\ IF expected[t] = None /\ dir.canonical # None
       THEN AbortPromotion(t, "CANONICAL_CHANGED")
       ELSE /\ Goto(t, "promote")
            /\ UNCHANGED <<expected, backupCreated, promoted, code, cause>>
    /\ UNCHANGED <<disk, history, budget>>

(* rename(stage, ".tfsb").                                                  *)
Promote(t) ==
    /\ pc[t] = "promote"
    /\ dir.canonical = None
    /\ Change([dir EXCEPT !.canonical = dir.stage[t], !.stage[t] = None])
    /\ promoted' = [promoted EXCEPT ![t] = TRUE]
    /\ committed' = committed \cup {t}
    /\ superseded' = superseded \cup ({expected[t]} \ {None})
    /\ Goto(t, "syncPromoted")
    /\ UNCHANGED <<whole, expected, backupCreated, code, cause, initial, edited, budget>>

(* The rename fails when a non-empty directory has appeared there.          *)
PromotionBlocked(t) ==
    /\ pc[t] = "promote"
    /\ dir.canonical # None
    /\ AbortPromotion(t, "FAILED")
    /\ UNCHANGED <<disk, history, budget>>

PromotionFails(t) ==
    /\ pc[t] \in {"preflight", "promote"} /\ Fault
    /\ AbortPromotion(t, "FAILED")
    /\ UNCHANGED <<disk, history>>

(* The parent directory is synced before the backup may be removed.         *)
SyncPromoted(t) ==
    /\ pc[t] = "syncPromoted"
    /\ SyncRoot
    /\ Goto(t, IF backupCreated[t] THEN "rmBackup" ELSE "unlock")
    /\ UNCHANGED <<whole, expected, backupCreated, promoted, code, cause, history, budget>>

SyncPromotedFails(t) ==
    /\ pc[t] = "syncPromoted" /\ Fault
    /\ Raise(t, "PROMOTION_DURABILITY", "unlock")
    /\ UNCHANGED <<disk, expected, backupCreated, promoted, history>>

-----------------------------------------------------------------------------
(* rm(backup, recursive): the files first, then the directory.              *)
RemoveBackupFiles(t) ==
    /\ pc[t] = "rmBackup"
    /\ whole' = whole \ {dir.backup[t]}
    /\ Goto(t, "rmdirBackup")
    /\ UNCHANGED <<dir, exposed, expected, backupCreated, promoted, code, cause,
                   history, budget>>

RemoveBackupDirectory(t) ==
    /\ pc[t] = "rmdirBackup"
    /\ Change([dir EXCEPT !.backup[t] = None])
    /\ backupCreated' = [backupCreated EXCEPT ![t] = FALSE]
    /\ Goto(t, "syncCleanup")
    /\ UNCHANGED <<whole, expected, promoted, code, cause, history, budget>>

RemoveBackupFails(t) ==
    /\ pc[t] \in {"rmBackup", "rmdirBackup"} /\ Fault
    /\ Raise(t, "BACKUP_CLEANUP", "unlock")
    /\ UNCHANGED <<disk, expected, backupCreated, promoted, history>>

SyncCleanup(t) ==
    /\ pc[t] = "syncCleanup"
    /\ SyncRoot
    /\ Goto(t, "unlock")
    /\ UNCHANGED <<whole, expected, backupCreated, promoted, code, cause, history, budget>>

SyncCleanupFails(t) ==
    /\ pc[t] = "syncCleanup" /\ Fault
    /\ Raise(t, "CLEANUP_DURABILITY", "unlock")
    /\ UNCHANGED <<disk, expected, backupCreated, promoted, history>>

(* rename(backup, ".tfsb"), impossible when a tree has appeared there.      *)
Rollback(t) ==
    /\ pc[t] = "rollback"
    /\ dir.canonical = None
    /\ Change([dir EXCEPT !.canonical = dir.backup[t], !.backup[t] = None])
    /\ backupCreated' = [backupCreated EXCEPT ![t] = FALSE]
    /\ Goto(t, "syncRollback")
    /\ UNCHANGED <<whole, expected, promoted, code, cause, history, budget>>

RollbackBlocked(t) ==
    /\ pc[t] = "rollback"
    /\ dir.canonical # None
    /\ Raise(t, "ROLLBACK_FAILED", "cleanStage")
    /\ UNCHANGED <<disk, expected, backupCreated, promoted, history, budget>>

SyncRollback(t) ==
    /\ pc[t] = "syncRollback"
    /\ SyncRoot
    /\ Goto(t, "cleanStage")
    /\ UNCHANGED <<whole, expected, backupCreated, promoted, code, cause, history, budget>>

(* Either the rename or the fsync after it: one catch serves both.          *)
RollbackFails(t) ==
    /\ pc[t] \in {"rollback", "syncRollback"} /\ Fault
    /\ Raise(t, "ROLLBACK_FAILED", "cleanStage")
    /\ UNCHANGED <<disk, expected, backupCreated, promoted, history>>

(* The outer catch of a transaction that did not promote.                   *)
CleanStage(t) ==
    /\ pc[t] = "cleanStage"
    /\ whole' = whole \ {t}
    /\ Change([dir EXCEPT !.stage[t] = None])
    /\ Goto(t, "unlock")
    /\ UNCHANGED <<expected, backupCreated, promoted, code, cause, history, budget>>

(* rm with force has nothing to fail on when there is no stage.             *)
CleanStageFails(t) ==
    /\ pc[t] = "cleanStage" /\ Fault
    /\ dir.stage[t] # None
    /\ whole' = whole \ {t}
    /\ RaiseOver(t, "STAGE_CLEANUP", "unlock")
    /\ UNCHANGED <<dir, exposed, expected, backupCreated, promoted, history>>

(* finally: the lock is removed if it is still the file this call made,     *)
(* which it is while nobody removes the lock of a live call.                *)
Unlock(t) ==
    /\ pc[t] = "unlock"
    /\ dir.lock = t
    /\ Change([dir EXCEPT !.lock = None])
    /\ Goto(t, "done")
    /\ UNCHANGED <<whole, expected, backupCreated, promoted, code, cause, history, budget>>

(* Closing the lock file fails, after which it is still removed, or the     *)
(* removal does.                                                            *)
UnlockFails(t) ==
    /\ pc[t] = "unlock" /\ Fault
    /\ \E left \in {t, None} : Change([dir EXCEPT !.lock = left])
    /\ RaiseOver(t, "LOCK_CLEANUP", "done")
    /\ UNCHANGED <<whole, expected, backupCreated, promoted, history>>

-----------------------------------------------------------------------------
(* The environment.                                                         *)

(* The process of one transaction dies; the disk keeps what it did.         *)
Crash(t) ==
    /\ crashes < MaxCrashes
    /\ pc[t] \notin Dead \cup {"new"}
    /\ crashes' = crashes + 1
    /\ Goto(t, "crashed")
    /\ UNCHANGED <<disk, expected, backupCreated, promoted, code, cause,
                   history, faults, cuts>>

(* The power goes: every transaction under way dies, and the root directory *)
(* is one of those a cut could leave.                                       *)
PowerCut ==
    /\ cuts < MaxPowerCuts
    /\ cuts' = cuts + 1
    /\ pc' = [t \in Txns |-> IF pc[t] \in Dead \cup {"new"} THEN pc[t] ELSE "crashed"]
    /\ \E d \in exposed : dir' = d /\ exposed' = {d}
                          /\ superseded' = superseded \cup (Held(dir) \ Held(d))
    /\ UNCHANGED <<whole, expected, backupCreated, promoted, code, cause,
                   initial, edited, committed,
                   faults, crashes>>

(* Between the comparison and the move nothing looks at the tree.           *)
InWindow == {t \in Txns : pc[t] \in {"recheck", "moveOld"} /\ expected[t] # None}

(* A human changes `.tfsb`, or creates one where none is (git checkout).    *)
HumanEdit(e) ==
    /\ e \notin edited
    /\ LateEdits \/ InWindow = {}
    /\ edited' = edited \cup {e}
    /\ whole' = whole \cup {e}
    /\ superseded' = superseded \cup ({dir.canonical} \ {None})
    /\ Change([dir EXCEPT !.canonical = e])
    /\ UNCHANGED <<local, initial, committed, budget>>

(* A human who has inspected the root removes what a dead transaction left: *)
(* its lock, its backup (moved back when `.tfsb` is gone) and its stage.    *)
Recover(t) ==
    /\ pc[t] \in Dead
    /\ dir.lock = t \/ t \in Residue(dir)
    /\ \A u \in Txns : dir.lock = u => pc[u] \in Dead
    /\ dir' = [dir EXCEPT !.lock = None, !.stage[t] = None, !.backup[t] = None,
                          !.canonical = IF @ = None THEN dir.backup[t] ELSE @]
    /\ exposed' = {dir'}
    /\ superseded' = superseded \cup
           (IF dir.canonical = None THEN {} ELSE {dir.backup[t]} \ {None})
    /\ UNCHANGED <<whole, local, initial, edited, committed, budget>>

Step(t) ==
    \/ Plan(t) \/ CheckResidue(t) \/ CheckResidueFails(t)
    \/ AcquireLock(t) \/ RefuseLocked(t) \/ OpenLockFails(t) \/ StatLockFails(t)
    \/ CreateStage(t) \/ CreateStageFails(t) \/ WriteStage(t) \/ WriteStageFails(t)
    \/ CompareSnapshot(t) \/ Recheck(t) \/ CheckFails(t)
    \/ MoveOld(t) \/ MoveNothing(t) \/ MoveOldFails(t)
    \/ Preflight(t) \/ Promote(t) \/ PromotionBlocked(t) \/ PromotionFails(t)
    \/ SyncPromoted(t) \/ SyncPromotedFails(t)
    \/ RemoveBackupFiles(t) \/ RemoveBackupDirectory(t) \/ RemoveBackupFails(t)
    \/ SyncCleanup(t) \/ SyncCleanupFails(t)
    \/ Rollback(t) \/ RollbackBlocked(t) \/ SyncRollback(t) \/ RollbackFails(t)
    \/ CleanStage(t) \/ CleanStageFails(t) \/ Unlock(t) \/ UnlockFails(t)

Terminated == /\ \A t \in Txns : pc[t] \in Dead
              /\ UNCHANGED vars

Next ==
    \/ \E t \in Txns : Step(t) \/ Crash(t) \/ Recover(t)
    \/ \E e \in Edits : HumanEdit(e)
    \/ PowerCut
    \/ Terminated

Spec == Init /\ [][Next]_vars
-----------------------------------------------------------------------------
(* Properties.                                                              *)

(* Every variable has its type.                                             *)
TypeOK ==
    /\ dir \in Directories /\ dir \in exposed /\ exposed \subseteq Directories
    /\ whole \subseteq Trees
    /\ pc \in [Txns -> Holding \cup Before \cup Dead]
    /\ expected \in [Txns -> Trees \cup {None}]
    /\ backupCreated \in [Txns -> BOOLEAN] /\ promoted \in [Txns -> BOOLEAN]
    /\ code \in [Txns -> Codes] /\ cause \in [Txns -> Codes]
    /\ initial \in {Orig, None}
    /\ edited \subseteq Edits /\ committed \subseteq Txns /\ superseded \subseteq Trees
    /\ faults \in Nat /\ crashes \in Nat /\ cuts \in Nat

(* One transaction at a time is between its lock and its unlock, whatever   *)
(* failed or died before: the lock file on disk is the one it made.         *)
OneMutator ==
    \A t \in Txns : pc[t] \in Holding => dir.lock = t

(* Whatever is lost with the power, the disk holds a complete tree: `.tfsb` *)
(* itself if the name is there, else a backup (if a tree existed at all);   *)
(* so no reader ever finds a half-written or half-deleted `.tfsb`.          *)
TreeSurvives ==
    \A d \in exposed :
        \/ d.canonical \in whole
        \/ /\ d.canonical = None
           /\ initial = None \/ \E t \in Txns : d.backup[t] \in whole

(* README: "Human canonical edits are never overwritten silently".  A tree  *)
(* that was `.tfsb` is still there, or a backup, unless it was replaced by  *)
(* a transaction planned from it, by a later human edit or by a recovery.   *)
NoSilentLoss ==
    ({initial} \ {None}) \cup edited \cup committed \subseteq superseded \cup Held(dir)

(* The diagnostics of the call itself that say the new tree is `.tfsb`.     *)
NewTree == {"none", "PROMOTION_DURABILITY", "BACKUP_CLEANUP", "CLEANUP_DURABILITY"}

(* Those that tell of a backup: it is there, or was removed or moved back   *)
(* by a change of the root that no fsync has forced.                        *)
TellsBackup(t) ==
    \/ cause[t] \in {"ROLLBACK_FAILED", "BACKUP_CLEANUP", "CLEANUP_DURABILITY"}
    \/ cause[t] = "PROMOTION_DURABILITY" /\ expected[t] # None

(* What a call says (its own error, which a diagnostic of a failed cleanup  *)
(* names too) is true of the disk it leaves:                                *)
(*   - its tree was promoted exactly if the error says so, or there is none;*)
(*   - a stage is left only by a call that did not promote and that says a  *)
(*     cleanup failed; STAGE_CLEANUP always leaves one (LOCK_CLEANUP hides  *)
(*     a STAGE_CLEANUP before it, so with it a stage may be there or not);  *)
(*   - a backup can be found, now or after a power cut, exactly if the      *)
(*     error tells of one; it is there now under BACKUP_CLEANUP and (unless *)
(*     nothing was replaced) PROMOTION_DURABILITY, is gone under            *)
(*     CLEANUP_DURABILITY, and under ROLLBACK_FAILED it is there as long as *)
(*     the call has not moved it back.  The message of ROLLBACK_FAILED says *)
(*     more than that: it asks to inspect the backup also when only the     *)
(*     sync after the rename back has failed.                               *)
Truthful(t) ==
    /\ code[t] \in {cause[t], "STAGE_CLEANUP", "LOCK_CLEANUP"}
    /\ t \in committed <=> cause[t] \in NewTree
    /\ dir.stage[t] # None
         => cause[t] \notin NewTree /\ code[t] \in {"STAGE_CLEANUP", "LOCK_CLEANUP"}
    /\ code[t] = "STAGE_CLEANUP" => dir.stage[t] # None
    /\ (\E d \in exposed : d.backup[t] # None) <=> TellsBackup(t)
    /\ dir.backup[t] # None
         <=> /\ TellsBackup(t) /\ cause[t] # "CLEANUP_DURABILITY"
             /\ cause[t] = "ROLLBACK_FAILED" => backupCreated[t]

(* Every call ends with the truth, and leaves the lock it made only if it   *)
(* says that the lock's cleanup failed, or failed between making the lock   *)
(* and entering the try that removes it.                                    *)
OutcomeTruthful ==
    [][\A t \in Txns : pc[t] # "done" /\ pc'[t] = "done" =>
          /\ Truthful(t)'
          /\ dir'.lock = t => code'[t] = "LOCK_CLEANUP" \/ pc[t] = "acquire"]_vars

(* A call that returned without an error has its replacement on disk for    *)
(* good: after any power cut its stage is not back and its backup is gone.  *)
SuccessIsDurable ==
    \A t \in Txns : pc[t] = "done" /\ code[t] = "none" =>
        \A d \in exposed : d.stage[t] = None /\ d.backup[t] = None

(* The tree a reader who completes an interrupted move would find.          *)
Logical(d) ==
    IF d.canonical # None THEN d.canonical
    ELSE IF \E t \in Txns : d.backup[t] # None
         THEN d.backup[CHOOSE t \in Txns : d.backup[t] # None]
         ELSE None

(* The protocol implements a compare-and-swap of one durable tree.          *)
Abstract == INSTANCE DurableTree
    WITH tree <- Logical(dir), recoverable <- {Logical(d) : d \in exposed}, base <- expected, Initials <- {Orig, None}
ImplementsDurableTree == Abstract!Spec
=============================================================================
