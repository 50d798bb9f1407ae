--------------------- MODULE CanonicalTransactionProofs ---------------------
(* Proofs about CanonicalTransaction: first that a complete tree is always  *)
(* there, then that outcomes are true and nothing is lost, then that the    *)
(* protocol implements DurableTree.                                         *)
EXTENDS CanonicalTransaction, TLAPS

(* A stage that is about to be promoted is the complete tree of its call.   *)
StageWritten ==
    \A t \in Txns : pc[t] \in {"compare", "recheck", "moveOld", "preflight", "promote"}
        => dir.stage[t] = t /\ t \in whole

(* Every tree under the canonical or a backup name was put there by someone.*)
TreesUsed ==
    \A d \in exposed :
        /\ d.canonical \in committed \cup edited \cup {Orig, None}
        /\ \A u \in Txns : d.backup[u] \in committed \cup edited \cup {Orig, None}

(* Only a call that has passed its promotion counts as committed.           *)
Uncommitted ==
    \A t \in Txns :
        pc[t] \in Before \cup {"stage", "write", "compare", "recheck", "moveOld",
                               "preflight", "promote", "rollback", "syncRollback", "cleanStage"}
        => t \notin committed

(* Until the promotion, the backup this call made is complete.              *)
BackupReady ==
    \A t \in Txns :
        /\ pc[t] \in {"preflight", "promote"} /\ backupCreated[t] => dir.backup[t] \in whole
        /\ pc[t] = "rollback" => dir.backup[t] \in whole
        /\ pc[t] \in Before \cup {"stage", "write", "compare", "recheck", "moveOld"}
               => ~backupCreated[t]

(* From the last look at the residue on, no other backup is there.          *)
Alone ==
    \A t \in Txns : pc[t] \in {"moveOld", "preflight", "promote", "rollback"}
        => \A u \in Txns \ {t} : dir.backup[u] = None

(* Once promoted, `.tfsb` is there and is not the tree in the backup, in    *)
(* every directory a power cut could leave once the parent was synced.      *)
Replaced ==
    \A t \in Txns :
        /\ pc[t] = "syncPromoted" => dir.canonical \notin {None, dir.backup[t]}
        /\ pc[t] = "rmBackup" => \A d \in exposed : d.canonical \notin {None, dir.backup[t]}
        /\ pc[t] = "rmdirBackup" => dir.canonical # None

(* Where `.tfsb` is missing, no backup has begun to be deleted.             *)
BackupsWhole ==
    \A d \in exposed : d.canonical = None => \A u \in Txns : d.backup[u] \in whole \cup {None}

(* The inductive invariant.                                                 *)
Safe == /\ OneMutator /\ StageWritten /\ TreesUsed /\ Uncommitted /\ BackupReady
        /\ Alone /\ Replaced /\ BackupsWhole /\ TreeSurvives
IndInv == TypeOK /\ Safe

(* Each change of the root directory is a directory and touches only the    *)
(* entries it names.                                                        *)
LEMMA LockUpdate ==
    ASSUME NEW d \in Directories, NEW x \in Txns \cup {None},
           NEW e, e = [d EXCEPT !.lock = x]
    PROVE  /\ e \in Directories /\ e.lock = x
           /\ e.canonical = d.canonical /\ e.stage = d.stage /\ e.backup = d.backup
BY DEF Directories

LEMMA CanonicalUpdate ==
    ASSUME NEW d \in Directories, NEW x \in Trees \cup {None},
           NEW e, e = [d EXCEPT !.canonical = x]
    PROVE  /\ e \in Directories /\ e.canonical = x
           /\ e.lock = d.lock /\ e.stage = d.stage /\ e.backup = d.backup
BY DEF Directories

LEMMA StageUpdate ==
    ASSUME NEW d \in Directories, NEW t \in Txns, NEW x \in Trees \cup {None, Partial},
           NEW e, e = [d EXCEPT !.stage[t] = x]
    PROVE  /\ e \in Directories /\ e.stage[t] = x
           /\ \A u \in Txns \ {t} : e.stage[u] = d.stage[u]
           /\ e.lock = d.lock /\ e.canonical = d.canonical /\ e.backup = d.backup
BY DEF Directories

LEMMA DirectoryEntries ==
    ASSUME NEW d \in Directories, NEW t \in Txns
    PROVE  /\ d.lock \in Txns \cup {None} /\ d.canonical \in Trees \cup {None}
           /\ d.stage[t] \in Trees \cup {None, Partial} /\ d.backup[t] \in Trees \cup {None}
BY DEF Directories

(* A directory that is added to the exposed ones need only be looked at     *)
(* itself.                                                                  *)
MissingIsWhole(d, w) == d.canonical = None => \A u \in Txns : d.backup[u] \in w \cup {None}
TreeIn(d, w, i) ==
    \/ d.canonical \in w
    \/ d.canonical = None /\ (i = None \/ \E u \in Txns : d.backup[u] \in w)

TreesAmong(d, used) == d.canonical \in used /\ \A u \in Txns : d.backup[u] \in used
Used == committed \cup edited \cup {Orig, None}

LEMMA OneMoreUsed ==
    ASSUME exposed' = exposed \cup {dir'}, \A d \in exposed : TreesAmong(d, Used'),
           TreesAmong(dir', Used')
    PROVE  TreesUsed'
<1> SUFFICES ASSUME NEW d \in exposed' PROVE TreesAmong(d, Used')
    BY DEF TreesUsed, TreesAmong, Used
<1>1. d \in exposed \/ d = dir'
    OBVIOUS
<1> QED
    BY <1>1

LEMMA OneMoreMissing ==
    ASSUME exposed' = exposed \cup {dir'}, \A d \in exposed : MissingIsWhole(d, whole'),
           MissingIsWhole(dir', whole')
    PROVE  BackupsWhole'
<1> SUFFICES ASSUME NEW d \in exposed' PROVE MissingIsWhole(d, whole')
    BY DEF BackupsWhole, MissingIsWhole
<1>1. d \in exposed \/ d = dir'
    OBVIOUS
<1> QED
    BY <1>1

LEMMA OneMoreSurvives ==
    ASSUME exposed' = exposed \cup {dir'}, \A d \in exposed : TreeIn(d, whole', initial'),
           TreeIn(dir', whole', initial')
    PROVE  TreeSurvives'
<1> SUFFICES ASSUME NEW d \in exposed' PROVE TreeIn(d, whole', initial')
    BY DEF TreeSurvives, TreeIn
<1>1. d \in exposed \/ d = dir'
    OBVIOUS
<1> QED
    BY <1>1

LEMMA InitInv == Init => IndInv
<1> SUFFICES ASSUME Init PROVE IndInv
    OBVIOUS
<1>1. dir \in Directories /\ dir.canonical = initial /\ \A u \in Txns : dir.backup[u] = None
    BY DEF Init, Directories, Trees
<1>2. whole \subseteq Trees
    BY DEF Init, Trees
<1>3. TypeOK
    BY <1>1, <1>2 DEF Init, TypeOK, Holding, Before, Dead, Codes
<1>4. TreeSurvives
    BY <1>1 DEF Init, TreeSurvives
<1>5. Safe
    BY <1>1, <1>4 DEF Init, Safe, OneMutator, StageWritten, TreesUsed, Uncommitted, BackupReady,
        Alone, Replaced, BackupsWhole, Holding, Before
<1>6. QED
    BY <1>3, <1>5 DEF IndInv

(* The steps that leave the disk alone.                                     *)
LEMMA QuietSteps ==
    ASSUME IndInv, NEW t \in Txns,
           Plan(t) \/ CheckResidue(t) \/ CheckResidueFails(t) \/ RefuseLocked(t)
               \/ OpenLockFails(t) \/ CreateStageFails(t) \/ WriteStageFails(t) \/ CompareSnapshot(t)
               \/ Recheck(t) \/ CheckFails(t) \/ MoveNothing(t) \/ MoveOldFails(t)
               \/ Preflight(t) \/ PromotionBlocked(t) \/ PromotionFails(t) \/ SyncPromotedFails(t)
               \/ RemoveBackupFails(t) \/ SyncCleanupFails(t) \/ RollbackBlocked(t) \/ RollbackFails(t)
               \/ Crash(t)
    PROVE  IndInv'
<1> USE TreesDistinct, DirectoryEntries DEF IndInv, TypeOK, Safe, OneMutator, StageWritten, TreesUsed, Uncommitted, BackupReady,
        Alone, Replaced, BackupsWhole, TreeSurvives,
        Holding, Before, Dead, Codes, Goto, Raise, RaiseOver, Fault, Abort, AbortPromotion, disk, history, budget
<1>1. CASE Plan(t)
    BY <1>1 DEF Plan
<1>2. CASE CheckResidue(t)
    BY <1>2 DEF CheckResidue
<1>3. CASE CheckResidueFails(t)
    BY <1>3 DEF CheckResidueFails
<1>4. CASE RefuseLocked(t)
    BY <1>4 DEF RefuseLocked
<1>5. CASE OpenLockFails(t)
    BY <1>5 DEF OpenLockFails
<1>6. CASE CreateStageFails(t)
    BY <1>6 DEF CreateStageFails
<1>7. CASE WriteStageFails(t)
    BY <1>7 DEF WriteStageFails
<1>8. CASE CompareSnapshot(t)
    BY <1>8 DEF CompareSnapshot
<1>9. CASE Recheck(t)
    BY <1>9 DEF Recheck, Residue
<1>10. CASE CheckFails(t)
    BY <1>10 DEF CheckFails
<1>11. CASE MoveNothing(t)
    BY <1>11 DEF MoveNothing
<1>12. CASE MoveOldFails(t)
    BY <1>12 DEF MoveOldFails
<1>13. CASE Preflight(t)
    BY <1>13 DEF Preflight
<1>14. CASE PromotionBlocked(t)
    BY <1>14 DEF PromotionBlocked
<1>15. CASE PromotionFails(t)
    BY <1>15 DEF PromotionFails
<1>16. CASE SyncPromotedFails(t)
    BY <1>16 DEF SyncPromotedFails
<1>17. CASE RemoveBackupFails(t)
    BY <1>17 DEF RemoveBackupFails
<1>18. CASE SyncCleanupFails(t)
    BY <1>18 DEF SyncCleanupFails
<1>19. CASE RollbackBlocked(t)
    BY <1>19 DEF RollbackBlocked
<1>20. CASE RollbackFails(t)
    BY <1>20 DEF RollbackFails
<1>21. CASE Crash(t)
    BY <1>21 DEF Crash, local
<1> QED
    BY <1>1, <1>2, <1>3, <1>4, <1>5, <1>6, <1>7, <1>8,
        <1>9, <1>10, <1>11, <1>12, <1>13, <1>14, <1>15, <1>16,
        <1>17, <1>18, <1>19, <1>20, <1>21

(* The steps that sync the root or delete files change no entry.            *)
LEMMA ContentSteps ==
    ASSUME IndInv, NEW t \in Txns,
           SyncPromoted(t) \/ SyncCleanup(t) \/ SyncRollback(t) \/ RemoveBackupFiles(t)
               \/ CleanStageFails(t)
    PROVE  IndInv'
<1> USE TreesDistinct, DirectoryEntries DEF IndInv, TypeOK, Safe, OneMutator, StageWritten, TreesUsed, Uncommitted, BackupReady,
        Alone, Replaced, BackupsWhole, TreeSurvives,
        Holding, Before, Dead, Codes, Goto, Raise, RaiseOver, Fault, disk, history, budget
<1>1. CASE SyncPromoted(t)
    BY <1>1 DEF SyncPromoted, SyncRoot, Trees
<1>2. CASE SyncCleanup(t)
    BY <1>2 DEF SyncCleanup, SyncRoot, Trees
<1>3. CASE SyncRollback(t)
    BY <1>3 DEF SyncRollback, SyncRoot, Trees
<1>4. CASE RemoveBackupFiles(t)
    BY <1>4 DEF RemoveBackupFiles, SyncRoot, Trees
<1>5. CASE CleanStageFails(t)
    BY <1>5 DEF CleanStageFails, SyncRoot, Trees
<1> QED
    BY <1>1, <1>2, <1>3, <1>4, <1>5

(* The steps that change an entry of the root directory.                    *)
LEMMA AcquireLockStep == ASSUME IndInv, NEW t \in Txns, AcquireLock(t) PROVE IndInv'
<1> USE TreesDistinct DEF IndInv, Safe
<1>1. dir' = [dir EXCEPT !.lock = t] /\ exposed' = exposed \cup {dir'}
    BY DEF AcquireLock, Change
<1>2. /\ dir' \in Directories /\ dir'.lock = t
      /\ dir'.canonical = dir.canonical /\ dir'.stage = dir.stage /\ dir'.backup = dir.backup
    BY <1>1, LockUpdate DEF TypeOK
<1>3. UNCHANGED <<whole, committed, edited, initial>>
    BY DEF AcquireLock, history
<1>4. TypeOK'
    BY <1>1, <1>2, DirectoryEntries DEF TypeOK, AcquireLock, history, Holding, Before, Dead, Codes, Goto, Raise, RaiseOver, Fault, history, budget, Trees
<1>5. OneMutator'
    BY <1>2, <1>3, DirectoryEntries DEF OneMutator, TypeOK, AcquireLock, history, Holding, Before, Dead, Goto, Raise, RaiseOver, Trees
<1>6. StageWritten'
    BY <1>2, <1>3, DirectoryEntries DEF StageWritten, TypeOK, OneMutator, AcquireLock, history, Holding, Before, Dead, Goto, Raise, RaiseOver, Trees
<1>7. Uncommitted'
    BY <1>2, <1>3, DirectoryEntries DEF Uncommitted, TypeOK, OneMutator, AcquireLock, history, Holding, Before, Dead, Goto, Raise, RaiseOver, Trees
<1>8. BackupReady'
    BY <1>2, <1>3, DirectoryEntries DEF BackupReady, TypeOK, OneMutator, AcquireLock, history, Holding, Before, Dead, Goto, Raise, RaiseOver, Trees
<1>9. Alone'
    BY <1>2, <1>3, DirectoryEntries DEF Alone, TypeOK, OneMutator, AcquireLock, history, Holding, Before, Dead, Goto, Raise, RaiseOver, Trees
<1>10. Replaced'
    BY <1>2, <1>3, DirectoryEntries DEF Replaced, TypeOK, OneMutator, AcquireLock, history, Holding, Before, Dead, Goto, Raise, RaiseOver, Trees
<1>11. TreesUsed'
  <2>1. \A d \in exposed : TreesAmong(d, Used')
    BY <1>3 DEF TreesUsed, TreesAmong, Used
  <2>2. TreesAmong(dir, Used')
    BY <2>1 DEF TypeOK
  <2>3. TreesAmong(dir', Used')
    BY <2>2, <1>2, <1>3 DEF TreesAmong, Used
  <2>4. QED
    BY <1>1, <2>1, <2>3, OneMoreUsed
<1>12. BackupsWhole'
  <2>1. \A d \in exposed : MissingIsWhole(d, whole')
    BY <1>3 DEF BackupsWhole, MissingIsWhole
  <2>2. MissingIsWhole(dir, whole')
    BY <2>1 DEF TypeOK
  <2>3. MissingIsWhole(dir', whole')
    BY <2>2, <1>2, <1>3 DEF MissingIsWhole
  <2>4. QED
    BY <1>1, <2>1, <2>3, OneMoreMissing
<1>13. TreeSurvives'
  <2>1. \A d \in exposed : TreeIn(d, whole', initial')
    BY <1>3 DEF TreeSurvives, TreeIn
  <2>2. TreeIn(dir, whole', initial')
    BY <2>1 DEF TypeOK
  <2>3. TreeIn(dir', whole', initial')
    BY <2>2, <1>2, <1>3 DEF TreeIn
  <2>4. QED
    BY <1>1, <2>1, <2>3, OneMoreSurvives
<1> QED
    BY <1>4, <1>5, <1>6, <1>7, <1>8, <1>9, <1>10, <1>11, <1>12, <1>13

LEMMA StatLockFailsStep == ASSUME IndInv, NEW t \in Txns, StatLockFails(t) PROVE IndInv'
<1> USE TreesDistinct DEF IndInv, Safe
<1>1. dir' = [dir EXCEPT !.lock = t] /\ exposed' = exposed \cup {dir'}
    BY DEF StatLockFails, Change
<1>2. /\ dir' \in Directories /\ dir'.lock = t
      /\ dir'.canonical = dir.canonical /\ dir'.stage = dir.stage /\ dir'.backup = dir.backup
    BY <1>1, LockUpdate DEF TypeOK
<1>3. UNCHANGED <<whole, committed, edited, initial>>
    BY DEF StatLockFails, history
<1>4. TypeOK'
    BY <1>1, <1>2, DirectoryEntries DEF TypeOK, StatLockFails, history, Holding, Before, Dead, Codes, Goto, Raise, RaiseOver, Fault, history, budget, Trees
<1>5. OneMutator'
    BY <1>2, <1>3, DirectoryEntries DEF OneMutator, TypeOK, StatLockFails, history, Holding, Before, Dead, Goto, Raise, RaiseOver, Trees
<1>6. StageWritten'
    BY <1>2, <1>3, DirectoryEntries DEF StageWritten, TypeOK, OneMutator, StatLockFails, history, Holding, Before, Dead, Goto, Raise, RaiseOver, Trees
<1>7. Uncommitted'
    BY <1>2, <1>3, DirectoryEntries DEF Uncommitted, TypeOK, OneMutator, StatLockFails, history, Holding, Before, Dead, Goto, Raise, RaiseOver, Trees
<1>8. BackupReady'
    BY <1>2, <1>3, DirectoryEntries DEF BackupReady, TypeOK, OneMutator, StatLockFails, history, Holding, Before, Dead, Goto, Raise, RaiseOver, Trees
<1>9. Alone'
    BY <1>2, <1>3, DirectoryEntries DEF Alone, TypeOK, OneMutator, StatLockFails, history, Holding, Before, Dead, Goto, Raise, RaiseOver, Trees
<1>10. Replaced'
    BY <1>2, <1>3, DirectoryEntries DEF Replaced, TypeOK, OneMutator, StatLockFails, history, Holding, Before, Dead, Goto, Raise, RaiseOver, Trees
<1>11. TreesUsed'
  <2>1. \A d \in exposed : TreesAmong(d, Used')
    BY <1>3 DEF TreesUsed, TreesAmong, Used
  <2>2. TreesAmong(dir, Used')
    BY <2>1 DEF TypeOK
  <2>3. TreesAmong(dir', Used')
    BY <2>2, <1>2, <1>3 DEF TreesAmong, Used
  <2>4. QED
    BY <1>1, <2>1, <2>3, OneMoreUsed
<1>12. BackupsWhole'
  <2>1. \A d \in exposed : MissingIsWhole(d, whole')
    BY <1>3 DEF BackupsWhole, MissingIsWhole
  <2>2. MissingIsWhole(dir, whole')
    BY <2>1 DEF TypeOK
  <2>3. MissingIsWhole(dir', whole')
    BY <2>2, <1>2, <1>3 DEF MissingIsWhole
  <2>4. QED
    BY <1>1, <2>1, <2>3, OneMoreMissing
<1>13. TreeSurvives'
  <2>1. \A d \in exposed : TreeIn(d, whole', initial')
    BY <1>3 DEF TreeSurvives, TreeIn
  <2>2. TreeIn(dir, whole', initial')
    BY <2>1 DEF TypeOK
  <2>3. TreeIn(dir', whole', initial')
    BY <2>2, <1>2, <1>3 DEF TreeIn
  <2>4. QED
    BY <1>1, <2>1, <2>3, OneMoreSurvives
<1> QED
    BY <1>4, <1>5, <1>6, <1>7, <1>8, <1>9, <1>10, <1>11, <1>12, <1>13

LEMMA UnlockStep ==
    ASSUME IndInv, NEW t \in Txns, Unlock(t) \/ UnlockFails(t) PROVE IndInv'
<1> USE TreesDistinct DEF IndInv, Safe
<1>1. PICK left \in {t, None} :
        dir' = [dir EXCEPT !.lock = left] /\ exposed' = exposed \cup {dir'}
    BY DEF Unlock, UnlockFails, Change
<1>2. /\ dir' \in Directories /\ dir'.lock = left
      /\ dir'.canonical = dir.canonical /\ dir'.stage = dir.stage /\ dir'.backup = dir.backup
    BY <1>1, LockUpdate DEF TypeOK
<1>3. UNCHANGED <<whole, committed, edited, initial>>
    BY DEF Unlock, UnlockFails, history
<1>4. TypeOK'
    BY <1>1, <1>2, DirectoryEntries DEF TypeOK, Unlock, UnlockFails, history, Holding, Before, Dead, Codes, Goto, Raise, RaiseOver, Fault, history, budget, Trees
<1>5. OneMutator'
    BY <1>2, <1>3, DirectoryEntries DEF OneMutator, TypeOK, Unlock, UnlockFails, history, Holding, Before, Dead, Goto, Raise, RaiseOver, Trees
<1>6. StageWritten'
    BY <1>2, <1>3, DirectoryEntries DEF StageWritten, TypeOK, OneMutator, Unlock, UnlockFails, history, Holding, Before, Dead, Goto, Raise, RaiseOver, Trees
<1>7. Uncommitted'
    BY <1>2, <1>3, DirectoryEntries DEF Uncommitted, TypeOK, OneMutator, Unlock, UnlockFails, history, Holding, Before, Dead, Goto, Raise, RaiseOver, Trees
<1>8. BackupReady'
    BY <1>2, <1>3, DirectoryEntries DEF BackupReady, TypeOK, OneMutator, Unlock, UnlockFails, history, Holding, Before, Dead, Goto, Raise, RaiseOver, Trees
<1>9. Alone'
    BY <1>2, <1>3, DirectoryEntries DEF Alone, TypeOK, OneMutator, Unlock, UnlockFails, history, Holding, Before, Dead, Goto, Raise, RaiseOver, Trees
<1>10. Replaced'
    BY <1>2, <1>3, DirectoryEntries DEF Replaced, TypeOK, OneMutator, Unlock, UnlockFails, history, Holding, Before, Dead, Goto, Raise, RaiseOver, Trees
<1>11. TreesUsed'
  <2>1. \A d \in exposed : TreesAmong(d, Used')
    BY <1>3 DEF TreesUsed, TreesAmong, Used
  <2>2. TreesAmong(dir, Used')
    BY <2>1 DEF TypeOK
  <2>3. TreesAmong(dir', Used')
    BY <2>2, <1>2, <1>3 DEF TreesAmong, Used
  <2>4. QED
    BY <1>1, <2>1, <2>3, OneMoreUsed
<1>12. BackupsWhole'
  <2>1. \A d \in exposed : MissingIsWhole(d, whole')
    BY <1>3 DEF BackupsWhole, MissingIsWhole
  <2>2. MissingIsWhole(dir, whole')
    BY <2>1 DEF TypeOK
  <2>3. MissingIsWhole(dir', whole')
    BY <2>2, <1>2, <1>3 DEF MissingIsWhole
  <2>4. QED
    BY <1>1, <2>1, <2>3, OneMoreMissing
<1>13. TreeSurvives'
  <2>1. \A d \in exposed : TreeIn(d, whole', initial')
    BY <1>3 DEF TreeSurvives, TreeIn
  <2>2. TreeIn(dir, whole', initial')
    BY <2>1 DEF TypeOK
  <2>3. TreeIn(dir', whole', initial')
    BY <2>2, <1>2, <1>3 DEF TreeIn
  <2>4. QED
    BY <1>1, <2>1, <2>3, OneMoreSurvives
<1> QED
    BY <1>4, <1>5, <1>6, <1>7, <1>8, <1>9, <1>10, <1>11, <1>12, <1>13

LEMMA CreateStageStep == ASSUME IndInv, NEW t \in Txns, CreateStage(t) PROVE IndInv'
<1> USE TreesDistinct DEF IndInv, Safe
<1>1. dir' = [dir EXCEPT !.stage[t] = Partial] /\ exposed' = exposed \cup {dir'}
    BY DEF CreateStage, Change
<1>2. /\ dir' \in Directories /\ dir'.stage[t] = Partial /\ \A u \in Txns \ {t} : dir'.stage[u] = dir.stage[u]
      /\ dir'.lock = dir.lock /\ dir'.canonical = dir.canonical /\ dir'.backup = dir.backup
    BY <1>1, StageUpdate DEF TypeOK
<1>3. UNCHANGED <<whole, committed, edited, initial>>
    BY DEF CreateStage, history
<1>4. TypeOK'
    BY <1>1, <1>2, DirectoryEntries DEF TypeOK, CreateStage, history, Holding, Before, Dead, Codes, Goto, Raise, RaiseOver, Fault, history, budget, Trees
<1>5. OneMutator'
    BY <1>2, <1>3, DirectoryEntries DEF OneMutator, TypeOK, CreateStage, history, Holding, Before, Dead, Goto, Raise, RaiseOver, Trees
<1>6. StageWritten'
    BY <1>2, <1>3, DirectoryEntries DEF StageWritten, TypeOK, OneMutator, CreateStage, history, Holding, Before, Dead, Goto, Raise, RaiseOver, Trees
<1>7. Uncommitted'
    BY <1>2, <1>3, DirectoryEntries DEF Uncommitted, TypeOK, OneMutator, CreateStage, history, Holding, Before, Dead, Goto, Raise, RaiseOver, Trees
<1>8. BackupReady'
    BY <1>2, <1>3, DirectoryEntries DEF BackupReady, TypeOK, OneMutator, CreateStage, history, Holding, Before, Dead, Goto, Raise, RaiseOver, Trees
<1>9. Alone'
    BY <1>2, <1>3, DirectoryEntries DEF Alone, TypeOK, OneMutator, CreateStage, history, Holding, Before, Dead, Goto, Raise, RaiseOver, Trees
<1>10. Replaced'
    BY <1>2, <1>3, DirectoryEntries DEF Replaced, TypeOK, OneMutator, CreateStage, history, Holding, Before, Dead, Goto, Raise, RaiseOver, Trees
<1>11. TreesUsed'
  <2>1. \A d \in exposed : TreesAmong(d, Used')
    BY <1>3 DEF TreesUsed, TreesAmong, Used
  <2>2. TreesAmong(dir, Used')
    BY <2>1 DEF TypeOK
  <2>3. TreesAmong(dir', Used')
    BY <2>2, <1>2, <1>3 DEF TreesAmong, Used
  <2>4. QED
    BY <1>1, <2>1, <2>3, OneMoreUsed
<1>12. BackupsWhole'
  <2>1. \A d \in exposed : MissingIsWhole(d, whole')
    BY <1>3 DEF BackupsWhole, MissingIsWhole
  <2>2. MissingIsWhole(dir, whole')
    BY <2>1 DEF TypeOK
  <2>3. MissingIsWhole(dir', whole')
    BY <2>2, <1>2, <1>3 DEF MissingIsWhole
  <2>4. QED
    BY <1>1, <2>1, <2>3, OneMoreMissing
<1>13. TreeSurvives'
  <2>1. \A d \in exposed : TreeIn(d, whole', initial')
    BY <1>3 DEF TreeSurvives, TreeIn
  <2>2. TreeIn(dir, whole', initial')
    BY <2>1 DEF TypeOK
  <2>3. TreeIn(dir', whole', initial')
    BY <2>2, <1>2, <1>3 DEF TreeIn
  <2>4. QED
    BY <1>1, <2>1, <2>3, OneMoreSurvives
<1> QED
    BY <1>4, <1>5, <1>6, <1>7, <1>8, <1>9, <1>10, <1>11, <1>12, <1>13

LEMMA WriteStageStep == ASSUME IndInv, NEW t \in Txns, WriteStage(t) PROVE IndInv'
<1> USE TreesDistinct DEF IndInv, Safe
<1>1. dir' = [dir EXCEPT !.stage[t] = t] /\ exposed' = exposed \cup {dir'}
    BY DEF WriteStage, Change
<1>2. /\ dir' \in Directories /\ dir'.stage[t] = t /\ \A u \in Txns \ {t} : dir'.stage[u] = dir.stage[u]
      /\ dir'.lock = dir.lock /\ dir'.canonical = dir.canonical /\ dir'.backup = dir.backup
    BY <1>1, StageUpdate DEF TypeOK, Trees
<1>3. whole' = whole \cup {t} /\ UNCHANGED <<committed, edited, initial>>
    BY DEF WriteStage, history
<1>4. TypeOK'
    BY <1>1, <1>2, DirectoryEntries DEF TypeOK, WriteStage, history, Holding, Before, Dead, Codes, Goto, Raise, RaiseOver, Fault, history, budget, Trees
<1>5. OneMutator'
    BY <1>2, <1>3, DirectoryEntries DEF OneMutator, TypeOK, WriteStage, history, Holding, Before, Dead, Goto, Raise, RaiseOver, Trees
<1>6. StageWritten'
    BY <1>2, <1>3, DirectoryEntries DEF StageWritten, TypeOK, OneMutator, WriteStage, history, Holding, Before, Dead, Goto, Raise, RaiseOver, Trees
<1>7. Uncommitted'
    BY <1>2, <1>3, DirectoryEntries DEF Uncommitted, TypeOK, OneMutator, WriteStage, history, Holding, Before, Dead, Goto, Raise, RaiseOver, Trees
<1>8. BackupReady'
    BY <1>2, <1>3, DirectoryEntries DEF BackupReady, TypeOK, OneMutator, WriteStage, history, Holding, Before, Dead, Goto, Raise, RaiseOver, Trees
<1>9. Alone'
    BY <1>2, <1>3, DirectoryEntries DEF Alone, TypeOK, OneMutator, WriteStage, history, Holding, Before, Dead, Goto, Raise, RaiseOver, Trees
<1>10. Replaced'
    BY <1>2, <1>3, DirectoryEntries DEF Replaced, TypeOK, OneMutator, WriteStage, history, Holding, Before, Dead, Goto, Raise, RaiseOver, Trees
<1>11. TreesUsed'
  <2>1. \A d \in exposed : TreesAmong(d, Used')
    BY <1>3 DEF TreesUsed, TreesAmong, Used
  <2>2. TreesAmong(dir, Used')
    BY <2>1 DEF TypeOK
  <2>3. TreesAmong(dir', Used')
    BY <2>2, <1>2, <1>3 DEF TreesAmong, Used
  <2>4. QED
    BY <1>1, <2>1, <2>3, OneMoreUsed
<1>12. BackupsWhole'
  <2>1. \A d \in exposed : MissingIsWhole(d, whole')
    BY <1>3 DEF BackupsWhole, MissingIsWhole
  <2>2. MissingIsWhole(dir, whole')
    BY <2>1 DEF TypeOK
  <2>3. MissingIsWhole(dir', whole')
    BY <2>2, <1>2, <1>3 DEF MissingIsWhole
  <2>4. QED
    BY <1>1, <2>1, <2>3, OneMoreMissing
<1>13. TreeSurvives'
  <2>1. \A d \in exposed : TreeIn(d, whole', initial')
    BY <1>3 DEF TreeSurvives, TreeIn
  <2>2. TreeIn(dir, whole', initial')
    BY <2>1 DEF TypeOK
  <2>3. TreeIn(dir', whole', initial')
    BY <2>2, <1>2, <1>3 DEF TreeIn
  <2>4. QED
    BY <1>1, <2>1, <2>3, OneMoreSurvives
<1> QED
    BY <1>4, <1>5, <1>6, <1>7, <1>8, <1>9, <1>10, <1>11, <1>12, <1>13

LEMMA CleanStageStep == ASSUME IndInv, NEW t \in Txns, CleanStage(t) PROVE IndInv'
<1> USE TreesDistinct DEF IndInv, Safe
<1>1. dir' = [dir EXCEPT !.stage[t] = None] /\ exposed' = exposed \cup {dir'}
    BY DEF CleanStage, Change
<1>2. /\ dir' \in Directories /\ dir'.stage[t] = None /\ \A u \in Txns \ {t} : dir'.stage[u] = dir.stage[u]
      /\ dir'.lock = dir.lock /\ dir'.canonical = dir.canonical /\ dir'.backup = dir.backup
    BY <1>1, StageUpdate DEF TypeOK
<1>3. /\ whole' = whole \ {t} /\ UNCHANGED <<committed, edited, initial>>
      /\ \A d \in exposed : d.canonical # t /\ \A u \in Txns : d.backup[u] # t
    BY DEF CleanStage, history, Uncommitted, TreesUsed, TypeOK, Trees
<1>4. TypeOK'
    BY <1>1, <1>2, DirectoryEntries DEF TypeOK, CleanStage, history, Uncommitted, TreesUsed, TypeOK, Trees, Holding, Before, Dead, Codes, Goto, Raise, RaiseOver, Fault, history, budget, Trees
<1>5. OneMutator'
    BY <1>2, <1>3, DirectoryEntries DEF OneMutator, TypeOK, CleanStage, history, Uncommitted, TreesUsed, TypeOK, Trees, Holding, Before, Dead, Goto, Raise, RaiseOver, Trees
<1>6. StageWritten'
    BY <1>2, <1>3, DirectoryEntries DEF StageWritten, TypeOK, OneMutator, CleanStage, history, Uncommitted, TreesUsed, TypeOK, Trees, Holding, Before, Dead, Goto, Raise, RaiseOver, Trees
<1>7. Uncommitted'
    BY <1>2, <1>3, DirectoryEntries DEF Uncommitted, TypeOK, OneMutator, CleanStage, history, Uncommitted, TreesUsed, TypeOK, Trees, Holding, Before, Dead, Goto, Raise, RaiseOver, Trees
<1>8. BackupReady'
    BY <1>2, <1>3, DirectoryEntries DEF BackupReady, TypeOK, OneMutator, CleanStage, history, Uncommitted, TreesUsed, TypeOK, Trees, Holding, Before, Dead, Goto, Raise, RaiseOver, Trees
<1>9. Alone'
    BY <1>2, <1>3, DirectoryEntries DEF Alone, TypeOK, OneMutator, CleanStage, history, Uncommitted, TreesUsed, TypeOK, Trees, Holding, Before, Dead, Goto, Raise, RaiseOver, Trees
<1>10. Replaced'
    BY <1>2, <1>3, DirectoryEntries DEF Replaced, TypeOK, OneMutator, CleanStage, history, Uncommitted, TreesUsed, TypeOK, Trees, Holding, Before, Dead, Goto, Raise, RaiseOver, Trees
<1>11. TreesUsed'
  <2>1. \A d \in exposed : TreesAmong(d, Used')
    BY <1>3 DEF TreesUsed, TreesAmong, Used
  <2>2. TreesAmong(dir, Used')
    BY <2>1 DEF TypeOK
  <2>3. TreesAmong(dir', Used')
    BY <2>2, <1>2, <1>3 DEF TreesAmong, Used
  <2>4. QED
    BY <1>1, <2>1, <2>3, OneMoreUsed
<1>12. BackupsWhole'
  <2>1. \A d \in exposed : MissingIsWhole(d, whole')
    BY <1>3 DEF BackupsWhole, MissingIsWhole
  <2>2. MissingIsWhole(dir, whole')
    BY <2>1 DEF TypeOK
  <2>3. MissingIsWhole(dir', whole')
    BY <2>2, <1>2, <1>3 DEF MissingIsWhole
  <2>4. QED
    BY <1>1, <2>1, <2>3, OneMoreMissing
<1>13. TreeSurvives'
  <2>1. \A d \in exposed : TreeIn(d, whole', initial')
    BY <1>3 DEF TreeSurvives, TreeIn
  <2>2. TreeIn(dir, whole', initial')
    BY <2>1 DEF TypeOK
  <2>3. TreeIn(dir', whole', initial')
    BY <2>2, <1>2, <1>3 DEF TreeIn
  <2>4. QED
    BY <1>1, <2>1, <2>3, OneMoreSurvives
<1> QED
    BY <1>4, <1>5, <1>6, <1>7, <1>8, <1>9, <1>10, <1>11, <1>12, <1>13

LEMMA MoveOldStep == ASSUME IndInv, NEW t \in Txns, MoveOld(t) PROVE IndInv'
<1> USE TreesDistinct DEF IndInv, Safe
<1>1. dir' = [dir EXCEPT !.canonical = None, !.backup[t] = dir.canonical] /\ exposed' = exposed \cup {dir'}
    BY DEF MoveOld, Change
<1>2. /\ dir' \in Directories /\ dir'.canonical = None /\ dir'.backup[t] = dir.canonical
      /\ \A u \in Txns \ {t} : dir'.backup[u] = dir.backup[u]
      /\ dir'.lock = dir.lock /\ dir'.stage = dir.stage
    BY <1>1, DirectoryEntries DEF TypeOK, Directories
<1>3. /\ UNCHANGED <<whole, committed, edited, initial>>
      /\ dir.canonical \in whole /\ \A u \in Txns \ {t} : dir.backup[u] = None
    BY DEF MoveOld, history, Alone, TreeSurvives, TypeOK
<1>4. TypeOK'
    BY <1>1, <1>2, DirectoryEntries DEF TypeOK, MoveOld, history, Alone, TreeSurvives, TypeOK, Holding, Before, Dead, Codes, Goto, Raise, RaiseOver, Fault, history, budget, Trees
<1>5. OneMutator'
    BY <1>2, <1>3, DirectoryEntries DEF OneMutator, TypeOK, MoveOld, history, Alone, TreeSurvives, TypeOK, Holding, Before, Dead, Goto, Raise, RaiseOver, Trees
<1>6. StageWritten'
    BY <1>2, <1>3, DirectoryEntries DEF StageWritten, TypeOK, OneMutator, MoveOld, history, Alone, TreeSurvives, TypeOK, Holding, Before, Dead, Goto, Raise, RaiseOver, Trees
<1>7. Uncommitted'
    BY <1>2, <1>3, DirectoryEntries DEF Uncommitted, TypeOK, OneMutator, MoveOld, history, Alone, TreeSurvives, TypeOK, Holding, Before, Dead, Goto, Raise, RaiseOver, Trees
<1>8. BackupReady'
    BY <1>2, <1>3, DirectoryEntries DEF BackupReady, TypeOK, OneMutator, MoveOld, history, Alone, TreeSurvives, TypeOK, Holding, Before, Dead, Goto, Raise, RaiseOver, Trees
<1>9. Alone'
    BY <1>2, <1>3, DirectoryEntries DEF Alone, TypeOK, OneMutator, MoveOld, history, Alone, TreeSurvives, TypeOK, Holding, Before, Dead, Goto, Raise, RaiseOver, Trees
<1>10. Replaced'
    BY <1>2, <1>3, DirectoryEntries DEF Replaced, TypeOK, OneMutator, MoveOld, history, Alone, TreeSurvives, TypeOK, Holding, Before, Dead, Goto, Raise, RaiseOver, Trees
<1>11. TreesUsed'
  <2>1. \A d \in exposed : TreesAmong(d, Used')
    BY <1>3 DEF TreesUsed, TreesAmong, Used
  <2>2. TreesAmong(dir, Used')
    BY <2>1 DEF TypeOK
  <2>3. TreesAmong(dir', Used')
    BY <2>2, <1>2, <1>3 DEF TreesAmong, Used
  <2>4. QED
    BY <1>1, <2>1, <2>3, OneMoreUsed
<1>12. BackupsWhole'
  <2>1. \A d \in exposed : MissingIsWhole(d, whole')
    BY <1>3 DEF BackupsWhole, MissingIsWhole
  <2>2. MissingIsWhole(dir, whole')
    BY <2>1 DEF TypeOK
  <2>3. MissingIsWhole(dir', whole')
    BY <2>2, <1>2, <1>3 DEF MissingIsWhole
  <2>4. QED
    BY <1>1, <2>1, <2>3, OneMoreMissing
<1>13. TreeSurvives'
  <2>1. \A d \in exposed : TreeIn(d, whole', initial')
    BY <1>3 DEF TreeSurvives, TreeIn
  <2>2. TreeIn(dir, whole', initial')
    BY <2>1 DEF TypeOK
  <2>3. TreeIn(dir', whole', initial')
    BY <2>2, <1>2, <1>3 DEF TreeIn
  <2>4. QED
    BY <1>1, <2>1, <2>3, OneMoreSurvives
<1> QED
    BY <1>4, <1>5, <1>6, <1>7, <1>8, <1>9, <1>10, <1>11, <1>12, <1>13

LEMMA PromoteStep == ASSUME IndInv, NEW t \in Txns, Promote(t) PROVE IndInv'
<1> USE TreesDistinct DEF IndInv, Safe
<1>1. dir' = [dir EXCEPT !.canonical = t, !.stage[t] = None] /\ exposed' = exposed \cup {dir'}
    BY DEF Promote, Change, StageWritten
<1>2. /\ dir' \in Directories /\ dir'.canonical = t /\ dir'.stage[t] = None
      /\ \A u \in Txns \ {t} : dir'.stage[u] = dir.stage[u]
      /\ dir'.lock = dir.lock /\ dir'.backup = dir.backup
    BY <1>1 DEF TypeOK, Trees, Directories
<1>3. committed' = committed \cup {t} /\ t \notin committed /\ t \in whole /\ UNCHANGED <<whole, edited, initial>>
    BY DEF Promote, StageWritten, Uncommitted
<1>4. TypeOK'
    BY <1>1, <1>2, DirectoryEntries DEF TypeOK, Promote, StageWritten, Uncommitted, Holding, Before, Dead, Codes, Goto, Raise, RaiseOver, Fault, history, budget, Trees
<1>5. OneMutator'
    BY <1>2, <1>3, DirectoryEntries DEF OneMutator, TypeOK, Promote, StageWritten, Uncommitted, Holding, Before, Dead, Goto, Raise, RaiseOver, Trees
<1>6. StageWritten'
    BY <1>2, <1>3, DirectoryEntries DEF StageWritten, TypeOK, OneMutator, Promote, StageWritten, Uncommitted, Holding, Before, Dead, Goto, Raise, RaiseOver, Trees
<1>7. Uncommitted'
    BY <1>2, <1>3, DirectoryEntries DEF Uncommitted, TypeOK, OneMutator, Promote, StageWritten, Uncommitted, Holding, Before, Dead, Goto, Raise, RaiseOver, Trees
<1>8. BackupReady'
    BY <1>2, <1>3, DirectoryEntries DEF BackupReady, TypeOK, OneMutator, Promote, StageWritten, Uncommitted, Holding, Before, Dead, Goto, Raise, RaiseOver, Trees
<1>9. Alone'
    BY <1>2, <1>3, DirectoryEntries DEF Alone, TypeOK, OneMutator, Promote, StageWritten, Uncommitted, Holding, Before, Dead, Goto, Raise, RaiseOver, Trees
<1>10. Replaced'
    BY <1>2, <1>3, DirectoryEntries DEF Replaced, TreesUsed, TypeOK, OneMutator, Promote, StageWritten, Uncommitted, Holding, Before, Dead, Goto, Raise, RaiseOver, Trees
<1>11. TreesUsed'
  <2>1. \A d \in exposed : TreesAmong(d, Used')
    BY <1>3 DEF TreesUsed, TreesAmong, Used
  <2>2. TreesAmong(dir, Used')
    BY <2>1 DEF TypeOK
  <2>3. TreesAmong(dir', Used')
    BY <2>2, <1>2, <1>3 DEF TreesAmong, Used
  <2>4. QED
    BY <1>1, <2>1, <2>3, OneMoreUsed
<1>12. BackupsWhole'
  <2>1. \A d \in exposed : MissingIsWhole(d, whole')
    BY <1>3 DEF BackupsWhole, MissingIsWhole
  <2>2. dir'.canonical # None
    BY <1>2 DEF Trees
  <2>3. MissingIsWhole(dir', whole')
    BY <2>2 DEF MissingIsWhole
  <2>4. QED
    BY <1>1, <2>1, <2>3, OneMoreMissing
<1>13. TreeSurvives'
  <2>1. \A d \in exposed : TreeIn(d, whole', initial')
    BY <1>3 DEF TreeSurvives, TreeIn
  <2>2. TreeIn(dir, whole', initial')
    BY <2>1 DEF TypeOK
  <2>3. TreeIn(dir', whole', initial')
    BY <2>2, <1>2, <1>3 DEF TreeIn
  <2>4. QED
    BY <1>1, <2>1, <2>3, OneMoreSurvives
<1> QED
    BY <1>4, <1>5, <1>6, <1>7, <1>8, <1>9, <1>10, <1>11, <1>12, <1>13

LEMMA RemoveBackupDirectoryStep == ASSUME IndInv, NEW t \in Txns, RemoveBackupDirectory(t) PROVE IndInv'
<1> USE TreesDistinct DEF IndInv, Safe
<1>1. dir' = [dir EXCEPT !.backup[t] = None] /\ exposed' = exposed \cup {dir'}
    BY DEF RemoveBackupDirectory, Change
<1>2. /\ dir' \in Directories /\ dir'.canonical = dir.canonical /\ dir'.backup[t] = None
      /\ \A u \in Txns \ {t} : dir'.backup[u] = dir.backup[u]
      /\ dir'.lock = dir.lock /\ dir'.stage = dir.stage
    BY <1>1, DirectoryEntries DEF TypeOK, Directories
<1>3. UNCHANGED <<whole, committed, edited, initial>> /\ dir.canonical \in whole
    BY DEF RemoveBackupDirectory, history, Replaced, TreeSurvives, TypeOK
<1>4. TypeOK'
    BY <1>1, <1>2, DirectoryEntries DEF TypeOK, RemoveBackupDirectory, history, Replaced, TreeSurvives, TypeOK, Holding, Before, Dead, Codes, Goto, Raise, RaiseOver, Fault, history, budget, Trees
<1>5. OneMutator'
    BY <1>2, <1>3, DirectoryEntries DEF OneMutator, TypeOK, RemoveBackupDirectory, history, Replaced, TreeSurvives, TypeOK, Holding, Before, Dead, Goto, Raise, RaiseOver, Trees
<1>6. StageWritten'
    BY <1>2, <1>3, DirectoryEntries DEF StageWritten, TypeOK, OneMutator, RemoveBackupDirectory, history, Replaced, TreeSurvives, TypeOK, Holding, Before, Dead, Goto, Raise, RaiseOver, Trees
<1>7. Uncommitted'
    BY <1>2, <1>3, DirectoryEntries DEF Uncommitted, TypeOK, OneMutator, RemoveBackupDirectory, history, Replaced, TreeSurvives, TypeOK, Holding, Before, Dead, Goto, Raise, RaiseOver, Trees
<1>8. BackupReady'
    BY <1>2, <1>3, DirectoryEntries DEF BackupReady, TypeOK, OneMutator, RemoveBackupDirectory, history, Replaced, TreeSurvives, TypeOK, Holding, Before, Dead, Goto, Raise, RaiseOver, Trees
<1>9. Alone'
    BY <1>2, <1>3, DirectoryEntries DEF Alone, TypeOK, OneMutator, RemoveBackupDirectory, history, Replaced, TreeSurvives, TypeOK, Holding, Before, Dead, Goto, Raise, RaiseOver, Trees
<1>10. Replaced'
    BY <1>2, <1>3, DirectoryEntries DEF Replaced, TypeOK, OneMutator, RemoveBackupDirectory, history, Replaced, TreeSurvives, TypeOK, Holding, Before, Dead, Goto, Raise, RaiseOver, Trees
<1>11. TreesUsed'
  <2>1. \A d \in exposed : TreesAmong(d, Used')
    BY <1>3 DEF TreesUsed, TreesAmong, Used
  <2>2. TreesAmong(dir, Used')
    BY <2>1 DEF TypeOK
  <2>3. TreesAmong(dir', Used')
    BY <2>2, <1>2, <1>3 DEF TreesAmong, Used
  <2>4. QED
    BY <1>1, <2>1, <2>3, OneMoreUsed
<1>12. BackupsWhole'
  <2>1. \A d \in exposed : MissingIsWhole(d, whole')
    BY <1>3 DEF BackupsWhole, MissingIsWhole
  <2>2. MissingIsWhole(dir, whole')
    BY <2>1 DEF TypeOK
  <2>3. MissingIsWhole(dir', whole')
    BY <2>2, <1>2, <1>3 DEF MissingIsWhole
  <2>4. QED
    BY <1>1, <2>1, <2>3, OneMoreMissing
<1>13. TreeSurvives'
  <2>1. \A d \in exposed : TreeIn(d, whole', initial')
    BY <1>3 DEF TreeSurvives, TreeIn
  <2>2. TreeIn(dir, whole', initial')
    BY <2>1 DEF TypeOK
  <2>3. TreeIn(dir', whole', initial')
    BY <2>2, <1>2, <1>3 DEF TreeIn
  <2>4. QED
    BY <1>1, <2>1, <2>3, OneMoreSurvives
<1> QED
    BY <1>4, <1>5, <1>6, <1>7, <1>8, <1>9, <1>10, <1>11, <1>12, <1>13

LEMMA RollbackStep == ASSUME IndInv, NEW t \in Txns, Rollback(t) PROVE IndInv'
<1> USE TreesDistinct DEF IndInv, Safe
<1>1. dir' = [dir EXCEPT !.canonical = dir.backup[t], !.backup[t] = None] /\ exposed' = exposed \cup {dir'}
    BY DEF Rollback, Change
<1>2. /\ dir' \in Directories /\ dir'.canonical = dir.backup[t] /\ dir'.backup[t] = None
      /\ \A u \in Txns \ {t} : dir'.backup[u] = dir.backup[u]
      /\ dir'.lock = dir.lock /\ dir'.stage = dir.stage
    BY <1>1, DirectoryEntries DEF TypeOK, Directories
<1>3. UNCHANGED <<whole, committed, edited, initial>> /\ dir.backup[t] \in whole \ {None}
    BY DEF Rollback, history, BackupReady, TypeOK, Trees
<1>4. TypeOK'
    BY <1>1, <1>2, DirectoryEntries DEF TypeOK, Rollback, history, BackupReady, TypeOK, Trees, Holding, Before, Dead, Codes, Goto, Raise, RaiseOver, Fault, history, budget, Trees
<1>5. OneMutator'
    BY <1>2, <1>3, DirectoryEntries DEF OneMutator, TypeOK, Rollback, history, BackupReady, TypeOK, Trees, Holding, Before, Dead, Goto, Raise, RaiseOver, Trees
<1>6. StageWritten'
    BY <1>2, <1>3, DirectoryEntries DEF StageWritten, TypeOK, OneMutator, Rollback, history, BackupReady, TypeOK, Trees, Holding, Before, Dead, Goto, Raise, RaiseOver, Trees
<1>7. Uncommitted'
    BY <1>2, <1>3, DirectoryEntries DEF Uncommitted, TypeOK, OneMutator, Rollback, history, BackupReady, TypeOK, Trees, Holding, Before, Dead, Goto, Raise, RaiseOver, Trees
<1>8. BackupReady'
    BY <1>2, <1>3, DirectoryEntries DEF BackupReady, TypeOK, OneMutator, Rollback, history, BackupReady, TypeOK, Trees, Holding, Before, Dead, Goto, Raise, RaiseOver, Trees
<1>9. Alone'
    BY <1>2, <1>3, DirectoryEntries DEF Alone, TypeOK, OneMutator, Rollback, history, BackupReady, TypeOK, Trees, Holding, Before, Dead, Goto, Raise, RaiseOver, Trees
<1>10. Replaced'
    BY <1>2, <1>3, DirectoryEntries DEF Replaced, TypeOK, OneMutator, Rollback, history, BackupReady, TypeOK, Trees, Holding, Before, Dead, Goto, Raise, RaiseOver, Trees
<1>11. TreesUsed'
  <2>1. \A d \in exposed : TreesAmong(d, Used')
    BY <1>3 DEF TreesUsed, TreesAmong, Used
  <2>2. TreesAmong(dir, Used')
    BY <2>1 DEF TypeOK
  <2>3. TreesAmong(dir', Used')
    BY <2>2, <1>2, <1>3 DEF TreesAmong, Used
  <2>4. QED
    BY <1>1, <2>1, <2>3, OneMoreUsed
<1>12. BackupsWhole'
  <2>1. \A d \in exposed : MissingIsWhole(d, whole')
    BY <1>3 DEF BackupsWhole, MissingIsWhole
  <2>2. MissingIsWhole(dir, whole')
    BY <2>1 DEF TypeOK
  <2>3. MissingIsWhole(dir', whole')
    BY <2>2, <1>2, <1>3 DEF MissingIsWhole
  <2>4. QED
    BY <1>1, <2>1, <2>3, OneMoreMissing
<1>13. TreeSurvives'
  <2>1. \A d \in exposed : TreeIn(d, whole', initial')
    BY <1>3 DEF TreeSurvives, TreeIn
  <2>2. TreeIn(dir, whole', initial')
    BY <2>1 DEF TypeOK
  <2>3. TreeIn(dir', whole', initial')
    BY <2>2, <1>2, <1>3 DEF TreeIn
  <2>4. QED
    BY <1>1, <2>1, <2>3, OneMoreSurvives
<1> QED
    BY <1>4, <1>5, <1>6, <1>7, <1>8, <1>9, <1>10, <1>11, <1>12, <1>13

(* The environment's steps.                                                 *)
LEMMA HumanEditStep == ASSUME IndInv, NEW e \in Edits, HumanEdit(e) PROVE IndInv'
<1> USE TreesDistinct DEF IndInv, Safe
<1>1. dir' = [dir EXCEPT !.canonical = e] /\ exposed' = exposed \cup {dir'}
    BY DEF HumanEdit, Change
<1>2. /\ dir' \in Directories /\ dir'.canonical = e
      /\ dir'.lock = dir.lock /\ dir'.stage = dir.stage /\ dir'.backup = dir.backup
    BY <1>1, CanonicalUpdate DEF TypeOK, Trees
<1>3. /\ whole' = whole \cup {e} /\ edited' = edited \cup {e} /\ UNCHANGED <<committed, initial>>
      /\ e # None /\ \A u \in Txns : dir.backup[u] # e
    BY DEF HumanEdit, local, TreesUsed, TypeOK, Trees
<1>4. TypeOK'
    BY <1>1, <1>2, DirectoryEntries DEF TypeOK, HumanEdit, local, TreesUsed, TypeOK, Trees, Holding, Before, Dead, Codes, Goto, Raise, RaiseOver, Fault, history, budget, Trees
<1>5. OneMutator'
    BY <1>2, <1>3, DirectoryEntries DEF OneMutator, TypeOK, HumanEdit, local, TreesUsed, TypeOK, Trees, Holding, Before, Dead, Goto, Raise, RaiseOver, Trees
<1>6. StageWritten'
    BY <1>2, <1>3, DirectoryEntries DEF StageWritten, TypeOK, OneMutator, HumanEdit, local, TreesUsed, TypeOK, Trees, Holding, Before, Dead, Goto, Raise, RaiseOver, Trees
<1>7. Uncommitted'
    BY <1>2, <1>3, DirectoryEntries DEF Uncommitted, TypeOK, OneMutator, HumanEdit, local, TreesUsed, TypeOK, Trees, Holding, Before, Dead, Goto, Raise, RaiseOver, Trees
<1>8. BackupReady'
    BY <1>2, <1>3, DirectoryEntries DEF BackupReady, TypeOK, OneMutator, HumanEdit, local, TreesUsed, TypeOK, Trees, Holding, Before, Dead, Goto, Raise, RaiseOver, Trees
<1>9. Alone'
    BY <1>2, <1>3, DirectoryEntries DEF Alone, TypeOK, OneMutator, HumanEdit, local, TreesUsed, TypeOK, Trees, Holding, Before, Dead, Goto, Raise, RaiseOver, Trees
<1>10. Replaced'
  <2>1. UNCHANGED pc
    BY DEF HumanEdit, local
  <2>2. QED
    BY <2>1, <1>1, <1>2, <1>3 DEF Replaced
<1>11. TreesUsed'
  <2>1. \A d \in exposed : TreesAmong(d, Used')
    BY <1>3 DEF TreesUsed, TreesAmong, Used
  <2>2. TreesAmong(dir, Used')
    BY <2>1 DEF TypeOK
  <2>3. TreesAmong(dir', Used')
    BY <2>2, <1>2, <1>3 DEF TreesAmong, Used
  <2>4. QED
    BY <1>1, <2>1, <2>3, OneMoreUsed
<1>12. BackupsWhole'
  <2>1. \A d \in exposed : MissingIsWhole(d, whole')
    BY <1>3 DEF BackupsWhole, MissingIsWhole
  <2>2. MissingIsWhole(dir, whole')
    BY <2>1 DEF TypeOK
  <2>3. MissingIsWhole(dir', whole')
    BY <2>2, <1>2, <1>3 DEF MissingIsWhole
  <2>4. QED
    BY <1>1, <2>1, <2>3, OneMoreMissing
<1>13. TreeSurvives'
  <2>1. \A d \in exposed : TreeIn(d, whole', initial')
    BY <1>3 DEF TreeSurvives, TreeIn
  <2>2. TreeIn(dir, whole', initial')
    BY <2>1 DEF TypeOK
  <2>3. TreeIn(dir', whole', initial')
    BY <2>2, <1>2, <1>3 DEF TreeIn
  <2>4. QED
    BY <1>1, <2>1, <2>3, OneMoreSurvives
<1> QED
    BY <1>4, <1>5, <1>6, <1>7, <1>8, <1>9, <1>10, <1>11, <1>12, <1>13

LEMMA PowerCutStep == ASSUME IndInv, PowerCut PROVE IndInv'
<1> USE TreesDistinct, DirectoryEntries DEF IndInv, TypeOK, Safe, OneMutator, StageWritten, TreesUsed, Uncommitted, BackupReady,
        Alone, Replaced, BackupsWhole, TreeSurvives,
        Holding, Before, Dead, Codes
<1> QED
    BY DEF PowerCut, Held, Trees

LEMMA RecoverStep == ASSUME IndInv, NEW t \in Txns, Recover(t) PROVE IndInv'
<1> USE TreesDistinct DEF IndInv, Safe
<1>1. /\ dir' \in Directories /\ dir'.lock = None /\ dir'.backup[t] = None
      /\ \A u \in Txns \ {t} : dir'.backup[u] = dir.backup[u] /\ dir'.stage[u] = dir.stage[u]
      /\ dir'.canonical = IF dir.canonical = None THEN dir.backup[t] ELSE dir.canonical
    BY DEF Recover, Directories, TypeOK
<1>2. pc[t] \in Dead /\ \A u \in Txns : pc[u] \notin Holding
    BY DEF Recover, OneMutator, Holding, Dead, TypeOK
<1>3. exposed' = {dir'} /\ UNCHANGED <<whole, pc, backupCreated, committed, edited, initial>>
    BY DEF Recover, local
<1>4. TypeOK'
    BY <1>1, <1>3, DirectoryEntries DEF TypeOK, Recover, local, budget, Trees
<1>5. (OneMutator /\ StageWritten /\ Uncommitted /\ BackupReady /\ Alone /\ Replaced)'
    BY <1>2, <1>3 DEF OneMutator, StageWritten, Uncommitted, BackupReady, Alone, Replaced, Holding, Before, Dead
<1>6. (TreesUsed /\ BackupsWhole)'
    BY <1>1, <1>3, DirectoryEntries DEF TreesUsed, BackupsWhole, TypeOK
<1>7. TreeSurvives'
    BY <1>1, <1>3, DirectoryEntries DEF TreeSurvives, BackupsWhole, TypeOK
<1> QED
    BY <1>4, <1>5, <1>6, <1>7

(* Every step preserves the invariant.                                      *)
LEMMA StepInv == IndInv /\ [Next]_vars => IndInv'
<1> SUFFICES ASSUME IndInv, [Next]_vars PROVE IndInv'
    OBVIOUS
<1>1. ASSUME NEW t \in Txns, Step(t) PROVE IndInv'
    BY <1>1, QuietSteps, ContentSteps, AcquireLockStep, StatLockFailsStep, UnlockStep,
        CreateStageStep, WriteStageStep, CleanStageStep, MoveOldStep, PromoteStep,
        RemoveBackupDirectoryStep, RollbackStep DEF Step
<1>2. ASSUME NEW t \in Txns, Crash(t) \/ Recover(t) PROVE IndInv'
    BY <1>2, QuietSteps, RecoverStep
<1>3. ASSUME NEW e \in Edits, HumanEdit(e) PROVE IndInv'
    BY <1>3, HumanEditStep
<1>4. CASE PowerCut
    BY <1>4, PowerCutStep
<1>5. CASE UNCHANGED vars
    BY <1>5 DEF vars, disk, local, history, budget, IndInv, TypeOK, Safe,
        OneMutator, StageWritten, TreesUsed, Uncommitted, BackupReady,
        Alone, Replaced, BackupsWhole, TreeSurvives
<1> QED
    BY <1>1, <1>2, <1>3, <1>4, <1>5 DEF Next, Terminated

(* The inductive invariant holds throughout.                                *)
THEOREM Invariance == Spec => []IndInv
    BY InitInv, StepInv, PTL DEF Spec

(* Every variable has its type in every reachable state.                    *)
THEOREM TypeCorrect == Spec => []TypeOK
    BY Invariance, PTL DEF IndInv

(* For any number of transactions, edits, faults and power cuts, at most    *)
(* one call is between its lock and its unlock.                             *)
THEOREM MutualExclusion == Spec => []OneMutator
    BY Invariance, PTL DEF IndInv, Safe

(* For any number of transactions, edits, faults and power cuts, the disk   *)
(* always holds a complete tree.                                            *)
THEOREM TreeAlwaysSurvives == Spec => []TreeSurvives
    BY Invariance, PTL DEF IndInv, Safe
-----------------------------------------------------------------------------
(* What a call reports is what it leaves on disk: at each position of a     *)
(* call, what is being raised, whether its stage and its backup are there,  *)
(* and, from the moment its outcome is settled, that the outcome is true.   *)

(* Nothing is on disk of a call that has not made its lock, and no more     *)
(* than the lock until it makes its stage.                                  *)
Fresh(t) ==
    /\ pc[t] \in Before \cup {"stage"} =>
           \A d \in exposed : d.stage[t] = None /\ d.backup[t] = None
    /\ pc[t] \in Before => \A d \in exposed : d.lock # t

(* What is being raised where; only a cleanup speaks over another error.    *)
Raised(t) ==
    /\ pc[t] \in Before \cup {"stage", "write", "compare", "recheck", "moveOld", "preflight",
                              "promote", "syncPromoted", "rmBackup", "rmdirBackup", "syncCleanup"}
           => code[t] = "none" /\ cause[t] = "none"
    /\ pc[t] \in {"rollback", "syncRollback"} => code[t] \in {"FAILED", "CANONICAL_CHANGED"}
    /\ pc[t] = "cleanStage"
           => code[t] \in {"FAILED", "CANONICAL_CHANGED", "RECOVERY_REQUIRED", "ROLLBACK_FAILED"}
    /\ pc[t] \in {"rollback", "syncRollback", "cleanStage"} => cause[t] = code[t]

(* backupCreated says whether there is a backup.                            *)
BackupKnown(t) ==
    /\ pc[t] \in {"write", "compare", "recheck", "moveOld", "syncRollback", "syncCleanup"}
           => dir.backup[t] = None
    /\ pc[t] \in {"preflight", "promote", "syncPromoted"}
           => backupCreated[t] <=> expected[t] # None
    /\ pc[t] \in {"preflight", "promote", "syncPromoted", "cleanStage"}
           => dir.backup[t] # None <=> backupCreated[t]
    /\ pc[t] \in {"stage", "write", "compare", "recheck", "moveOld", "syncRollback"}
           => ~backupCreated[t]
    /\ pc[t] \in {"rollback", "rmBackup", "rmdirBackup"}
           => dir.backup[t] # None /\ backupCreated[t]
    /\ pc[t] \in {"rmBackup", "rmdirBackup", "syncCleanup"} => expected[t] # None

(* Where a power cut could bring a backup of the call back, and where not.  *)
Trace(t) == \E d \in exposed : d.backup[t] # None
Traced(t) ==
    /\ pc[t] \in {"write", "compare", "recheck", "moveOld"} => ~Trace(t)
    /\ pc[t] \in {"preflight", "promote", "syncPromoted"} => (Trace(t) <=> backupCreated[t])
    /\ pc[t] \in {"syncRollback", "syncCleanup"} => Trace(t)
    /\ pc[t] = "cleanStage" => (Trace(t) <=> cause[t] = "ROLLBACK_FAILED")

(* After its promotion a call has no stage.                                 *)
StageGone(t) ==
    pc[t] \in {"syncPromoted", "rmBackup", "rmdirBackup", "syncCleanup"}
        => t \in committed /\ dir.stage[t] = None

(* What is reported is true before it is, and success stays true.           *)
Reported(t) ==
    /\ pc[t] = "unlock" => Truthful(t) /\ code[t] # "LOCK_CLEANUP"
    /\ pc[t] \in {"unlock", "done"} /\ code[t] = "none"
           => \A d \in exposed : d.stage[t] = None /\ d.backup[t] = None

(* All of it, for one call and for every call.                              *)
Honest(t) == /\ Fresh(t) /\ Raised(t) /\ BackupKnown(t) /\ Traced(t)
             /\ StageGone(t) /\ Reported(t)
Reports == \A t \in Txns : Honest(t)

(* No directory a power cut could leave has two backups.                    *)
OneBackup ==
    \A d \in exposed : \A t, u \in Txns :
        d.backup[t] # None /\ d.backup[u] # None => t = u

(* Between its comparison and its promotion a call works on the tree its    *)
(* plan was made from; afterwards its backup holds a tree that counts as    *)
(* replaced.                                                                *)
Seen(t) ==
    /\ pc[t] \in {"recheck", "moveOld"} /\ expected[t] # None => dir.canonical = expected[t]
    /\ pc[t] \in {"preflight", "promote"} /\ backupCreated[t] => dir.backup[t] = expected[t]
    /\ pc[t] \in {"syncPromoted", "rmBackup", "rmdirBackup"}
           => dir.backup[t] \in superseded \cup {None}

(* A step changes nothing of another call's, and adds at most the present   *)
(* directory to those a power cut could leave.                              *)
LEMMA Footprint ==
    ASSUME IndInv, IndInv', NEW t \in Txns, Step(t) \/ Crash(t) \/ Recover(t)
    PROVE  /\ dir \in exposed /\ exposed' \subseteq exposed \cup {dir'}
           /\ dir'.lock \in {dir.lock, t, None}
           /\ \A u \in Txns \ {t} :
                /\ dir'.stage[u] = dir.stage[u] /\ dir'.backup[u] = dir.backup[u]
                /\ pc'[u] = pc[u] /\ code'[u] = code[u] /\ cause'[u] = cause[u]
                /\ expected'[u] = expected[u]
                /\ backupCreated'[u] = backupCreated[u] /\ (u \in committed' <=> u \in committed)
<1> USE DEF IndInv, TypeOK, Goto, Raise, RaiseOver, Fault, Abort, AbortPromotion, disk, local, history, budget,
        Change, SyncRoot, Directories
<1>1. CASE Plan(t) \/ CheckResidue(t) \/ CheckResidueFails(t)
    BY <1>1 DEF Plan, CheckResidue, CheckResidueFails
<1>2. CASE AcquireLock(t) \/ RefuseLocked(t) \/ OpenLockFails(t) \/ StatLockFails(t)
    BY <1>2 DEF AcquireLock, RefuseLocked, OpenLockFails, StatLockFails
<1>3. CASE CreateStage(t) \/ CreateStageFails(t) \/ WriteStage(t) \/ WriteStageFails(t)
    BY <1>3 DEF CreateStage, CreateStageFails, WriteStage, WriteStageFails
<1>4. CASE CompareSnapshot(t) \/ Recheck(t) \/ CheckFails(t)
    BY <1>4 DEF CompareSnapshot, Recheck, CheckFails
<1>5. CASE MoveOld(t) \/ MoveNothing(t) \/ MoveOldFails(t)
  <2>1. CASE MoveOld(t)
    <3>1. dir' = [dir EXCEPT !.canonical = None, !.backup[t] = dir.canonical]
        BY <2>1 DEF MoveOld
    <3>2. dir'.stage = dir.stage /\ \A u \in Txns \ {t} : dir'.backup[u] = dir.backup[u]
        BY <3>1
    <3>3. QED
        BY <2>1, <3>2 DEF MoveOld
  <2>2. QED
    BY <1>5, <2>1 DEF MoveNothing, MoveOldFails
<1>6. CASE Preflight(t) \/ Promote(t) \/ PromotionBlocked(t) \/ PromotionFails(t)
  <2>1. CASE Promote(t)
    <3>1. dir' = [dir EXCEPT !.canonical = dir.stage[t], !.stage[t] = None]
        BY <2>1 DEF Promote
    <3>2. dir'.backup = dir.backup /\ \A u \in Txns \ {t} : dir'.stage[u] = dir.stage[u]
        BY <3>1
    <3>3. QED
        BY <2>1, <3>2 DEF Promote
  <2>2. QED
    BY <1>6, <2>1 DEF Preflight, PromotionBlocked, PromotionFails
<1>7. CASE SyncPromoted(t) \/ SyncPromotedFails(t)
    BY <1>7 DEF SyncPromoted, SyncPromotedFails
<1>8. CASE RemoveBackupFiles(t) \/ RemoveBackupDirectory(t) \/ RemoveBackupFails(t)
    BY <1>8 DEF RemoveBackupFiles, RemoveBackupDirectory, RemoveBackupFails
<1>9. CASE SyncCleanup(t) \/ SyncCleanupFails(t)
    BY <1>9 DEF SyncCleanup, SyncCleanupFails
<1>10. CASE Rollback(t) \/ RollbackBlocked(t) \/ SyncRollback(t) \/ RollbackFails(t)
  <2>1. CASE Rollback(t)
    <3>1. dir' = [dir EXCEPT !.canonical = dir.backup[t], !.backup[t] = None]
        BY <2>1 DEF Rollback
    <3>2. dir'.stage = dir.stage /\ \A u \in Txns \ {t} : dir'.backup[u] = dir.backup[u]
        BY <3>1
    <3>3. QED
        BY <2>1, <3>2 DEF Rollback
  <2>2. QED
    BY <1>10, <2>1 DEF RollbackBlocked, SyncRollback, RollbackFails
<1>11. CASE CleanStage(t) \/ CleanStageFails(t) \/ Unlock(t) \/ UnlockFails(t)
    BY <1>11 DEF CleanStage, CleanStageFails, Unlock, UnlockFails
<1>12. CASE Crash(t)
    BY <1>12 DEF Crash
<1>13. CASE Recover(t)
    BY <1>13 DEF Recover
<1> QED
    BY <1>1, <1>2, <1>3, <1>4, <1>5, <1>6, <1>7, <1>8, <1>9, <1>10, <1>11, <1>12, <1>13 DEF Step

(* While another call holds the lock, no directory that a power cut could   *)
(* leave is forgotten: only the holder syncs, and a recovery waits for it.  *)
LEMMA NothingForced ==
    ASSUME IndInv, NEW t \in Txns, Step(t) \/ Crash(t) \/ Recover(t),
           NEW u \in Txns \ {t}, pc[u] \in Holding
    PROVE  exposed \subseteq exposed'
<1>1. dir.lock = u /\ pc[t] \notin Holding /\ pc[u] \notin Dead
    BY DEF IndInv, Safe, OneMutator, Holding, Dead
<1>2. ~Recover(t)
    BY <1>1 DEF Recover
<1>3. ~(SyncPromoted(t) \/ SyncCleanup(t) \/ SyncRollback(t))
    BY <1>1 DEF SyncPromoted, SyncCleanup, SyncRollback, Holding
<1> QED
    BY <1>2, <1>3 DEF Step, disk, Change, Abort, AbortPromotion, Crash, Plan, CheckResidue,
        CheckResidueFails, AcquireLock, RefuseLocked, OpenLockFails, StatLockFails, CreateStage,
        CreateStageFails, WriteStage, WriteStageFails, CompareSnapshot, Recheck, CheckFails,
        MoveOld, MoveNothing, MoveOldFails, Preflight, Promote, PromotionBlocked,
        PromotionFails, SyncPromotedFails, RemoveBackupFiles, RemoveBackupDirectory,
        RemoveBackupFails, SyncCleanupFails, Rollback, RollbackBlocked, RollbackFails,
        CleanStage, CleanStageFails, Unlock, UnlockFails

(* What is on disk of a call that holds the lock, and what a power cut      *)
(* could bring back of it, stays as it is while others step.                *)
LEMMA OthersTrace ==
    ASSUME IndInv, IndInv', NEW t \in Txns, Step(t) \/ Crash(t) \/ Recover(t),
           NEW u \in Txns \ {t}
    PROVE  /\ ~Trace(u) => ~Trace(u)'
           /\ pc[u] \in Holding => (Trace(u) <=> Trace(u)')
<1>1. ~Trace(u) => ~Trace(u)'
    BY Footprint DEF Trace
<1>2. pc[u] \in Holding => (Trace(u) => Trace(u)')
    BY NothingForced DEF Trace
<1> QED
    BY <1>1, <1>2

(* A step of one call leaves the report of every other call true.           *)
LEMMA OthersHonest ==
    ASSUME IndInv, IndInv', Reports, NEW t \in Txns, Step(t) \/ Crash(t) \/ Recover(t),
           NEW u \in Txns \ {t}
    PROVE  Honest(u)'
<1> Honest(u)
    BY DEF Reports
<1>1. Fresh(u)'
    BY Footprint, TreesDistinct DEF Honest, Fresh, Trees
<1>2. Raised(u)' /\ BackupKnown(u)' /\ StageGone(u)'
    BY Footprint DEF Honest, Raised, BackupKnown, StageGone
<1>3. Traced(u)'
    BY Footprint, OthersTrace DEF Honest, Traced, Holding
<1>4. pc[u] \in Holding /\ Truthful(u) => Truthful(u)'
    BY Footprint, OthersTrace DEF Truthful, TellsBackup, Trace
<1>5. Reported(u)'
    BY <1>4, Footprint DEF Honest, Reported, Holding
<1> QED
    BY <1>1, <1>2, <1>3, <1>5 DEF Honest

(* A recovery leaves nothing of the call it cleans up after.                *)
LEMMA RecoveredClean ==
    ASSUME dir \in Directories, NEW t \in Txns, Recover(t)
    PROVE  exposed' = {dir'} /\ dir'.stage[t] = None /\ dir'.backup[t] = None
BY DEF Recover, Directories

(* A step of a call keeps its own report true, one case per action.         *)
LEMMA OwnHonest ==
    ASSUME IndInv, IndInv', Reports, NEW t \in Txns, Step(t) \/ Crash(t) \/ Recover(t)
    PROVE  Honest(t)'
<1> Honest(t)
    BY DEF Reports
<1> USE TreesDistinct DEF IndInv, TypeOK, Goto, Raise, RaiseOver, Fault, Abort, AbortPromotion, disk,
local, history, budget,
        Change, SyncRoot, Directories, Before, Dead, Residue,
        Honest, Fresh, Raised, BackupKnown, Traced, Trace, StageGone, Reported, Truthful,
        NewTree, TellsBackup
<1>1. CASE Plan(t)
    BY <1>1 DEF Plan
<1>2. CASE CheckResidue(t)
    BY <1>2 DEF CheckResidue
<1>3. CASE CheckResidueFails(t)
    BY <1>3 DEF CheckResidueFails
<1>4. CASE AcquireLock(t)
    BY <1>4 DEF AcquireLock, Safe, BackupReady
<1>5. CASE RefuseLocked(t)
    BY <1>5 DEF RefuseLocked
<1>6. CASE OpenLockFails(t)
    BY <1>6 DEF OpenLockFails
<1>7. CASE StatLockFails(t)
    BY <1>7 DEF StatLockFails
<1>8. CASE CreateStage(t)
    BY <1>8 DEF CreateStage
<1>9. CASE CreateStageFails(t)
    BY <1>9 DEF CreateStageFails
<1>10. CASE WriteStage(t)
    BY <1>10 DEF WriteStage
<1>11. CASE WriteStageFails(t)
    BY <1>11 DEF WriteStageFails
<1>12. CASE CompareSnapshot(t)
    BY <1>12 DEF CompareSnapshot
<1>13. CASE Recheck(t)
    BY <1>13 DEF Recheck
<1>14. CASE CheckFails(t)
    BY <1>14 DEF CheckFails
<1>15. CASE MoveOld(t)
    BY <1>15 DEF MoveOld
<1>16. CASE MoveNothing(t)
    BY <1>16 DEF MoveNothing, Safe, BackupReady
<1>17. CASE MoveOldFails(t)
    BY <1>17 DEF MoveOldFails
<1>18. CASE Preflight(t)
    BY <1>18 DEF Preflight
<1>19. CASE Promote(t)
  <2>1. dir' = [dir EXCEPT !.canonical = dir.stage[t], !.stage[t] = None]
    BY <1>19 DEF Promote
  <2>2. dir'.stage[t] = None /\ dir'.backup = dir.backup /\ exposed' = exposed \cup {dir'}
    BY <1>19, <2>1 DEF Promote
  <2>3. /\ pc'[t] = "syncPromoted" /\ t \in committed' /\ pc[t] = "promote"
        /\ UNCHANGED <<expected, backupCreated, code, cause>>
    BY <1>19 DEF Promote
  <2>4. Trace(t)' <=> Trace(t)
    BY <2>2 DEF Trace
  <2>5. Fresh(t)' /\ Raised(t)' /\ BackupKnown(t)' /\ StageGone(t)' /\ Reported(t)'
    BY <2>2, <2>3
  <2>6. Traced(t)'
    BY <2>3, <2>4 DEF Honest, Traced
  <2>7. QED
    BY <2>5, <2>6 DEF Honest
<1>20. CASE PromotionBlocked(t)
    BY <1>20 DEF PromotionBlocked
<1>21. CASE PromotionFails(t)
    BY <1>21 DEF PromotionFails
<1>22. CASE SyncPromoted(t)
    BY <1>22 DEF SyncPromoted
<1>23. CASE SyncPromotedFails(t)
    BY <1>23 DEF SyncPromotedFails
<1>24. CASE RemoveBackupFiles(t)
    BY <1>24 DEF RemoveBackupFiles
<1>25. CASE RemoveBackupDirectory(t)
    BY <1>25 DEF RemoveBackupDirectory
<1>26. CASE RemoveBackupFails(t)
    BY <1>26 DEF RemoveBackupFails
<1>27. CASE SyncCleanup(t)
    BY <1>27 DEF SyncCleanup
<1>28. CASE SyncCleanupFails(t)
    BY <1>28 DEF SyncCleanupFails
<1>29. CASE Rollback(t)
    BY <1>29 DEF Rollback
<1>30. CASE RollbackBlocked(t)
    BY <1>30 DEF RollbackBlocked
<1>31. CASE SyncRollback(t)
    BY <1>31 DEF SyncRollback
<1>32. CASE RollbackFails(t)
    BY <1>32 DEF RollbackFails
<1>33. CASE CleanStage(t)
    BY <1>33 DEF CleanStage, Safe, Uncommitted
<1>34. CASE CleanStageFails(t)
    BY <1>34 DEF CleanStageFails, Safe, Uncommitted
<1>35. CASE Unlock(t)
    BY <1>35 DEF Unlock
<1>36. CASE UnlockFails(t)
    BY <1>36 DEF UnlockFails
<1>37. CASE Crash(t)
    BY <1>37 DEF Crash
<1>38. CASE Recover(t)
  <2>1. pc' = pc /\ code' = code /\ pc[t] \in Dead
    BY <1>38 DEF Recover
  <2>2. Fresh(t)' /\ Raised(t)' /\ BackupKnown(t)' /\ StageGone(t)'
    BY <2>1
  <2>3. exposed' = {dir'} /\ dir'.stage[t] = None /\ dir'.backup[t] = None
    BY <1>38, RecoveredClean
  <2> QED
    BY <2>1, <2>2, <2>3
<1> QED
    BY <1>1, <1>2, <1>3, <1>4, <1>5, <1>6, <1>7, <1>8, <1>9, <1>10, <1>11, <1>12, <1>13,
        <1>14, <1>15, <1>16, <1>17, <1>18, <1>19, <1>20, <1>21, <1>22, <1>23, <1>24,
        <1>25, <1>26, <1>27, <1>28, <1>29, <1>30, <1>31, <1>32, <1>33, <1>34, <1>35,
        <1>36, <1>37, <1>38 DEF Step

(* An edit leaves the calls and their files alone; after a power cut only   *)
(* those calls are there that have not begun or have ended.                 *)
LEMMA OutsideHonest ==
    ASSUME IndInv, IndInv', Reports, PowerCut \/ \E e \in Edits : HumanEdit(e), NEW t \in Txns
    PROVE  Honest(t)'
<1> Honest(t)
    BY DEF Reports
<1> USE TreesDistinct DEF IndInv, TypeOK, local, history, budget, Change, Directories, Before,
Dead, Residue,
        Honest, Fresh, Raised, BackupKnown, Traced, Trace, StageGone, Reported, Truthful,
        NewTree, TellsBackup
<1>1. CASE PowerCut
    BY <1>1 DEF PowerCut
<1>2. ASSUME NEW e \in Edits, HumanEdit(e) PROVE Honest(t)'
    BY <1>2 DEF HumanEdit
<1> QED
    BY <1>1, <1>2

(* Every step keeps every report true.                                      *)
LEMMA ReportsStep == IndInv /\ IndInv' /\ Reports /\ [Next]_vars => Reports'
<1> SUFFICES ASSUME IndInv, IndInv', Reports, [Next]_vars, NEW u \in Txns PROVE Honest(u)'
    BY DEF Reports
<1>1. ASSUME NEW t \in Txns, Step(t) \/ Crash(t) \/ Recover(t) PROVE Honest(u)'
    BY <1>1, OwnHonest, OthersHonest
<1>2. CASE UNCHANGED vars
    BY <1>2 DEF vars, disk, local, history, Reports, Honest, Fresh, Raised, BackupKnown,
        Traced, Trace, StageGone, Reported, Truthful, NewTree, TellsBackup
<1> QED
    BY <1>1, <1>2, OutsideHonest DEF Next, Terminated

(* At the start nothing is reported.                                        *)
LEMMA ReportsInit == Init => Reports
BY TreesDistinct DEF Init, Reports, Honest, Fresh, Raised, BackupKnown, Traced, StageGone,
    Reported, Before, Trees

(* The reports are true throughout.                                         *)
LEMMA ReportsInvariance == Spec => []Reports
BY Invariance, ReportsInit, ReportsStep, PTL DEF Spec

(* For any number of calls, edits, faults, crashes and power cuts: where a  *)
(* call returned without an error, no power cut brings its stage or its     *)
(* backup back (executeCanonicalTransaction syncs the parent directory      *)
(* after the promotion and after the removal of the backup).                *)
THEOREM SuccessStaysDurable == Spec => []SuccessIsDurable
<1>1. Reports => SuccessIsDurable
    BY DEF Reports, Honest, Reported, SuccessIsDurable
<1> QED
    BY <1>1, ReportsInvariance, PTL

(* What is said at an end, and of which lock.                               *)
EndsWell(t) ==
    Truthful(t)' /\ (dir'.lock = t => code'[t] = "LOCK_CLEANUP" \/ pc[t] = "acquire")

(* A call ends by unlocking, or by refusing before there is a lock.         *)
LEMMA EndingSteps ==
    ASSUME TypeOK, NEW t \in Txns, Step(t), pc[t] # "done", pc'[t] = "done"
    PROVE  \/ CheckResidue(t) \/ CheckResidueFails(t) \/ RefuseLocked(t)
           \/ OpenLockFails(t) \/ StatLockFails(t)
           \/ Unlock(t) \/ UnlockFails(t)
BY DEF TypeOK, Goto, Raise, RaiseOver, Step, Abort, AbortPromotion, Plan, AcquireLock,
    CreateStage, CreateStageFails, WriteStage, WriteStageFails,
    CompareSnapshot, Recheck, CheckFails, MoveOld, MoveNothing, MoveOldFails,
    Preflight, Promote, PromotionBlocked,
    PromotionFails, SyncPromoted, SyncPromotedFails, RemoveBackupFiles,
    RemoveBackupDirectory, RemoveBackupFails,
    SyncCleanup, SyncCleanupFails, Rollback, RollbackBlocked, SyncRollback,
    RollbackFails, CleanStage, CleanStageFails

LEMMA EndsTruthful ==
    ASSUME IndInv, IndInv', Reports, NEW t \in Txns, [Next]_vars, pc[t] # "done", pc'[t] = "done"
    PROVE  EndsWell(t)
<1> Honest(t)
    BY DEF Reports
<1>1. ASSUME NEW u \in Txns, Step(u) \/ Crash(u) \/ Recover(u) PROVE u = t
    BY <1>1, Footprint
<1>2. CASE Step(t)
  <2>1. CASE Unlock(t) \/ UnlockFails(t)
    <3>1. /\ pc[t] = "unlock" /\ Truthful(t) /\ code[t] # "LOCK_CLEANUP"
          /\ dir.lock \in Txns \cup {None}
      BY <2>1 DEF Unlock, UnlockFails, Honest, Reported, IndInv, TypeOK, Directories
    <3>2. /\ dir'.stage = dir.stage /\ dir'.backup = dir.backup
          /\ exposed' = exposed \cup {dir'} /\ dir \in exposed
      BY <2>1 DEF Unlock, UnlockFails, Change, IndInv, TypeOK, Directories
    <3>3. /\ UNCHANGED <<expected, backupCreated, committed, cause>>
          /\ code'[t] \in {code[t], "LOCK_CLEANUP"}
          /\ dir'.lock = t => code'[t] = "LOCK_CLEANUP"
      BY <2>1, TreesDistinct DEF Unlock, UnlockFails, RaiseOver, Change, history, IndInv, TypeOK,
          Directories, Trees
    <3>4. Trace(t)' <=> Trace(t)
      BY <3>2 DEF Trace
    <3>5. QED
      BY <3>1, <3>2, <3>3, <3>4 DEF Truthful, TellsBackup, NewTree, Trace, EndsWell
  <2>2. CASE \/ CheckResidue(t) \/ CheckResidueFails(t) \/ RefuseLocked(t)
             \/ OpenLockFails(t) \/ StatLockFails(t)
    <3>1. pc[t] \in Before
      BY <2>2 DEF CheckResidue, CheckResidueFails, RefuseLocked, OpenLockFails,
          StatLockFails, Before
    <3>2. /\ t \notin committed /\ dir.stage[t] = None /\ dir.backup[t] = None
          /\ ~Trace(t) /\ dir.lock # t
      BY <3>1 DEF Honest, Fresh, Trace, IndInv, TypeOK, Safe, Uncommitted
    <3>3. /\ dir'.stage = dir.stage /\ dir'.backup = dir.backup
          /\ exposed' \subseteq exposed \cup {dir'} /\ UNCHANGED <<committed, expected>>
          /\ dir' = dir \/ pc[t] = "acquire"
      BY <2>2 DEF CheckResidue, CheckResidueFails, RefuseLocked, OpenLockFails,
          StatLockFails, Change, disk, history, IndInv, TypeOK, Directories
    <3>4. ~Trace(t)'
      BY <3>2, <3>3 DEF Trace
    <3>5. /\ code'[t] \in {"FAILED", "RECOVERY_REQUIRED", "ROOT_LOCKED"} /\ cause'[t] = code'[t]
      BY <2>2 DEF CheckResidue, CheckResidueFails, RefuseLocked, OpenLockFails,
          StatLockFails, Goto, Raise, IndInv, TypeOK
    <3>6. QED
      BY <3>2, <3>3, <3>4, <3>5 DEF Truthful, TellsBackup, NewTree, Trace, EndsWell
  <2> QED
    BY <1>2, <2>1, <2>2, EndingSteps DEF IndInv
<1>3. CASE Crash(t) \/ Recover(t)
    BY <1>3 DEF Crash, Recover, Goto, local, IndInv, TypeOK
<1>4. CASE PowerCut \/ UNCHANGED vars \/ \E e \in Edits : HumanEdit(e)
    BY <1>4 DEF PowerCut, vars, HumanEdit, local, IndInv, TypeOK
<1> QED
    BY <1>1, <1>2, <1>3, <1>4 DEF Next, Terminated

(* For any number of calls, edits, faults, crashes and power cuts: the      *)
(* error a call ends with says whether its tree was promoted, a stage is    *)
(* left only when a failed cleanup is reported, a backup can be found, now  *)
(* or after a power cut, exactly when the error tells of one, and the lock  *)
(* is left only as OutcomeTruthful says.                                    *)
THEOREM OutcomesTruthful == Spec => OutcomeTruthful
<1>1. IndInv /\ IndInv' /\ Reports /\ [Next]_vars
        => [\A t \in Txns : pc[t] # "done" /\ pc'[t] = "done" =>
               /\ Truthful(t)'
               /\ dir'.lock = t => code'[t] = "LOCK_CLEANUP" \/ pc[t] = "acquire"]_vars
    BY EndsTruthful DEF EndsWell
<1> QED
    BY <1>1, Invariance, ReportsInvariance, PTL DEF Spec, OutcomeTruthful

(* The steps that leave the canonical and the backup names as they are.     *)
LEMMA TreesInPlace ==
    ASSUME IndInv, NEW t \in Txns, Step(t) \/ Crash(t),
           ~(MoveOld(t) \/ Promote(t) \/ RemoveBackupDirectory(t) \/ Rollback(t))
    PROVE  dir'.canonical = dir.canonical /\ dir'.backup = dir.backup /\ UNCHANGED history
BY DEF IndInv, TypeOK, Goto, Raise, RaiseOver, Fault, Abort, AbortPromotion, disk, local, history,
    budget, Change, SyncRoot, Directories,
    Step, Plan, CheckResidue, CheckResidueFails, AcquireLock, RefuseLocked, OpenLockFails,
    StatLockFails, CreateStage, CreateStageFails, WriteStage, WriteStageFails,
    CompareSnapshot, Recheck, CheckFails, MoveNothing, MoveOldFails, Preflight,
    PromotionBlocked, PromotionFails, SyncPromoted, SyncPromotedFails, RemoveBackupFiles,
    RemoveBackupFails, SyncCleanup, SyncCleanupFails, RollbackBlocked, SyncRollback,
    RollbackFails, CleanStage, CleanStageFails, Unlock, UnlockFails, Crash

(* A backup appears only in the move of `.tfsb`.                            *)
LEMMA BackupsOnlyGo ==
    ASSUME IndInv, NEW t \in Txns, Step(t) \/ Crash(t) \/ Recover(t), ~MoveOld(t), NEW u \in Txns
    PROVE  dir'.backup[u] \in {dir.backup[u], None}
<1> USE DEF IndInv, TypeOK, Directories, Change
<1>1. CASE Promote(t)
    BY <1>1 DEF Promote
<1>2. CASE RemoveBackupDirectory(t)
    BY <1>2 DEF RemoveBackupDirectory
<1>3. CASE Rollback(t)
    BY <1>3 DEF Rollback
<1>4. CASE Recover(t)
    BY <1>4 DEF Recover
<1> QED
    BY <1>1, <1>2, <1>3, <1>4, TreesInPlace

(* A second backup is never made: MoveOld is reached only when no other     *)
(* call left one.                                                           *)
LEMMA OneBackupStep == IndInv /\ IndInv' /\ OneBackup /\ [Next]_vars => OneBackup'
<1> SUFFICES ASSUME IndInv, IndInv', OneBackup, [Next]_vars PROVE OneBackup'
    OBVIOUS
<1>1. dir \in exposed
    BY DEF IndInv, TypeOK
<1>2. ASSUME NEW t \in Txns, Step(t) \/ Crash(t) \/ Recover(t) PROVE OneBackup'
  <2>1. exposed' \subseteq exposed \cup {dir'}
    BY <1>2, Footprint
  <2>2. \A u, v \in Txns : dir'.backup[u] # None /\ dir'.backup[v] # None => u = v
    <3>1. CASE MoveOld(t)
      <4>1. \A u \in Txns \ {t} : dir'.backup[u] = None
        BY <1>2, <3>1, Footprint DEF MoveOld, IndInv, Safe, Alone
      <4>2. QED
        BY <4>1
    <3>2. CASE ~MoveOld(t)
        BY <1>1, <1>2, <3>2, BackupsOnlyGo DEF OneBackup
    <3>3. QED
        BY <3>1, <3>2
  <2>3. QED
    BY <2>1, <2>2 DEF OneBackup
<1>3. ASSUME NEW e \in Edits, HumanEdit(e) PROVE OneBackup'
  <2>1. dir'.backup = dir.backup
    BY <1>3 DEF HumanEdit, Change, IndInv, TypeOK, Directories
  <2>2. exposed' = exposed \cup {dir'}
    BY <1>3 DEF HumanEdit, Change
  <2>3. QED
    BY <1>1, <2>1, <2>2 DEF OneBackup
<1>4. CASE PowerCut
    BY <1>4 DEF PowerCut, OneBackup
<1>5. CASE UNCHANGED vars
    BY <1>5 DEF vars, disk, OneBackup
<1> QED
    BY <1>2, <1>3, <1>4, <1>5 DEF Next, Terminated

(* There is at most one backup throughout.                                  *)
LEMMA OneBackupInvariance == Spec => []OneBackup
<1>1. Init => OneBackup
    BY DEF Init, OneBackup
<1> QED
    BY <1>1, Invariance, OneBackupStep, PTL DEF Spec

(* A call that holds the lock keeps everyone else off `.tfsb`.              *)
LEMMA OthersKeepOff ==
    ASSUME IndInv, NEW t \in Txns, Step(t) \/ Crash(t) \/ Recover(t), 
           NEW u \in Txns \ {t}, pc[u] \in Holding
    PROVE  dir'.canonical = dir.canonical
<1> USE DEF IndInv, Safe, OneMutator
<1>1. dir.lock = u /\ pc[u] \notin Dead
    BY DEF Holding, Dead
<1>2. pc[t] \notin Holding
    BY <1>1
<1>3. ~(MoveOld(t) \/ Promote(t) \/ Rollback(t) \/ RemoveBackupDirectory(t))
    BY <1>2 DEF MoveOld, Promote, Rollback, RemoveBackupDirectory, Holding
<1>4. ~Recover(t)
    BY <1>1 DEF Recover
<1> QED
    BY <1>3, <1>4, TreesInPlace

(* What was superseded stays so, and the start stays what it was.           *)
LEMMA HistoryGrows ==
    ASSUME IndInv, [Next]_vars
    PROVE  superseded \subseteq superseded' /\ initial' = initial
<1>1. ASSUME NEW t \in Txns, Step(t) \/ Crash(t) \/ Recover(t)
      PROVE  superseded \subseteq superseded' /\ initial' = initial
  <2>1. CASE MoveOld(t) \/ Promote(t) \/ RemoveBackupDirectory(t) \/ Rollback(t) \/ Recover(t)
    BY <2>1 DEF MoveOld, Promote, RemoveBackupDirectory, Rollback, Recover, history
  <2>2. QED
    BY <1>1, <2>1, TreesInPlace DEF history
<1> QED
    BY <1>1 DEF Next, Terminated, vars, history, HumanEdit, PowerCut

(* A step of a call keeps what it has seen.                                 *)
LEMMA OwnSeen ==
    ASSUME IndInv, IndInv', Reports, NEW t \in Txns, Seen(t), Step(t) \/ Crash(t) \/ Recover(t)
    PROVE  Seen(t)'
<1> Honest(t)
    BY DEF Reports
<1> USE TreesDistinct DEF IndInv, TypeOK, Goto, Raise, RaiseOver, Fault, Abort, AbortPromotion, disk,
local, history, budget,
        Change, SyncRoot, Directories, Seen
<1>1. CASE CompareSnapshot(t)
    BY <1>1 DEF CompareSnapshot
<1>2. CASE Recheck(t)
    BY <1>2 DEF Recheck
<1>3. CASE MoveOld(t)
    BY <1>3 DEF MoveOld
<1>4. CASE MoveNothing(t)
    BY <1>4 DEF MoveNothing, Safe, BackupReady
<1>5. CASE Preflight(t)
    BY <1>5 DEF Preflight
<1>6. CASE Promote(t)
    BY <1>6 DEF Promote, Honest, BackupKnown
<1>7. CASE SyncPromoted(t)
    BY <1>7 DEF SyncPromoted
<1>8. CASE RemoveBackupFiles(t)
    BY <1>8 DEF RemoveBackupFiles
<1>9. CASE Recover(t)
    BY <1>9 DEF Recover, Dead
<1>10. CASE ~(\/ CompareSnapshot(t) \/ Recheck(t) \/ MoveOld(t) \/ MoveNothing(t)
             \/ Preflight(t) \/ Promote(t) \/ SyncPromoted(t) \/ RemoveBackupFiles(t) \/ Recover(t))
    BY <1>10 DEF Step, Plan, CheckResidue, CheckResidueFails, AcquireLock, RefuseLocked,
        OpenLockFails, StatLockFails, CreateStage, CreateStageFails, WriteStage,
        WriteStageFails, CheckFails, MoveOldFails, PromotionBlocked, PromotionFails,
        SyncPromotedFails, RemoveBackupDirectory, RemoveBackupFails, SyncCleanup,
        SyncCleanupFails, Rollback, RollbackBlocked, SyncRollback, RollbackFails,
        CleanStage, CleanStageFails, Unlock, UnlockFails, Crash
<1> QED
    BY <1>1, <1>2, <1>3, <1>4, <1>5, <1>6, <1>7, <1>8, <1>9, <1>10

(* What every call has seen.                                                *)
Seens == \A t \in Txns : Seen(t)

(* While nobody edits between the comparison and the move, what a call      *)
(* moves to its backup is what it was planned from.                         *)
LEMMA SeensStep == ~LateEdits /\ IndInv /\ IndInv' /\ Reports /\ Seens /\ [Next]_vars => Seens'
<1> SUFFICES ASSUME ~LateEdits, IndInv, IndInv', Reports, Seens, [Next]_vars, NEW u \in Txns
             PROVE  Seen(u)'
    BY DEF Seens
<1> Seen(u) /\ superseded \subseteq superseded'
    BY HistoryGrows DEF Seens
<1>1. ASSUME NEW t \in Txns, Step(t) \/ Crash(t) \/ Recover(t) PROVE Seen(u)'
  <2>1. CASE u = t
    BY <1>1, <2>1, OwnSeen
  <2>2. CASE u # t /\ pc[u] \in Holding
    BY <1>1, <2>2, Footprint, OthersKeepOff DEF Seen
  <2>3. CASE u # t /\ pc[u] \notin Holding
    BY <1>1, <2>3, Footprint DEF Seen, Holding
  <2> QED
    BY <2>1, <2>2, <2>3
<1>2. ASSUME NEW e \in Edits, HumanEdit(e) PROVE Seen(u)'
  <2>1. dir'.backup = dir.backup
    BY <1>2 DEF HumanEdit, Change, IndInv, TypeOK, Directories
  <2>2. pc[u] \notin {"recheck", "moveOld"} \/ expected[u] = None
    BY <1>2 DEF HumanEdit, InWindow
  <2>3. UNCHANGED <<pc, expected, backupCreated>>
    BY <1>2 DEF HumanEdit, local
  <2> QED
    BY <2>1, <2>2, <2>3 DEF Seen
<1>3. CASE PowerCut
    BY <1>3 DEF PowerCut, Seen, Dead, IndInv, TypeOK
<1>4. CASE UNCHANGED vars
    BY <1>4 DEF vars, disk, local, history, Seen
<1> QED
    BY <1>1, <1>2, <1>3, <1>4 DEF Next, Terminated

(* What had a name keeps one, unless it is superseded.                      *)
LEMMA NothingDropped ==
    ASSUME IndInv, IndInv', Reports, Seens, NEW t \in Txns, Step(t) \/ Crash(t) \/ Recover(t)
    PROVE  Held(dir) \subseteq superseded' \cup Held(dir')
<1> Honest(t) /\ Seen(t) /\ superseded \subseteq superseded'
    BY HistoryGrows DEF Reports, Seens, Next
<1>0. \A u \in Txns \ {t} : dir'.backup[u] = dir.backup[u]
    BY Footprint
<1> USE TreesDistinct DEF IndInv, TypeOK, Change, Directories, Held
<1>1. CASE MoveOld(t)
  <2>1. dir.backup[t] = None /\ dir'.backup[t] = dir.canonical
    BY <1>1 DEF MoveOld, Honest, BackupKnown
  <2> QED
    BY <1>0, <2>1
<1>2. CASE Promote(t)
  <2>1. dir.canonical = None /\ dir'.backup = dir.backup
    BY <1>2 DEF Promote
  <2> QED
    BY <2>1
<1>3. CASE RemoveBackupDirectory(t)
  <2>1. dir.backup[t] \in superseded \cup {None} /\ dir'.canonical = dir.canonical
    BY <1>3 DEF RemoveBackupDirectory, Seen
  <2> QED
    BY <1>0, <2>1
<1>4. CASE Rollback(t)
  <2>1. dir.canonical = None /\ dir'.canonical = dir.backup[t]
    BY <1>4 DEF Rollback
  <2> QED
    BY <1>0, <2>1
<1>5. CASE Recover(t)
  <2>1. CASE dir.canonical = None
    <3>1. dir'.canonical = dir.backup[t]
      BY <1>5, <2>1 DEF Recover
    <3> QED
      BY <1>0, <2>1, <3>1
  <2>2. CASE dir.canonical # None
    <3>1. dir'.canonical = dir.canonical /\ {dir.backup[t]} \ {None} \subseteq superseded'
      BY <1>5, <2>2 DEF Recover
    <3> QED
      BY <1>0, <2>2, <3>1
  <2> QED
    BY <2>1, <2>2
<1> QED
    BY <1>1, <1>2, <1>3, <1>4, <1>5, TreesInPlace

(* Every step keeps every tree that nobody replaced knowingly.              *)
LEMMA NoSilentLossStep ==
    IndInv /\ IndInv' /\ Reports /\ Seens /\ NoSilentLoss /\ [Next]_vars => NoSilentLoss'
<1> SUFFICES ASSUME IndInv, IndInv', Reports, Seens, NoSilentLoss, [Next]_vars PROVE NoSilentLoss'
    OBVIOUS
<1>0. superseded \subseteq superseded' /\ initial' = initial
    BY HistoryGrows
<1>1. ASSUME NEW t \in Txns, Step(t) \/ Crash(t) \/ Recover(t) PROVE NoSilentLoss'
  <2>1. edited' = edited /\ committed' \subseteq committed \cup Held(dir')
    <3>1. CASE Promote(t)
      BY <3>1, TreesDistinct DEF Promote, Change, IndInv, TypeOK, Safe, StageWritten,
          Directories, Held, Trees
    <3>2. CASE MoveOld(t) \/ RemoveBackupDirectory(t) \/ Rollback(t) \/ Recover(t)
      BY <3>2 DEF MoveOld, RemoveBackupDirectory, Rollback, Recover, history
    <3> QED
      BY <1>1, <3>1, <3>2, TreesInPlace DEF history
  <2> QED
    BY <1>0, <1>1, <2>1, NothingDropped DEF NoSilentLoss
<1>2. ASSUME NEW e \in Edits, HumanEdit(e) PROVE NoSilentLoss'
  <2>1. /\ dir'.backup = dir.backup /\ dir'.canonical = e /\ e # None
        /\ {dir.canonical} \ {None} \subseteq superseded' /\ committed' = committed
        /\ edited' = edited \cup {e}
    BY <1>2, TreesDistinct DEF HumanEdit, Change, IndInv, TypeOK, Directories, Trees
  <2> QED
    BY <1>0, <2>1 DEF NoSilentLoss, Held
<1>3. CASE PowerCut
    BY <1>0, <1>3 DEF PowerCut, NoSilentLoss
<1>4. CASE UNCHANGED vars
    BY <1>4 DEF vars, disk, history, NoSilentLoss, Held
<1> QED
    BY <1>1, <1>2, <1>3, <1>4 DEF Next, Terminated

(* Both hold throughout while nobody edits in the window.                   *)
LEMMA KeptInvariance == ~LateEdits /\ Spec => [](Seens /\ NoSilentLoss)
<1> SUFFICES ASSUME ~LateEdits PROVE Spec => [](Seens /\ NoSilentLoss)
    OBVIOUS
<1>1. Init => Seens /\ NoSilentLoss
    BY DEF Init, Seens, Seen, NoSilentLoss, Held
<1>2. IndInv /\ IndInv' /\ Reports /\ Seens /\ NoSilentLoss /\ [Next]_vars => (Seens /\ NoSilentLoss)'
    BY SeensStep, NoSilentLossStep
<1> QED
    BY <1>1, <1>2, Invariance, ReportsInvariance, PTL DEF Spec

(* For any number of calls, edits, faults, crashes and power cuts: no tree  *)
(* is lost unless someone who had seen it replaced it, as the README says   *)
(* ("Human canonical edits are never overwritten silently"), provided no    *)
(* edit falls between the comparison and the rename; with such an edit the  *)
(* statement is false (canonical_late_edit).                                *)
THEOREM NothingLostSilently == ~LateEdits /\ Spec => []NoSilentLoss
BY KeptInvariance, PTL

-----------------------------------------------------------------------------
(* The protocol implements DurableTree, where the tree is `.tfsb` or the    *)
(* backup a reader would complete the move with.                            *)

(* The tree of a directory is `.tfsb`, or the one backup.                   *)
LEMMA LogicalTree ==
    ASSUME NEW d \in Directories,
           \A t, u \in Txns : d.backup[t] # None /\ d.backup[u] # None => t = u
    PROVE  /\ d.canonical # None => Logical(d) = d.canonical
           /\ d.canonical = None => \A t \in Txns : d.backup[t] # None => Logical(d) = d.backup[t]
           /\ d.canonical = None /\ (\A t \in Txns : d.backup[t] = None) => Logical(d) = None
BY DEF Logical

(* Only these two names count.                                              *)
LEMMA SameTree ==
    ASSUME NEW d, NEW e, e.canonical = d.canonical, e.backup = d.backup
    PROVE  Logical(e) = Logical(d)
BY DEF Logical

(* A directory added whose tree can already come back, or forced: in the    *)
(* abstract a stutter, and trees that no longer can.                        *)
LEMMA TreeStays ==
    ASSUME dir \in exposed, Logical(dir') = Logical(dir), dir' \in exposed',
           exposed' \subseteq exposed \cup {dir'}, UNCHANGED <<expected, committed>>
    PROVE  Abstract!Persist
<1>1. {Logical(d) : d \in exposed'} \in SUBSET {Logical(d) : d \in exposed}
    OBVIOUS
<1>2. Logical(dir) \in {Logical(d) : d \in exposed'}
    OBVIOUS
<1> QED
    BY <1>1, <1>2 DEF Abstract!Persist

(* The snapshot a call works from is taken once.                            *)
LEMMA OnlyPlanExpects ==
    ASSUME NEW t \in Txns, Step(t) \/ Crash(t) \/ Recover(t), ~Plan(t)
    PROVE  UNCHANGED expected
BY DEF Abort, AbortPromotion, local, Fault,
    Step, CheckResidue, CheckResidueFails, AcquireLock, RefuseLocked, OpenLockFails,
    StatLockFails, CreateStage, CreateStageFails, WriteStage, WriteStageFails,
    CompareSnapshot, Recheck, CheckFails, MoveOld, MoveNothing, MoveOldFails, Preflight,
    Promote, PromotionBlocked, PromotionFails, SyncPromoted, SyncPromotedFails,
    RemoveBackupFiles, RemoveBackupDirectory, RemoveBackupFails, SyncCleanup,
    SyncCleanupFails, Rollback, RollbackBlocked, SyncRollback, RollbackFails, CleanStage,
    CleanStageFails, Unlock, UnlockFails, Crash, Recover

(* A step of a call is a plan, a commit, or nothing but trees that can no   *)
(* longer come back: moving the old tree away and back, deleting its backup *)
(* and completing the move by hand do not change the tree.                  *)
LEMMA CallImplements ==
    ASSUME IndInv, IndInv', Reports, OneBackup, OneBackup', Seens,
           NEW t \in Txns, Step(t) \/ Crash(t) \/ Recover(t)
    PROVE  Abstract!Next
<1>0. /\ dir \in Directories /\ dir \in exposed /\ dir' \in Directories /\ dir' \in exposed'
      /\ exposed' \subseteq exposed \cup {dir'} /\ Honest(t) /\ Seen(t)
    BY Footprint DEF IndInv, TypeOK, Reports, Seens
<1>a. /\ \A u, v \in Txns : dir.backup[u] # None /\ dir.backup[v] # None => u = v
      /\ \A u, v \in Txns : dir'.backup[u] # None /\ dir'.backup[v] # None => u = v
    BY <1>0 DEF OneBackup
<1> USE TreesDistinct DEF IndInv, TypeOK, Change, Directories
<1>1. CASE Plan(t)
  <2>1. expected' = [expected EXCEPT ![t] = dir.canonical] /\ UNCHANGED <<disk, history>>
    BY <1>1 DEF Plan
  <2>2. dir.canonical \in {Logical(dir), None}
    BY <1>0, <1>a, LogicalTree
  <2>3. t \notin committed
    BY <1>1 DEF Plan, Safe, Uncommitted, Before
  <2>4. Abstract!Plan(t)
    BY <2>1, <2>2, <2>3 DEF Abstract!Plan, disk, history
  <2> QED
    BY <2>4 DEF Abstract!Next
<1>2. CASE MoveOld(t)
  <2>1. /\ dir.canonical # None /\ dir'.canonical = None /\ dir'.backup[t] = dir.canonical
        /\ UNCHANGED <<expected, committed>>
    BY <1>2 DEF MoveOld, history
  <2>2. Logical(dir') = Logical(dir)
    BY <1>0, <1>a, <2>1, LogicalTree
  <2> QED
    BY <1>0, <2>1, <2>2, TreeStays DEF Abstract!Next
<1>3. CASE Promote(t)
  <2>1. /\ dir.canonical = None /\ dir' = [dir EXCEPT !.canonical = dir.stage[t], !.stage[t] = None]
        /\ exposed' = exposed \cup {dir'} /\ committed' = committed \cup {t} /\ UNCHANGED expected
    BY <1>3 DEF Promote
  <2>2. t \notin committed /\ dir.stage[t] = t /\ \A u \in Txns \ {t} : dir.backup[u] = None
    BY <1>3 DEF Promote, Safe, Uncommitted, StageWritten, Alone
  <2>3. dir'.canonical = t /\ t # None
    BY <2>1, <2>2 DEF Trees
  <2>4. Logical(dir') = t
    BY <1>0, <1>a, <2>3, LogicalTree
  <2>5. /\ dir.backup[t] # None <=> expected[t] # None
        /\ dir.backup[t] # None => dir.backup[t] = expected[t]
    <3>1. pc[t] = "promote"
      BY <1>3 DEF Promote
    <3>2. (dir.backup[t] # None <=> backupCreated[t]) /\ (backupCreated[t] <=> expected[t] # None)
      BY <1>0, <3>1 DEF Honest, BackupKnown
    <3>3. backupCreated[t] => dir.backup[t] = expected[t]
      BY <1>0, <3>1 DEF Seen
    <3> QED
      BY <3>2, <3>3
  <2>6. Logical(dir) = expected[t]
    BY <1>0, <1>a, <2>1, <2>2, <2>5, LogicalTree
  <2>7. Abstract!Commit(t)
    BY <2>1, <2>2, <2>4, <2>6 DEF Abstract!Commit
  <2> QED
    BY <2>7 DEF Abstract!Next
<1>4. CASE Rollback(t)
  <2>1. /\ dir.canonical = None /\ dir'.canonical = dir.backup[t] /\ UNCHANGED <<expected, committed>>
    BY <1>4 DEF Rollback, history
  <2>2. dir.backup[t] # None
    BY <1>4 DEF Rollback, Safe, BackupReady, Trees
  <2>3. Logical(dir') = Logical(dir)
    BY <1>0, <1>a, <2>1, <2>2, LogicalTree
  <2> QED
    BY <1>0, <2>1, <2>3, TreeStays DEF Abstract!Next
<1>5. CASE Recover(t)
  <2>1. /\ dir'.canonical = IF dir.canonical = None THEN dir.backup[t] ELSE dir.canonical
        /\ dir'.backup = [dir.backup EXCEPT ![t] = None] /\ UNCHANGED <<expected, committed>>
    BY <1>5 DEF Recover, local
  <2>2. Logical(dir') = Logical(dir)
    <3>1. CASE dir.canonical # None
      BY <1>0, <1>a, <2>1, <3>1, LogicalTree
    <3>2. CASE dir.canonical = None /\ dir.backup[t] # None
      BY <1>0, <1>a, <2>1, <3>2, LogicalTree
    <3>3. CASE dir.canonical = None /\ dir.backup[t] = None
      <4>1. dir'.canonical = dir.canonical /\ dir'.backup = dir.backup
        BY <1>0, <2>1, <3>3
      <4> QED
        BY <4>1, SameTree
    <3> QED
      BY <3>1, <3>2, <3>3
  <2> QED
    BY <1>0, <2>1, <2>2, TreeStays DEF Abstract!Next
<1>6. CASE RemoveBackupDirectory(t)
  <2>1. dir.canonical # None /\ dir'.canonical = dir.canonical /\ UNCHANGED <<expected, committed>>
    BY <1>6 DEF RemoveBackupDirectory, history, Safe, Replaced
  <2>2. Logical(dir') = Logical(dir)
    BY <1>0, <1>a, <2>1, LogicalTree
  <2> QED
    BY <1>0, <2>1, <2>2, TreeStays DEF Abstract!Next
<1>7. CASE ~(Plan(t) \/ MoveOld(t) \/ Promote(t) \/ Rollback(t) \/ Recover(t) \/ RemoveBackupDirectory(t))
  <2>1. dir'.canonical = dir.canonical /\ dir'.backup = dir.backup /\ UNCHANGED history
    BY <1>7, TreesInPlace
  <2>2. UNCHANGED expected
    BY <1>7, OnlyPlanExpects
  <2> QED
    BY <1>0, <2>1, <2>2, SameTree, TreeStays DEF Abstract!Next, history
<1> QED
    BY <1>1, <1>2, <1>3, <1>4, <1>5, <1>6, <1>7

(* A human edit is one of the abstract specification, a power cut too.      *)
LEMMA OutsideImplements ==
    ASSUME IndInv, IndInv', OneBackup', PowerCut \/ \E e \in Edits : HumanEdit(e)
    PROVE  Abstract!Next
<1>1. CASE PowerCut
  <2>1. PICK d \in exposed : dir' = d /\ exposed' = {d}
    BY <1>1 DEF PowerCut
  <2>2. UNCHANGED <<expected, committed>>
    BY <1>1 DEF PowerCut
  <2>3. Abstract!PowerCut
    BY <2>1, <2>2 DEF Abstract!PowerCut
  <2> QED
    BY <2>3 DEF Abstract!Next
<1>2. ASSUME NEW e \in Edits, HumanEdit(e) PROVE Abstract!Next
  <2>1. /\ dir' = [dir EXCEPT !.canonical = e] /\ exposed' = exposed \cup {dir'}
        /\ UNCHANGED <<expected, committed>>
    BY <1>2 DEF HumanEdit, Change, local
  <2>2. dir'.canonical = e /\ e # None
    BY <2>1, TreesDistinct DEF IndInv, TypeOK, Directories, Trees
  <2>3. Logical(dir') = e
    BY <2>2 DEF Logical
  <2>4. Abstract!HumanEdit(e)
    BY <2>1, <2>3 DEF Abstract!HumanEdit
  <2> QED
    BY <2>4 DEF Abstract!Next
<1> QED
    BY <1>1, <1>2

(* Every step is a step of the abstract specification or a stutter.         *)
LEMMA StepImplements ==
    IndInv /\ IndInv' /\ Reports /\ OneBackup /\ OneBackup' /\ Seens /\ [Next]_vars
        => [Abstract!Next]_Abstract!vars
<1> SUFFICES ASSUME IndInv, IndInv', Reports, OneBackup, OneBackup', Seens, [Next]_vars
             PROVE  [Abstract!Next]_Abstract!vars
    OBVIOUS
<1>1. CASE UNCHANGED vars
    BY <1>1 DEF vars, disk, local, history, Abstract!vars
<1> QED
    BY <1>1, CallImplements, OutsideImplements DEF Next, Terminated

(* The start is a start of the abstract specification.                      *)
LEMMA InitImplements == Init => Abstract!Init
<1> SUFFICES ASSUME Init PROVE Abstract!Init
    OBVIOUS
<1>1. Logical(dir) = initial
    BY DEF Init, Logical
<1> QED
    BY <1>1 DEF Init, Abstract!Init

(* For any number of calls, edits, faults, crashes and power cuts:          *)
(* executeCanonicalTransaction replaces the tree by compare-and-swap; a     *)
(* call commits only while the tree is the one its plan was made from, and  *)
(* a power cut brings back only a tree that was there. Again without an     *)
(* edit between the comparison and the rename.                              *)
THEOREM Refinement == ~LateEdits /\ Spec => ImplementsDurableTree
<1> SUFFICES ASSUME ~LateEdits PROVE Spec => ImplementsDurableTree
    OBVIOUS
<1>1. Spec => []Seens
    BY KeptInvariance, PTL
<1> QED
    BY <1>1, Invariance, ReportsInvariance, OneBackupInvariance, InitImplements, StepImplements, PTL
    DEF Spec, ImplementsDurableTree, Abstract!Spec
=============================================================================
