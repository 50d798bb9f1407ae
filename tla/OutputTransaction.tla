---------------------------- MODULE OutputTransaction ----------------------------
(* The transactions that publish several files and the record of them as    *)
(* one: executeOutputs (src/brand/consumer-install.ts), whose record is the *)
(* consumer lock, and executeRasterExportPlan (src/brand/export-plan.ts),   *)
(* whose record is a receipt.  Every file is staged beside its destination, *)
(* a journal names them all, then each destination is moved to a backup and *)
(* the stage linked in, the record last; an error undoes the items from the *)
(* last to the first.  The two differ in what they look at again, and how   *)
(* carefully they undo.                                                     *)
EXTENDS OutputFiles

VARIABLE tx             \* the local state and the side files of each call

Order(x) == IF x \in Consumers THEN <<"guide", "theme", "brandLock">> ELSE <<"image", "receipt">>
Items(x) == {Order(x)[k] : k \in 1..Len(Order(x))}
Record(x) == IF x \in Consumers THEN "brandLock" ELSE "receipt"

NoFiles(x) == [p \in Items(x) |-> None]
Idle(x) == [pc |-> "new", at |-> 0, staged |-> 0,
            seen |-> [p \in Items(x) \cup Canonical |-> None],
            stage |-> NoFiles(x),       \* None, "part", "whole", or "linked" as the destination
            backup |-> NoFiles(x),
            promoted |-> {}, backedUp |-> {},
            forgotten |-> {},           \* linked, but never counted as promoted
            journal |-> None,           \* None, "part" (on disk, not counted as written), "unopened" or "whole"
            recovery |-> FALSE]         \* recoveryRequired or cleanupFailed

TxInit == tx = [x \in Calls |-> Idle(x)]

Ended == {"published", "unchanged", "refused", "rolledBack", "recoveryRequired", "failed"}
\* The call holds the lock.
Running(x) == tx[x].pc \notin {"new", "planned", "locking", "killed"} \cup Ended

\* findRecoveryResidue sees the journals, stages and backups of every call.
Residue(x) ==
    \/ tx[x].journal # None
    \/ \E p \in Items(x) : tx[x].stage[p] # None \/ tx[x].backup[p] # None

Here(x) == Order(x)[tx[x].at]
Becomes(x, state) == tx' = [tx EXCEPT ![x] = state]
Moves(x, here, there) == tx[x].pc = here /\ Becomes(x, [tx[x] EXCEPT !.pc = there])
Ends(x, outcome) == /\ Becomes(x, [tx[x] EXCEPT !.pc = outcome])
                    /\ lock = x /\ lock' = None

Unchanged(x, places) == \A p \in places : file[p] = tx[x].seen[p]
\* The error is caught: the items staged so far are undone, the last one first.
Undo(x, state) == Becomes(x, [state EXCEPT !.pc = "undo", !.at = state.staged])

-----------------------------------------------------------------------------
\* planConsumerInstall, planConsumerSync and planRasterExport accept only
\* destinations that are absent, or that the record present there describes.
PlanCall(x) ==
    /\ tx[x].pc = "new"
    /\ \A p \in Items(x) : file[p] = file[Record(x)] /\ file[p] # "foreign"
    /\ Becomes(x, [tx[x] EXCEPT !.pc = IF x \in Rasters THEN "planned" ELSE "locking",
                                !.seen = [p \in DOMAIN @ |-> file[p]]])
    /\ UNCHANGED <<lock, file, world>>

\* The export looks before it takes the lock, and again behind it.
LookEarly(x) ==
    /\ tx[x].pc = "planned"
    /\ \/ /\ Unchanged(x, Items(x) \cup Canonical)
          /\ \E there \in {"locking", "unchanged"} : Moves(x, "planned", there)
       \/ /\ ~Unchanged(x, Items(x) \cup Canonical)
          /\ Moves(x, "planned", "refused")
    /\ UNCHANGED <<lock, file, world>>

LockProject(x) ==
    /\ \/ Moves(x, "locking", "residue") /\ lock = None /\ lock' = x
       \/ Moves(x, "locking", "refused") /\ lock # None /\ UNCHANGED lock
    /\ UNCHANGED <<file, world>>

\* Mutant: residue of another transaction is worked around.
CheckResidue_Skipped(x) ==
    /\ Moves(x, "residue", "look")
    /\ UNCHANGED <<lock, file, world>>

CheckResidue(x) ==
    /\ tx[x].pc = "residue"
    /\ IF \E y \in Calls : Residue(y)
       THEN Ends(x, "refused")
       ELSE Moves(x, "residue", "look") /\ UNCHANGED lock
    /\ UNCHANGED <<file, world>>

\* Canonical tree, sources and destinations are as the plan saw them; an
\* installation that changes nothing ends here.
LookBehindLock(x) ==
    /\ tx[x].pc = "look"
    /\ \/ /\ Unchanged(x, Items(x) \cup Canonical)
          /\ Becomes(x, [tx[x] EXCEPT !.pc = "stage", !.at = 1])
          /\ UNCHANGED lock
       \/ x \in Consumers /\ Unchanged(x, Items(x) \cup Canonical) /\ Ends(x, "unchanged")
       \/ ~Unchanged(x, Items(x) \cup Canonical) /\ Ends(x, "refused")
    /\ UNCHANGED <<file, world>>

LookFails(x) ==
    /\ Fault
    /\ \/ tx[x].pc \in {"residue", "look"} /\ Ends(x, "failed")
       \/ Moves(x, "planned", "failed") /\ UNCHANGED lock
    /\ UNCHANGED file

StageItem(x) ==
    /\ tx[x].pc = "stage"
    /\ Becomes(x, [tx[x] EXCEPT !.stage[Here(x)] = "whole", !.staged = @ + 1,
                                !.pc = IF tx[x].at = Len(Order(x)) THEN "journal" ELSE "stage",
                                !.at = @ + 1])
    /\ UNCHANGED <<lock, file, world>>

\* A stage written half, or not yet listed when a call fails, is not undone;
\* the export lists it once it is written, before it looks at it.
StagingFails(x) ==
    /\ tx[x].pc = "stage" /\ Fault
    /\ \/ \E left \in {None, "part"} : Undo(x, [tx[x] EXCEPT !.stage[Here(x)] = left])
       \/ x \in Rasters /\ Undo(x, [tx[x] EXCEPT !.stage[Here(x)] = "whole", !.staged = @ + 1])
    /\ UNCHANGED <<lock, file>>

WriteJournal(x) ==
    /\ tx[x].pc = "journal"
    /\ Becomes(x, [tx[x] EXCEPT !.journal = "whole", !.pc = "verify", !.at = 1])
    /\ UNCHANGED <<lock, file, world>>

\* The write, the open or the sync of the root fails.
JournalFails(x) ==
    /\ tx[x].pc = "journal" /\ Fault
    /\ \E left \in {None, "part", "whole"} \cup (IF x \in Consumers THEN {"unopened"} ELSE {}) :
          Undo(x, [tx[x] EXCEPT !.journal = left])
    /\ UNCHANGED <<lock, file>>

-----------------------------------------------------------------------------
(* The promotion of one item: look, back up, link, drop the stage, sync.    *)

\* verifyTransactionState looks at every item, the export at its next one.
AsLeft(x) ==
    IF x \in Consumers
    THEN /\ \A p \in Items(x) : file[p] = IF p \in tx[x].promoted THEN x ELSE tx[x].seen[p]
         /\ Unchanged(x, Canonical)
    ELSE Unchanged(x, {Here(x)})

\* Mutant: what lies at the destinations is not looked at again.
VerifyItem_Unchecked(x) ==
    /\ tx[x].pc = "verify"
    /\ Moves(x, "verify", IF tx[x].seen[Here(x)] = None THEN "link" ELSE "backup")
    /\ UNCHANGED <<lock, file, world>>

VerifyItem(x) ==
    /\ tx[x].pc = "verify"
    /\ IF AsLeft(x)
       THEN Moves(x, "verify", IF tx[x].seen[Here(x)] = None THEN "link" ELSE "backup")
       ELSE Undo(x, tx[x])
    /\ UNCHANGED <<lock, file, world>>

\* The rename moves whatever is there; only the installation looks at it.
BackUpItem(x) ==
    /\ tx[x].pc = "backup" /\ file[Here(x)] # None
    /\ Put(Here(x), None)
    /\ LET moved == [tx[x] EXCEPT !.backup[Here(x)] = file[Here(x)], !.backedUp = @ \cup {Here(x)},
                                  !.pc = "link"]
       IN IF x \in Consumers /\ file[Here(x)] # tx[x].seen[Here(x)]
          THEN Undo(x, moved)
          ELSE Becomes(x, moved)
    /\ UNCHANGED <<lock, world>>

LinkItem(x) ==
    /\ tx[x].pc = "link" /\ file[Here(x)] = None
    /\ Put(Here(x), x)
    /\ Becomes(x, [tx[x] EXCEPT !.stage[Here(x)] = "linked", !.pc = "unlink"])
    /\ UNCHANGED <<lock, world>>

\* Mutant: the backup of an item goes as soon as the item is promoted.
UnlinkStage_DropsBackup(x) ==
    /\ tx[x].pc = "unlink"
    /\ Becomes(x, [tx[x] EXCEPT !.stage[Here(x)] = None, !.promoted = @ \cup {Here(x)}, !.pc = "sync",
                                !.backup[Here(x)] = None, !.backedUp = @ \ {Here(x)}])
    /\ UNCHANGED <<lock, file, world>>

UnlinkStage(x) ==
    /\ tx[x].pc = "unlink"
    /\ Becomes(x, [tx[x] EXCEPT !.stage[Here(x)] = None, !.promoted = @ \cup {Here(x)}, !.pc = "sync"])
    /\ UNCHANGED <<lock, file, world>>

SyncItem(x) ==
    /\ tx[x].pc = "sync"
    /\ Becomes(x, IF tx[x].at = Len(Order(x))
                  THEN [tx[x] EXCEPT !.pc = "clean", !.at = 1]
                  ELSE [tx[x] EXCEPT !.pc = "verify", !.at = @ + 1])
    /\ UNCHANGED <<lock, file, world>>

\* The destination is gone, or taken.
DestinationChanged(x) ==
    /\ \/ tx[x].pc = "backup" /\ file[Here(x)] = None
       \/ tx[x].pc = "link" /\ file[Here(x)] # None
    /\ Undo(x, tx[x])
    /\ UNCHANGED <<lock, file, world>>

PromotionFails(x) ==
    /\ tx[x].pc \in {"verify", "backup", "link", "sync", "unlink"} /\ Fault
    /\ Undo(x, IF tx[x].pc = "unlink" THEN [tx[x] EXCEPT !.forgotten = {Here(x)}] ELSE tx[x])
    /\ UNCHANGED <<lock, file>>

-----------------------------------------------------------------------------
(* The rollback of one item: its own file goes, the backup comes back, the  *)
(* stage goes.  What an item cannot undo makes recoveryRequired.            *)

NextItem(x, state) == Becomes(x, [state EXCEPT !.pc = "undo", !.at = @ - 1])
GiveUp(x) == [tx[x] EXCEPT !.recovery = TRUE]

\* Where the undo of an item goes on once its own file is not there.
Restoring(x) == IF Here(x) \in tx[x].backedUp THEN "restore" ELSE "unstage"

UndoItem(x) ==
    /\ tx[x].pc = "undo" /\ tx[x].at > 0
    /\ IF Here(x) \notin tx[x].promoted
       THEN Moves(x, "undo", Restoring(x))
       ELSE \/ file[Here(x)] = x /\ Moves(x, "undo", "remove")
            \/ file[Here(x)] = None /\ x \in Consumers /\ Moves(x, "undo", Restoring(x))
            \/ file[Here(x)] \notin {x, None} /\ x \in Consumers /\ NextItem(x, GiveUp(x))
            \/ file[Here(x)] # x /\ x \in Rasters
               /\ Becomes(x, [GiveUp(x) EXCEPT !.pc = Restoring(x)])
    /\ UNCHANGED <<lock, file, world>>

RemoveItem(x) ==
    /\ Moves(x, "remove", Restoring(x))
    /\ Put(Here(x), None)
    /\ UNCHANGED <<lock, world>>

LookForRestore(x) ==
    /\ tx[x].pc = "restore"
    /\ CASE file[Here(x)] = None /\ (x \in Rasters \/ tx[x].backup[Here(x)] = tx[x].seen[Here(x)]) ->
              Moves(x, "restore", "rename")
         [] x \in Rasters /\ file[Here(x)] # None ->
              Becomes(x, [GiveUp(x) EXCEPT !.pc = "unstage"])
         [] OTHER -> NextItem(x, GiveUp(x))
    /\ UNCHANGED <<lock, file, world>>

RestoreItem(x) ==
    /\ tx[x].pc = "rename"
    /\ Put(Here(x), tx[x].backup[Here(x)])
    /\ Becomes(x, [tx[x] EXCEPT !.backup[Here(x)] = None, !.backedUp = @ \ {Here(x)}, !.pc = "unstage"])
    /\ UNCHANGED <<lock, world>>

\* removeOwnedStage compares the change time, which a link has changed.
RemoveStage(x) ==
    /\ tx[x].pc = "unstage"
    /\ NextItem(x, IF x \in Consumers /\ tx[x].stage[Here(x)] = "linked"
                   THEN GiveUp(x)
                   ELSE [tx[x] EXCEPT !.stage[Here(x)] = None])
    /\ UNCHANGED <<lock, file, world>>

\* Mutant: an item that could not be undone is forgotten.
UndoFails_Forgotten(x) ==
    /\ tx[x].pc \in {"undo", "remove", "restore", "rename", "unstage"} /\ tx[x].at > 0
    /\ Fault
    /\ NextItem(x, tx[x])
    /\ UNCHANGED <<lock, file>>

UndoFails(x) ==
    /\ tx[x].pc \in {"undo", "remove", "restore", "rename", "unstage"} /\ tx[x].at > 0
    /\ Fault
    /\ \/ NextItem(x, GiveUp(x))
       \/ tx[x].pc = "unstage" /\ NextItem(x, [GiveUp(x) EXCEPT !.stage[Here(x)] = None])
    /\ UNCHANGED <<lock, file>>

\* The installation checks its journal; nobody removes one of a recovery.
JournalStays(x) == tx[x].recovery \/ tx[x].journal = "unopened"

\* Mutant: the journal goes although something could not be undone.
UndoJournal_Always(x) ==
    /\ tx[x].pc = "undo" /\ tx[x].at = 0
    /\ Becomes(x, [tx[x] EXCEPT !.pc = "throw", !.journal = IF @ = "whole" THEN None ELSE @])
    /\ UNCHANGED <<lock, file, world>>

UndoJournal(x) ==
    /\ tx[x].pc = "undo" /\ tx[x].at = 0
    /\ IF JournalStays(x)
       THEN Becomes(x, [GiveUp(x) EXCEPT !.pc = "throw"])
       ELSE Becomes(x, [tx[x] EXCEPT !.pc = "throw", !.journal = IF @ = "whole" THEN None ELSE @])
    /\ UNCHANGED <<lock, file, world>>

EndRollback(x) ==
    /\ tx[x].pc = "throw"
    /\ Ends(x, IF tx[x].recovery THEN "recoveryRequired" ELSE "rolledBack")
    /\ UNCHANGED <<file, world>>

-----------------------------------------------------------------------------
(* Success: backups, then the journal.                                      *)

CleanItem(x) ==
    /\ tx[x].pc = "clean" /\ tx[x].at <= Len(Order(x))
    /\ Becomes(x, [tx[x] EXCEPT !.backup[Here(x)] = None, !.at = @ + 1])
    /\ UNCHANGED <<lock, file, world>>

CleaningFails(x) ==
    /\ tx[x].pc = "clean" /\ tx[x].at <= Len(Order(x))
    /\ Fault
    /\ \E left \in {None, tx[x].backup[Here(x)]} :
          Becomes(x, [GiveUp(x) EXCEPT !.backup[Here(x)] = left, !.at = @ + 1])
    /\ UNCHANGED <<lock, file>>

CleanJournal(x) ==
    /\ tx[x].pc = "clean" /\ tx[x].at > Len(Order(x))
    /\ Becomes(x, [tx[x] EXCEPT !.pc = "finish", !.journal = IF tx[x].recovery THEN @ ELSE None])
    /\ UNCHANGED <<lock, file, world>>

EndPublication(x) ==
    /\ tx[x].pc = "finish"
    /\ Ends(x, IF tx[x].recovery THEN "recoveryRequired" ELSE "published")
    /\ UNCHANGED <<file, world>>

\* The removal of the journal, or the sync after it, throws past the catch.
JournalRemovalFails(x) ==
    /\ \/ tx[x].pc = "undo" /\ tx[x].at = 0 /\ tx[x].journal = "whole"
       \/ tx[x].pc = "clean" /\ tx[x].at > Len(Order(x))
    /\ ~JournalStays(x)
    /\ Fault
    /\ \E left \in {None, tx[x].journal} : Becomes(x, [tx[x] EXCEPT !.pc = "failed", !.journal = left])
    /\ lock' = None
    /\ UNCHANGED file

\* The lock cannot be removed: TFSB_LOCK_CLEANUP_FAILED replaces the outcome.
UnlockFails(x) ==
    /\ tx[x].pc \in {"throw", "finish"} /\ Fault
    /\ Becomes(x, [tx[x] EXCEPT !.pc = "failed"])
    /\ UNCHANGED <<lock, file>>

CallSteps(x) ==
    \/ PlanCall(x) \/ LookEarly(x) \/ LockProject(x) \/ CheckResidue(x) \/ LookBehindLock(x)
    \/ LookFails(x) \/ StageItem(x) \/ StagingFails(x) \/ WriteJournal(x) \/ JournalFails(x)
    \/ VerifyItem(x) \/ BackUpItem(x) \/ LinkItem(x) \/ UnlinkStage(x) \/ SyncItem(x)
    \/ DestinationChanged(x) \/ PromotionFails(x)
    \/ UndoItem(x) \/ RemoveItem(x) \/ LookForRestore(x) \/ RestoreItem(x) \/ RemoveStage(x)
    \/ UndoFails(x) \/ UndoJournal(x) \/ EndRollback(x)
    \/ CleanItem(x) \/ CleaningFails(x) \/ CleanJournal(x) \/ EndPublication(x)
    \/ JournalRemovalFails(x) \/ UnlockFails(x)

-----------------------------------------------------------------------------
\* A killed call leaves its lock, which somebody may remove; the side files
\* stay where they are.
KillCall(x) ==
    /\ Running(x) /\ Killed
    /\ Becomes(x, [tx[x] EXCEPT !.pc = "killed"])
    /\ UNCHANGED <<lock, file>>

RemoveStaleLock ==
    /\ \E x \in Calls : lock = x /\ tx[x].pc \in {"killed", "failed"}
    /\ lock' = None
    /\ UNCHANGED <<file, tx, world>>

\* The item a call has looked at for the last time and is about to move away
\* or to remove.
CallWindow(x) ==
    IF \/ tx[x].pc \in {"remove", "rename"}
       \/ tx[x].pc = "backup" /\ x \in Rasters
    THEN {Here(x)} ELSE {}

CallStates(x) ==
    [pc : {"new", "planned", "locking", "residue", "look", "stage", "journal", "verify", "backup",
           "link", "unlink", "sync", "undo", "remove", "restore", "rename", "unstage", "throw",
           "clean", "finish", "killed"} \cup Ended,
     at : 0..(Len(Order(x)) + 1), staged : 0..Len(Order(x)),
     seen : [Items(x) \cup Canonical -> Contents],
     stage : [Items(x) -> {None, "part", "whole", "linked"}],
     backup : [Items(x) -> Contents],
     promoted : SUBSET Items(x), backedUp : SUBSET Items(x), forgotten : SUBSET Items(x),
     journal : {None, "part", "unopened", "whole"},
     recovery : BOOLEAN]

TxTypeOK == DOMAIN tx = Calls /\ \A x \in Calls : tx[x] \in CallStates(x)
=============================================================================
