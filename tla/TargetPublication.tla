---------------------------- MODULE TargetPublication ----------------------------
(* The programs that publish one file or one gallery at a path: a compiled  *)
(* scene (src/scene-files.ts), a shard manifest (src/shard.ts), a bundle    *)
(* (src/bundle.ts), a brand bundle (src/brand/brand-bundle.ts), a project's *)
(* preview (src/preview.ts) and a workspace's (src/workspace-preview.ts).   *)
(* All write a temporary sibling first; the first three link it to a name   *)
(* that must be free, the forced bundles and the galleries move the old one *)
(* to a backup first, and then a brand bundle links the new one, the others *)
(* rename it in.  Only the project's preview takes the project's lock.      *)
EXTENDS OutputFiles

VARIABLE pub            \* the local state and the side files of each publisher

Galleries == Previews \cup Workspaces
Target(f) == IF f \in Previews THEN "gallery"
             ELSE IF f \in Workspaces THEN "workspaceGallery" ELSE "file"
\* What a publisher reads of the project, and compares again.
Sources(f) == IF f \in Bundles \cup Previews THEN Canonical ELSE {}

Waiting(f) == [pc |-> "new", seen |-> [p \in {Target(f)} \cup Sources(f) |-> None],
               stage |-> None,          \* None, "part", "whole", or "linked" as the target
               backup |-> None, backedUp |-> FALSE]

PubInit == pub = [f \in Publishers |-> Waiting(f)]

\* "failedPublished": the error does not say that the target was published.
PubEnded == {"published", "publishedWithError", "failedPublished", "refused", "failed", "rollbackFailed"}
Publishing(f) == pub[f].pc \notin {"new", "locking", "killed"} \cup PubEnded

Turns(f, state) == pub' = [pub EXCEPT ![f] = state]
Goes(f, here, there) == pub[f].pc = here /\ Turns(f, [pub[f] EXCEPT !.pc = there])
Releases(f) == IF f \in Previews THEN lock = f /\ lock' = None ELSE UNCHANGED lock
Closes(f, outcome) == Turns(f, [pub[f] EXCEPT !.pc = outcome]) /\ Releases(f)

AsSeen(f) == \A p \in DOMAIN pub[f].seen : file[p] = pub[f].seen[p]

-----------------------------------------------------------------------------
\* The target must be absent; a bundle with force takes any file, a preview
\* a gallery whose marker says it is one.
Acceptable(f) ==
    \/ file[Target(f)] = None
    \/ f \in Forced \cup Brands
    \/ f \in Galleries /\ file[Target(f)] # "foreign"

PlanTarget(f) ==
    /\ pub[f].pc = "new"
    /\ Turns(f, [pub[f] EXCEPT
          !.seen = [p \in DOMAIN @ |-> file[p]],
          !.pc = IF ~Acceptable(f)                 THEN "refused"
                 ELSE IF f \in Previews            THEN "locking"
                 ELSE IF f \in Shards \cup Brands  THEN "look"
                 ELSE "stage"])
    /\ UNCHANGED <<lock, file, world>>

LockPreview(f) ==
    /\ \/ Goes(f, "locking", "look") /\ lock = None /\ lock' = f
       \/ Goes(f, "locking", "refused") /\ lock # None /\ UNCHANGED lock
    /\ UNCHANGED <<file, world>>

LookAgain(f) ==
    /\ pub[f].pc = "look"
    /\ IF AsSeen(f) THEN Goes(f, "look", "stage") /\ UNCHANGED lock
                    ELSE Closes(f, "refused")
    /\ UNCHANGED <<file, world>>

StageTarget(f) ==
    /\ pub[f].pc = "stage"
    /\ Turns(f, [pub[f] EXCEPT !.stage = "whole", !.pc = "recheck"])
    /\ UNCHANGED <<lock, file, world>>

\* How the stage gets to the target once nothing lies there.
Placing(f) == CASE f \in Galleries -> "reserve" [] f \in Forced -> "rename" [] OTHER -> "link"

\* Sources and target as planned; the target by identity, not only by name.
Recheck(f) ==
    /\ pub[f].pc = "recheck"
    /\ Goes(f, "recheck", IF ~AsSeen(f) THEN "undo"
                          ELSE IF pub[f].seen[Target(f)] # None THEN "backup"
                          ELSE Placing(f))
    /\ UNCHANGED <<lock, file, world>>

\* Mutant: renamed over what is there instead of linked.
LinkTarget_Overwrites(f) ==
    /\ pub[f].pc = "link"
    /\ Put(Target(f), f)
    /\ Turns(f, [pub[f] EXCEPT !.stage = "linked", !.pc = IF f \in Bundles THEN "drop" ELSE "sync"])
    /\ UNCHANGED <<lock, world>>

LinkTarget(f) ==
    /\ pub[f].pc = "link" /\ file[Target(f)] = None
    /\ Put(Target(f), f)
    /\ Turns(f, [pub[f] EXCEPT !.stage = "linked", !.pc = IF f \in Bundles THEN "drop" ELSE "sync"])
    /\ UNCHANGED <<lock, world>>

\* The rename moves whatever is there.
BackUpTarget(f) ==
    /\ pub[f].pc = "backup" /\ file[Target(f)] # None
    /\ Put(Target(f), None)
    /\ Turns(f, [pub[f] EXCEPT !.backup = file[Target(f)], !.backedUp = TRUE, !.pc = Placing(f)])
    /\ UNCHANGED <<lock, world>>

ReserveTarget(f) ==
    /\ Goes(f, "reserve", "rename") /\ file[Target(f)] = None
    /\ UNCHANGED <<lock, file, world>>

\* A file is renamed over what is there, a directory is not.
RenameTarget(f) ==
    /\ pub[f].pc = "rename" /\ (f \in Galleries => file[Target(f)] = None)
    /\ Put(Target(f), f)
    /\ LET there == IF f \in Galleries THEN "sync"
                    ELSE IF pub[f].backedUp THEN "removeBackup" ELSE "published"
       IN Turns(f, [pub[f] EXCEPT !.stage = None, !.pc = there])
    /\ UNCHANGED <<lock, world>>

\* The target is taken, or gone.  A brand bundle that finds it taken leaves
\* its backup for a person.
TargetChanged(f) ==
    /\ \/ pub[f].pc \in {"link", "reserve"} /\ file[Target(f)] # None
       \/ pub[f].pc = "rename" /\ f \in Galleries /\ file[Target(f)] # None
       \/ pub[f].pc = "backup" /\ file[Target(f)] = None
    /\ Turns(f, [pub[f] EXCEPT !.pc = IF f \in Brands /\ pub[f].backedUp /\ @ = "link"
                                      THEN "unstage" ELSE "undo"])
    /\ UNCHANGED <<lock, file, world>>

SyncTarget(f) ==
    /\ pub[f].pc = "sync"
    /\ IF f \in Galleries \cup Brands
       THEN IF pub[f].backedUp
            THEN Goes(f, "sync", "removeBackup") /\ UNCHANGED lock
            ELSE Closes(f, "published")
       ELSE Goes(f, "sync", "drop") /\ UNCHANGED lock
    /\ UNCHANGED <<file, world>>

DropStage(f) ==
    /\ pub[f].pc = "drop"
    /\ Turns(f, [pub[f] EXCEPT !.stage = None, !.pc = IF f \in Brands THEN "sync"
                                                  ELSE IF f \in Bundles THEN "published" ELSE "finish"])
    /\ UNCHANGED <<lock, file, world>>

RemoveBackup(f) ==
    /\ pub[f].pc = "removeBackup"
    /\ Turns(f, [pub[f] EXCEPT !.backup = None, !.backedUp = FALSE,
                               !.pc = IF f \in Bundles THEN "published" ELSE "finish"])
    /\ UNCHANGED <<lock, file, world>>

SyncAgain(f) ==
    /\ pub[f].pc = "finish"
    /\ Closes(f, "published")
    /\ UNCHANGED <<file, world>>

-----------------------------------------------------------------------------
(* What fails before the target is published is undone; what fails after it *)
(* is reported by the scene and the previews as a published target, undone  *)
(* by the shard manifest and the forced bundles, as far as their backup     *)
(* lasts, and by the others reported as if nothing had been published.      *)

LookAgainFails(f) ==
    /\ pub[f].pc = "look" /\ Fault
    /\ Closes(f, "failed")
    /\ UNCHANGED file

PublishFails(f) ==
    /\ pub[f].pc \in {"stage", "recheck", "link", "backup", "reserve", "rename"} /\ Fault
    /\ \E left \in IF pub[f].pc = "stage" THEN {None, "part"} ELSE {pub[f].stage} :
          Turns(f, [pub[f] EXCEPT !.stage = left, !.pc = "undo"])
    /\ UNCHANGED <<lock, file>>

FinishFails(f) ==
    /\ pub[f].pc \in {"sync", "drop", "removeBackup", "finish"} /\ Fault
    /\ \E dropped \in BOOLEAN :
          LET rest == [pub[f] EXCEPT
                 !.stage = IF pub[f].pc = "drop" /\ dropped /\ f \notin Bundles THEN None ELSE @,
                 !.backup = IF pub[f].pc = "removeBackup" /\ dropped /\ f \in Galleries THEN "part" ELSE @]
              reported == f \in Scenes \cup Previews \/ (f \in Workspaces /\ pub[f].pc = "removeBackup")
          IN /\ Turns(f, [rest EXCEPT !.pc =
                    IF reported                THEN "publishedWithError"
                    ELSE IF f \in Workspaces   THEN "failedPublished"
                    ELSE IF f \in Shards       THEN "unpublish"
                    ELSE IF f \in Forced \/ (f \in Brands /\ pub[f].backedUp) THEN "undo"
                    ELSE "dropAgain"])
             /\ IF reported THEN Releases(f) ELSE UNCHANGED lock
    /\ UNCHANGED file

\* The catch tries to remove the stage once more.
DropAgain(f) ==
    /\ pub[f].pc = "dropAgain"
    /\ \E left \in {None, pub[f].stage} :
          Turns(f, [pub[f] EXCEPT !.stage = left, !.pc = "failedPublished"])
    /\ UNCHANGED <<lock, file, world>>

\* Mutant: the backup is not brought back.
UndoTarget_Kept(f) ==
    /\ pub[f].pc = "undo"
    /\ Turns(f, [pub[f] EXCEPT !.backedUp = FALSE, !.pc = "unstage"])
    /\ UNCHANGED <<lock, file, world>>

UndoTarget(f) ==
    /\ pub[f].pc = "undo"
    /\ LET back == pub[f].backedUp /\ (f \in Galleries => file[Target(f)] = None)
       IN IF f \in Brands /\ pub[f].backedUp
          THEN /\ Goes(f, "undo", IF file[Target(f)] = None THEN "bringBack" ELSE "rollbackFailed")
               /\ UNCHANGED file
          ELSE IF back
          THEN /\ Put(Target(f), pub[f].backup)
               /\ Turns(f, [pub[f] EXCEPT !.backup = None, !.backedUp = FALSE, !.pc = "unstage"])
          ELSE Goes(f, "undo", "unstage") /\ UNCHANGED file
    /\ UNCHANGED <<lock, world>>

\* A brand bundle has seen that nothing lies there, its own file included.
BringBack(f) ==
    /\ pub[f].pc = "bringBack"
    /\ Put(Target(f), pub[f].backup)
    /\ Turns(f, [pub[f] EXCEPT !.backup = None, !.backedUp = FALSE, !.pc = "unstage"])
    /\ UNCHANGED <<lock, world>>

\* The shard manifest removes its published target by name.
Unpublish(f) ==
    /\ Goes(f, "unpublish", "unstage")
    /\ Put(Target(f), None)
    /\ UNCHANGED <<lock, world>>

UnpublishFails(f) ==
    /\ pub[f].pc = "unpublish" /\ Fault
    /\ \E left \in {None, pub[f].stage} :
          Turns(f, [pub[f] EXCEPT !.stage = left, !.pc = "failedPublished"])
    /\ UNCHANGED <<lock, file>>

UndoTargetFails(f) ==
    /\ Fault
    /\ IF f \in Brands THEN Goes(f, "bringBack", "rollbackFailed")
                       ELSE Goes(f, "undo", "unstage") /\ pub[f].backedUp
    /\ UNCHANGED <<lock, file>>

\* A bundle that could not restore the prior target stops before its stage.
DiscardStage(f) ==
    /\ pub[f].pc = "unstage"
    /\ Turns(f, [pub[f] EXCEPT !.pc = IF pub[f].backedUp THEN "rollbackFailed" ELSE "failed",
                               !.stage = IF f \in Forced /\ pub[f].backedUp THEN @ ELSE None])
    /\ Releases(f)
    /\ UNCHANGED <<file, world>>

\* Nothing says that a stage could not be removed.
DiscardStageFails(f) ==
    /\ pub[f].pc = "unstage" /\ Fault
    /\ Closes(f, IF pub[f].backedUp THEN "rollbackFailed" ELSE "failed")
    /\ UNCHANGED file

PubSteps(f) ==
    \/ PlanTarget(f) \/ LockPreview(f) \/ LookAgain(f) \/ StageTarget(f) \/ Recheck(f)
    \/ LinkTarget(f) \/ BackUpTarget(f) \/ ReserveTarget(f) \/ RenameTarget(f) \/ TargetChanged(f)
    \/ SyncTarget(f) \/ DropStage(f) \/ RemoveBackup(f) \/ SyncAgain(f)
    \/ LookAgainFails(f) \/ PublishFails(f) \/ FinishFails(f)
    \/ UndoTarget(f) \/ BringBack(f) \/ DropAgain(f) \/ Unpublish(f) \/ UnpublishFails(f)
    \/ UndoTargetFails(f) \/ DiscardStage(f) \/ DiscardStageFails(f)

KillPublisher(f) ==
    /\ Publishing(f) /\ Killed
    /\ Turns(f, [pub[f] EXCEPT !.pc = "killed"])
    /\ UNCHANGED <<lock, file>>

\* The target between the last look at it and the rename, or between the
\* publication and an undo that goes by its name.
PubWindow(f) ==
    IF \/ pub[f].pc \in {"backup", "bringBack"}
       \/ f \in Forced /\ (pub[f].pc = "rename" \/ (pub[f].pc \in {"removeBackup", "undo"} /\ pub[f].backedUp))
       \/ f \in Shards /\ pub[f].pc \in {"sync", "drop", "finish", "unpublish"}
    THEN {Target(f)} ELSE {}

PublisherStates(f) ==
    [pc : {"new", "locking", "look", "stage", "recheck", "link", "backup", "reserve", "rename",
           "sync", "drop", "removeBackup", "finish", "undo", "bringBack", "unpublish", "dropAgain",
           "unstage", "killed"} \cup PubEnded,
     seen : [{Target(f)} \cup Sources(f) -> Contents],
     stage : {None, "part", "whole", "linked"},
     backup : Contents \cup {"part"},
     backedUp : BOOLEAN]

PubTypeOK == DOMAIN pub = Publishers /\ \A f \in Publishers : pub[f] \in PublisherStates(f)
=============================================================================
