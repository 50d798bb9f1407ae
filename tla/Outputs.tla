--------------------------------- MODULE Outputs ---------------------------------
(* The programs that publish files of a project beside its canonical tree,  *)
(* running together over the same lock and files: consumer installations    *)
(* and raster exports (OutputTransaction), scenes, shard manifests, bundles *)
(* and galleries (TargetPublication), and people who write and remove files *)
(* whenever they like, without the lock.                                    *)
EXTENDS OutputTransaction, TargetPublication

vars == <<lock, file, world, late, tx, pub>>

Init == FilesInit /\ TxInit /\ PubInit

\* A file that changes while a program is past its last look at it is late:
\* the program acts on the name, and no check of the code can see it.
Windows(programs) == UNION ({CallWindow(x) : x \in programs \cap Calls}
                            \cup {PubWindow(f) : f \in programs \cap Publishers})
NotesLate(programs) == late' = late \cup {p \in Windows(programs) : file'[p] # file[p]}

CallRuns(x) == CallSteps(x) /\ NotesLate(Programs \ {x}) /\ UNCHANGED pub
PublisherRuns(f) == PubSteps(f) /\ NotesLate(Programs \ {f}) /\ UNCHANGED tx

Dies(x) == \/ x \in Calls /\ KillCall(x) /\ UNCHANGED <<late, pub>>
           \/ x \in Publishers /\ KillPublisher(x) /\ UNCHANGED <<late, tx>>

Edit(p, content) ==
    /\ Mishap
    /\ file[p] # content /\ Put(p, content)
    /\ touched' = [touched EXCEPT ![p] = IF content = None THEN "removed" ELSE "wrote"]
    /\ NotesLate(Programs)
    /\ UNCHANGED <<kind, lock, tx, pub>>

Next ==
    \/ \E x \in Calls : CallRuns(x)
    \/ \E f \in Publishers : PublisherRuns(f)
    \/ \E x \in Programs : Dies(x)
    \/ \E p \in Used, content \in {"foreign", None} : Edit(p, content)
    \/ RemoveStaleLock /\ UNCHANGED <<late, pub>>

Spec == Init /\ [][Next]_vars

-----------------------------------------------------------------------------
TypeOK == FilesTypeOK /\ TxTypeOK /\ PubTypeOK

Excused(p) == touched[p] # "no" \/ p \in late
Undone(x) == \A p \in Items(x) :
    /\ tx[x].backup[p] = None
    /\ \/ file[p] = tx[x].seen[p]
       \/ Excused(p)
       \/ x \in Rasters /\ p \in tx[x].forgotten
AllNew(x) == \A p \in Items(x) : file[p] = x \/ Excused(p)

\* What f published is there, or was seen by the one who replaced it.
Stands(f) ==
    \/ file[Target(f)] = f \/ Excused(Target(f))
    \/ \E g \in Publishers \ {f} : Target(g) = Target(f) /\ pub[g].seen[Target(f)] = f

(* What a failing call was writing and had not counted yet, it does not     *)
(* undo: the next stage or, behind the last of them, the journal.           *)
OnlyUncounted(x) ==
    /\ \A p \in Items(x) : tx[x].stage[p] # None =>
          /\ tx[x].stage[p] = "part"
          /\ tx[x].staged < Len(Order(x)) /\ p = Order(x)[tx[x].staged + 1]
    /\ tx[x].journal # None => tx[x].journal = "part" /\ tx[x].staged = Len(Order(x))

\* Every file that x replaces still exists, in place or in its backup, or every
\* new file is in place.
OldOrNew(x) ==
    \/ AllNew(x)
    \/ \A p \in Items(x) : tx[x].seen[p] \in {None, file[p], tx[x].backup[p]} \/ Excused(p)

CallEnds(x) ==
    /\ tx'[x].pc = "rolledBack" => Undone(x)' /\ OnlyUncounted(x)'
    /\ tx'[x].pc = "published" => AllNew(x)' /\ ~Residue(x)'
    /\ tx'[x].pc \in {"refused", "unchanged"} => ~Residue(x)'
    /\ tx'[x].pc = "recoveryRequired" => (tx'[x].journal = "whole" /\ OldOrNew(x)') \/ Undone(x)'

PublisherEnds(f) ==
    /\ pub'[f].pc = "published" =>
          /\ Stands(f)'
          /\ pub'[f].stage = None /\ pub'[f].backup = None
    /\ pub'[f].pc \in {"publishedWithError", "failedPublished"} => Stands(f)'
    /\ pub'[f].pc \in {"failed", "refused"} =>
          /\ pub'[f].backup = None
          /\ \/ file'[Target(f)] = pub'[f].seen[Target(f)] \/ Excused(Target(f))'
             \/ \E g \in Publishers \ {f} :
                   /\ Target(g) = Target(f) /\ pub'[g].pc # "new"
                   /\ file'[Target(f)] = f => pub'[g].seen[Target(f)] = f
    /\ pub'[f].pc = "rollbackFailed" => pub'[f].backup \notin {None, "part"}

(* What an installation or an export reports is what it did.  One that was  *)
(* rolled back left every destination as planned, no backup, and aside at   *)
(* most the one file it was writing when it failed, for which the next call *)
(* is refused although this one says that it was rolled back (an export may *)
(* also have forgotten an output whose stage it could not remove).  One that          *)
(* succeeded published all of its files and left nothing aside, and one     *)
(* that was refused wrote nothing.  One that asks for recovery either left  *)
(* a complete journal and, behind it, all of the old files or all of the    *)
(* new, or changed no destination.  An error of another code, of a lock or  *)
(* a journal that cannot be removed, says nothing of the files: what holds  *)
(* then is Recoverable.  Of a single target: published is the target's own  *)
(* content with nothing aside, a failure left the target as planned, and a  *)
(* rollback that failed kept the prior target in its backup.                *)
ReportsHonest ==
    [][/\ \A x \in Calls : tx'[x].pc # tx[x].pc => CallEnds(x)
       /\ \A f \in Publishers : pub'[f].pc # pub[f].pc => PublisherEnds(f)]_vars

(* The outputs and the record of them change writer together: whenever they *)
(* disagree, and nobody else touched them, a complete journal names what is *)
(* half done, whatever failed and whoever died in between.                  *)
JournalCovers ==
    \A x \in Calls :
        \/ \A p \in Items(x) : file[p] = file[Record(x)]
        \/ \E p \in Items(x) : Excused(p) \/ \E y \in Rasters : p \in tx[y].forgotten
        \/ \E y \in Calls : Items(y) = Items(x) /\ tx[y].journal = "whole"

(* Behind a complete journal either every file the plan saw still exists,   *)
(* in place or in its backup, or every new file is in place.                *)
PriorOrNew == \A x \in Calls : tx[x].journal = "whole" => OldOrNew(x)

(* Whatever fails and whoever dies, a person can finish or undo what is     *)
(* half done: a journal says so, and the old files or the new are there.    *)
Recoverable == JournalCovers /\ PriorOrNew

(* Nobody starts over the residue of another: the backups in a project are  *)
(* always those of one call, so that a person can tell what they are of.    *)
OneRecovery ==
    Cardinality({x \in Calls : \E p \in Items(x) : tx[x].backup[p] # None}) <= 1

InBackup(content, p) ==
    \/ \E x \in Calls : p \in Items(x) /\ tx[x].backup[p] = content
    \/ \E f \in Publishers : Target(f) = p /\ pub[f].backup = content

(* What a person wrote is never overwritten or removed, except by a bundle  *)
(* planned with force that saw it, or past the last look.                   *)
EditSurvives ==
    \A p \in Places : touched[p] = "wrote" /\ p \notin late =>
        \/ file[p] = "foreign" \/ InBackup("foreign", p)
        \/ \E f \in Forced \cup Brands : Target(f) = p /\ pub[f].seen[p] = "foreign"

(* A file published with success stays until somebody who saw it replaces   *)
(* it: two publishers of a name never both succeed unseen of each other.    *)
PublishedStays ==
    \A f \in Publishers : pub[f].pc \in {"published", "publishedWithError", "failedPublished"} => Stands(f)
=============================================================================
