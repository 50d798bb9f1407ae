----------------------------- MODULE Reconciliation -----------------------------
(***************************************************************************)
(* One item (an asset or a companion) of a project over any number of      *)
(* reconciliations with its source, after the three planners:              *)
(*   "schema1"    an archive, src/reconcile.ts and src/classifier.ts       *)
(*   "schema2"    an archive, src/reconcile2.ts                            *)
(*   "directory"  a directory, src/reconcile-directory.ts                  *)
(* Between two reconciliations people edit the item and its source.  The   *)
(* planner compares three digests: the item's, the source's and those of   *)
(* the checkpoint the last reconciliation recorded.                        *)
(* A plan and its execution are one step here: the transaction refuses a   *)
(* plan whose project or source changed since it was made (see             *)
(* CanonicalTransaction and DirectorySnapshot).  Bytes and models are one  *)
(* digest; renames, normalization policies and migrated records are left   *)
(* out.                                                                    *)
(***************************************************************************)
EXTENDS TLC

CONSTANTS
    Digests,        \* contents an item and its source may have
    Maps,           \* digests of the source map of a directory project
    Items,          \* <<project, kind>> pairs to consider
    None            \* no file, no checkpoint

ASSUME ReconciliationAssumption ==
    /\ None \notin Digests
    /\ Items \subseteq {"schema1", "schema2", "directory"} \X {"asset", "companion"}

VARIABLES
    project, kind,  \* what the item is
    canonical,      \* its content in .tfsb
    source,         \* its content in the archive or the directory
    sourceMap,      \* the digest of the current source map
    record,         \* its checkpoint in provenance.json
    byHand,         \* "edited": a person wrote the content and no
                    \* reconciliation was told what to do about it; "kept": one
                    \* was told to keep it; "no": anything else
    settled         \* nothing happened since the last reconciliation

item == <<project, kind>>
rvars == <<item, canonical, source, sourceMap, record, byHand, settled>>

Content == Digests \cup {None}

(* A checkpoint: source is None when the source was absent.                 *)
Checkpoints == [canonical : Content, source : Content,
                resolution : {"aligned", "canonical"}, sourceMap : Maps]

ASSUME NoneAssumption == None \notin Checkpoints

(* What --resolve and --remove say about the item; "source" is spelt        *)
(* archive for archives.                                                    *)
Directives == {"none", "source", "canonical", "remove"}

(* What a plan comes to: blocked or rejected, or the next content and       *)
(* checkpoint.                                                              *)
Refused == <<>>
Result(content, checkpoint) == [canonical |-> content, record |-> checkpoint]
Retain == Result(canonical, record)

Checkpoint(content, from, resolution) ==
    [canonical |-> content, source |-> from, resolution |-> resolution, sourceMap |-> sourceMap]

(* The content of the source becomes the item's.                            *)
AlignedRecord == Checkpoint(source, source, "aligned")
Replace == Result(source, AlignedRecord)

(* The item's content stays, and the checkpoint says against what.          *)
CanonicalRecord_Prior(from) == IF record = None THEN Checkpoint(canonical, from, "canonical")
                               ELSE [record EXCEPT !.source = from, !.resolution = "canonical"]
CanonicalRecord(from) ==
    Checkpoint(canonical, from, IF canonical = from /\ from # None THEN "aligned" ELSE "canonical")

(* An item without a checkpoint is recorded as absent.                      *)
Recorded == IF record = None THEN None ELSE record.canonical
CanonicalChanged == canonical # record.canonical
SourceChanged == source # record.source

-----------------------------------------------------------------------------
(* Archives into a schema-1 project.                                        *)

ClassifyUntracked ==
    IF canonical = None /\ source = None THEN "UNCHANGED"
    ELSE IF canonical = None /\ source # None THEN "NEW_ASSET"
    ELSE IF canonical # None /\ source = None THEN "ARCHIVE_OMISSION"
    ELSE IF canonical = source THEN "UNTRACKED_MATCH" ELSE "UNTRACKED_CONFLICT"

(* Mutant: an absence somebody accepted is asked about again.               *)
ClassifyAbsent_Asks ==
    IF record.canonical # None THEN "CANONICAL_MISSING"
    ELSE IF source = None THEN "CONVERGED_ABSENCE" ELSE "CONFLICT"

ClassifyAbsent ==
    IF record.canonical # None THEN "CANONICAL_MISSING"
    ELSE IF source = None THEN "CONVERGED_ABSENCE"
    ELSE IF ~SourceChanged /\ record.resolution = "canonical" THEN "UNCHANGED_ACCEPTED_ABSENCE"
    ELSE "CONFLICT"

(* Mutant: a divergence somebody accepted is forgotten when the archive     *)
(* changes.                                                                 *)
ClassifyPresent_Forgets ==
    IF source = None /\ CanonicalChanged THEN "ARCHIVE_OMISSION_CANONICAL_EDITED"
    ELSE IF source = None THEN "ARCHIVE_OMISSION"
    ELSE IF ~CanonicalChanged /\ SourceChanged THEN "ARCHIVE_CHANGED"
    ELSE IF ~CanonicalChanged THEN "UNCHANGED"
    ELSE IF ~SourceChanged THEN "CANONICAL_EDITED"
    ELSE IF canonical = source THEN "CONVERGED" ELSE "CONFLICT"

ClassifyPresent ==
    IF source = None /\ CanonicalChanged THEN "ARCHIVE_OMISSION_CANONICAL_EDITED"
    ELSE IF source = None THEN "ARCHIVE_OMISSION"
    ELSE IF ~CanonicalChanged /\ ~SourceChanged THEN "UNCHANGED"
    ELSE IF ~CanonicalChanged /\ record.resolution = "aligned" THEN "ARCHIVE_CHANGED"
    ELSE IF ~CanonicalChanged THEN "CONFLICT"
    ELSE IF ~SourceChanged THEN "CANONICAL_EDITED"
    ELSE IF canonical = source THEN "CONVERGED" ELSE "CONFLICT"

classifyPairedCheckpoint == IF record = None THEN ClassifyUntracked
                            ELSE IF canonical = None THEN ClassifyAbsent ELSE ClassifyPresent

Blockers == {"CONFLICT", "CANONICAL_EDITED", "CANONICAL_MISSING",
             "ARCHIVE_OMISSION_CANONICAL_EDITED", "UNTRACKED_CONFLICT"}

Unresolved(class) ==
    IF class \in Blockers THEN Refused
    ELSE IF class \in {"NEW_ASSET", "ARCHIVE_CHANGED"} THEN Replace
    ELSE IF class \in {"CONVERGED", "UNTRACKED_MATCH"} THEN Result(canonical, AlignedRecord)
    ELSE IF class = "CONVERGED_ABSENCE" THEN Result(None, None)
    ELSE Retain

(* canonicalAssetRecord and canonicalCompanionRecord: without a candidate   *)
(* the prior checkpoint's source stands in for it.                          *)
ResolvedRecord ==
    LET from == IF source # None THEN source ELSE IF record # None THEN record.source ELSE None
    IN IF from = None \/ (source = None /\ canonical = None) THEN None ELSE CanonicalRecord(from)

Known == canonical # None \/ record # None

(* Removing an item whose source is still there is a decision to remember.  *)
Tombstone == IF source = None THEN None ELSE Checkpoint(None, source, "canonical")

Schema1Result(directive) ==
    IF directive = "none" THEN Unresolved(classifyPairedCheckpoint)
    ELSE IF ~Known THEN Refused
    ELSE IF directive = "remove" THEN Result(None, Tombstone)
    ELSE IF directive = "canonical" THEN Result(canonical, ResolvedRecord)
    ELSE IF source = None THEN Refused
    ELSE Replace

-----------------------------------------------------------------------------
(* Archives into a schema-2 project: every entry of the archive is looked   *)
(* at, and nothing else; removals are not read.                             *)

(* An untracked asset counts as edited and an untracked companion does not; *)
(* a missing companion is taken for an empty one.                           *)
Edited ==
    IF kind = "asset" THEN canonical # Recorded
    ELSE record # None /\ (canonical = None \/ CanonicalChanged)

Schema2Result(directive) ==
    IF source = None THEN Retain
    ELSE IF record # None /\ ~SourceChanged THEN Retain
    ELSE IF directive = "canonical" THEN Result(canonical, CanonicalRecord(source))
    ELSE IF directive = "source" \/ ~Edited THEN Replace
    ELSE Refused

-----------------------------------------------------------------------------
(* Directories.                                                             *)

SourceMapBlocked(acceptSourceMap) == record # None /\ record.sourceMap # sourceMap /\ ~acceptSourceMap

(* directoryAbsentSource: the item's content of now is the new baseline.    *)
AbsentSource == Checkpoint(canonical, None, "canonical")

Untracked(directive) ==
    IF directive # "none" THEN Refused
    ELSE IF source = None THEN Retain
    ELSE IF canonical # None THEN Refused
    ELSE Replace

(* An item whose source is there and changed, or that was edited, or whose  *)
(* source map was accepted.                                                 *)
Select(directive) ==
    IF directive = "canonical" THEN Result(canonical, CanonicalRecord(source))
    ELSE IF directive = "source" \/ ~CanonicalChanged THEN Replace
    ELSE IF kind = "asset" /\ canonical = source THEN Result(canonical, CanonicalRecord(source))
    ELSE Refused

Unmoved == ~SourceChanged /\ ~CanonicalChanged

(* A directive for an item that leaves nothing to decide is rejected.       *)
Told(directive, next) == IF directive = "none" THEN next ELSE Refused

DirectoryAsset(directive, acceptSourceMap) ==
    IF directive = "remove" THEN Result(None, None)
    ELSE IF SourceMapBlocked(acceptSourceMap) THEN Refused
    ELSE IF source = None THEN Told(directive, Result(canonical, AbsentSource))
    ELSE IF Unmoved /\ record.sourceMap = sourceMap THEN Told(directive, Retain)
    ELSE Select(directive)

DirectoryCompanion(directive, acceptSourceMap) ==
    IF directive = "remove" \/ SourceMapBlocked(acceptSourceMap) THEN Refused
    ELSE IF source = None THEN Told(directive, Result(canonical, AbsentSource))
    ELSE IF Unmoved THEN Result(canonical, CanonicalRecord(source))
    ELSE Select(directive)

DirectoryResult(directive, acceptSourceMap) ==
    IF record = None THEN Untracked(directive)
    ELSE IF kind = "asset" THEN DirectoryAsset(directive, acceptSourceMap)
    ELSE DirectoryCompanion(directive, acceptSourceMap)

PlanResult(directive, acceptSourceMap) ==
    IF project = "schema1" THEN Schema1Result(directive)
    ELSE IF project = "schema2" THEN Schema2Result(directive)
    ELSE DirectoryResult(directive, acceptSourceMap)

-----------------------------------------------------------------------------
(* tfsb diff against the checkpoints: src/diff.ts.                          *)

DigestRelation ==
    IF canonical = record.canonical
    THEN IF record.canonical # record.source \/ (project = "directory" /\ record.resolution = "canonical")
         THEN "accepted_divergence" ELSE "aligned"
    ELSE IF canonical = record.source THEN "checkpoint_convergence" ELSE "canonical_changed_since_decision"

AbsenceRelation ==
    IF canonical # None
    THEN IF canonical = record.source THEN "checkpoint_convergence" ELSE "canonical_changed_since_decision"
    ELSE IF record.resolution = "canonical" THEN "accepted_absence" ELSE "stale_tracked_record"

Relation ==
    IF record = None THEN "untracked_current_record"
    ELSE IF project = "schema1" /\ record.canonical = None THEN AbsenceRelation
    ELSE IF canonical = None THEN "canonical_missing"
    ELSE IF record.canonical = None THEN "untracked_current_record"
    ELSE DigestRelation

-----------------------------------------------------------------------------
RInit ==
    /\ \E i \in Items : project = i[1] /\ kind = i[2]
    /\ canonical = None /\ source \in Digests /\ record = None
    /\ sourceMap \in Maps
    /\ byHand = "no" /\ settled = FALSE

(* What a reconciliation leaves of a person's edit.                         *)
HandAfter(directive, next) ==
    IF next.record # None /\ next.record.resolution = "aligned" THEN "no"
    ELSE IF next.canonical = None /\ next.record = None THEN "no"
    ELSE IF directive = "remove" THEN "kept"
    ELSE IF directive = "canonical" /\ byHand = "edited" THEN "kept"
    ELSE byHand

(* tfsb reconcile --apply with a plan that nothing blocks.                  *)
Reconcile(directive, acceptSourceMap) ==
    LET next == PlanResult(directive, acceptSourceMap)
    IN /\ next # Refused
       /\ canonical' = next.canonical
       /\ record' = next.record
       /\ byHand' = HandAfter(directive, next)
       /\ settled' = ~(project = "directory" /\ directive = "remove")
       /\ UNCHANGED <<item, source, sourceMap>>

(* Somebody edits or deletes the item in .tfsb.                             *)
HumanEdit(c) ==
    /\ c # canonical
    /\ canonical' = c
    /\ byHand' = IF c # Recorded THEN "edited"
                 ELSE IF record = None \/ record.resolution = "aligned" THEN "no"
                 ELSE "kept"
    /\ settled' = FALSE
    /\ UNCHANGED <<item, source, sourceMap, record>>

(* The next archive has another content or none; a file of the directory is *)
(* edited, deleted or comes back.                                           *)
SourceEdit(c) ==
    /\ c # source
    /\ source' = c /\ settled' = FALSE
    /\ UNCHANGED <<item, canonical, sourceMap, record, byHand>>

SourceMapEdit(m) ==
    /\ project = "directory" /\ m # sourceMap
    /\ sourceMap' = m /\ settled' = FALSE
    /\ UNCHANGED <<item, canonical, source, record, byHand>>

RNext ==
    \/ \E directive \in Directives, acceptSourceMap \in BOOLEAN : Reconcile(directive, acceptSourceMap)
    \/ \E c \in Content : HumanEdit(c) \/ SourceEdit(c)
    \/ \E m \in Maps : SourceMapEdit(m)

RSpec == RInit /\ [][RNext]_rvars

-----------------------------------------------------------------------------
RTypeOK ==
    /\ item \in Items
    /\ canonical \in Content /\ source \in Content /\ sourceMap \in Maps
    /\ record \in Checkpoints \cup {None}
    /\ byHand \in {"no", "edited", "kept"} /\ settled \in BOOLEAN

(* A reconciliation that was told nothing about the item.                   *)
Untold == \E acceptSourceMap \in BOOLEAN : Reconcile("none", acceptSourceMap)

(* A reconciliation that was told nothing about the item leaves it as it is *)
(* while it differs from what the last one recorded, or none ever recorded  *)
(* it (but for a companion schema 2 does not track: the archive's is taken  *)
(* over it); and in a schema-1 project what a person wrote, or decided to   *)
(* keep, stays through any sequence of reconciliations, omissions and       *)
(* returns of the source, until the source agrees or a directive gives it   *)
(* up.                                                                      *)
UntrackedCompanion == record = None /\ kind = "companion" /\ project = "schema2"
Protected ==
    \/ canonical # Recorded /\ ~UntrackedCompanion
    \/ project = "schema1" /\ byHand # "no"
EditsKept == [][Untold /\ Protected => canonical' = canonical]_rvars

(* A reconciliation leaves nothing to do: with nothing changed, the next    *)
(* one is not blocked and changes neither the item nor its checkpoint.      *)
ReplanIsQuiet == settled => PlanResult("none", FALSE) = Retain

(* An item that diff calls aligned, or settled otherwise than its source,   *)
(* whose source is as the checkpoint says: the next reconciliation neither  *)
(* asks about it nor changes it, whatever happened before.                  *)
Settled == Relation \in {"aligned", "accepted_divergence", "accepted_absence"}
SourceAsRecorded == ~SourceChanged /\ (project = "directory" => sourceMap = record.sourceMap)
DiffPredicts == Settled /\ SourceAsRecorded => PlanResult("none", FALSE) = Retain

(* README: "Human canonical edits are never overwritten silently".          *)
EditsNeedADecision == [][Untold /\ byHand = "edited" => canonical' = canonical]_rvars
=============================================================================
