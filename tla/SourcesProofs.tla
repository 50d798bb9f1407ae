--------------------------- MODULE SourcesProofs ----------------------------------
(***************************************************************************)
(* The four parts of MCSources whose properties are proved, and the read   *)
(* scheduler, one after the other; they share no variable.                 *)
(*   Reconciliation: what carries EditsKept is that in a schema-1 project  *)
(* the checkpoint remembers what a person did: content that equals its     *)
(* checkpoint and was written or kept by hand has a checkpoint that says   *)
(* so.                                                                     *)
(*   DirectorySnapshot: what carries CheckIsAMoment is that every change   *)
(* gives a new stamp, so a recorded stamp that is found again was there    *)
(* all the time, also when the check began.                                *)
(*   ConsumerOwnership: what carries OwnershipKept is that a plan says     *)
(* what the lock it was made from owned.                                   *)
(*   Derivation: recipes have no cycle, so the recursions of inspection and*)
(* plan have solutions; what carries the rest is that a receipt says truly *)
(* what was made of what.                                                  *)
(*   ReadScheduler: the heart is what a drain can do.  While every queued  *)
(* request has a running one on its lane (NoneStranded), taking a request  *)
(* out of the queue frees nothing, and a request that settles frees one    *)
(* lane: the drain starts the oldest request of that lane, if there is     *)
(* one, and nothing else.                                                  *)
(***************************************************************************)
EXTENDS Reconciliation, DirectorySnapshot, ConsumerOwnership, Derivation, ReadScheduler,
        FiniteSetTheorems, WellFoundedInduction, TLAPS

Results == [canonical : Content, record : Checkpoints \cup {None}]

HandRemembered ==
    project = "schema1" /\ byHand # "no" =>
        /\ record = None => canonical # None
        /\ record # None /\ ~CanonicalChanged => record.resolution = "canonical"

RInv == RTypeOK /\ HandRemembered

-----------------------------------------------------------------------------
(* A checkpoint made of a content and a source of it is one.                *)
LEMMA CheckpointTyped ==
    ASSUME RTypeOK, NEW c \in Content, NEW f \in Content, NEW r \in {"aligned", "canonical"}
    PROVE  Checkpoint(c, f, r) \in Checkpoints
  BY DEF RTypeOK, Checkpoint, Checkpoints

\* The record of a canonical file kept as the person has it is a checkpoint.
LEMMA CanonicalRecordTyped ==
    ASSUME RTypeOK, NEW f \in Content
    PROVE  CanonicalRecord(f) \in Checkpoints
  <1>1. canonical \in Content BY DEF RTypeOK
  <1> QED BY <1>1, CheckpointTyped DEF CanonicalRecord

\* Every result a reconciliation is put together from is a result.
LEMMA PartsTyped ==
    ASSUME RTypeOK
    PROVE  /\ Replace \in Results /\ Retain \in Results
           /\ Result(canonical, AlignedRecord) \in Results
           /\ Result(None, None) \in Results
           /\ Result(canonical, AbsentSource) \in Results
           /\ Result(canonical, CanonicalRecord(source)) \in Results
           /\ Result(None, Checkpoint(None, source, "canonical")) \in Results
           /\ Result(canonical, ResolvedRecord) \in Results
  <1>1. canonical \in Content /\ source \in Content /\ None \in Content
        /\ record \in Checkpoints \cup {None}
        BY DEF RTypeOK, Content
  <1>2. AlignedRecord \in Checkpoints BY <1>1, CheckpointTyped DEF AlignedRecord
  <1>3. AbsentSource \in Checkpoints BY <1>1, CheckpointTyped DEF AbsentSource
  <1>4. CanonicalRecord(source) \in Checkpoints BY <1>1, CanonicalRecordTyped
  <1>5. Checkpoint(None, source, "canonical") \in Checkpoints BY <1>1, CheckpointTyped
  <1>6. ResolvedRecord \in Checkpoints \cup {None}
    <2> DEFINE from == IF source # None THEN source ELSE IF record # None THEN record.source ELSE None
    <2>1. from \in Content BY <1>1 DEF Checkpoints
    <2>2. CanonicalRecord(from) \in Checkpoints BY <2>1, CanonicalRecordTyped
    <2> QED BY <2>2 DEF ResolvedRecord
  <1> QED BY <1>1, <1>2, <1>3, <1>4, <1>5, <1>6 DEF Results, Result, Replace, Retain

(* Every plan is refused or has a content and a checkpoint.                 *)
LEMMA PlanTyped ==
    ASSUME RTypeOK, NEW directive \in Directives, NEW acceptSourceMap \in BOOLEAN,
           PlanResult(directive, acceptSourceMap) # Refused
    PROVE  PlanResult(directive, acceptSourceMap) \in Results
  <1>1. Schema1Result(directive) \in Results \cup {Refused}
    <2>1. Result(None, Tombstone) \in Results
          BY PartsTyped DEF Tombstone
    <2> QED BY <2>1, PartsTyped DEF Schema1Result, Unresolved
  <1>2. Schema2Result(directive) \in Results \cup {Refused}
        BY PartsTyped DEF Schema2Result
  <1>3. Select(directive) \in Results \cup {Refused}
        BY PartsTyped DEF Select
  <1>4. DirectoryResult(directive, acceptSourceMap) \in Results \cup {Refused}
        BY <1>3, PartsTyped
        DEF DirectoryResult, Untracked, DirectoryAsset, DirectoryCompanion, Told
  <1> QED BY <1>1, <1>2, <1>4 DEF PlanResult

\* A reconciliation or an edit keeps the types.
LEMMA TypeStep ==
    ASSUME RTypeOK, RNext PROVE RTypeOK'
  <1>1. CASE \E directive \in Directives, acceptSourceMap \in BOOLEAN : Reconcile(directive, acceptSourceMap)
    <2> PICK directive \in Directives, acceptSourceMap \in BOOLEAN : Reconcile(directive, acceptSourceMap)
        BY <1>1
    <2> DEFINE next == PlanResult(directive, acceptSourceMap)
    <2>1. next \in Results
          BY PlanTyped DEF Reconcile
    <2>2. canonical' \in Content /\ record' \in Checkpoints \cup {None}
          BY <2>1 DEF Reconcile, Results
    <2>3. HandAfter(directive, next) \in {"no", "edited", "kept"}
          BY DEF HandAfter, RTypeOK
    <2>4. byHand' \in {"no", "edited", "kept"} /\ settled' \in BOOLEAN
          BY <2>3 DEF Reconcile
    <2> QED BY <2>2, <2>4 DEF RTypeOK, Reconcile, item
  <1>2. CASE \E c \in Content : HumanEdit(c)
    <2> PICK c \in Content : HumanEdit(c) BY <1>2
    <2> QED BY DEF RTypeOK, HumanEdit, item
  <1>3. CASE \E c \in Content : SourceEdit(c)
        BY <1>3 DEF RTypeOK, SourceEdit, item
  <1>4. CASE \E m \in Maps : SourceMapEdit(m)
        BY <1>4 DEF RTypeOK, SourceMapEdit, item
  <1> QED BY <1>1, <1>2, <1>3, <1>4 DEF RNext

(* Every state of an item is one of the states the model describes.         *)
THEOREM ReconciliationTyped == RSpec => []RTypeOK
  <1>1. RInit => RTypeOK
    <2> SUFFICES ASSUME RInit PROVE RTypeOK OBVIOUS
    <2>1. item \in Items
      <3> PICK i \in Items : project = i[1] /\ kind = i[2] BY DEF RInit
      <3>1. i = <<i[1], i[2]>> BY ReconciliationAssumption
      <3> QED BY <3>1 DEF item
    <2> QED BY <2>1 DEF RInit, RTypeOK, Content
  <1>2. RTypeOK /\ [RNext]_rvars => RTypeOK'
    <2>1. CASE RNext BY <2>1, TypeStep
    <2>2. CASE UNCHANGED rvars BY <2>2 DEF rvars, RTypeOK, item, Content, Checkpoints
    <2> QED BY <2>1, <2>2
  <1> QED BY <1>1, <1>2, PTL DEF RSpec

-----------------------------------------------------------------------------
(* A reconciliation of a schema-1 project remembers what it was told of a   *)
(* person's content: either it is nobody's any more, or a checkpoint says   *)
(* "canonical".                                                             *)
LEMMA ReconcileRemembers ==
    ASSUME RInv, NEW directive \in Directives, NEW acceptSourceMap \in BOOLEAN,
           Reconcile(directive, acceptSourceMap)
    PROVE  HandRemembered'
  <1> DEFINE next == Schema1Result(directive)
  <1> SUFFICES ASSUME project = "schema1", byHand' # "no"
               PROVE  /\ next.record = None => next.canonical # None
                      /\ next.record # None /\ next.canonical = next.record.canonical
                            => next.record.resolution = "canonical"
      BY DEF HandRemembered, Reconcile, PlanResult, CanonicalChanged, item
  <1>1. byHand' = HandAfter(directive, next) /\ next # Refused /\ next \in Results
        BY PlanTyped DEF Reconcile, PlanResult, RInv
  <1>2. ~(next.record # None /\ next.record.resolution = "aligned")
        BY <1>1 DEF HandAfter
  <1>3. next.record # None => next.record.resolution = "canonical"
        BY <1>1, <1>2 DEF Results, Checkpoints
  <1>4. ~(next.canonical = None /\ next.record = None)
        BY <1>1, <1>2 DEF HandAfter
  <1> QED BY <1>3, <1>4

(* A reconciliation that was told nothing leaves protected content alone.   *)
LEMMA ReconcileKeeps ==
    ASSUME RInv, NEW acceptSourceMap \in BOOLEAN, Reconcile("none", acceptSourceMap), Protected
    PROVE  canonical' = canonical
  <1> DEFINE next == PlanResult("none", acceptSourceMap)
  <1> SUFFICES next # Refused => next.canonical = canonical
      BY DEF Reconcile
  <1>1. CASE project = "schema1"
    <2>1. next = Unresolved(classifyPairedCheckpoint)
          BY <1>1 DEF PlanResult, Schema1Result
    <2>2. CASE record = None
      <3>1. canonical # None
            BY <2>2, <1>1 DEF Protected, Recorded, RInv, HandRemembered
      <3>2. classifyPairedCheckpoint \in {"ARCHIVE_OMISSION", "UNTRACKED_MATCH", "UNTRACKED_CONFLICT"}
            BY <2>2, <3>1 DEF classifyPairedCheckpoint, ClassifyUntracked
      <3> QED BY <2>1, <3>2 DEF Unresolved, Blockers, Retain, Result
    <2>3. CASE record # None
      <3>1. CanonicalChanged \/ record.resolution = "canonical"
            BY <2>3, <1>1
            DEF Protected, Recorded, CanonicalChanged, UntrackedCompanion, RInv, HandRemembered
      <3>2. CASE canonical = None
            BY <2>1, <2>3, <3>2
            DEF classifyPairedCheckpoint, ClassifyAbsent, Unresolved, Blockers, Retain, Result
      <3>3. CASE canonical # None
        <4>1. classifyPairedCheckpoint # "ARCHIVE_CHANGED"
              BY <2>3, <3>1, <3>3 DEF classifyPairedCheckpoint, ClassifyPresent
        <4>2. classifyPairedCheckpoint \notin {"NEW_ASSET", "CONVERGED_ABSENCE"}
              BY <2>3, <3>3 DEF classifyPairedCheckpoint, ClassifyPresent
        <4> QED BY <2>1, <4>1, <4>2 DEF Unresolved, Retain, Result
      <3> QED BY <3>2, <3>3
    <2> QED BY <2>2, <2>3
  <1>2. CASE project = "schema2"
    <2>1. kind \in {"asset", "companion"}
          BY ReconciliationAssumption DEF RInv, RTypeOK, item
    <2>2. canonical # Recorded /\ Edited
          BY <1>2, <2>1 DEF Protected, Recorded, UntrackedCompanion, Edited, CanonicalChanged
    <2>3. next = Schema2Result("none")
          BY <1>2 DEF PlanResult
    <2> QED BY <2>2, <2>3 DEF Schema2Result, Retain, Result
  <1>3. CASE project \notin {"schema1", "schema2"}
    <2>1. canonical # Recorded
          BY <1>3 DEF Protected
    <2> QED BY <1>3, <2>1
        DEF PlanResult, DirectoryResult, Untracked, DirectoryAsset, DirectoryCompanion, Told,
            Select, Unmoved, Recorded, CanonicalChanged, Replace, Retain, Result
  <1> QED BY <1>1, <1>2, <1>3

\* Every step keeps the memory of what a person did in a schema-1 project.
LEMMA HandStep ==
    ASSUME RInv, RNext PROVE HandRemembered'
  <1>1. CASE \E directive \in Directives, acceptSourceMap \in BOOLEAN : Reconcile(directive, acceptSourceMap)
        BY <1>1, ReconcileRemembers
  <1>2. CASE \E c \in Content : HumanEdit(c)
    <2> PICK c \in Content : HumanEdit(c) BY <1>2
    <2> QED BY DEF HumanEdit, HandRemembered, CanonicalChanged, Recorded, RInv, RTypeOK, Checkpoints, item
  <1>3. CASE \E c \in Content : SourceEdit(c)
        BY <1>3 DEF SourceEdit, HandRemembered, CanonicalChanged, RInv, item
  <1>4. CASE \E m \in Maps : SourceMapEdit(m)
        BY <1>4 DEF SourceMapEdit, HandRemembered, CanonicalChanged, RInv, item
  <1> QED BY <1>1, <1>2, <1>3, <1>4 DEF RNext

(* The checkpoint of a schema-1 item remembers what a person wrote or kept. *)
THEOREM ReconciliationInvariance == RSpec => []RInv
  <1>1. RInit => HandRemembered
        BY DEF RInit, HandRemembered
  <1>2. RInv /\ [RNext]_rvars => HandRemembered'
    <2>1. CASE RNext BY <2>1, HandStep
    <2>2. CASE UNCHANGED rvars
          BY <2>2 DEF rvars, item, RInv, HandRemembered, CanonicalChanged
    <2> QED BY <2>1, <2>2
  <1> QED BY <1>1, <1>2, ReconciliationTyped, PTL DEF RSpec, RInv

(* No reconciliation that was told nothing replaces or drops content that   *)
(* differs from its checkpoint, nor in a schema-1 project what a person     *)
(* wrote or decided to keep, however many edits, omissions and              *)
(* reconciliations came before (classifier.ts, reconcile2.ts,               *)
(* reconcile-directory.ts).                                                 *)
THEOREM EditsAreKept == RSpec => EditsKept
  <1>1. RInv /\ [RNext]_rvars => [Untold /\ Protected => canonical' = canonical]_rvars
        BY ReconcileKeeps DEF Untold
  <1> QED BY <1>1, ReconciliationInvariance, PTL DEF RSpec, EditsKept

-----------------------------------------------------------------------------
(* What a reconciliation that is carried out leaves: the source's content   *)
(* and its checkpoint; the item's content and a checkpoint against the      *)
(* source; nothing at all; a removal to remember; or an item whose source   *)
(* is missing.                                                              *)
Aligned == source # None /\ canonical' = source /\ record' = AlignedRecord
Resolved == source # None /\ canonical' = canonical /\ record' = CanonicalRecord(source)
SourceLost == source = None /\ canonical' = None /\ record' = None
Dropped == source # None /\ canonical' = None /\ record' = Checkpoint(None, source, "canonical")
Omitted == source = None /\ canonical' = canonical /\ canonical # None
           /\ (record' # None => record'.canonical = canonical)

\* What a schema-1 reconciliation that was told something leaves.
LEMMA Schema1Outcome ==
    ASSUME RTypeOK, NEW directive \in Directives, NEW acceptSourceMap \in BOOLEAN,
           Reconcile(directive, acceptSourceMap), project = "schema1", directive # "none"
    PROVE  Aligned \/ Resolved \/ SourceLost \/ Dropped \/ Omitted
  <1> DEFINE next == Schema1Result(directive)
  <1>1. next # Refused /\ canonical' = next.canonical /\ record' = next.record
        BY DEF Reconcile, PlanResult
  <1>2. CASE directive = "remove"
        BY <1>1, <1>2 DEF Schema1Result, Tombstone, Result, SourceLost, Dropped
  <1>3. CASE directive = "canonical"
    <2>1. canonical' = canonical /\ record' = ResolvedRecord
          BY <1>1, <1>3 DEF Schema1Result, Result
    <2>2. CASE source # None
          BY <2>1, <2>2 DEF ResolvedRecord, Resolved
    <2>3. CASE source = None /\ canonical = None
          BY <2>1, <2>3 DEF ResolvedRecord, SourceLost
    <2>4. CASE source = None /\ canonical # None
          BY <2>1, <2>4 DEF ResolvedRecord, CanonicalRecord, Checkpoint, Omitted
    <2> QED BY <2>2, <2>3, <2>4
  <1>4. CASE directive = "source"
        BY <1>1, <1>4 DEF Schema1Result, Replace, Result, Aligned
  <1> QED BY <1>2, <1>3, <1>4 DEF Directives

\* After a schema-1 reconciliation, planning again finds nothing to do.
LEMMA Schema1Quiet ==
    ASSUME RTypeOK, NEW directive \in Directives, NEW acceptSourceMap \in BOOLEAN,
           Reconcile(directive, acceptSourceMap), project = "schema1"
    PROVE  Unresolved(classifyPairedCheckpoint)' = Retain'
  <1> DEFINE next == Schema1Result(directive)
  <1>1. next # Refused /\ canonical' = next.canonical /\ record' = next.record
        /\ source' = source /\ sourceMap' = sourceMap
        BY DEF Reconcile, PlanResult
  <1> USE NoneAssumption
  <1>2. ASSUME directive = "none",
               classifyPairedCheckpoint \in {"UNCHANGED", "ARCHIVE_OMISSION", "UNCHANGED_ACCEPTED_ABSENCE"}
        PROVE  Unresolved(classifyPairedCheckpoint)' = Retain'
    <2>1. canonical' = canonical /\ record' = record
          BY <1>1, <1>2 DEF Schema1Result, Unresolved, Blockers, Retain, Result
    <2>2. classifyPairedCheckpoint' = classifyPairedCheckpoint
          BY <1>1, <2>1
          DEF classifyPairedCheckpoint, ClassifyUntracked, ClassifyAbsent,
              ClassifyPresent, CanonicalChanged, SourceChanged
    <2> QED BY <1>2, <2>2 DEF Unresolved, Blockers
  <1>3. ASSUME directive = "none",
               classifyPairedCheckpoint \notin {"UNCHANGED", "ARCHIVE_OMISSION", "UNCHANGED_ACCEPTED_ABSENCE"}
        PROVE  Aligned \/ SourceLost
        BY <1>1, <1>3
        DEF Schema1Result, Aligned, SourceLost, Unresolved, Blockers, Replace, Result, classifyPairedCheckpoint,
            ClassifyUntracked, ClassifyAbsent, ClassifyPresent
  <1>4. CASE Aligned
    <2>1. AlignedRecord # None
          BY CheckpointTyped DEF RTypeOK, AlignedRecord, Content
    <2>2. classifyPairedCheckpoint' = "UNCHANGED"
          BY <1>1, <1>4, <2>1
          DEF Aligned, AlignedRecord, Checkpoint, classifyPairedCheckpoint, ClassifyPresent,
              CanonicalChanged, SourceChanged
    <2> QED BY <2>2 DEF Unresolved, Blockers
  <1>5. CASE Resolved
    <2>1. CanonicalRecord(source) # None
          BY CanonicalRecordTyped DEF RTypeOK
    <2>2. classifyPairedCheckpoint' \in {"UNCHANGED", "UNCHANGED_ACCEPTED_ABSENCE"}
          BY <1>1, <1>5, <2>1
          DEF Resolved, CanonicalRecord, Checkpoint, classifyPairedCheckpoint, ClassifyPresent,
              ClassifyAbsent, CanonicalChanged, SourceChanged
    <2> QED BY <2>2 DEF Unresolved, Blockers
  <1>6. CASE SourceLost
    <2>1. classifyPairedCheckpoint' = "UNCHANGED"
          BY <1>1, <1>6 DEF SourceLost, classifyPairedCheckpoint, ClassifyUntracked
    <2> QED BY <2>1 DEF Unresolved, Blockers
  <1>7. CASE Dropped
    <2>1. Checkpoint(None, source, "canonical") # None
          BY CheckpointTyped DEF RTypeOK, Content
    <2>2. classifyPairedCheckpoint' = "UNCHANGED_ACCEPTED_ABSENCE"
          BY <1>1, <1>7, <2>1
          DEF Dropped, Checkpoint, classifyPairedCheckpoint, ClassifyAbsent, SourceChanged
    <2> QED BY <2>2 DEF Unresolved, Blockers
  <1>8. CASE Omitted
    <2>1. classifyPairedCheckpoint' = "ARCHIVE_OMISSION"
          BY <1>1, <1>8
          DEF Omitted, classifyPairedCheckpoint, ClassifyUntracked, ClassifyPresent, CanonicalChanged
    <2> QED BY <2>1 DEF Unresolved, Blockers
  <1> QED BY <1>2, <1>3, <1>4, <1>5, <1>6, <1>7, <1>8, Schema1Outcome

\* The same of a schema-2 project.
LEMMA Schema2Quiet ==
    ASSUME RTypeOK, NEW directive \in Directives, NEW acceptSourceMap \in BOOLEAN,
           Reconcile(directive, acceptSourceMap), project = "schema2"
    PROVE  Schema2Result("none")' = Retain'
  <1> DEFINE next == Schema2Result(directive)
  <1>1. next # Refused /\ canonical' = next.canonical /\ record' = next.record /\ source' = source
        BY DEF Reconcile, PlanResult
  <1>2. CASE source = None
        BY <1>1, <1>2 DEF Schema2Result
  <1>3. CASE record # None /\ ~SourceChanged
        BY <1>1, <1>3 DEF Schema2Result, SourceChanged, Retain, Result
  <1>4. CASE source # None /\ ~(record # None /\ ~SourceChanged)
    <2>1. record' = CanonicalRecord(source) \/ record' = AlignedRecord
          BY <1>1, <1>4 DEF Schema2Result, Replace, Result
    <2>2. CanonicalRecord(source) # None /\ AlignedRecord # None
          BY CanonicalRecordTyped, CheckpointTyped, NoneAssumption DEF RTypeOK, AlignedRecord
    <2>3. record' # None /\ record'.source = source
          BY <2>1, <2>2 DEF CanonicalRecord, AlignedRecord, Checkpoint
    <2> QED BY <1>1, <2>3 DEF Schema2Result, SourceChanged
  <1> QED BY <1>2, <1>3, <1>4

(* A directory keeps what it has, takes the source's content, records the   *)
(* item against the source, or records it against nothing.                  *)
Kept == canonical' = canonical /\ record' = record
NoSource == source = None /\ canonical' = canonical /\ record' = AbsentSource

\* A told directory item ends aligned with the source or resolved against it.
LEMMA SelectOutcome ==
    ASSUME RTypeOK, NEW directive \in Directives, NEW acceptSourceMap \in BOOLEAN,
           Reconcile(directive, acceptSourceMap), PlanResult(directive, acceptSourceMap) = Select(directive),
           source # None
    PROVE  Aligned \/ Resolved
  BY DEF Reconcile, Select, Replace, Result, Aligned, Resolved

\* What a settled reconciliation of a directory item leaves.
LEMMA DirectoryOutcome ==
    ASSUME RTypeOK, NEW directive \in Directives, NEW acceptSourceMap \in BOOLEAN,
           Reconcile(directive, acceptSourceMap), project = "directory", settled'
    PROVE  \/ Kept /\ record = None /\ source = None
           \/ /\ Kept /\ kind = "asset" /\ record # None /\ source # None
              /\ Unmoved /\ record.sourceMap = sourceMap
           \/ Aligned \/ Resolved \/ NoSource
  <1> DEFINE next == DirectoryResult(directive, acceptSourceMap)
  <1>1. next # Refused /\ canonical' = next.canonical /\ record' = next.record
        /\ PlanResult(directive, acceptSourceMap) = next
        BY DEF Reconcile, PlanResult
  <1>2. directive # "remove"
        BY DEF Reconcile
  <1>3. CASE record = None
        BY <1>1, <1>3 DEF DirectoryResult, Untracked, Kept, Aligned, Retain, Replace, Result
  <1>4. CASE record # None /\ source = None
        BY <1>1, <1>2, <1>4
        DEF DirectoryResult, DirectoryAsset, DirectoryCompanion, Told, NoSource, Result
  <1>5. CASE record # None /\ source # None /\ kind = "asset"
    <2>1. CASE Unmoved /\ record.sourceMap = sourceMap
          BY <1>1, <1>2, <1>5, <2>1
          DEF DirectoryResult, DirectoryAsset, Told, Kept, Retain, Result
    <2>2. CASE ~(Unmoved /\ record.sourceMap = sourceMap)
          BY <1>1, <1>2, <1>5, <2>2, SelectOutcome DEF DirectoryResult, DirectoryAsset
    <2> QED BY <2>1, <2>2
  <1>6. CASE record # None /\ source # None /\ kind # "asset"
    <2>1. CASE Unmoved
          BY <1>1, <1>2, <1>6, <2>1
          DEF DirectoryResult, DirectoryCompanion, Resolved, Result
    <2>2. CASE ~Unmoved
          BY <1>1, <1>2, <1>6, <2>2, SelectOutcome DEF DirectoryResult, DirectoryCompanion
    <2> QED BY <2>1, <2>2
  <1> QED BY <1>3, <1>4, <1>5, <1>6

(* Planned again, an item of a directory keeps its content and checkpoint.  *)
LEMMA DirectoryQuiet ==
    ASSUME RTypeOK, NEW directive \in Directives, NEW acceptSourceMap \in BOOLEAN,
           Reconcile(directive, acceptSourceMap), project = "directory", settled'
    PROVE  DirectoryResult("none", FALSE)' = Retain'
  <1>1. source' = source /\ sourceMap' = sourceMap /\ kind' = kind
        BY DEF Reconcile, item
  <1>2. AlignedRecord # None /\ CanonicalRecord(source) # None /\ AbsentSource # None
        BY CanonicalRecordTyped, CheckpointTyped, NoneAssumption
        DEF RTypeOK, AlignedRecord, AbsentSource, Content
  <1>3. CASE Kept /\ record = None /\ source = None
        BY <1>1, <1>3 DEF Kept, DirectoryResult, Untracked
  <1>4. ASSUME source # None, record' # None, Unmoved', record'.sourceMap = sourceMap,
               kind # "asset" => record' = CanonicalRecord(source)'
        PROVE  DirectoryResult("none", FALSE)' = Retain'
        BY <1>1, <1>4
        DEF DirectoryResult, DirectoryAsset, DirectoryCompanion, SourceMapBlocked, Told, Retain
  <1>5. CASE /\ Kept /\ kind = "asset" /\ record # None /\ source # None
             /\ Unmoved /\ record.sourceMap = sourceMap
        BY <1>1, <1>4, <1>5 DEF Kept, Unmoved, SourceChanged, CanonicalChanged
  <1>6. CASE Aligned
        BY <1>1, <1>2, <1>4, <1>6
        DEF Aligned, AlignedRecord, CanonicalRecord, Checkpoint, Unmoved, SourceChanged, CanonicalChanged
  <1>7. CASE Resolved
        BY <1>1, <1>2, <1>4, <1>7
        DEF Resolved, CanonicalRecord, Checkpoint, Unmoved, SourceChanged, CanonicalChanged
  <1>8. CASE NoSource
    <2>1. record' # None /\ source' = None /\ record'.sourceMap = sourceMap'
          BY <1>1, <1>2, <1>8 DEF NoSource, AbsentSource, Checkpoint
    <2>2. AbsentSource' = record'
          BY <1>1, <1>8 DEF NoSource, AbsentSource, Checkpoint
    <2> QED BY <2>1, <2>2
        DEF DirectoryResult, DirectoryAsset, DirectoryCompanion, SourceMapBlocked, Told, Retain
  <1> QED BY <1>3, <1>5, <1>6, <1>7, <1>8, DirectoryOutcome

\* Every step keeps a settled project quiet.
LEMMA QuietStep ==
    ASSUME RTypeOK, RNext, ReplanIsQuiet PROVE ReplanIsQuiet'
  <1>1. ASSUME NEW directive \in Directives, NEW acceptSourceMap \in BOOLEAN, Reconcile(directive, acceptSourceMap)
        PROVE  ReplanIsQuiet'
    <2> SUFFICES ASSUME settled' PROVE PlanResult("none", FALSE)' = Retain'
        BY DEF ReplanIsQuiet
    <2>1. project' = project /\ project \in {"schema1", "schema2", "directory"}
          BY <1>1, ReconciliationAssumption DEF Reconcile, RTypeOK, item
    <2>2. CASE project = "schema1"
          BY <1>1, <2>1, <2>2, Schema1Quiet DEF PlanResult, Schema1Result
    <2>3. CASE project = "schema2"
          BY <1>1, <2>1, <2>3, Schema2Quiet DEF PlanResult
    <2>4. CASE project = "directory"
          BY <1>1, <2>1, <2>4, DirectoryQuiet DEF PlanResult
    <2> QED BY <2>1, <2>2, <2>3, <2>4
  <1>2. ASSUME NEW c \in Content, HumanEdit(c) \/ SourceEdit(c) PROVE ReplanIsQuiet'
        BY <1>2 DEF HumanEdit, SourceEdit, ReplanIsQuiet
  <1>3. ASSUME NEW m \in Maps, SourceMapEdit(m) PROVE ReplanIsQuiet'
        BY <1>3 DEF SourceMapEdit, ReplanIsQuiet
  <1> QED BY <1>1, <1>2, <1>3 DEF RNext

(* With nothing changed since the last reconciliation, the next one is not  *)
(* blocked and changes nothing, for all three planners (classifier.ts,      *)
(* reconcile.ts, reconcile2.ts, reconcile-directory.ts).                    *)
THEOREM ReplansAreQuiet == RSpec => []ReplanIsQuiet
  <1>1. RInit => ReplanIsQuiet
        BY DEF RInit, ReplanIsQuiet
  <1>2. RTypeOK /\ ReplanIsQuiet /\ [RNext]_rvars => ReplanIsQuiet'
    <2>1. CASE RNext BY <2>1, QuietStep
    <2>2. CASE UNCHANGED rvars
      <3>1. /\ project' = project /\ kind' = kind /\ canonical' = canonical /\ source' = source
            /\ sourceMap' = sourceMap /\ record' = record /\ settled' = settled
            BY <2>2 DEF rvars, item
      <3>2. PlanResult("none", FALSE)' = PlanResult("none", FALSE) /\ Retain' = Retain
            BY <3>1
            DEF PlanResult, Schema1Result, Schema2Result, DirectoryResult, Unresolved,
                classifyPairedCheckpoint, ClassifyUntracked, ClassifyAbsent, ClassifyPresent,
                Known, Tombstone, ResolvedRecord, Edited, Untracked, DirectoryAsset,
                DirectoryCompanion, Told, Select, Unmoved, SourceMapBlocked, AbsentSource,
                AlignedRecord, CanonicalRecord, Checkpoint, Recorded, CanonicalChanged,
                SourceChanged, Retain, Replace, Result
      <3> QED BY <3>1, <3>2 DEF ReplanIsQuiet
    <2> QED BY <2>1, <2>2
  <1> QED BY <1>1, <1>2, ReconciliationTyped, PTL DEF RSpec

-----------------------------------------------------------------------------
(* What diff relies on: a schema-1 checkpoint always names a source, and a  *)
(* directory's says "aligned" exactly when content and source agree.        *)
Fits ==
    record # None =>
        /\ project = "schema1" => record.source # None
        /\ project = "directory" =>
              record.resolution = IF record.canonical = record.source /\ record.source # None
                                  THEN "aligned" ELSE "canonical"

\* A schema-1 project records no item without a source.
LEMMA Schema1Fits ==
    ASSUME RTypeOK, Fits, NEW directive \in Directives, NEW acceptSourceMap \in BOOLEAN,
           Reconcile(directive, acceptSourceMap), project = "schema1"
    PROVE  record' # None => record'.source # None
  <1> DEFINE next == Schema1Result(directive)
  <1>1. next # Refused /\ record' = next.record
        BY DEF Reconcile, PlanResult
  <1>2. record # None => record.source # None
        BY DEF Fits
  <1>3. CASE directive = "none"
    <2> DEFINE class == classifyPairedCheckpoint
    <2>1. next = Unresolved(class)
          BY <1>3 DEF Schema1Result
    <2>2. class \in {"NEW_ASSET", "ARCHIVE_CHANGED", "CONVERGED", "UNTRACKED_MATCH"} => source # None
          BY DEF classifyPairedCheckpoint, ClassifyUntracked, ClassifyAbsent, ClassifyPresent
    <2> HIDE DEF class
    <2> QED BY <1>1, <1>2, <2>1, <2>2
            DEF Unresolved, Replace, Retain, Result, AlignedRecord, Checkpoint
  <1>4. CASE directive # "none"
        BY <1>1, <1>2, <1>4
        DEF Schema1Result, Tombstone, ResolvedRecord, CanonicalRecord, Replace, Result,
            AlignedRecord, Checkpoint
  <1> QED BY <1>3, <1>4

\* A directory records its resolution as its contents say.
LEMMA DirectoryFits ==
    ASSUME RTypeOK, Fits, NEW directive \in Directives, NEW acceptSourceMap \in BOOLEAN,
           Reconcile(directive, acceptSourceMap), project = "directory"
    PROVE  Fits'
  <1>1. project' = project
        BY DEF Reconcile, item
  <1>2. CASE ~settled'
    <2>1. directive = "remove"
          BY <1>2 DEF Reconcile
    <2>2. record' = None
          BY <2>1 DEF Reconcile, PlanResult, DirectoryResult, Untracked, DirectoryAsset,
                      DirectoryCompanion, Result
    <2> QED BY <2>2 DEF Fits
  <1>3. CASE settled'
    <2>1. CASE Kept
          BY <1>1, <2>1 DEF Kept, Fits
    <2>2. CASE Aligned
          BY <1>1, <2>2 DEF Aligned, AlignedRecord, Checkpoint, Fits
    <2>3. CASE Resolved
          BY <1>1, <2>3 DEF Resolved, CanonicalRecord, Checkpoint, Fits
    <2>4. CASE NoSource
          BY <1>1, <2>4 DEF NoSource, AbsentSource, Checkpoint, Fits
    <2> QED BY <1>3, <2>1, <2>2, <2>3, <2>4, DirectoryOutcome
  <1> QED BY <1>2, <1>3

\* Every step keeps the records in the form their project writes.
LEMMA FitsStep ==
    ASSUME RTypeOK, RNext, Fits PROVE Fits'
  <1>1. ASSUME NEW directive \in Directives, NEW acceptSourceMap \in BOOLEAN, Reconcile(directive, acceptSourceMap)
        PROVE  Fits'
    <2>1. project' = project
          BY <1>1 DEF Reconcile, item
    <2>2. CASE project = "schema1"
          BY <1>1, <2>1, <2>2, Schema1Fits DEF Fits
    <2>3. CASE project = "directory"
          BY <1>1, <2>3, DirectoryFits
    <2> QED BY <2>1, <2>2, <2>3 DEF Fits
  <1>2. ASSUME NEW c \in Content, HumanEdit(c) \/ SourceEdit(c) PROVE Fits'
        BY <1>2 DEF HumanEdit, SourceEdit, Fits, item
  <1>3. ASSUME NEW m \in Maps, SourceMapEdit(m) PROVE Fits'
        BY <1>3 DEF SourceMapEdit, Fits, item
  <1> QED BY <1>1, <1>2, <1>3 DEF RNext

\* Where the record fits and nothing moved, the next plan retains everything.
LEMMA FitsPredict ==
    ASSUME RTypeOK, Fits, Settled, SourceAsRecorded
    PROVE  PlanResult("none", FALSE) = Retain
  <1>1. record # None /\ record \in Checkpoints /\ source = record.source
        BY DEF Settled, Relation, SourceAsRecorded, SourceChanged, RTypeOK
  <1>2. project \in {"schema1", "schema2", "directory"}
        BY ReconciliationAssumption DEF RTypeOK, item
  <1>3. CASE project = "schema1"
    <2>1. classifyPairedCheckpoint \in {"UNCHANGED", "UNCHANGED_ACCEPTED_ABSENCE"}
      <3>1. source # None
            BY <1>1, <1>3 DEF Fits
      <3>2. CASE record.canonical = None
            BY <1>1, <1>3, <3>1, <3>2
            DEF Settled, Relation, AbsenceRelation, classifyPairedCheckpoint, ClassifyAbsent,
                SourceChanged
      <3>3. CASE record.canonical # None
        <4>1. canonical # None /\ canonical = record.canonical
              BY <1>1, <1>3, <3>3 DEF Settled, Relation, DigestRelation
        <4> QED BY <1>1, <3>1, <4>1
                DEF classifyPairedCheckpoint, ClassifyPresent, SourceChanged, CanonicalChanged
      <3> QED BY <3>2, <3>3
    <2> QED BY <1>3, <2>1 DEF PlanResult, Schema1Result, Unresolved, Blockers
  <1>4. CASE project = "schema2"
        BY <1>1, <1>4 DEF PlanResult, Schema2Result, SourceChanged
  <1>5. CASE project = "directory"
    <2>1. canonical = record.canonical /\ record.sourceMap = sourceMap
          BY <1>1, <1>5 DEF Settled, Relation, DigestRelation, SourceAsRecorded
    <2>2. record = CanonicalRecord(source)
          BY <1>1, <1>5, <2>1 DEF Fits, CanonicalRecord, Checkpoint, Checkpoints
    <2>3. source = None => record = AbsentSource
          BY <2>1, <2>2 DEF CanonicalRecord, AbsentSource
    <2> QED BY <1>1, <1>5, <2>1, <2>2, <2>3
            DEF PlanResult, DirectoryResult, DirectoryAsset, DirectoryCompanion,
                SourceMapBlocked, Told, Unmoved, SourceChanged, CanonicalChanged, Retain
  <1> QED BY <1>2, <1>3, <1>4, <1>5

(* What diff calls settled, the next reconciliation neither asks about nor  *)
(* changes while the source is as recorded (diff.ts against classifier.ts,  *)
(* reconcile2.ts and reconcile-directory.ts).                               *)
THEOREM DiffsPredict == RSpec => []DiffPredicts
  <1>1. RInit => Fits
        BY DEF RInit, Fits
  <1>2. RTypeOK /\ Fits /\ [RNext]_rvars => Fits'
    <2>1. CASE RNext BY <2>1, FitsStep
    <2>2. CASE UNCHANGED rvars BY <2>2 DEF rvars, item, Fits
    <2> QED BY <2>1, <2>2
  <1>3. RTypeOK /\ Fits => DiffPredicts
        BY FitsPredict DEF DiffPredicts
  <1> QED BY <1>1, <1>2, <1>3, ReconciliationTyped, PTL DEF RSpec

-----------------------------------------------------------------------------
(* The directory snapshot.                                                  *)

\* The stamps of a directory and of its file are not of the future, and a
\* file's says in which directory it is.
OfDirectory(d) == [stamp : {d} \X (0..changes), what : Whats]
Stamped == \A d \in Dirs : tree[d].stamp \in 0..changes /\ tree[d].file \in OfDirectory(d)

\* What the walk recorded so far: the directories' stamps, the files with
\* theirs, and of each file what was read, if it was still the same file.
SeenRoot == seen.dir["."] \in {"root"} \X (0..changes)
SeenSub == seen.sub \in {"s1", "s2"} \X (0..changes)
SeenEntry(p, d) == seen.entry[p] \in OfDirectory(d)
BytesAre(p) == seen.bytes[p] = seen.entry[p].what
ReadFrom(p, d) == Absent(p) \/ tree[d].file = seen.entry[p] => BytesAre(p)

Whole ==
    /\ SeenRoot /\ SeenSub
    /\ SeenEntry(".", "root") /\ SeenEntry("sub", seen.sub[1])
    /\ BytesAre(".") /\ BytesAre("sub")

WalkInv ==
    scanner = "plan" =>
        /\ at >= 3 => SeenRoot
        /\ at >= 4 => SeenEntry(".", "root")
        /\ at >= 5 => SeenSub
        /\ at \in 7..15 => hold = seen.sub[1]
        /\ at >= 9 => SeenEntry("sub", seen.sub[1])
        /\ at = 14 => ReadFrom(".", "root")
        /\ at >= 15 => BytesAre(".")
        /\ at = 18 => ReadFrom("sub", hold)
        /\ at >= 19 => BytesAre("sub")

CheckInv ==
    scanner \in Executes =>
        /\ at >= 2 => moment \in [map : {seen.map}, root : Whats, sub : Whats]
        /\ at >= 2 /\ tree["root"].file = seen.entry["."] => moment.root = seen.entry["."].what
        /\ at \in 2..6 /\ Stat("root") = seen.dir["."] /\ tree[sub].file = seen.entry["sub"] =>
              moment.sub = seen.entry["sub"].what
        /\ at = 6 /\ Stat("root") = seen.dir["."] => sub = seen.sub[1]
        /\ at >= 7 /\ tree[seen.sub[1]].file = seen.entry["sub"] => moment.sub = seen.entry["sub"].what
        /\ at >= 5 => moment.root = seen.entry["."].what
        /\ at >= 10 => moment.sub = seen.entry["sub"].what

Holding == Checking \cup {"staging", "window", "promoting"}
Stands ==
    /\ plan = "scanning" <=> scanner = "plan"
    /\ plan \in {"none", "scanning", "failed"} => \A e \in Executes : exec[e] = "idle"
    /\ \A e \in Executes : exec[e] \in Holding => lock = e
    /\ \A e \in Executes : scanner = e => exec[e] \in Checking

SInv ==
    /\ STypeOK /\ Stamped /\ Stands
    /\ plan = "ready" \/ (\E e \in Executes : exec[e] \notin {"idle", "refused"}) => Whole
    /\ WalkInv /\ CheckInv /\ CheckIsAMoment

-----------------------------------------------------------------------------
\* The lists of looks, look by look.
LEMMA WalkIs ==
    /\ Len(Walk) = 19
    /\ Walk[1] = <<"map", ".">>
    /\ Walk[2] = <<"stat", ".">>
    /\ Walk[3] = <<"entry", ".">>
    /\ Walk[4] = <<"subentry", ".">>
    /\ Walk[5] = <<"inspect", ".">>
    /\ Walk[6] = <<"enter", "sub">>
    /\ Walk[7] = <<"stat", "sub">>
    /\ Walk[8] = <<"entry", "sub">>
    /\ Walk[9] = <<"inspect", "sub">>
    /\ Walk[10] = <<"restat", "sub">>
    /\ Walk[11] = <<"restat", ".">>
    /\ Walk[12] = <<"open", ".">>
    /\ Walk[13] = <<"read", ".">>
    /\ Walk[14] = <<"verify", ".">>
    /\ Walk[15] = <<"reach", "sub">>
    /\ Walk[16] = <<"open", "sub">>
    /\ Walk[17] = <<"read", "sub">>
    /\ Walk[18] = <<"verify", "sub">>
    /\ Walk[19] = <<"remap", ".">>
BY DEF Walk

\* The looks of a check, in the order the code takes them.
LEMMA CheckIs ==
    /\ Len(Check) = 17
    /\ Check[1] = <<"remap", ".">>
    /\ Check[2] = <<"named", ".">>
    /\ Check[3] = <<"restat", ".">>
    /\ Check[4] = <<"reentry", ".">>
    /\ Check[5] = <<"resubentry", ".">>
    /\ Check[6] = <<"restat", ".">>
    /\ Check[7] = <<"reach", "sub">>
    /\ Check[8] = <<"restat", "sub">>
    /\ Check[9] = <<"reentry", "sub">>
    /\ Check[10] = <<"restat", "sub">>
    /\ Check[11] = <<"open", ".">>
    /\ Check[12] = <<"reread", ".">>
    /\ Check[13] = <<"verify", ".">>
    /\ Check[14] = <<"reach", "sub">>
    /\ Check[15] = <<"open", "sub">>
    /\ Check[16] = <<"reread", "sub">>
    /\ Check[17] = <<"verify", "sub">>
BY DEF Check

\* What an edit touches carries a stamp nobody has seen.
LEMMA EditorChanges ==
    ASSUME STypeOK, Stamped, Editor
    PROVE  /\ UNCHANGED <<scan, session, plan, transaction>> /\ changes' = changes + 1 /\ changes' <= MaxChanges
           /\ \A d \in Dirs :
                /\ tree'[d].file = tree[d].file \/ (tree'[d].file.stamp = <<d, changes'>> /\ tree'[d].file.what \in Whats)
                /\ tree'[d].stamp = tree[d].stamp \/ tree'[d].stamp = changes'
           /\ sub' = sub \/ tree'["root"].stamp = changes'
<1> USE SnapshotAssumption DEF Editor, Edit, Stamp, STypeOK, Stamped, OfDirectory, Dirs, Whats
<1>1. CASE \E d \in Dirs, what \in Whats : EditFile(d, what) BY <1>1 DEF EditFile
<1>2. CASE \E d \in Dirs, what \in Whats : ReplaceFile(d, what) BY <1>2 DEF ReplaceFile
<1>3. CASE MoveSub BY <1>3 DEF MoveSub
<1>4. CASE MoveRoot \/ \E m \in SourceMaps : EditMap(m) BY <1>4 DEF MoveRoot, EditMap
<1> QED BY <1>1, <1>2, <1>3, <1>4

\* An edit keeps the types.
LEMMA EditorTyped ==
    ASSUME STypeOK, Editor
    PROVE  STypeOK'
<1> DEFINE Trees == [Dirs -> [stamp : 0..MaxChanges, file : [stamp : Dirs \X (0..MaxChanges), what : Whats]]]
<1>1. tree \in Trees /\ changes \in 0..MaxChanges BY DEF STypeOK
<1>2. UNCHANGED <<scanner, at, hold, seen, session, plan, exec, lock>> BY DEF Editor, scan, transaction
<1>3. changes + 1 \in 0..MaxChanges /\ changes' = changes + 1
      BY <1>1, SnapshotAssumption DEF Editor, EditFile, ReplaceFile, MoveSub, MoveRoot, EditMap, Edit
<1>4. tree' \in Trees
  <2>1. ASSUME NEW d \in Dirs, NEW what \in Whats,
               tree' = [tree EXCEPT ![d].file = [stamp |-> <<d, changes + 1>>, what |-> what]]
        PROVE  tree' \in Trees
    <3>1. [stamp |-> <<d, changes + 1>>, what |-> what] \in [stamp : Dirs \X (0..MaxChanges), what : Whats]
          BY <1>3
    <3>2. [tree[d] EXCEPT !.file = [stamp |-> <<d, changes + 1>>, what |-> what]]
             \in [stamp : 0..MaxChanges, file : [stamp : Dirs \X (0..MaxChanges), what : Whats]]
          BY <1>1, <3>1
    <3> QED BY <1>1, <2>1, <3>2
  <2>2. ASSUME NEW d \in Dirs, NEW what \in Whats,
               tree' = [tree EXCEPT ![d] = [stamp |-> changes + 1, file |-> [stamp |-> <<d, changes + 1>>, what |-> what]]]
        PROVE  tree' \in Trees
    <3>1. [stamp |-> <<d, changes + 1>>, what |-> what] \in [stamp : Dirs \X (0..MaxChanges), what : Whats]
          BY <1>3
    <3>2. [stamp |-> changes + 1, file |-> [stamp |-> <<d, changes + 1>>, what |-> what]]
             \in [stamp : 0..MaxChanges, file : [stamp : Dirs \X (0..MaxChanges), what : Whats]]
          BY <1>3, <3>1
    <3> QED BY <1>1, <2>2, <3>2
  <2>3. ASSUME tree' = [tree EXCEPT !["root"].stamp = changes + 1]
        PROVE  tree' \in Trees
    <3>1. "root" \in Dirs BY DEF Dirs
    <3>2. [tree["root"] EXCEPT !.stamp = changes + 1]
             \in [stamp : 0..MaxChanges, file : [stamp : Dirs \X (0..MaxChanges), what : Whats]]
          BY <1>1, <1>3, <3>1
    <3> QED BY <1>1, <2>3, <3>1, <3>2
  <2> QED BY <1>1, <2>1, <2>2, <2>3 DEF Editor, EditFile, ReplaceFile, MoveSub, MoveRoot, EditMap, Stamp
<1>5. sub' \in {"s1", "s2"} /\ named' \in BOOLEAN /\ map' \in SourceMaps
      BY DEF STypeOK, Editor, EditFile, ReplaceFile, MoveSub, MoveRoot, EditMap
<1> QED BY <1>2, <1>3, <1>4, <1>5 DEF STypeOK

\* A scan under way is at one of the looks of its walk or of its check.
LEMMA LookIs ==
    ASSUME STypeOK, Scanning
    PROVE  /\ scanner = "plan" => at \in 1..19 /\ Look = Walk[at]
           /\ scanner # "plan" => at \in 1..17 /\ Look = Check[at]
<1>1. at \in 1..20 /\ at <= Len(Looks) BY WalkIs DEF STypeOK, Scanning
<1>2. CASE scanner = "plan"
  <2>1. Looks = Walk BY <1>2 DEF Looks
  <2>2. Len(Looks) = 19 BY <2>1, WalkIs
  <2> QED BY <1>1, <1>2, <2>1, <2>2 DEF Look
<1>3. CASE scanner # "plan"
  <2>1. Looks = Check BY <1>3 DEF Looks
  <2>2. Len(Looks) = 17 BY <2>1, CheckIs
  <2> QED BY <1>1, <1>3, <2>1, <2>2 DEF Look
<1> QED BY <1>2, <1>3

\* What a look notes is a record of the directory.
LEMMA LookTyped ==
    ASSUME STypeOK, Scanning, Advance, UNCHANGED directory
    PROVE  /\ seen' \in Records
           /\ hold' \in {"s1", "s2"} /\ at' \in 1..Len(Walk) + 1 /\ scanner' = scanner
<1>1. hold' \in {"s1", "s2"} /\ at' \in 1..Len(Walk) + 1 /\ scanner' = scanner
  <2>1. at \in 1..20 /\ hold \in {"s1", "s2"} /\ sub \in {"s1", "s2"} BY WalkIs DEF STypeOK
  <2>2. at \in 1..19 BY <2>1, LookIs
  <2> QED BY <2>1, <2>2, WalkIs DEF Advance
<1>2. ASSUME NEW p \in Places
      PROVE  /\ Stat(DirOf(p)) \in Dirs \X (0..MaxChanges) /\ Stat(sub) \in Dirs \X (0..MaxChanges)
             /\ File(p) \in [stamp : Dirs \X (0..MaxChanges), what : Whats]
      BY DEF STypeOK, Stat, DirOf, File, Dirs
<1>3. Look[2] \in Places
  <2>1. \/ at \in 1..19 /\ Look = Walk[at]
        \/ at \in 1..17 /\ Look = Check[at]
        BY LookIs
  <2>3. \A n \in 1..19 : Walk[n][2] \in Places BY WalkIs DEF Places
  <2>4. \A n \in 1..17 : Check[n][2] \in Places BY CheckIs DEF Places
  <2> QED BY <2>1, <2>3, <2>4
<1>4. seen' = Noted(Look[1], Look[2]) BY DEF Advance
<1>5. QED
  <2> DEFINE do == Look[1]
             p == Look[2]
  <2>1. CASE seen' = seen BY <1>1, <2>1 DEF STypeOK, Records
  <2>2. CASE do = "map" /\ seen' = [seen EXCEPT !.map = map] BY <1>1, <2>2 DEF STypeOK, Records
  <2>3. CASE do = "stat" /\ seen' = [seen EXCEPT !.dir[p] = Stat(DirOf(p))]
        BY <1>1, <1>2, <1>3, <2>3 DEF STypeOK, Records
  <2>4. CASE do = "entry" /\ seen' = [seen EXCEPT !.entry[p] = File(p)]
        BY <1>1, <1>2, <1>3, <2>4 DEF STypeOK, Records
  <2>5. CASE do = "subentry" /\ seen' = [seen EXCEPT !.sub = Stat(sub)] BY <1>1, <1>2, <1>3, <2>5 DEF STypeOK, Records
  <2>6. CASE do = "read" /\ seen' = [seen EXCEPT !.bytes[p] = IF Absent(p) THEN Nothing ELSE File(p).what]
        BY <1>1, <1>2, <1>3, <2>6 DEF STypeOK, Records, Whats
  <2> QED BY <1>4, <2>1, <2>2, <2>3, <2>4, <2>5, <2>6 DEF Noted

\* Every step keeps the types.
LEMMA NextTyped ==
    ASSUME STypeOK, Stands, [SNext]_svars
    PROVE  STypeOK'
<1> USE SnapshotAssumption DEF Live, Checking
<1>1. CASE svars' = svars BY <1>1 DEF svars, directory, scan, transaction, STypeOK
<1>2. CASE Editor BY <1>2, EditorTyped
<1>3. CASE PlanLooks
  <2>1. UNCHANGED <<directory, session, plan, transaction>> /\ Scanning /\ Advance BY <1>3 DEF PlanLooks
  <2> QED BY <2>1, LookTyped DEF directory, transaction, STypeOK
<1>4. ASSUME NEW e \in Executes, CheckLooks(e) PROVE STypeOK'
  <2>1. /\ UNCHANGED <<directory, session, plan, exec, lock>> /\ Scanning /\ Advance BY <1>4 DEF CheckLooks
  <2> QED BY <2>1, LookTyped DEF directory, STypeOK
<1>5. CASE PlanImport \/ PlanFails \/ (\E dryRun \in BOOLEAN : PlanIsMade(dryRun)) \/ Dispose
  <2>1. UNCHANGED <<tree, sub, named, map, changes, exec, lock>>
        BY <1>5 DEF PlanImport, PlanFails, PlanIsMade, Dispose, directory, transaction
  <2>2. /\ scanner' \in Executes \cup {"plan", Nothing} /\ at' \in 1..Len(Walk) + 1 /\ hold' \in {"s1", "s2"}
        /\ seen' = seen /\ session' \in {"none", "open", "closed"}
        /\ plan' \in {"none", "scanning", "ready", "disposed", "failed"}
        BY <1>5, WalkIs DEF PlanImport, PlanFails, PlanIsMade, Dispose, ScanEnds, Close, scan, STypeOK
  <2> QED BY <2>1, <2>2 DEF STypeOK
<1>6. ASSUME NEW e \in Executes,
             Execute(e) \/ TakeLock(e) \/ Fail(e) \/ BeginCheck(e) \/ CheckPasses(e) \/ WriteStage(e)
             \/ OpenWindow(e) \/ Promote(e) \/ ReleaseLock(e) \/ Finish(e)
      PROVE  STypeOK'
  <2> USE DEF Execute, TakeLock, Fail, BeginCheck, CheckPasses, WriteStage, OpenWindow, Promote, ReleaseLock, Finish
  <2>1. UNCHANGED <<tree, sub, named, map, changes>>
        BY <1>6 DEF directory
  <2>2. /\ scanner' \in Executes \cup {"plan", Nothing} /\ at' \in 1..Len(Walk) + 1 /\ hold' \in {"s1", "s2"}
        /\ seen' = seen
        BY <1>6, WalkIs DEF ScanEnds, scan, STypeOK
  <2>3. session' \in {"none", "open", "closed"} /\ plan' \in {"none", "scanning", "ready", "disposed", "failed"}
        BY <1>6 DEF Close, STypeOK
  <2>4. exec' \in [Executes -> Live \cup {"idle", "refused", "done"}]
    <3>1. exec \in [Executes -> Live \cup {"idle", "refused", "done"}] BY DEF STypeOK
    <3>2. exec[e] \in Checking => AfterCheck[exec[e]] \in Live BY DEF AfterCheck
    <3>3. CheckPasses(e) => exec[e] \in Checking BY DEF Stands
    <3> QED BY <1>6, <3>1, <3>2, <3>3 DEF transaction
  <2>5. lock' \in Executes \cup {Nothing}
        BY <1>6 DEF transaction, STypeOK
  <2> QED BY <2>1, <2>2, <2>3, <2>4, <2>5 DEF STypeOK
<1> QED BY <1>1, <1>2, <1>3, <1>4, <1>5, <1>6 DEF SNext, ExecuteStep

\* An edit gives what it changes a new stamp: what was recorded is what is
\* there only if it was not changed since.
LEMMA EditorKeeps ==
    ASSUME SInv, Editor
    PROVE  Stamped' /\ Stands' /\ (Whole => Whole') /\ WalkInv' /\ CheckInv' /\ CheckIsAMoment'
<1>1. /\ scanner' = scanner /\ at' = at /\ hold' = hold /\ seen' = seen
      /\ plan' = plan /\ exec' = exec /\ lock' = lock /\ moment' = moment
      /\ changes' = changes + 1 /\ changes \in Nat
      BY EditorChanges DEF SInv, STypeOK, scan, transaction
<1>2. \A d \in Dirs :
          /\ tree'[d].file = tree[d].file \/ (tree'[d].file.stamp = <<d, changes'>> /\ tree'[d].file.what \in Whats)
          /\ tree'[d].stamp = tree[d].stamp \/ tree'[d].stamp = changes'
      BY EditorChanges DEF SInv
<1>3. sub' = sub \/ tree'["root"].stamp = changes' BY EditorChanges DEF SInv
<1>4. Stamped'
  <2> SUFFICES ASSUME NEW d \in Dirs
               PROVE  tree'[d].stamp \in 0..changes' /\ tree'[d].file \in [stamp : {d} \X (0..changes'), what : Whats]
      BY DEF Stamped, OfDirectory
  <2>1. tree[d].stamp \in 0..changes /\ tree[d].file \in [stamp : {d} \X (0..changes), what : Whats]
        BY DEF SInv, Stamped, OfDirectory
  <2>2. tree'[d].file \in [stamp : Dirs \X (0..MaxChanges), what : Whats] BY EditorTyped, SnapshotAssumption DEF SInv, STypeOK
  <2> QED BY <1>1, <1>2, <2>1, <2>2
<1>5. Stands' /\ CheckIsAMoment' BY <1>1 DEF SInv, Stands, CheckIsAMoment, SnapshotView
<1>6. /\ SeenRoot => SeenRoot' /\ (tree'["root"].stamp = seen.dir["."][2] => tree["root"].stamp = tree'["root"].stamp /\ sub' = sub)
      /\ SeenSub => SeenSub'
  <2>1. seen.dir["."] \in {"root"} \X (0..changes) => seen.dir["."][2] # changes + 1 BY <1>1
  <2>2. 0..changes \subseteq 0..changes' BY <1>1
  <2> QED BY <1>1, <1>2, <1>3, <2>1, <2>2 DEF SeenRoot, SeenSub, Dirs
<1>7. ASSUME NEW p \in Places, NEW c \in Dirs, SeenEntry(p, c)
      PROVE  SeenEntry(p, c)' /\ \A d \in Dirs : tree'[d].file = seen.entry[p] => tree[d].file = seen.entry[p]
  <2>1. seen.entry[p] \in [stamp : {c} \X (0..changes), what : Whats] BY <1>7 DEF SeenEntry, OfDirectory
  <2>2. seen.entry[p].stamp[2] # changes' BY <1>1, <2>1
  <2>3. \A d \in Dirs : tree'[d].file.stamp = <<d, changes'>> => tree'[d].file # seen.entry[p] BY <2>2
  <2> QED BY <1>1, <1>2, <2>1, <2>3 DEF SeenEntry, OfDirectory
<1>8. \A p \in Places : BytesAre(p)' <=> BytesAre(p) BY <1>1 DEF BytesAre
<1>9. "root" \in Dirs /\ {"s1", "s2"} \subseteq Dirs /\ "." \in Places /\ "sub" \in Places /\ sub \in {"s1", "s2"} /\ hold \in {"s1", "s2"}
      BY DEF SInv, STypeOK, Dirs, Places
<1>10. SeenSub => seen.sub[1] \in Dirs /\ seen'.sub[1] = seen.sub[1] BY <1>1, <1>9 DEF SeenSub
<1>11. Whole => Whole' BY <1>1, <1>6, <1>7, <1>8, <1>9, <1>10 DEF Whole
<1>12. WalkInv'
  <2> SUFFICES ASSUME scanner = "plan" PROVE WalkInv' BY <1>1 DEF WalkInv
  <2>1. WalkInv BY DEF SInv
  <2>2. at = 14 => ReadFrom(".", "root")'
        BY <2>1, <1>1, <1>7, <1>8, <1>9 DEF WalkInv, ReadFrom, Absent
  <2>3. at = 18 => ReadFrom("sub", hold)'
        BY <2>1, <1>1, <1>7, <1>8, <1>9, <1>10 DEF WalkInv, ReadFrom, Absent
  <2>4. at \in 1..20 BY WalkIs DEF SInv, STypeOK
  <2>5. /\ at >= 3 => SeenRoot'
        /\ at >= 4 => SeenEntry(".", "root")'
        /\ at >= 5 => SeenSub'
        /\ at >= 9 => SeenEntry("sub", seen.sub[1])'
        BY <2>1, <2>4, <1>1, <1>6, <1>7, <1>9, <1>10 DEF WalkInv
  <2> QED BY <2>1, <2>2, <2>3, <2>4, <2>5, <1>1, <1>8, <1>9 DEF WalkInv
<1>13. CheckInv'
  <2> SUFFICES ASSUME scanner \in Executes PROVE CheckInv' BY <1>1 DEF CheckInv
  <2>1. Whole BY DEF SInv, Stands, Checking
  <2>2. CheckInv BY DEF SInv
  <2>3. seen.sub[1] \in Dirs BY <2>1, <1>10 DEF Whole
  <2>4. \A d \in Dirs, p \in Places : tree'[d].file = seen.entry[p] => tree[d].file = seen.entry[p]
        BY <2>1, <2>3, <1>7, <1>9 DEF Whole, Places
  <2>5. Stat("root")' = seen.dir["."] => Stat("root") = seen.dir["."] /\ sub' = sub
        BY <2>1, <1>6 DEF Stat, Whole, SeenRoot
  <2> QED BY <2>2, <2>3, <2>4, <2>5, <1>1, <1>9 DEF CheckInv
<1> QED BY <1>4, <1>5, <1>11, <1>12, <1>13

\* What each look of the walk records is what WalkInv says of the next position.

\* What each look of the walk records is what WalkInv says of the next position.
LEMMA PlanLooksKeeps ==
    ASSUME SInv, PlanLooks
    PROVE  WalkInv'
<1>1. /\ scanner = "plan" /\ Scanning /\ Advance
      /\ tree' = tree /\ sub' = sub /\ changes' = changes /\ scanner' = scanner /\ at' = at + 1
      BY DEF PlanLooks, Advance, directory
<1>2. at \in 1..19 /\ Look = Walk[at] BY <1>1, LookIs DEF SInv
<1>3. /\ WalkInv /\ changes \in Nat
      /\ seen \in Records /\ hold \in {"s1", "s2"} /\ sub \in {"s1", "s2"}
      /\ \A d \in {"root", "s1", "s2"} :
            tree[d].stamp \in 0..changes /\ tree[d].file \in [stamp : {d} \X (0..changes), what : Whats]
      BY SnapshotAssumption DEF SInv, STypeOK, Stamped, OfDirectory, Dirs
<1> USE DEF WalkInv, SeenRoot, SeenSub, SeenEntry, OfDirectory, BytesAre, ReadFrom, Absent
<1>4. CASE at = 1
  <2>1. Look[1] = "map" /\ Look[2] = "." BY <1>2, <1>4, WalkIs
  <2>2. seen' = [seen EXCEPT !.map = map] /\ hold' = hold BY <1>1, <2>1 DEF Advance, Agrees, Noted
  <2> QED BY <1>1, <1>3, <1>4, <2>2 DEF Records, Places, Stat, File, DirOf
<1>5. CASE at = 2
  <2>1. Look[1] = "stat" /\ Look[2] = "." BY <1>2, <1>5, WalkIs
  <2>2. seen' = [seen EXCEPT !.dir["."] = Stat(DirOf("."))] /\ hold' = hold BY <1>1, <2>1 DEF Advance, Agrees, Noted
  <2> QED BY <1>1, <1>3, <1>5, <2>2 DEF Records, Places, Stat, File, DirOf
<1>6. CASE at = 3
  <2>1. Look[1] = "entry" /\ Look[2] = "." BY <1>2, <1>6, WalkIs
  <2>2. seen' = [seen EXCEPT !.entry["."] = File(".")] /\ hold' = hold BY <1>1, <2>1 DEF Advance, Agrees, Noted
  <2> QED BY <1>1, <1>3, <1>6, <2>2 DEF Records, Places, Stat, File, DirOf
<1>7. CASE at = 4
  <2>1. Look[1] = "subentry" /\ Look[2] = "." BY <1>2, <1>7, WalkIs
  <2>2. seen' = [seen EXCEPT !.sub = Stat(sub)] /\ hold' = hold BY <1>1, <2>1 DEF Advance, Agrees, Noted
  <2> QED BY <1>1, <1>3, <1>7, <2>2 DEF Records, Places, Stat, File, DirOf
<1>8. CASE at = 5
  <2>1. Look[1] = "inspect" /\ Look[2] = "." BY <1>2, <1>8, WalkIs
  <2>2. seen' = seen /\ hold' = hold BY <1>1, <2>1 DEF Advance, Agrees, Noted
  <2> QED BY <1>1, <1>3, <1>8, <2>2 DEF Records, Places, Stat, File, DirOf
<1>9. CASE at = 6
  <2>1. Look[1] = "enter" /\ Look[2] = "sub" BY <1>2, <1>9, WalkIs
  <2>2. seen' = seen /\ hold' = sub /\ Stat(sub) = seen.sub BY <1>1, <2>1 DEF Advance, Agrees, Noted
  <2> QED BY <1>1, <1>3, <1>9, <2>2 DEF Records, Places, Stat, File, DirOf
<1>10. CASE at = 7
  <2>1. Look[1] = "stat" /\ Look[2] = "sub" BY <1>2, <1>10, WalkIs
  <2>2. seen' = [seen EXCEPT !.dir["sub"] = Stat(DirOf("sub"))] /\ hold' = hold BY <1>1, <2>1 DEF Advance, Agrees, Noted
  <2> QED BY <1>1, <1>3, <1>10, <2>2 DEF Records, Places, Stat, File, DirOf
<1>11. CASE at = 8
  <2>1. Look[1] = "entry" /\ Look[2] = "sub" BY <1>2, <1>11, WalkIs
  <2>2. seen' = [seen EXCEPT !.entry["sub"] = File("sub")] /\ hold' = hold BY <1>1, <2>1 DEF Advance, Agrees, Noted
  <2> QED BY <1>1, <1>3, <1>11, <2>2 DEF Records, Places, Stat, File, DirOf
<1>12. CASE at = 9
  <2>1. Look[1] = "inspect" /\ Look[2] = "sub" BY <1>2, <1>12, WalkIs
  <2>2. seen' = seen /\ hold' = hold BY <1>1, <2>1 DEF Advance, Agrees, Noted
  <2> QED BY <1>1, <1>3, <1>12, <2>2 DEF Records, Places, Stat, File, DirOf
<1>13. CASE at = 10
  <2>1. Look[1] = "restat" /\ Look[2] = "sub" BY <1>2, <1>13, WalkIs
  <2>2. seen' = seen /\ hold' = hold BY <1>1, <2>1 DEF Advance, Agrees, Noted
  <2> QED BY <1>1, <1>3, <1>13, <2>2 DEF Records, Places, Stat, File, DirOf
<1>14. CASE at = 11
  <2>1. Look[1] = "restat" /\ Look[2] = "." BY <1>2, <1>14, WalkIs
  <2>2. seen' = seen /\ hold' = hold BY <1>1, <2>1 DEF Advance, Agrees, Noted
  <2> QED BY <1>1, <1>3, <1>14, <2>2 DEF Records, Places, Stat, File, DirOf
<1>15. CASE at = 12
  <2>1. Look[1] = "open" /\ Look[2] = "." BY <1>2, <1>15, WalkIs
  <2>2. seen' = seen /\ hold' = hold BY <1>1, <2>1 DEF Advance, Agrees, Noted
  <2> QED BY <1>1, <1>3, <1>15, <2>2 DEF Records, Places, Stat, File, DirOf
<1>16. CASE at = 13
  <2>1. Look[1] = "read" /\ Look[2] = "." BY <1>2, <1>16, WalkIs
  <2>2. seen' = [seen EXCEPT !.bytes["."] = IF Absent(".") THEN Nothing ELSE File(".").what] /\ hold' = hold BY <1>1, <2>1 DEF Advance, Agrees, Noted
  <2> QED BY <1>1, <1>3, <1>16, <2>2 DEF Records, Places, Stat, File, DirOf
<1>17. CASE at = 14
  <2>1. Look[1] = "verify" /\ Look[2] = "." BY <1>2, <1>17, WalkIs
  <2>2. seen' = seen /\ hold' = hold /\ (Absent(".") \/ File(".") = seen.entry["."]) BY <1>1, <2>1 DEF Advance, Agrees, Noted
  <2> QED BY <1>1, <1>3, <1>17, <2>2 DEF Records, Places, Stat, File, DirOf
<1>18. CASE at = 15
  <2>1. Look[1] = "reach" /\ Look[2] = "sub" BY <1>2, <1>18, WalkIs
  <2>2. seen' = seen /\ hold' = sub BY <1>1, <2>1 DEF Advance, Agrees, Noted
  <2> QED BY <1>1, <1>3, <1>18, <2>2 DEF Records, Places, Stat, File, DirOf
<1>19. CASE at = 16
  <2>1. Look[1] = "open" /\ Look[2] = "sub" BY <1>2, <1>19, WalkIs
  <2>2. seen' = seen /\ hold' = hold BY <1>1, <2>1 DEF Advance, Agrees, Noted
  <2> QED BY <1>1, <1>3, <1>19, <2>2 DEF Records, Places, Stat, File, DirOf
<1>20. CASE at = 17
  <2>1. Look[1] = "read" /\ Look[2] = "sub" BY <1>2, <1>20, WalkIs
  <2>2. seen' = [seen EXCEPT !.bytes["sub"] = IF Absent("sub") THEN Nothing ELSE File("sub").what] /\ hold' = hold BY <1>1, <2>1 DEF Advance, Agrees, Noted
  <2> QED BY <1>1, <1>3, <1>20, <2>2 DEF Records, Places, Stat, File, DirOf
<1>21. CASE at = 18
  <2>1. Look[1] = "verify" /\ Look[2] = "sub" BY <1>2, <1>21, WalkIs
  <2>2. seen' = seen /\ hold' = hold /\ (Absent("sub") \/ File("sub") = seen.entry["sub"]) BY <1>1, <2>1 DEF Advance, Agrees, Noted
  <2> QED BY <1>1, <1>3, <1>21, <2>2 DEF Records, Places, Stat, File, DirOf
<1>22. CASE at = 19
  <2>1. Look[1] = "remap" /\ Look[2] = "." BY <1>2, <1>22, WalkIs
  <2>2. seen' = seen /\ hold' = hold BY <1>1, <2>1 DEF Advance, Agrees, Noted
  <2> QED BY <1>1, <1>3, <1>22, <2>2 DEF Records, Places, Stat, File, DirOf
<1> HIDE DEF WalkInv
<1> QED BY <1>2, <1>4, <1>5, <1>6, <1>7, <1>8, <1>9, <1>10, <1>11, <1>12, <1>13, <1>14, <1>15, <1>16, <1>17, <1>18, <1>19, <1>20, <1>21, <1>22

\* What each look of the check finds is what CheckInv says of the next position.
LEMMA CheckLooksKeep ==
    ASSUME SInv, NEW e \in Executes, CheckLooks(e)
    PROVE  seen' = seen /\ CheckInv' /\ CheckIsAMoment'
<1>1. /\ scanner = e /\ Scanning /\ Advance /\ moment' = (IF at = 1 THEN View ELSE moment)
      /\ tree' = tree /\ sub' = sub /\ map' = map /\ changes' = changes /\ scanner' = scanner /\ at' = at + 1
      /\ exec' = exec /\ lock' = lock
      BY DEF CheckLooks, Advance, directory
<1>2. at \in 1..17 /\ Look = Check[at] BY <1>1, LookIs, SnapshotAssumption DEF SInv
<1>3. Whole BY <1>1 DEF SInv, Stands, Checking
<1>4. /\ seen.dir["."] \in {"root"} \X (0..changes) /\ seen.sub \in {"s1", "s2"} \X (0..changes)
      /\ seen.entry["."] \in [stamp : {"root"} \X (0..changes), what : Whats]
      /\ seen.entry["sub"] \in [stamp : {seen.sub[1]} \X (0..changes), what : Whats]
      BY <1>3 DEF Whole, SeenRoot, SeenSub, SeenEntry, OfDirectory
<1>5. /\ hold \in {"s1", "s2"} /\ sub \in {"s1", "s2"} /\ changes \in Nat
      /\ \A d \in {"root", "s1", "s2"} :
            tree[d].stamp \in 0..changes /\ tree[d].file \in [stamp : {d} \X (0..changes), what : Whats]
      BY SnapshotAssumption DEF SInv, STypeOK, Stamped, OfDirectory, Dirs
<1>6. /\ at >= 2 => moment \in [map : {seen.map}, root : Whats, sub : Whats]
      /\ at >= 2 /\ tree["root"].file = seen.entry["."] => moment.root = seen.entry["."].what
      /\ at \in 2..6 /\ Stat("root") = seen.dir["."] /\ tree[sub].file = seen.entry["sub"] =>
            moment.sub = seen.entry["sub"].what
      /\ at = 6 /\ Stat("root") = seen.dir["."] => sub = seen.sub[1]
      /\ at >= 7 /\ tree[seen.sub[1]].file = seen.entry["sub"] => moment.sub = seen.entry["sub"].what
      /\ at >= 5 => moment.root = seen.entry["."].what
      /\ at >= 10 => moment.sub = seen.entry["sub"].what
      BY <1>1 DEF SInv, CheckInv
<1>7. seen' = seen /\ CheckInv'
  <2>1. CASE at = 1
    <3>1. Look[1] = "remap" /\ Look[2] = "." BY <1>2, <2>1, CheckIs
    <3>2. seen' = seen /\ moment' = View /\ map = seen.map BY <1>1, <2>1, <3>1 DEF Advance, Agrees, Noted
    <3> QED BY <1>1, <1>4, <1>5, <1>6, <2>1, <3>2 DEF CheckInv, Stat, File, DirOf, View
  <2>2. CASE at = 2
    <3>1. Look[1] = "named" /\ Look[2] = "." BY <1>2, <2>2, CheckIs
    <3>2. seen' = seen /\ moment' = moment BY <1>1, <2>2, <3>1 DEF Advance, Agrees, Noted
    <3> QED BY <1>1, <1>4, <1>5, <1>6, <2>2, <3>2 DEF CheckInv, Stat, File, DirOf
  <2>3. CASE at = 3
    <3>1. Look[1] = "restat" /\ Look[2] = "." BY <1>2, <2>3, CheckIs
    <3>2. seen' = seen /\ moment' = moment /\ Stat(DirOf(".")) = seen.dir["."] BY <1>1, <2>3, <3>1 DEF Advance, Agrees, Noted
    <3> QED BY <1>1, <1>4, <1>5, <1>6, <2>3, <3>2 DEF CheckInv, Stat, File, DirOf
  <2>4. CASE at = 4
    <3>1. Look[1] = "reentry" /\ Look[2] = "." BY <1>2, <2>4, CheckIs
    <3>2. seen' = seen /\ moment' = moment /\ File(".") = seen.entry["."] BY <1>1, <2>4, <3>1 DEF Advance, Agrees, Noted
    <3> QED BY <1>1, <1>4, <1>5, <1>6, <2>4, <3>2 DEF CheckInv, Stat, File, DirOf
  <2>5. CASE at = 5
    <3>1. Look[1] = "resubentry" /\ Look[2] = "." BY <1>2, <2>5, CheckIs
    <3>2. seen' = seen /\ moment' = moment /\ Stat(sub) = seen.sub BY <1>1, <2>5, <3>1 DEF Advance, Agrees, Noted
    <3> QED BY <1>1, <1>4, <1>5, <1>6, <2>5, <3>2 DEF CheckInv, Stat, File, DirOf
  <2>6. CASE at = 6
    <3>1. Look[1] = "restat" /\ Look[2] = "." BY <1>2, <2>6, CheckIs
    <3>2. seen' = seen /\ moment' = moment /\ Stat(DirOf(".")) = seen.dir["."] BY <1>1, <2>6, <3>1 DEF Advance, Agrees, Noted
    <3> QED BY <1>1, <1>4, <1>5, <1>6, <2>6, <3>2 DEF CheckInv, Stat, File, DirOf
  <2>7. CASE at = 7
    <3>1. Look[1] = "reach" /\ Look[2] = "sub" BY <1>2, <2>7, CheckIs
    <3>2. seen' = seen /\ moment' = moment BY <1>1, <2>7, <3>1 DEF Advance, Agrees, Noted
    <3> QED BY <1>1, <1>4, <1>5, <1>6, <2>7, <3>2 DEF CheckInv, Stat, File, DirOf
  <2>8. CASE at = 8
    <3>1. Look[1] = "restat" /\ Look[2] = "sub" BY <1>2, <2>8, CheckIs
    <3>2. seen' = seen /\ moment' = moment /\ Stat(DirOf("sub")) = seen.dir["sub"] BY <1>1, <2>8, <3>1 DEF Advance, Agrees, Noted
    <3> QED BY <1>1, <1>4, <1>5, <1>6, <2>8, <3>2 DEF CheckInv, Stat, File, DirOf
  <2>9. CASE at = 9
    <3>1. Look[1] = "reentry" /\ Look[2] = "sub" BY <1>2, <2>9, CheckIs
    <3>2. seen' = seen /\ moment' = moment /\ File("sub") = seen.entry["sub"] BY <1>1, <2>9, <3>1 DEF Advance, Agrees, Noted
    <3> QED BY <1>1, <1>4, <1>5, <1>6, <2>9, <3>2 DEF CheckInv, Stat, File, DirOf
  <2>10. CASE at = 10
    <3>1. Look[1] = "restat" /\ Look[2] = "sub" BY <1>2, <2>10, CheckIs
    <3>2. seen' = seen /\ moment' = moment /\ Stat(DirOf("sub")) = seen.dir["sub"] BY <1>1, <2>10, <3>1 DEF Advance, Agrees, Noted
    <3> QED BY <1>1, <1>4, <1>5, <1>6, <2>10, <3>2 DEF CheckInv, Stat, File, DirOf
  <2>11. CASE at = 11
    <3>1. Look[1] = "open" /\ Look[2] = "." BY <1>2, <2>11, CheckIs
    <3>2. seen' = seen /\ moment' = moment BY <1>1, <2>11, <3>1 DEF Advance, Agrees, Noted
    <3> QED BY <1>1, <1>4, <1>5, <1>6, <2>11, <3>2 DEF CheckInv, Stat, File, DirOf
  <2>12. CASE at = 12
    <3>1. Look[1] = "reread" /\ Look[2] = "." BY <1>2, <2>12, CheckIs
    <3>2. seen' = seen /\ moment' = moment BY <1>1, <2>12, <3>1 DEF Advance, Agrees, Noted
    <3> QED BY <1>1, <1>4, <1>5, <1>6, <2>12, <3>2 DEF CheckInv, Stat, File, DirOf
  <2>13. CASE at = 13
    <3>1. Look[1] = "verify" /\ Look[2] = "." BY <1>2, <2>13, CheckIs
    <3>2. seen' = seen /\ moment' = moment BY <1>1, <2>13, <3>1 DEF Advance, Agrees, Noted
    <3> QED BY <1>1, <1>4, <1>5, <1>6, <2>13, <3>2 DEF CheckInv, Stat, File, DirOf
  <2>14. CASE at = 14
    <3>1. Look[1] = "reach" /\ Look[2] = "sub" BY <1>2, <2>14, CheckIs
    <3>2. seen' = seen /\ moment' = moment BY <1>1, <2>14, <3>1 DEF Advance, Agrees, Noted
    <3> QED BY <1>1, <1>4, <1>5, <1>6, <2>14, <3>2 DEF CheckInv, Stat, File, DirOf
  <2>15. CASE at = 15
    <3>1. Look[1] = "open" /\ Look[2] = "sub" BY <1>2, <2>15, CheckIs
    <3>2. seen' = seen /\ moment' = moment BY <1>1, <2>15, <3>1 DEF Advance, Agrees, Noted
    <3> QED BY <1>1, <1>4, <1>5, <1>6, <2>15, <3>2 DEF CheckInv, Stat, File, DirOf
  <2>16. CASE at = 16
    <3>1. Look[1] = "reread" /\ Look[2] = "sub" BY <1>2, <2>16, CheckIs
    <3>2. seen' = seen /\ moment' = moment BY <1>1, <2>16, <3>1 DEF Advance, Agrees, Noted
    <3> QED BY <1>1, <1>4, <1>5, <1>6, <2>16, <3>2 DEF CheckInv, Stat, File, DirOf
  <2>17. CASE at = 17
    <3>1. Look[1] = "verify" /\ Look[2] = "sub" BY <1>2, <2>17, CheckIs
    <3>2. seen' = seen /\ moment' = moment BY <1>1, <2>17, <3>1 DEF Advance, Agrees, Noted
    <3> QED BY <1>1, <1>4, <1>5, <1>6, <2>17, <3>2 DEF CheckInv, Stat, File, DirOf
  <2> QED BY <1>2, <2>1, <2>2, <2>3, <2>4, <2>5, <2>6, <2>7, <2>8, <2>9, <2>10, <2>11, <2>12, <2>13, <2>14, <2>15, <2>16, <2>17
<1>8. CheckIsAMoment'
  <2>1. exec[e] \in Checking /\ lock = e BY <1>1 DEF SInv, Stands, Holding
  <2>2. \A f \in Executes : exec[f] \notin {"staging", "window", "promoting"}
        BY <2>1 DEF SInv, Stands, Holding, Checking
  <2> QED BY <1>1, <2>2 DEF CheckIsAMoment
<1> QED BY <1>7, <1>8

\* Nothing of the program happens while somebody else's check or stage stands
\* between its looks: the steps that are not looks keep what the looks found.
Noticed == plan = "ready" \/ (\E e \in Executes : exec[e] \notin {"idle", "refused"}) => Whole

\* A step that neither edits nor looks keeps what was found to hold.
LEMMA Unlooked ==
    ASSUME SInv, UNCHANGED <<tree, sub, changes, seen>>
    PROVE  /\ Stamped' /\ (Whole => Whole')
           /\ scanner' = scanner /\ at' = at /\ hold' = hold => WalkInv'
           /\ scanner' = scanner /\ at' = at /\ moment' = moment => CheckInv'
<1>1. Stamped' /\ (Whole => Whole') BY DEF SInv, Stamped, OfDirectory, Whole, SeenRoot, SeenSub, SeenEntry, BytesAre
<1>2. scanner' = scanner /\ at' = at /\ hold' = hold => WalkInv'
      BY DEF SInv, WalkInv, SeenRoot, SeenSub, SeenEntry, BytesAre, ReadFrom, OfDirectory, Absent
<1>3. scanner' = scanner /\ at' = at /\ moment' = moment => CheckInv' BY DEF SInv, CheckInv, Stat
<1> QED BY <1>1, <1>2, <1>3

\* The steps of planning that are not looks.
LEMMA PlanSteps ==
    ASSUME SInv, PlanImport \/ PlanFails \/ (\E dryRun \in BOOLEAN : PlanIsMade(dryRun)) \/ Dispose
    PROVE  Stamped' /\ Stands' /\ Noticed' /\ WalkInv' /\ CheckInv' /\ CheckIsAMoment'
<1>1. UNCHANGED <<tree, sub, changes, seen, exec, lock, moment>>
      BY DEF PlanImport, PlanFails, PlanIsMade, Dispose, ScanEnds, directory, scan, transaction
<1>2. Stamped' /\ (Whole => Whole') BY <1>1, Unlooked
<1>3. CheckIsAMoment' BY <1>1 DEF SInv, CheckIsAMoment, SnapshotView
<1>4. Stands /\ Noticed BY DEF SInv, Noticed
<1>5. "plan" \notin Executes /\ Nothing \notin Executes /\ Nothing # "plan" BY SnapshotAssumption
<1>6. CASE PlanImport
  <2>1. scanner' = "plan" /\ at' = 1 /\ plan' = "scanning" /\ plan = "none" BY <1>6 DEF PlanImport
  <2>2. WalkInv' /\ CheckInv' BY <2>1, <1>5 DEF WalkInv, CheckInv
  <2>3. Stands' BY <1>1, <1>4, <1>5, <2>1 DEF Stands
  <2>4. Noticed' BY <1>1, <1>4, <2>1 DEF Noticed, Stands
  <2> QED BY <1>2, <1>3, <2>2, <2>3, <2>4
<1>7. CASE PlanFails
  <2>1. scanner = "plan" /\ scanner' = Nothing /\ plan' = "failed" BY <1>7 DEF PlanFails, ScanEnds
  <2>2. WalkInv' /\ CheckInv' BY <2>1, <1>5 DEF WalkInv, CheckInv
  <2>3. Stands' BY <1>1, <1>4, <1>5, <2>1 DEF Stands
  <2>4. Noticed' BY <1>1, <1>4, <2>1 DEF Noticed, Stands
  <2> QED BY <1>2, <1>3, <2>2, <2>3, <2>4
<1>8. ASSUME NEW dryRun \in BOOLEAN, PlanIsMade(dryRun)
      PROVE  Stamped' /\ Stands' /\ Noticed' /\ WalkInv' /\ CheckInv' /\ CheckIsAMoment'
  <2>1. scanner = "plan" /\ scanner' = Nothing /\ plan' \in {"disposed", "ready"} /\ ~Scanning BY <1>8 DEF PlanIsMade, ScanEnds
  <2>2. WalkInv' /\ CheckInv' BY <2>1, <1>5 DEF WalkInv, CheckInv
  <2>3. Stands' BY <1>1, <1>4, <1>5, <2>1 DEF Stands
  <2>4. at = 20
    <3>1. at \in 1..20 BY WalkIs DEF SInv, STypeOK
    <3>2. Looks = Walk /\ Len(Looks) = 19 BY <2>1, WalkIs DEF Looks
    <3> QED BY <2>1, <3>1, <3>2, <1>5 DEF Scanning
  <2>5. Whole BY <2>1, <2>4 DEF SInv, WalkInv, Whole
  <2> QED BY <1>2, <1>3, <2>2, <2>3, <2>5 DEF Noticed
<1>9. CASE Dispose
  <2>1. UNCHANGED <<scanner, at, hold>> /\ plan = "ready" /\ plan' = "disposed" BY <1>9 DEF Dispose, scan
  <2>2. WalkInv' /\ CheckInv' BY <1>1, <2>1, Unlooked
  <2>3. Stands' BY <1>1, <1>4, <1>5, <2>1 DEF Stands
  <2>4. Noticed' BY <1>1, <1>2, <1>4, <2>1 DEF Noticed
  <2> QED BY <1>2, <1>3, <2>2, <2>3, <2>4
<1> QED BY <1>6, <1>7, <1>8, <1>9

\* The steps of an execution that are not looks.
LEMMA ExecuteSteps ==
    ASSUME SInv, NEW e \in Executes,
           Execute(e) \/ TakeLock(e) \/ Fail(e) \/ BeginCheck(e) \/ CheckPasses(e) \/ WriteStage(e)
           \/ OpenWindow(e) \/ Promote(e) \/ ReleaseLock(e) \/ Finish(e)
    PROVE  Stamped' /\ Stands' /\ Noticed' /\ WalkInv' /\ CheckInv' /\ CheckIsAMoment'
<1> USE DEF Execute, TakeLock, Fail, BeginCheck, CheckPasses, WriteStage, OpenWindow, Promote, ReleaseLock, Finish
<1>1. UNCHANGED <<tree, sub, changes, seen>> BY DEF ScanEnds, directory, scan
<1>2. Stamped' /\ (Whole => Whole') /\ SnapshotView' = SnapshotView BY <1>1, Unlooked DEF SnapshotView
<1>3. /\ "plan" \notin Executes /\ Nothing \notin Executes /\ Nothing # "plan"
      /\ exec \in [Executes -> Live \cup {"idle", "refused", "done"}]
      /\ lock \in Executes \cup {Nothing} /\ scanner \in Executes \cup {"plan", Nothing}
      BY SnapshotAssumption DEF SInv, STypeOK
<1>4. Stands /\ Noticed /\ CheckIsAMoment BY DEF SInv, Noticed
<1>7. ASSUME Execute(e) PROVE Stands' /\ Noticed' /\ WalkInv' /\ CheckInv' /\ CheckIsAMoment'
  <2>1. Stands' BY <1>3, <1>4, <1>7 DEF Stands, Holding, Checking, Live, AfterCheck, ScanEnds, scan, transaction
  <2>2. Noticed' BY <1>2, <1>3, <1>4, <1>7 DEF Noticed, Stands, Checking, Live
  <2>3. CheckIsAMoment' BY <1>2, <1>3, <1>4, <1>7 DEF CheckIsAMoment, Stands, Holding, Checking, Live, transaction
  <2>4. WalkInv' /\ CheckInv' BY <1>1, <1>7, Unlooked DEF scan, transaction
  <2> QED BY <2>1, <2>2, <2>3, <2>4
<1>8. ASSUME TakeLock(e) PROVE Stands' /\ Noticed' /\ WalkInv' /\ CheckInv' /\ CheckIsAMoment'
  <2>1. Stands' BY <1>3, <1>4, <1>8 DEF Stands, Holding, Checking, Live, AfterCheck, ScanEnds, scan, transaction
  <2>2. Noticed' BY <1>2, <1>3, <1>4, <1>8 DEF Noticed, Stands, Checking, Live
  <2>3. CheckIsAMoment' BY <1>2, <1>3, <1>4, <1>8 DEF CheckIsAMoment, Stands, Holding, Checking, Live, transaction
  <2>4. WalkInv' /\ CheckInv' BY <1>1, <1>8, Unlooked DEF scan, transaction
  <2> QED BY <2>1, <2>2, <2>3, <2>4
<1>9. ASSUME Fail(e) PROVE Stands' /\ Noticed' /\ WalkInv' /\ CheckInv' /\ CheckIsAMoment'
  <2>1. Stands' BY <1>3, <1>4, <1>9 DEF Stands, Holding, Checking, Live, AfterCheck, ScanEnds, scan, transaction
  <2>2. Noticed' BY <1>2, <1>3, <1>4, <1>9 DEF Noticed, Stands, Checking, Live
  <2>3. CheckIsAMoment' BY <1>2, <1>3, <1>4, <1>9 DEF CheckIsAMoment, Stands, Holding, Checking, Live, transaction
  <2>4. WalkInv' /\ CheckInv'
    <3>1. CASE scanner = e BY <1>3, <1>9, <3>1 DEF WalkInv, CheckInv, ScanEnds
    <3>2. CASE scanner # e BY <1>1, <1>9, <3>2, Unlooked DEF scan
    <3> QED BY <3>1, <3>2
  <2> QED BY <2>1, <2>2, <2>3, <2>4
<1>10. ASSUME BeginCheck(e) PROVE Stands' /\ Noticed' /\ WalkInv' /\ CheckInv' /\ CheckIsAMoment'
  <2>1. Stands' BY <1>3, <1>4, <1>10 DEF Stands, Holding, Checking, Live, AfterCheck, ScanEnds, scan, transaction
  <2>2. Noticed' BY <1>2, <1>3, <1>4, <1>10 DEF Noticed, Stands, Checking, Live
  <2>3. CheckIsAMoment' BY <1>2, <1>3, <1>4, <1>10 DEF CheckIsAMoment, Stands, Holding, Checking, Live, transaction
  <2>4. WalkInv' /\ CheckInv' BY <1>3, <1>10 DEF WalkInv, CheckInv
  <2> QED BY <2>1, <2>2, <2>3, <2>4
<1>11. ASSUME CheckPasses(e) PROVE Stands' /\ Noticed' /\ WalkInv' /\ CheckInv' /\ CheckIsAMoment'
  <2>1. Stands' BY <1>3, <1>4, <1>11 DEF Stands, Holding, Checking, Live, AfterCheck, ScanEnds, scan, transaction
  <2>2. Noticed' BY <1>2, <1>3, <1>4, <1>11 DEF Noticed, Stands, Checking, Live
  <2>3. CheckIsAMoment'
    <3>1. scanner = e /\ ~Scanning /\ moment' = moment BY <1>11
    <3>2. at \in 1..20 /\ Looks = Check /\ Len(Looks) = 17
          BY <3>1, <1>3, WalkIs, CheckIs DEF SInv, STypeOK, Looks
    <3>3. at > 17 BY <3>1, <3>2, <1>3 DEF Scanning
    <3>4. moment \in [map : {seen.map}, root : Whats, sub : Whats]
          /\ moment.root = seen.entry["."].what /\ moment.sub = seen.entry["sub"].what
          BY <3>1, <3>2, <3>3 DEF SInv, CheckInv
    <3>5. Whole BY <3>1, <1>4 DEF Noticed, Stands, Checking
    <3>6. moment = SnapshotView BY <3>4, <3>5 DEF Whole, BytesAre, SnapshotView
    <3> QED BY <1>2, <3>1, <3>6 DEF CheckIsAMoment
  <2>4. WalkInv' /\ CheckInv' BY <1>3, <1>11 DEF WalkInv, CheckInv, ScanEnds
  <2> QED BY <2>1, <2>2, <2>3, <2>4
<1>12. ASSUME WriteStage(e) PROVE Stands' /\ Noticed' /\ WalkInv' /\ CheckInv' /\ CheckIsAMoment'
  <2>1. Stands' BY <1>3, <1>4, <1>12 DEF Stands, Holding, Checking, Live, AfterCheck, ScanEnds, scan, transaction
  <2>2. Noticed' BY <1>2, <1>3, <1>4, <1>12 DEF Noticed, Stands, Checking, Live
  <2>3. CheckIsAMoment' BY <1>2, <1>3, <1>4, <1>12 DEF CheckIsAMoment, Stands, Holding, Checking, Live, transaction
  <2>4. scanner \notin Executes /\ UNCHANGED <<scanner, at, hold>>
        BY <1>3, <1>4, <1>12 DEF Stands, Holding, Checking, scan
  <2>5. WalkInv' /\ CheckInv' BY <1>1, <2>4, Unlooked DEF CheckInv
  <2> QED BY <2>1, <2>2, <2>3, <2>5
<1>13. ASSUME OpenWindow(e) PROVE Stands' /\ Noticed' /\ WalkInv' /\ CheckInv' /\ CheckIsAMoment'
  <2>1. Stands' BY <1>3, <1>4, <1>13 DEF Stands, Holding, Checking, Live, AfterCheck, ScanEnds, scan, transaction
  <2>2. Noticed' BY <1>2, <1>3, <1>4, <1>13 DEF Noticed, Stands, Checking, Live
  <2>3. CheckIsAMoment' BY <1>2, <1>3, <1>4, <1>13 DEF CheckIsAMoment, Stands, Holding, Checking, Live, transaction
  <2>4. scanner \notin Executes /\ UNCHANGED <<scanner, at, hold>>
        BY <1>3, <1>4, <1>13 DEF Stands, Holding, Checking, scan
  <2>5. WalkInv' /\ CheckInv' BY <1>1, <2>4, Unlooked DEF CheckInv
  <2> QED BY <2>1, <2>2, <2>3, <2>5
<1>14. ASSUME Promote(e) PROVE Stands' /\ Noticed' /\ WalkInv' /\ CheckInv' /\ CheckIsAMoment'
  <2>1. Stands' BY <1>3, <1>4, <1>14 DEF Stands, Holding, Checking, Live, AfterCheck, ScanEnds, scan, transaction
  <2>2. Noticed' BY <1>2, <1>3, <1>4, <1>14 DEF Noticed, Stands, Checking, Live
  <2>3. CheckIsAMoment' BY <1>2, <1>3, <1>4, <1>14 DEF CheckIsAMoment, Stands, Holding, Checking, Live, transaction
  <2>4. WalkInv' /\ CheckInv' BY <1>1, <1>14, Unlooked DEF scan, transaction
  <2> QED BY <2>1, <2>2, <2>3, <2>4
<1>15. ASSUME ReleaseLock(e) PROVE Stands' /\ Noticed' /\ WalkInv' /\ CheckInv' /\ CheckIsAMoment'
  <2>1. Stands' BY <1>3, <1>4, <1>15 DEF Stands, Holding, Checking, Live, AfterCheck, ScanEnds, scan, transaction
  <2>2. Noticed' BY <1>2, <1>3, <1>4, <1>15 DEF Noticed, Stands, Checking, Live
  <2>3. CheckIsAMoment' BY <1>2, <1>3, <1>4, <1>15 DEF CheckIsAMoment, Stands, Holding, Checking, Live, transaction
  <2>4. WalkInv' /\ CheckInv' BY <1>1, <1>15, Unlooked DEF scan, transaction
  <2> QED BY <2>1, <2>2, <2>3, <2>4
<1>16. ASSUME Finish(e) PROVE Stands' /\ Noticed' /\ WalkInv' /\ CheckInv' /\ CheckIsAMoment'
  <2>1. Stands' BY <1>3, <1>4, <1>16 DEF Stands, Holding, Checking, Live, AfterCheck, ScanEnds, scan, transaction
  <2>2. Noticed' BY <1>2, <1>3, <1>4, <1>16 DEF Noticed, Stands, Checking, Live
  <2>3. CheckIsAMoment' BY <1>2, <1>3, <1>4, <1>16 DEF CheckIsAMoment, Stands, Holding, Checking, Live, transaction
  <2>4. WalkInv' /\ CheckInv' BY <1>1, <1>16, Unlooked DEF scan, transaction
  <2> QED BY <2>1, <2>2, <2>3, <2>4
<1> QED BY <1>2, <1>7, <1>8, <1>9, <1>10, <1>11, <1>12, <1>13, <1>14, <1>15, <1>16

\* The inductive invariant of the snapshots holds throughout.
LEMMA SnapshotInvariance == SSpec => []SInv
<1>1. SInit => SInv
  <2> SUFFICES ASSUME SInit PROVE SInv OBVIOUS
  <2>1. STypeOK
    <3>1. PICK what \in [Dirs -> Contents \cup {Nothing}] :
             tree = [d \in Dirs |-> [stamp |-> 0, file |-> [stamp |-> <<d, 0>>, what |-> what[d]]]]
          BY DEF SInit
    <3>2. \A d \in Dirs : what[d] \in Whats BY DEF Whats
    <3>3. 0 \in 0..MaxChanges BY SnapshotAssumption
    <3>4. \A d \in Dirs : [stamp |-> 0, file |-> [stamp |-> <<d, 0>>, what |-> what[d]]]
                       \in [stamp : 0..MaxChanges, file : [stamp : Dirs \X (0..MaxChanges), what : Whats]]
          BY <3>2, <3>3
    <3>5. tree \in [Dirs -> [stamp : 0..MaxChanges, file : [stamp : Dirs \X (0..MaxChanges), what : Whats]]]
          BY <3>1, <3>4
    <3>6. seen \in Records
      <4>1. [p \in Places |-> Nothing] \in [Places -> {Nothing} \cup (Dirs \X (0..MaxChanges))]
            /\ [p \in Places |-> Nothing] \in [Places -> {Nothing} \cup [stamp : Dirs \X (0..MaxChanges), what : Whats]]
            /\ [p \in Places |-> Nothing] \in [Places -> Whats] BY DEF Whats
      <4> QED BY <4>1 DEF SInit, Records
    <3>7. exec \in [Executes -> Live \cup {"idle", "refused", "done"}] BY DEF SInit
    <3> QED BY <3>3, <3>5, <3>6, <3>7, WalkIs DEF SInit, STypeOK
  <2>2. Stamped BY DEF SInit, Stamped, OfDirectory, Whats
  <2>3. Stands /\ Noticed BY SnapshotAssumption DEF SInit, Stands, Noticed, Holding, Checking
  <2>4. WalkInv /\ CheckInv /\ CheckIsAMoment BY SnapshotAssumption DEF SInit, WalkInv, CheckInv, CheckIsAMoment
  <2> QED BY <2>1, <2>2, <2>3, <2>4 DEF SInv, Noticed
<1>2. SInv /\ [SNext]_svars => SInv'
  <2> SUFFICES ASSUME SInv, [SNext]_svars PROVE SInv' OBVIOUS
  <2>1. STypeOK' BY NextTyped DEF SInv
  <2>2. Stamped' /\ Stands' /\ Noticed' /\ WalkInv' /\ CheckInv' /\ CheckIsAMoment'
    <3>1. CASE UNCHANGED svars
      <4>1. UNCHANGED <<tree, sub, changes, seen, scanner, at, hold, moment, plan, exec, lock>>
            BY <3>1 DEF svars, directory, scan, transaction
      <4>2. Stamped' /\ (Whole => Whole') /\ WalkInv' /\ CheckInv' BY <4>1, Unlooked
      <4> QED BY <4>1, <4>2 DEF SInv, Stands, Noticed, CheckIsAMoment, SnapshotView
    <3>2. CASE Editor
      <4>1. UNCHANGED <<plan, exec>> BY <3>2 DEF Editor, transaction
      <4> QED BY <3>2, <4>1, EditorKeeps DEF SInv, Noticed
    <3>3. CASE PlanImport \/ PlanFails \/ (\E dryRun \in BOOLEAN : PlanIsMade(dryRun)) \/ Dispose
          BY <3>3, PlanSteps
    <3>4. CASE PlanLooks
      <4>1. UNCHANGED <<tree, changes, plan, exec, lock, scanner, moment, imported>> /\ scanner = "plan"
            BY <3>4 DEF PlanLooks, Advance, directory, transaction
      <4>2. Stamped' /\ Stands' BY <4>1 DEF SInv, Stamped, OfDirectory, Stands
      <4>3. plan = "scanning" /\ \A e \in Executes : exec[e] = "idle" BY <4>1 DEF SInv, Stands
      <4>4. Noticed' /\ CheckIsAMoment' BY <4>1, <4>3 DEF Noticed, CheckIsAMoment
      <4>5. CheckInv' BY <4>1, SnapshotAssumption DEF CheckInv
      <4> QED BY <3>4, <4>2, <4>4, <4>5, PlanLooksKeeps
    <3>5. ASSUME NEW e \in Executes, CheckLooks(e)
          PROVE  Stamped' /\ Stands' /\ Noticed' /\ WalkInv' /\ CheckInv' /\ CheckIsAMoment'
      <4>1. seen' = seen /\ CheckInv' /\ CheckIsAMoment' BY <3>5, CheckLooksKeep
      <4>2. UNCHANGED <<tree, sub, changes, plan, exec, lock, scanner>> /\ scanner = e
            BY <3>5 DEF CheckLooks, Advance, directory
      <4>3. Stamped' /\ (Whole => Whole') BY <4>1, <4>2, Unlooked
      <4>4. WalkInv' BY <4>2, SnapshotAssumption DEF WalkInv
      <4> QED BY <4>1, <4>2, <4>3, <4>4 DEF SInv, Stands, Noticed
    <3>6. ASSUME NEW e \in Executes,
                 Execute(e) \/ TakeLock(e) \/ Fail(e) \/ BeginCheck(e) \/ CheckPasses(e) \/ WriteStage(e)
                 \/ OpenWindow(e) \/ Promote(e) \/ ReleaseLock(e) \/ Finish(e)
          PROVE  Stamped' /\ Stands' /\ Noticed' /\ WalkInv' /\ CheckInv' /\ CheckIsAMoment'
          BY <3>6, ExecuteSteps
    <3> QED BY <3>1, <3>2, <3>3, <3>4, <3>5, <3>6 DEF SNext, ExecuteStep
  <2> QED BY <2>1, <2>2 DEF SInv, Noticed
<1> QED BY <1>1, <1>2, PTL DEF SSpec

\* However edits fall between the looks of the plan's walk and of the check, a
\* check that passed found what the source held at the moment it began, for any
\* number of edits and of executes.
THEOREM ChecksAreMoments == SSpec => []CheckIsAMoment
<1>1. SInv => CheckIsAMoment BY DEF SInv
<1> QED BY <1>1, SnapshotInvariance, PTL

-----------------------------------------------------------------------------
(* What a consumer project installs from brand packages.                    *)

\* A plan drops nothing that the lock it was made from has, and found at every
\* destination nothing, what it will write, or what that lock put there.  No
\* lock has bytes that a directory might be taken for.
LockedIn(lockFile) == IF lockFile = Unlocked THEN <<>> ELSE lockFile.packages
InstalledIn(lockFile, p) == IF p \in DOMAIN LockedIn(lockFile) THEN LockedIn(lockFile)[p].installed ELSE <<>>

WritesOnItsOwn(p, d) ==
    \/ p.found[d] = Missing
    \/ p.found[d] = p.writes[d] /\ p.found[d] # Unsafe
    \/ /\ p.found[d] # Unsafe
       /\ \E q \in DOMAIN LockedIn(p.was[3]) :
             d \in DOMAIN InstalledIn(p.was[3], q) /\ InstalledIn(p.was[3], q)[d].bytes = p.found[d]

KeepsOwnership(p) ==
    /\ \A q \in DOMAIN LockedIn(p.was[3]) :
          q \in DOMAIN p.next.packages /\ DOMAIN InstalledIn(p.was[3], q) \subseteq DOMAIN p.next.packages[q].installed
    /\ DOMAIN p.writes = DOMAIN p.found
    /\ \A d \in DOMAIN p.writes : WritesOnItsOwn(p, d)

SafeLock(lockFile) ==
    \A q \in DOMAIN LockedIn(lockFile) : \A d \in DOMAIN InstalledIn(lockFile, q) : InstalledIn(lockFile, q)[d].bytes # Unsafe

Owning ==
    /\ SafeLock(brandLock)
    /\ pending # Unlocked => KeepsOwnership(pending) /\ SafeLock(pending.next)

-----------------------------------------------------------------------------
\* A digest of DOMAIN Release is a release's.
LEMMA ReleaseOfDigest ==
    ASSUME NEW d \in DOMAIN Release
    PROVE  Release[d] \in Releases
BY DEF Release

\* What a call resolves to comes from payloads: none of it is Unsafe.
LEMMA ResolvedOutputs ==
    ASSUME NEW call \in Calls, NEW o \in resolveRules(selectedBy(call), givenParameters(call))
    PROVE  /\ \E a \in selectedBy(call) : o.package = Release[a.release].package
           /\ o.holds.bytes # Unsafe
<1>0. PICK a \in selectedBy(call) :
        \E rule \in {x \in Applying(a, givenParameters(call)) : x.source \in DOMAIN Release[a.release].payload} :
          o = [package |-> Release[a.release].package, profile |-> a.profile, rule |-> rule, to |-> rule.to,
               holds |-> [source |-> rule.source, bytes |-> Release[a.release].payload[rule.source]]]
      BY DEF resolveRules
<1>1. PICK rule \in {x \in Applying(a, givenParameters(call)) : x.source \in DOMAIN Release[a.release].payload} :
        o = [package |-> Release[a.release].package, profile |-> a.profile, rule |-> rule, to |-> rule.to,
             holds |-> [source |-> rule.source, bytes |-> Release[a.release].payload[rule.source]]]
      BY <1>0
<1>2. a \in inventory(call.sources) BY DEF selectedBy, resolveProfiles, Named
<1>3. call.sources \in Sources BY DEF Calls, Call
<1>4. a.release \in DOMAIN Release BY <1>2, <1>3 DEF inventory, Sources
<1>5. Release[a.release].payload[rule.source] # Unsafe BY <1>4, ReleaseOfDigest, ReleasesAssumption
<1> QED BY <1>1, <1>5

\* An acceptSourceMap plan writes and removes only what its package owns.
LEMMA PlannedOwns ==
    ASSUME NEW call \in Calls, Accepted(call), SafeLock(brandLock)
    PROVE  KeepsOwnership(planned(call)) /\ SafeLock(planned(call).next)
           /\ planned(call).was[3] = brandLock
           /\ \A d \in DOMAIN planned(call).found : planned(call).found[d] = Lstat(d)
<1> DEFINE selected == selectedBy(call)
           given == givenParameters(call)
           resolved == resolveRules(selected, given)
           outputs == plannedOutputs(call, resolved)
           updated == {a.release : a \in selected}
           packages == PackagesOf(updated)
           p == planned(call)
           To(q) == {o.to : o \in {x \in outputs : x.package = q}}
<1>1. /\ Apart(resolved)
      /\ \A o \in outputs : snapshotFits(call, o)
      /\ PackagesFit(call, packages, outputs)
      BY DEF Accepted
<1>2. \A o \in outputs : o \in resolved /\ o.holds.bytes # Unsafe
      BY ResolvedOutputs DEF plannedOutputs
<1>3. ASSUME NEW d, NEW o \in outputs, o.to = d
      PROVE  (CHOOSE x \in outputs : x.to = d) = o
  <2>1. \A x, y \in outputs : x.to = y.to => x = y BY <1>1, <1>2 DEF Apart, destinationsOverlap
  <2> QED BY <1>3, <2>1
<1>4. /\ p.was[3] = brandLock
      /\ p.next.packages = updatedPackages(selected, given, outputs)
      /\ p.found = [d \in {o.to : o \in outputs} |-> Lstat(d)]
      /\ p.writes = [d \in {o.to : o \in outputs} |-> (CHOOSE o \in outputs : o.to = d).holds.bytes]
      BY DEF planned
<1>5. LockedIn(brandLock) = Locked /\ \A q : InstalledIn(brandLock, q) = Installed(q)
      BY DEF LockedIn, InstalledIn, Locked, Installed
<1> HIDE DEF selected, given, resolved, outputs, p
<1>6. /\ DOMAIN p.next.packages = packages \cup DOMAIN Locked
      /\ \A q \in packages : p.next.packages[q] =
            LockedPackage(CHOOSE r \in updated : Release[r].package = q, selected, given, outputs)
      /\ \A q \in DOMAIN Locked \ packages : p.next.packages[q] = Locked[q]
      BY <1>4 DEF updatedPackages
<1>7. ASSUME NEW q \in packages
      PROVE  /\ DOMAIN p.next.packages[q].installed = To(q)
             /\ \A d \in To(q) : p.next.packages[q].installed[d].bytes # Unsafe
  <2> DEFINE r == CHOOSE x \in updated : Release[x].package = q
  <2>1. Release[r].package = q BY DEF PackagesOf
  <2>2. p.next.packages[q].installed = [d \in To(q) |-> (CHOOSE o \in outputs : o.to = d).holds]
    <3>1. p.next.packages[q] = LockedPackage(r, selected, given, outputs) BY <1>6
    <3> HIDE DEF r
    <3>2. p.next.packages[q].installed = [d \in To(Release[r].package) |-> (CHOOSE o \in outputs : o.to = d).holds]
          BY <3>1 DEF LockedPackage
    <3> HIDE DEF To
    <3> QED BY <2>1, <3>2
  <2>3. ASSUME NEW d \in To(q) PROVE p.next.packages[q].installed[d].bytes # Unsafe
    <3>1. PICK o \in outputs : o.to = d OBVIOUS
    <3>2. p.next.packages[q].installed[d] = o.holds BY <1>3, <2>2, <3>1
    <3> QED BY <1>2, <3>2
  <2> QED BY <2>2, <2>3
<1>8. ASSUME NEW q \in DOMAIN Locked
      PROVE  q \in DOMAIN p.next.packages /\ DOMAIN Installed(q) \subseteq DOMAIN p.next.packages[q].installed
  <2>1. CASE q \notin packages BY <1>6, <2>1 DEF Installed
  <2>2. CASE q \in packages
    <3>1. DOMAIN Installed(q) \subseteq To(q) BY <1>1, <2>2 DEF PackagesFit
    <3> QED BY <1>6, <1>7, <2>2, <3>1
  <2> QED BY <2>1, <2>2
<1>9. ASSUME NEW d \in DOMAIN p.writes
      PROVE  WritesOnItsOwn(p, d)
  <2>1. PICK o \in outputs : o.to = d BY <1>4
  <2>2. p.writes[d] = o.holds.bytes /\ p.found[d] = Lstat(d) BY <1>3, <1>4, <2>1
  <2>3. Lstat(d) = MustHold(call, o) BY <1>1, <2>1 DEF snapshotFits
  <2>4. CASE call.operation = "adopt" BY <1>2, <2>2, <2>3, <2>4 DEF MustHold, WritesOnItsOwn
  <2>5. CASE call.operation = "sync" /\ o.to \in DOMAIN Installed(o.package)
    <3>1. o.package \in DOMAIN Locked BY <2>5 DEF Installed
    <3>2. p.found[d] = Installed(o.package)[d].bytes BY <2>1, <2>2, <2>3, <2>5 DEF MustHold
    <3>3. p.found[d] # Unsafe BY <1>5, <2>1, <2>5, <3>1, <3>2 DEF SafeLock
    <3> QED BY <1>4, <1>5, <2>1, <2>5, <3>1, <3>2, <3>3 DEF WritesOnItsOwn
  <2>6. CASE call.operation # "adopt" /\ ~(call.operation = "sync" /\ o.to \in DOMAIN Installed(o.package))
        BY <2>2, <2>3, <2>6 DEF MustHold, WritesOnItsOwn
  <2> QED BY <2>4, <2>5, <2>6
<1>10. KeepsOwnership(p) BY <1>4, <1>5, <1>8, <1>9 DEF KeepsOwnership
<1>11. SafeLock(p.next)
  <2> SUFFICES ASSUME p.next # Unlocked, NEW q \in DOMAIN p.next.packages,
                      NEW d \in DOMAIN p.next.packages[q].installed
               PROVE  p.next.packages[q].installed[d].bytes # Unsafe
      BY DEF SafeLock, LockedIn, InstalledIn
  <2>1. CASE q \in packages BY <1>7, <2>1
  <2>2. CASE q \notin packages
    <3>1. q \in DOMAIN Locked /\ p.next.packages[q] = Locked[q] BY <1>6, <2>2
    <3> QED BY <1>5, <3>1 DEF SafeLock, Installed
  <2> QED BY <2>1, <2>2
<1>12. \A d \in DOMAIN p.found : p.found[d] = Lstat(d) BY <1>4
<1> QED BY <1>4, <1>10, <1>11, <1>12 DEF p

\* What is carried out was planned on this lock and finds what the plan found.
LEMMA CarriedOut ==
    ASSUME NEW p, KeepsOwnership(p), CarryOut(p), p.was[3] = brandLock,
           \A d \in DOMAIN p.found : p.found[d] = Lstat(d)
    PROVE  OwnsWhatItWrites
<1>1. LockedIn(brandLock) = Locked /\ \A q : InstalledIn(brandLock, q) = Installed(q)
      BY DEF LockedIn, InstalledIn, Locked, Installed
<1>2. \A q \in DOMAIN Locked :
          q \in DOMAIN brandLock'.packages /\ DOMAIN Installed(q) \subseteq DOMAIN brandLock'.packages[q].installed
      BY <1>1 DEF KeepsOwnership, CarryOut
<1>3. ASSUME NEW d \in Destinations, files'[d] # files[d]
      PROVE  files[d] = Missing \/ \E m \in actualMappings : m[2] = d /\ m[3].bytes = files[d]
  <2>1. d \in DOMAIN p.writes /\ d \in DOMAIN p.found /\ files'[d] = p.writes[d]
        BY <1>3 DEF CarryOut, KeepsOwnership
  <2>2. p.found[d] = Lstat(d) /\ WritesOnItsOwn(p, d) BY <2>1 DEF KeepsOwnership
  <2>3. Lstat(d) # Unsafe BY <2>2 DEF WritesOnItsOwn, Missing, Unsafe
  <2>4. Lstat(d) = files[d] BY <2>3 DEF Lstat
  <2>5. CASE p.found[d] = p.writes[d] BY <1>3, <2>1, <2>2, <2>4, <2>5
  <2>6. CASE \E q \in DOMAIN Locked : d \in DOMAIN Installed(q) /\ Installed(q)[d].bytes = files[d]
    <3>1. PICK q \in DOMAIN Locked : d \in DOMAIN Installed(q) /\ Installed(q)[d].bytes = files[d] BY <2>6
    <3>2. <<q, d, Installed(q)[d]>> \in actualMappings BY <3>1 DEF actualMappings
    <3> QED BY <3>1, <3>2
  <2> QED BY <1>1, <2>2, <2>4, <2>5, <2>6 DEF WritesOnItsOwn
<1> QED BY <1>2, <1>3 DEF OwnsWhatItWrites

\* What is pending owns its writes, and so does every step that performs them.
LEMMA OwningStep ==
    ASSUME Owning, [CNext]_cvars
    PROVE  Owning' /\ OwnsWhatItWrites
<1>1. CASE UNCHANGED <<brandLock, pending>>
  <2>1. Owning'
    <3>1. SafeLock(brandLock') /\ (pending' # Unlocked => KeepsOwnership(pending') /\ SafeLock(pending'.next))
          BY <1>1 DEF Owning
    <3> QED BY <3>1 DEF Owning
  <2> QED BY <1>1, <2>1 DEF OwnsWhatItWrites
<1>2. ASSUME NEW call \in Calls, Plan(call) PROVE Owning' /\ OwnsWhatItWrites
  <2>1. brandLock' = brandLock /\ pending' = planned(call) /\ Accepted(call) BY <1>2 DEF Plan
  <2>2. KeepsOwnership(pending') /\ SafeLock(pending'.next) /\ SafeLock(brandLock')
        BY <2>1, PlannedOwns DEF Owning
  <2> QED BY <2>1, <2>2 DEF Owning, OwnsWhatItWrites
<1>3. ASSUME NEW call \in Calls, AnotherCall(call) PROVE Owning' /\ OwnsWhatItWrites
  <2>1. CarryOut(planned(call)) /\ pending' = pending /\ Accepted(call) BY <1>3 DEF AnotherCall
  <2>2. /\ KeepsOwnership(planned(call)) /\ SafeLock(planned(call).next) /\ planned(call).was[3] = brandLock
        /\ \A d \in DOMAIN planned(call).found : planned(call).found[d] = Lstat(d)
        BY <2>1, PlannedOwns DEF Owning
  <2>3. SafeLock(brandLock') BY <2>1, <2>2 DEF CarryOut
  <2> QED BY <2>1, <2>2, <2>3, CarriedOut DEF Owning
<1>4. CASE ExecuteConsumerPlan
  <2>1. /\ pending # Unlocked /\ pending' = Unlocked /\ CarryOut(pending) /\ pending.was[3] = brandLock
        /\ \A d \in DOMAIN pending.found : pending.found[d] = Lstat(d)
        BY <1>4 DEF ExecuteConsumerPlan
  <2>2. KeepsOwnership(pending) /\ SafeLock(pending.next) BY <2>1 DEF Owning
  <2>3. SafeLock(brandLock') BY <2>1, <2>2 DEF CarryOut
  <2> QED BY <2>1, <2>2, <2>3, CarriedOut DEF Owning
<1>5. CASE DisposeConsumerPlan
  <2>1. brandLock' = brandLock /\ pending' = Unlocked BY <1>5 DEF DisposeConsumerPlan
  <2>2. SafeLock(brandLock') BY <2>1 DEF Owning
  <2> QED BY <2>1, <2>2 DEF Owning, OwnsWhatItWrites
<1>6. CASE InstallProject \/ (\E d \in Destinations, b \in {Handmade, Missing} : EditOutput(d, b))
           \/ (\E own \in Projects : EditProject(own)) \/ (\E profiles \in LocalFiles : EditProfiles(profiles))
  <2>1. UNCHANGED <<brandLock, pending>> BY <1>6 DEF InstallProject, EditOutput, EditProject, EditProfiles, Hand
  <2> QED BY <1>1, <2>1
<1>7. CASE UNCHANGED cvars
  <2>1. UNCHANGED <<brandLock, pending>> BY <1>7 DEF cvars
  <2> QED BY <1>1, <2>1
<1> QED BY <1>2, <1>3, <1>4, <1>5, <1>6, <1>7 DEF CNext

\* No call drops a package or an output that an earlier one installed, nor
\* writes over a file but the package's own unchanged one, whatever releases,
\* profiles and destinations there are, and whoever plans or edits meanwhile.
THEOREM OwnershipIsKept == CSpec => OwnershipKept
<1>1. CInit => Owning
  <2> SUFFICES ASSUME CInit PROVE Owning OBVIOUS
  <2>1. DOMAIN LockedIn(brandLock) = {} BY DEF CInit, LockedIn
  <2> QED BY <2>1 DEF CInit, Owning, SafeLock
<1>2. Owning /\ [CNext]_cvars => Owning' /\ [OwnsWhatItWrites]_cvars BY OwningStep
<1> QED BY <1>1, <1>2, PTL DEF CSpec, OwnershipKept

-----------------------------------------------------------------------------
(* Derived assets, for any recipes without a cycle.                         *)

\* A recursion along the recipes: the value of each asset comes from that of
\* its source or, if it has none in D, from nothing.
Recursion(file, D, V, base, step) ==
    /\ file \in RecipeFiles /\ D \subseteq DOMAIN file
    /\ base \in [Assets -> V] /\ step \in [Assets -> [V -> V]]
Solution(f, file, D, V, base, step) ==
    /\ f \in [Assets -> V]
    /\ \A a \in Assets : f[a] = IF a \in D THEN step[a][f[file[a].from]] ELSE base[a]

\* Recipes have no cycle, so such a recursion has a solution.
LEMMA Unrolled ==
    ASSUME NEW file, NEW D, NEW V, NEW base, NEW step, Recursion(file, D, V, base, step)
    PROVE  \E f : Solution(f, file, D, V, base, step)
<1> DEFINE From(a) == file[a].from
           Value(g, a) == IF a \in D THEN step[a][g[From(a)]] ELSE base[a]
           Partial(K, g) == /\ K \subseteq Assets /\ g \in [K -> V]
                            /\ \A a \in K : (a \in D => From(a) \in K) /\ g[a] = Value(g, a)
           Solved(a, v) == \E K \in SUBSET Assets : \E g \in [K -> V] : Partial(K, g) /\ a \in K /\ v = g[a]
<1>1. /\ D \subseteq Assets /\ \A a \in D : From(a) \in Assets
      /\ \A part \in SUBSET Assets : part # {} => \E a \in part : a \in D => From(a) \notin part
  BY DerivationAssumption DEF Acyclic, Recursion
<1>0. base \in [Assets -> V] /\ step \in [Assets -> [V -> V]]
  BY DEF Recursion
<1>2. ASSUME NEW K, NEW g, Partial(K, g), NEW L, NEW h, Partial(L, h)
      PROVE  \A a \in K \cap L : g[a] = h[a]
  <2> DEFINE Differ == {a \in K \cap L : g[a] # h[a]}
  <2>1. Differ \in SUBSET Assets
    BY <1>2
  <2>2. ASSUME Differ # {} PROVE FALSE
    <3>1. PICK a \in Differ : a \in D => From(a) \notin Differ
      BY <1>1, <2>1, <2>2
    <3>2. g[a] = Value(g, a) /\ h[a] = Value(h, a) /\ a \in K /\ a \in L
      BY <1>2, <3>1
    <3>3. a \in D => From(a) \in K \cap L
      BY <1>2, <3>2
    <3>4. a \in D => g[From(a)] = h[From(a)]
      BY <3>1, <3>3
    <3> QED
      BY <3>1, <3>2, <3>4
  <2> QED
    BY <2>2
<1>3. \A a \in Assets : \E v \in V : Solved(a, v)
  <2> DEFINE Unsolved == {a \in Assets : \A v \in V : ~Solved(a, v)}
  <2>1. ASSUME Unsolved # {} PROVE FALSE
    <3>1. PICK a \in Unsolved : a \in D => From(a) \notin Unsolved
      BY <1>1, <2>1
    <3>2. CASE a \notin D
      <4> DEFINE K == {a}
                 g == [x \in K |-> base[x]]
      <4>1. K \in SUBSET Assets /\ g \in [K -> V] /\ g[a] = base[a] /\ g[a] \in V /\ a \in K
        BY <1>0, <3>1
      <4>2. Partial(K, g)
        BY <3>2, <4>1
      <4>3. Solved(a, g[a])
        <5> HIDE DEF K, g, Partial
        <5> QED BY <4>1, <4>2
      <4> QED
        BY <3>1, <4>1, <4>3
    <3>3. CASE a \in D
      <4>1. From(a) \in Assets /\ \E v \in V : Solved(From(a), v)
        BY <1>1, <3>1, <3>3
      <4>0. PICK L \in SUBSET Assets : \E h \in [L -> V] : Partial(L, h) /\ From(a) \in L
        BY <4>1
      <4>2. PICK h \in [L -> V] : Partial(L, h) /\ From(a) \in L
        BY <4>0
      <4> DEFINE K == L \cup {a}
                 w == step[a][h[From(a)]]
                 g == [x \in K |-> IF x \in L THEN h[x] ELSE w]
      <4>3. a \notin L
        <5> SUFFICES ASSUME a \in L PROVE FALSE
          OBVIOUS
        <5>1. h[a] \in V /\ Solved(a, h[a])
          BY <4>2
        <5> QED
          BY <3>1, <5>1
      <4>4. a \in Assets /\ w \in V
        BY <1>0, <3>1, <4>2
      <4>5. K \in SUBSET Assets /\ g \in [K -> V] /\ a \in K
        BY <4>2, <4>4
      <4>6. g[a] = w /\ g[a] \in V /\ \A x \in L : g[x] = h[x] /\ x \in K
        BY <4>3, <4>4
      <4>7. Partial(K, g)
        <5> SUFFICES ASSUME NEW x \in K PROVE (x \in D => From(x) \in K) /\ g[x] = Value(g, x)
          BY <4>5
        <5> HIDE DEF g, w
        <5>1. CASE x \in L
          <6>1. (x \in D => From(x) \in L) /\ h[x] = Value(h, x)
            BY <4>2, <5>1
          <6> QED
            BY <4>6, <5>1, <6>1
        <5>2. CASE x = a
          <6>1. g[From(a)] = h[From(a)] /\ From(a) \in K
            BY <4>2, <4>6
          <6> QED
            BY <3>3, <4>6, <5>2, <6>1 DEF w
        <5> QED
          BY <5>1, <5>2
      <4>8. Solved(a, g[a])
        <5> HIDE DEF K, g, w, Partial
        <5> QED BY <4>5, <4>7
      <4> QED
        BY <3>1, <4>6, <4>8
    <3> QED
      BY <3>2, <3>3
  <2> QED
    BY <2>1
<1> DEFINE f == [a \in Assets |-> CHOOSE v \in V : Solved(a, v)]
<1>4. \A a \in Assets : f[a] \in V /\ Solved(a, f[a])
  <2> HIDE DEF Solved
  <2> QED
    BY <1>3
<1>5. ASSUME NEW a \in Assets PROVE f[a] = IF a \in D THEN step[a][f[From(a)]] ELSE base[a]
  <2> HIDE DEF f
  <2>0. PICK K \in SUBSET Assets : \E g \in [K -> V] : Partial(K, g) /\ a \in K /\ f[a] = g[a]
    BY <1>4
  <2>1. PICK g \in [K -> V] : Partial(K, g) /\ a \in K /\ f[a] = g[a]
    BY <2>0
  <2>2. g[a] = Value(g, a) /\ (a \in D => From(a) \in K)
    BY <2>1
  <2>3. ASSUME a \in D PROVE f[From(a)] = g[From(a)]
    <3>1. From(a) \in K /\ From(a) \in Assets
      BY <1>1, <2>2, <2>3
    <3>0. PICK L \in SUBSET Assets : \E h \in [L -> V] : Partial(L, h) /\ From(a) \in L /\ f[From(a)] = h[From(a)]
      BY <1>4, <3>1
    <3>2. PICK h \in [L -> V] : Partial(L, h) /\ From(a) \in L /\ f[From(a)] = h[From(a)]
      BY <3>0
    <3>3. g[From(a)] = h[From(a)]
      <4> HIDE DEF Partial, From
      <4> QED BY <1>2, <2>1, <3>1, <3>2
    <3> QED
      BY <3>2, <3>3
  <2> QED
    BY <2>1, <2>2, <2>3
<1>6. f \in [Assets -> V]
  BY <1>4
<1>7. Solution(f, file, D, V, base, step)
  <2> HIDE DEF f
  <2> QED
    BY <1>5, <1>6 DEF Solution
<1> QED
  BY <1>7
-----------------------------------------------------------------------------
Images == Artwork \cup {Gone}
Judgements == [content : Images, chain : Seq(Assets \X Images)]

\* What a receipt says was made is what its recipe makes, with its tokens, of
\* what it says it was made from.
MadeBy(a, r) ==
    /\ a \in DOMAIN r.recipes /\ r.chain # <<>> /\ r.chain[1][2] \in Artwork
    /\ r.content = [r.chain[1][2] EXCEPT !.done =
          Append(@, [does |-> r.recipes[a].does, ink |-> IF r.recipes[a].does = "ink" THEN r.tokens ELSE Gone])]

DInv ==
    /\ recipes \in RecipeFiles /\ tokens \in TokenFiles
    /\ content \in [Assets -> Images]
    /\ receipt \in [Assets -> Receipts \cup {Gone, Corrupt}]
    /\ drawn = {a \in Assets : content[a] \in Drawings}
    /\ \A a \in Assets : Receipted(a) => MadeBy(a, receipt[a])

\* What there is to know of a recipe file.
LEMMA RecipesAre ==
    ASSUME NEW file \in RecipeFiles
    PROVE  /\ DOMAIN file \subseteq Assets
           /\ \A a \in DOMAIN file : /\ file[a].id \in STRING /\ file[a].from \in Assets
                                     /\ file[a].does \in STRING
BY DerivationAssumption

\* What a recipe makes of something it can be applied to is no drawing.
LEMMA DerivedTyped ==
    ASSUME DInv, NEW a \in Targets, NEW v \in Judgements, Applicable(v.content)
    PROVE  /\ v.content \in Artwork
           /\ Apply(a, v.content) \in Artwork /\ Apply(a, v.content) \notin Drawings \cup {Gone}
           /\ Derived(a, v) \in Judgements
           /\ Derived(a, v).content = Apply(a, v.content)
           /\ Derived(a, v).chain # <<>> /\ Derived(a, v).chain[1] = <<Source(a), v.content>>
<1> DEFINE step == [does |-> recipes[a].does, ink |-> IF recipes[a].does = "ink" THEN tokens ELSE Gone]
<1>1. v.content \in Artwork
  BY DEF Applicable, Judgements, Images
<1>2. recipes[a].does \in STRING /\ Source(a) \in Assets
  BY RecipesAre DEF DInv, Targets, Source
<1>3. step \in [does : STRING, ink : TokenFiles \cup {Gone}]
  BY <1>2 DEF DInv
<1>4. Apply(a, v.content) = [v.content EXCEPT !.done = Append(@, step)]
  BY DEF Apply
<1> HIDE DEF step
<1>5. Apply(a, v.content) \in Artwork /\ Apply(a, v.content).done # <<>>
  <2> DEFINE c == v.content
             made == Append(c.done, step)
  <2>1. /\ c.done \in Seq([does : STRING, ink : TokenFiles \cup {Gone}]) /\ c.drawing \in STRING
        /\ c = [drawing |-> c.drawing, done |-> c.done]
    BY <1>1 DEF Artwork
  <2>2. made \in Seq([does : STRING, ink : TokenFiles \cup {Gone}]) /\ made # <<>>
    <3> HIDE DEF c
    <3> QED BY <1>3, <2>1
  <2>3. Apply(a, v.content) = [drawing |-> c.drawing, done |-> made]
    BY <1>4, <2>1
  <2> HIDE DEF c, made
  <2> QED
    BY <2>1, <2>2, <2>3 DEF Artwork
<1>6. Apply(a, v.content) \notin Drawings \cup {Gone}
  BY <1>5, DerivationAssumption
<1>7. /\ Derived(a, v).content = Apply(a, v.content)
      /\ Derived(a, v).chain = <<<<Source(a), v.content>>>> \o v.chain
      /\ Derived(a, v) = [content |-> Derived(a, v).content, chain |-> Derived(a, v).chain]
  BY DEF Derived, Made
<1>8. <<Source(a), v.content>> \in Assets \X Images /\ v.chain \in Seq(Assets \X Images)
  BY <1>1, <1>2 DEF Images, Judgements
<1>9. /\ Derived(a, v).chain \in Seq(Assets \X Images)
      /\ Derived(a, v).chain # <<>> /\ Derived(a, v).chain[1] = <<Source(a), v.content>>
  <2> DEFINE first == <<Source(a), v.content>>
  <2> HIDE DEF first
  <2>1. first \in Assets \X Images /\ Derived(a, v).chain = <<first>> \o v.chain
    BY <1>7, <1>8 DEF first
  <2>2. Derived(a, v).chain \in Seq(Assets \X Images) /\ Derived(a, v).chain # <<>> /\ Derived(a, v).chain[1] = first
    BY <1>8, <2>1
  <2> QED
    BY <2>2 DEF first
<1>10. Derived(a, v) \in Judgements
  BY <1>5, <1>7, <1>9 DEF Judgements, Images
<1> QED
  BY <1>1, <1>5, <1>6, <1>7, <1>9, <1>10

\* So is what is taken as found.
LEMMA MadeTyped ==
    ASSUME NEW c \in Images, NEW chain \in Seq(Assets \X Images)
    PROVE  Made(c, chain) \in Judgements /\ Made(c, chain).content = c /\ Made(c, chain).chain = chain
BY DEF Made, Judgements

\* The inspection follows the recipes from each asset to one it takes as found.
LEMMA ExpectedIs ==
    ASSUME DInv
    PROVE  /\ Expected \in [Assets -> Judgements]
           /\ \A a \in Assets :
                 Expected[a] = IF a \in Targets /\ Judged(a) /\ Applicable(Expected[Source(a)].content)
                               THEN Derived(a, Expected[Source(a)]) ELSE Made(content[a], <<>>)
<1> DEFINE D == {a \in Targets : Judged(a)}
           Found(a) == Made(content[a], <<>>)
           base == [a \in Assets |-> Found(a)]
           step == [a \in Assets |-> [v \in Judgements |->
                      IF a \in Targets /\ Applicable(v.content) THEN Derived(a, v) ELSE Found(a)]]
<1>1. D \subseteq DOMAIN recipes /\ recipes \in RecipeFiles /\ DOMAIN recipes \subseteq Assets
      /\ \A a \in D : recipes[a].from \in Assets /\ Source(a) = recipes[a].from
  BY RecipesAre DEF DInv, Targets, Source
<1>2. \A a \in Assets : Found(a) \in Judgements
  <2>1. <<>> \in Seq(Assets \X Images)
    OBVIOUS
  <2>2. \A a \in Assets : content[a] \in Images
    BY DEF DInv
  <2> QED
    BY <2>1, <2>2, MadeTyped
<1> HIDE DEF Found
<1>3. base \in [Assets -> Judgements] /\ step \in [Assets -> [Judgements -> Judgements]]
  BY <1>2, DerivedTyped
<1>4. PICK f : Solution(f, recipes, D, Judgements, base, step)
  <2> HIDE DEF D, base, step
  <2>1. Recursion(recipes, D, Judgements, base, step)
    BY <1>1, <1>3 DEF Recursion
  <2> QED
    BY <2>1, Unrolled
<1> DEFINE Solves(g) == g = [a \in Assets |-> IF a \in Targets /\ Judged(a) /\ Applicable(g[Source(a)].content)
                                              THEN Derived(a, g[Source(a)]) ELSE Made(content[a], <<>>)]
<1>5. Solves(f)
  <2>1. ASSUME NEW a \in Assets
        PROVE  f[a] = IF a \in Targets /\ Judged(a) /\ Applicable(f[Source(a)].content)
                      THEN Derived(a, f[Source(a)]) ELSE Found(a)
    <3>1. CASE a \in D
      <4>1. f[a] = step[a][f[Source(a)]] /\ f[Source(a)] \in Judgements /\ a \in Targets /\ Judged(a)
        BY <1>1, <1>4, <3>1 DEF Solution
      <4> QED
        BY <4>1
    <3>2. CASE a \notin D
      <4>1. f[a] = Found(a)
        BY <1>4, <3>2 DEF Solution
      <4> QED
        BY <3>2, <4>1
    <3> QED
      BY <3>1, <3>2
  <2>2. f \in [Assets -> Judgements]
    BY <1>4 DEF Solution
  <2> QED
    BY <2>1, <2>2 DEF Found
<1>6. Solves(Expected)
  <2>1. Expected = CHOOSE g : Solves(g)
    BY DEF Expected
  <2> HIDE DEF Solves
  <2> QED
    BY <1>5, <2>1
<1>7. \A a \in Assets : Expected[a] = IF a \in Targets /\ Judged(a) /\ Applicable(Expected[Source(a)].content)
                                      THEN Derived(a, Expected[Source(a)]) ELSE Made(content[a], <<>>)
  BY <1>6
<1>8. Expected \in [Assets -> Judgements]
  <2> DEFINE Typed == {a \in Assets : Expected[a] \in Judgements}
             part == Assets \ Typed
  <2>1. ASSUME part # {} PROVE FALSE
    <3>0. part \in SUBSET Assets
      OBVIOUS
    <3>1. part \in (SUBSET Assets) \ {{}}
      <4> HIDE DEF part
      <4> QED BY <2>1, <3>0
    <3>2. PICK a \in part : a \in DOMAIN recipes => recipes[a].from \notin part
      BY <3>1, DerivationAssumption DEF DInv, Acyclic
    <3>3. a \in Targets => Source(a) \in Assets /\ Expected[Source(a)] \in Judgements
      BY <3>2, RecipesAre DEF DInv, Targets, Source
    <3>4. Expected[a] \in Judgements
      BY <1>2, <1>7, <3>2, <3>3, DerivedTyped DEF Found
    <3> QED
      BY <3>2, <3>4
  <2>2. DOMAIN Expected = Assets /\ Expected = [a \in Assets |-> Expected[a]]
    BY <1>6
  <2> HIDE DEF Solves
  <2> QED
    BY <2>1, <2>2
<1> QED
  BY <1>7, <1>8

-----------------------------------------------------------------------------
\* The recipes of unchanged targets made them of sources that are what the
\* inspection expected of them.
LEMMA GateHolds == DInv => GateIsSound
<1> SUFFICES ASSUME DInv, AllUnchanged, NEW a \in Targets
             PROVE  content[a] = Apply(a, content[Source(a)])
  BY DEF GateIsSound
<1> DEFINE s == Source(a)
<1>1. Targets \subseteq Assets /\ \A b \in Targets : Source(b) \in Assets
  BY RecipesAre DEF DInv, Targets, Source
<1>2. ASSUME NEW b \in Targets
      PROVE  /\ Judged(b) /\ Applicable(Expected[Source(b)].content)
             /\ content[b] = Expected[b].content /\ Expected[b] = Derived(b, Expected[Source(b)])
  <2>1. StateOf(b) = "unchanged" /\ b \in Assets /\ Source(b) \in Assets
    BY <1>1 DEF AllUnchanged
  <2>2. Judged(b) /\ Applicable(Expected[Source(b)].content) /\ Compared(b) = "unchanged"
    BY <2>1 DEF StateOf
  <2>3. content[b] = receipt[b].content /\ receipt[b] = createBrandDerivedReceipt(b, Expected[b])
    BY <2>2 DEF Compared, SameAuthority
  <2>4. Expected[b] = Derived(b, Expected[Source(b)])
    BY <2>1, <2>2, ExpectedIs
  <2> QED
    BY <2>2, <2>3, <2>4 DEF createBrandDerivedReceipt
<1>3. Expected[s].content = content[s]
  <2>1. CASE s \in Targets
    BY <1>2, <2>1
  <2>2. CASE s \notin Targets
    <3>1. s \in Assets /\ Expected[s] = Made(content[s], <<>>)
      BY <1>1, <2>2, ExpectedIs
    <3> QED
      BY <3>1 DEF Made
  <2> QED
    BY <2>1, <2>2
<1>4. content[a] = Derived(a, Expected[s]).content
  BY <1>2
<1> QED
  BY <1>3, <1>4 DEF Derived, Made

\* Whatever else changed, a receipt that agrees with its file and its recipe's
\* id is current or out of date, and never invalid.
LEMMA HandsHold == DInv => OnlyHandsBlock
<1> SUFFICES ASSUME DInv, NEW a \in Targets, Receipted(a), content[a] = receipt[a].content,
                    receipt[a].id = recipes[a].id, Applicable(Expected[Source(a)].content)
             PROVE  StateOf(a) \in {"unchanged", "stale-authority"}
  BY DEF OnlyHandsBlock
<1> DEFINE r == receipt[a]
           from == Expected[Source(a)]
           made == createBrandDerivedReceipt(a, Expected[a])
<1>1. a \in Assets /\ Source(a) \in Assets
  BY RecipesAre DEF DInv, Targets, Source
<1>2. r \in Receipts /\ MadeBy(a, r)
  BY <1>1 DEF DInv, Receipted
<1>3. content[a] # Gone /\ Judged(a)
  BY <1>2, DerivationAssumption DEF Judged, Receipts
<1>4. from \in Judgements /\ Expected[a] = Derived(a, from)
  BY <1>1, <1>3, ExpectedIs
<1>5. /\ Expected[a].content = Apply(a, from.content)
      /\ Expected[a].chain[1] = <<Source(a), from.content>>
  BY <1>4, DerivedTyped
<1>6. ASSUME r.recipes = recipes, r.tokens = tokens, r.chain = Expected[a].chain
      PROVE  r = made
  <2>1. r.chain[1][2] = from.content
    BY <1>5, <1>6
  <2>2. r.content = Apply(a, from.content)
    BY <1>2, <1>6, <2>1 DEF MadeBy, Apply
  <2>3. r = [id |-> r.id, recipes |-> r.recipes, tokens |-> r.tokens, chain |-> r.chain, content |-> r.content]
    BY <1>2 DEF Receipts
  <2> HIDE DEF r
  <2>4. r = [id |-> recipes[a].id, recipes |-> recipes, tokens |-> tokens,
             chain |-> Expected[a].chain, content |-> Expected[a].content]
    BY <1>5, <1>6, <2>2, <2>3 DEF r
  <2> QED
    BY <2>4 DEF createBrandDerivedReceipt
<1>7. made.recipes = recipes /\ made.tokens = tokens /\ made.chain = Expected[a].chain
  BY DEF createBrandDerivedReceipt
<1>8. Compared(a) \in {"unchanged", "stale-authority"}
  BY <1>6, <1>7 DEF Compared, SameAuthority, AuthorityChanged
<1>9. StateOf(a) = Compared(a)
  BY <1>3 DEF StateOf, Receipted, Applicable
<1> QED
  BY <1>8, <1>9

-----------------------------------------------------------------------------
\* What a plan says of each asset: derived, with the chain that it came by, or
\* as found, with the chain of its receipt.
AsFound(a) == Made(content[a], IF Receipted(a) THEN receipt[a].chain ELSE <<>>)

LEMMA AsFoundTyped ==
    ASSUME DInv, NEW a \in Assets
    PROVE  AsFound(a) \in Judgements
<1>1. content[a] \in Images
  BY DEF DInv
<1>2. ASSUME Receipted(a) PROVE receipt[a].chain \in Seq(Assets \X Images)
  BY <1>2 DEF DInv, Receipted, Receipts, Images
<1>3. <<>> \in Seq(Assets \X Images)
  OBVIOUS
<1> QED
  BY <1>1, <1>2, <1>3, MadeTyped DEF AsFound

\* A plan follows the recipes that it covers.
LEMMA PlannedIs ==
    ASSUME DInv, NEW selected
    PROVE  /\ Planned(selected) \in [Assets -> Judgements]
           /\ \A a \in Assets :
                 Planned(selected)[a] =
                     IF a \in Affected(selected) /\ Applicable(Planned(selected)[Source(a)].content)
                     THEN Derived(a, Planned(selected)[Source(a)]) ELSE AsFound(a)
<1> DEFINE D == Affected(selected)
           base == [a \in Assets |-> AsFound(a)]
           step == [a \in Assets |-> [v \in Judgements |->
                      IF a \in Targets /\ Applicable(v.content) THEN Derived(a, v) ELSE AsFound(a)]]
           scheme == Planned(selected)
<1>1. D \subseteq DOMAIN recipes /\ D \subseteq Targets /\ recipes \in RecipeFiles /\ DOMAIN recipes \subseteq Assets
      /\ \A a \in D : recipes[a].from \in Assets /\ Source(a) = recipes[a].from
  BY RecipesAre DEF DInv, Targets, Source, Affected
<1>3. base \in [Assets -> Judgements] /\ step \in [Assets -> [Judgements -> Judgements]]
  BY AsFoundTyped, DerivedTyped
<1>4. PICK f : Solution(f, recipes, D, Judgements, base, step)
  <2> HIDE DEF D, base, step
  <2>1. Recursion(recipes, D, Judgements, base, step)
    BY <1>1, <1>3 DEF Recursion
  <2> QED
    BY <2>1, Unrolled
<1> HIDE DEF D
<1> DEFINE Solves(g) == g = [a \in Assets |-> IF a \in D /\ Applicable(g[Source(a)].content)
                                              THEN Derived(a, g[Source(a)]) ELSE AsFound(a)]
<1>5. Solves(f)
  <2>1. ASSUME NEW a \in Assets
        PROVE  f[a] = IF a \in D /\ Applicable(f[Source(a)].content) THEN Derived(a, f[Source(a)]) ELSE AsFound(a)
    <3>1. CASE a \in D
      <4>1. f[a] = step[a][f[Source(a)]] /\ f[Source(a)] \in Judgements /\ a \in Targets
        BY <1>1, <1>4, <3>1 DEF Solution
      <4> QED
        BY <3>1, <4>1
    <3>2. CASE a \notin D
      <4>1. f[a] = AsFound(a)
        BY <1>4, <3>2 DEF Solution
      <4> QED
        BY <3>2, <4>1
    <3> QED
      BY <3>1, <3>2
  <2>2. f \in [Assets -> Judgements]
    BY <1>4 DEF Solution
  <2> QED
    BY <2>1, <2>2
<1>6. Solves(scheme)
  <2>1. scheme = CHOOSE g : Solves(g)
    BY DEF Planned, AsFound, D
  <2> HIDE DEF Solves, scheme
  <2> QED
    BY <1>5, <2>1
<1> HIDE DEF scheme
<1>7. \A a \in Assets : scheme[a] = IF a \in D /\ Applicable(scheme[Source(a)].content)
                                  THEN Derived(a, scheme[Source(a)]) ELSE AsFound(a)
  BY <1>6
<1>8. scheme \in [Assets -> Judgements]
  <2> DEFINE Typed == {a \in Assets : scheme[a] \in Judgements}
             part == Assets \ Typed
  <2>1. ASSUME part # {} PROVE FALSE
    <3>0. part \in SUBSET Assets
      OBVIOUS
    <3>1. part \in (SUBSET Assets) \ {{}}
      <4> HIDE DEF part
      <4> QED BY <2>1, <3>0
    <3>2. PICK a \in part : a \in DOMAIN recipes => recipes[a].from \notin part
      BY <3>1, DerivationAssumption DEF DInv, Acyclic
    <3>3. a \in D => a \in Targets /\ Source(a) \in Assets /\ scheme[Source(a)] \in Judgements
      BY <1>1, <3>2
    <3>4. scheme[a] \in Judgements
      BY <1>7, <3>2, <3>3, DerivedTyped, AsFoundTyped
    <3> QED
      BY <3>2, <3>4
  <2>2. DOMAIN scheme = Assets /\ scheme = [a \in Assets |-> scheme[a]]
    BY <1>6
  <2> HIDE DEF Solves
  <2> QED
    BY <2>1, <2>2
<1> QED
  BY <1>7, <1>8 DEF scheme, D

\* What a derive writes: the receipt of each target it covers, and with it what
\* the receipt says was made; the rest stays.
Fresh(selected, a) == createBrandDerivedReceipt(a, Planned(selected)[a])
Renewed(selected) == {a \in Affected(selected) : Fresh(selected, a) # receipt[a]}

\* What the derive does to files and receipts.
LEMMA DeriveDoes ==
    ASSUME DInv, NEW selected, Derive(selected)
    PROVE  /\ UNCHANGED <<recipes, tokens>>
           /\ Affected(selected) \subseteq Targets /\ Renewed(selected) \subseteq Affected(selected)
           /\ Affected(selected) \subseteq Assets
           /\ \A a \in Affected(selected) :
                 /\ Derivable(a)
                 /\ Source(a) \in Assets /\ Applicable(Planned(selected)[Source(a)].content)
                 /\ Planned(selected)[a] = Derived(a, Planned(selected)[Source(a)])
                 /\ Fresh(selected, a) \in Receipts /\ MadeBy(a, Fresh(selected, a))
                 /\ Fresh(selected, a).content \in Artwork /\ Fresh(selected, a).content \notin Drawings
           /\ receipt' = [a \in Assets |-> IF a \in Renewed(selected) THEN Fresh(selected, a) ELSE receipt[a]]
           /\ content' = [a \in Assets |-> IF a \in Renewed(selected) THEN Fresh(selected, a).content ELSE content[a]]
           /\ drawn' = drawn \ Renewed(selected)
<1> DEFINE made == [a \in Affected(selected) |-> Fresh(selected, a)]
           scheme == Planned(selected)
<1>1. NewReceipts(selected) = [a \in {b \in DOMAIN made : made[b] # receipt[b]} |-> made[a]]
  BY DEF NewReceipts, Fresh
<1>2. DOMAIN NewReceipts(selected) = Renewed(selected)
      /\ \A a \in Renewed(selected) : NewReceipts(selected)[a] = Fresh(selected, a)
  BY <1>1 DEF Renewed
<1>3. /\ UNCHANGED <<recipes, tokens>> /\ \A a \in Affected(selected) : Derivable(a) /\ Applicable(scheme[Source(a)].content)
      /\ drawn' = drawn \ DOMAIN NewReceipts(selected)
      /\ receipt' = [a \in Assets |-> IF a \in DOMAIN NewReceipts(selected) THEN NewReceipts(selected)[a] ELSE receipt[a]]
      /\ content' = [a \in Assets |-> IF a \in DOMAIN NewReceipts(selected) THEN NewReceipts(selected)[a].content ELSE content[a]]
  BY DEF Derive, Inspected
<1>4. /\ Affected(selected) \subseteq Targets /\ Renewed(selected) \subseteq Affected(selected)
      /\ Affected(selected) \subseteq Assets /\ \A a \in Affected(selected) : Source(a) \in Assets
  BY RecipesAre DEF DInv, Targets, Source, Affected, Renewed
<1>5. /\ receipt' = [a \in Assets |-> IF a \in Renewed(selected) THEN Fresh(selected, a) ELSE receipt[a]]
      /\ content' = [a \in Assets |-> IF a \in Renewed(selected) THEN Fresh(selected, a).content ELSE content[a]]
  BY <1>2, <1>3
<1>6. ASSUME NEW a \in Affected(selected)
      PROVE  /\ scheme[a] = Derived(a, scheme[Source(a)])
             /\ Fresh(selected, a) \in Receipts /\ MadeBy(a, Fresh(selected, a))
             /\ Fresh(selected, a).content \in Artwork /\ Fresh(selected, a).content \notin Drawings
  <2> DEFINE from == scheme[Source(a)]
             r == Fresh(selected, a)
  <2>1. a \in Targets /\ a \in Assets /\ Source(a) \in Assets /\ from \in Judgements /\ Applicable(from.content)
    BY <1>3, <1>4, PlannedIs
  <2>2. scheme[a] = Derived(a, from)
    BY <2>1, PlannedIs
  <2>3. /\ from.content \in Artwork /\ scheme[a] \in Judgements
        /\ scheme[a].content = Apply(a, from.content)
        /\ scheme[a].content \in Artwork /\ scheme[a].content \notin Drawings
        /\ scheme[a].chain # <<>> /\ scheme[a].chain[1] = <<Source(a), from.content>>
    BY <2>1, <2>2, DerivedTyped
  <2>4. r = [id |-> recipes[a].id, recipes |-> recipes, tokens |-> tokens,
             chain |-> scheme[a].chain, content |-> scheme[a].content]
    BY DEF Fresh, createBrandDerivedReceipt
  <2>5. scheme[a].chain \in Seq(Assets \X (Artwork \cup {Gone}))
    BY <2>3 DEF Judgements, Images
  <2> HIDE DEF r, scheme
  <2>6. r \in Receipts
    BY <2>1, <2>3, <2>4, <2>5, RecipesAre DEF Receipts, DInv, Targets
  <2>7. MadeBy(a, r)
    <3>1. r.chain[1][2] = from.content /\ r.recipes = recipes /\ r.tokens = tokens /\ r.chain # <<>>
      BY <2>3, <2>4
    <3>2. r.content = [from.content EXCEPT !.done = Append(@,
             [does |-> recipes[a].does, ink |-> IF recipes[a].does = "ink" THEN tokens ELSE Gone])]
      BY <2>3, <2>4 DEF Apply
    <3> QED
      BY <2>1, <2>3, <3>1, <3>2 DEF MadeBy, Targets
  <2> QED
    BY <2>2, <2>3, <2>4, <2>6, <2>7 DEF r
<1> QED
  BY <1>2, <1>3, <1>4, <1>5, <1>6

-----------------------------------------------------------------------------
\* The invariant holds of a project in which nothing was derived yet, and every
\* derive and every edit keeps it.
LEMMA InitDerivation == DInit => DInv
<1> SUFFICES ASSUME DInit PROVE DInv
  OBVIOUS
<1>1. \A d \in Drawings : d \in Artwork /\ d # Gone
  BY DerivationAssumption
<1>2. content \in [Assets -> Images] /\ drawn = {a \in Assets : content[a] \in Drawings}
  BY <1>1 DEF DInit, Images
<1> QED
  BY <1>2 DEF DInit, DInv, Receipted

\* A derive keeps it: its receipts say what was made of what.
LEMMA DeriveKeeps ==
    ASSUME DInv, NEW selected, Derive(selected)
    PROVE  DInv'
<1>1. content' \in [Assets -> Images] /\ receipt' \in [Assets -> Receipts \cup {Gone, Corrupt}]
  BY DeriveDoes DEF DInv, Images
<1>2. drawn' = {a \in Assets : content'[a] \in Drawings}
  BY DeriveDoes DEF DInv
<1>3. \A a \in Assets : Receipted(a)' => MadeBy(a, receipt'[a])
  BY DeriveDoes DEF DInv, Receipted
<1>4. recipes' \in RecipeFiles /\ tokens' \in TokenFiles
  BY DeriveDoes DEF DInv
<1> QED
  BY <1>1, <1>2, <1>3, <1>4 DEF DInv, MadeBy, Receipted

\* Every step keeps it.
LEMMA StepDerivation == DInv /\ [DNext]_dvars => DInv'
<1> SUFFICES ASSUME DInv, [DNext]_dvars PROVE DInv'
  OBVIOUS
<1>1. ASSUME NEW selected \in SUBSET Targets, Derive(selected) PROVE DInv'
  BY <1>1, DeriveKeeps
<1>2. ASSUME NEW a \in Assets, NEW c, Draw(a, c) PROVE DInv'
  <2>1. c \in Images
    BY <1>2, DerivationAssumption DEF Draw, DInv, Receipted, Receipts, Images
  <2>2. content' = [content EXCEPT ![a] = c] /\ content' \in [Assets -> Images]
    BY <1>2, <2>1 DEF Draw, DInv
  <2>3. drawn' = {b \in Assets : content'[b] \in Drawings}
    BY <1>2, <2>2 DEF Draw, DInv
  <2>4. UNCHANGED <<recipes, tokens, receipt>>
    BY <1>2 DEF Draw
  <2> QED
    BY <2>2, <2>3, <2>4 DEF DInv, Receipted
<1>3. ASSUME NEW a \in Assets, NEW r \in {Gone, Corrupt}, SpoilReceipt(a, r) PROVE DInv'
  <2>1. receipt' = [receipt EXCEPT ![a] = r] /\ UNCHANGED <<recipes, tokens, content, drawn>>
    BY <1>3 DEF SpoilReceipt
  <2> QED
    BY <2>1 DEF DInv, Receipted
<1>4. ASSUME NEW file \in RecipeFiles, EditRecipes(file) PROVE DInv'
  <2>1. recipes' = file /\ UNCHANGED <<tokens, content, receipt, drawn>>
    BY <1>4 DEF EditRecipes
  <2> QED
    BY <2>1 DEF DInv, Receipted
<1>5. ASSUME NEW t \in TokenFiles, EditTokens(t) PROVE DInv'
  <2>1. tokens' = t /\ UNCHANGED <<recipes, content, receipt, drawn>>
    BY <1>5 DEF EditTokens
  <2> QED
    BY <2>1 DEF DInv, Receipted
<1>6. CASE UNCHANGED dvars
  BY <1>6 DEF DInv, dvars, Receipted
<1> QED
  BY <1>1, <1>2, <1>3, <1>4, <1>5, <1>6 DEF DNext

\* Files and receipts are well-typed, and each receipt says truly what was made
\* of what.
THEOREM DerivationInvariance == DSpec => []DInv
BY InitDerivation, StepDerivation, PTL DEF DSpec

\* Check, build and install are let through only when every target is what its
\* recipe makes of its source as it is, and nothing that only derive has written
\* is refused, for any recipes without a cycle, drawings and tokens.
THEOREM InspectionsAreRight == DSpec => []InspectionIsRight
<1>1. DInv => InspectionIsRight
  BY GateHolds, HandsHold DEF InspectionIsRight
<1> QED
  BY <1>1, DerivationInvariance, PTL

\* A derive leaves what was drawn.
LEMMA DrawnStays ==
    ASSUME DInv, NEW selected, Derive(selected), NEW a \in drawn
    PROVE  content'[a] = content[a]
<1>1. a \in Assets /\ content[a] \in Drawings /\ content[a] # Gone
  BY DerivationAssumption DEF DInv
<1>2. ASSUME a \in Affected(selected) PROVE FALSE
  <2>1. StateOf(a) \in {"unchanged", "stale-authority"}
    BY <1>1, <1>2, DeriveDoes DEF Derivable, StateOf, Compared
  <2>2. content[a] = receipt[a].content /\ Receipted(a)
    BY <2>1 DEF StateOf, Compared, Judged
  <2>3. receipt[a] \in Receipts /\ MadeBy(a, receipt[a])
    BY <1>1, <2>2 DEF DInv, Receipted
  <2> DEFINE c == receipt[a].chain[1][2]
             last == [does |-> receipt[a].recipes[a].does,
                      ink |-> IF receipt[a].recipes[a].does = "ink" THEN receipt[a].tokens ELSE Gone]
  <2>4. c \in Artwork /\ content[a] = [c EXCEPT !.done = Append(@, last)]
    BY <2>2, <2>3 DEF MadeBy
  <2>5. content[a].done = Append(c.done, last) /\ c.done \in Seq([does : STRING, ink : TokenFiles \cup {Gone}])
    BY <2>4 DEF Artwork
  <2>6. content[a].done = <<>>
    BY <1>1, DerivationAssumption
  <2>7. last \in [does : STRING, ink : TokenFiles \cup {Gone}]
    BY <2>3, RecipesAre DEF MadeBy, Receipts
  <2>8. ASSUME NEW S, NEW q \in Seq(S), NEW e \in S PROVE Append(q, e) # <<>>
    <3>1. Len(Append(q, e)) = Len(q) + 1 /\ Len(q) \in Nat /\ Len(<<>>) = 0
      OBVIOUS
    <3> QED BY <3>1
  <2> HIDE DEF c, last
  <2>9. Append(c.done, last) # <<>>
    BY <2>5, <2>7, <2>8
  <2> QED
    BY <2>5, <2>6, <2>9
<1> QED
  BY <1>1, <1>2, DeriveDoes

\* No derive overwrites what a person drew.
THEOREM DrawingsAreKept == DSpec => DrawingsKept
<1> DEFINE DrawnKept == \A selected \in SUBSET Targets : Rewrites(selected) => \A a \in drawn : content'[a] = content[a]
<1>1. DInv => [DrawnKept]_dvars
  BY DrawnStays DEF Rewrites
<1> QED
  BY <1>1, DerivationInvariance, PTL DEF DrawingsKept
-----------------------------------------------------------------------------
\* An asset, and what its recipe derives it from along the chain.
LEMMA AboveIs ==
    ASSUME DInv
    PROVE  /\ Above \in [Assets -> SUBSET Assets]
           /\ \A a \in Assets : Above[a] = IF a \in Targets THEN {a} \cup Above[Source(a)] ELSE {}
<1> DEFINE D == DOMAIN recipes
           base == [a \in Assets |-> {}]
           step == [a \in Assets |-> [v \in SUBSET Assets |-> {a} \cup v]]
           Solves(g) == g = [a \in Assets |-> IF a \in DOMAIN recipes THEN {a} \cup g[recipes[a].from] ELSE {}]
<1>1. recipes \in RecipeFiles /\ D \subseteq Assets /\ \A a \in D : recipes[a].from \in Assets
  BY RecipesAre DEF DInv
<1>2. base \in [Assets -> SUBSET Assets] /\ step \in [Assets -> [SUBSET Assets -> SUBSET Assets]]
  OBVIOUS
<1>3. PICK f : Solution(f, recipes, D, SUBSET Assets, base, step)
  <2> HIDE DEF D, base, step
  <2>1. Recursion(recipes, D, SUBSET Assets, base, step)
    BY <1>1, <1>2 DEF Recursion, D
  <2> QED
    BY <2>1, Unrolled
<1>4. Solves(f)
  <2>1. f \in [Assets -> SUBSET Assets]
        /\ \A a \in Assets : f[a] = IF a \in D THEN step[a][f[recipes[a].from]] ELSE base[a]
    BY <1>3 DEF Solution
  <2>2. \A a \in Assets : f[a] = IF a \in D THEN {a} \cup f[recipes[a].from] ELSE {}
    BY <1>1, <2>1
  <2> QED
    BY <2>1, <2>2
<1>5. Solves(Above)
  <2>1. Above = CHOOSE g : Solves(g)
    BY DEF Above, AboveIn
  <2> HIDE DEF Solves
  <2> QED
    BY <1>4, <2>1
<1>6. \A a \in Assets : Above[a] = IF a \in Targets THEN {a} \cup Above[Source(a)] ELSE {}
  BY <1>5 DEF Targets, Source
<1>7. Above \in [Assets -> SUBSET Assets]
  <2> DEFINE Typed == {a \in Assets : Above[a] \in SUBSET Assets}
             part == Assets \ Typed
  <2>1. ASSUME part # {} PROVE FALSE
    <3>0. part \in SUBSET Assets
      OBVIOUS
    <3>1. part \in (SUBSET Assets) \ {{}}
      <4> HIDE DEF part
      <4> QED BY <2>1, <3>0
    <3>2. PICK a \in part : a \in DOMAIN recipes => recipes[a].from \notin part
      BY <3>1, DerivationAssumption DEF DInv, Acyclic
    <3>3. Above[a] \in SUBSET Assets
      BY <1>1, <1>6, <3>2 DEF Targets, Source
    <3> QED
      BY <3>2, <3>3
  <2>2. DOMAIN Above = Assets /\ Above = [a \in Assets |-> Above[a]]
    BY <1>5
  <2> HIDE DEF Solves
  <2> QED
    BY <2>1, <2>2
<1> QED
  BY <1>6, <1>7

\* What is above an asset that is above another is above that one.
LEMMA AboveIsTransitive ==
    ASSUME DInv
    PROVE  \A a \in Assets : \A b \in Above[a] : b \in Assets /\ Above[b] \subseteq Above[a]
<1> DEFINE Good(a) == \A b \in Above[a] : b \in Assets /\ Above[b] \subseteq Above[a]
           part == {a \in Assets : ~Good(a)}
<1>1. ASSUME part # {} PROVE FALSE
  <2>0. part \in SUBSET Assets
    OBVIOUS
  <2>1. part \in (SUBSET Assets) \ {{}}
    <3> HIDE DEF part
    <3> QED BY <1>1, <2>0
  <2>2. PICK a \in part : a \in DOMAIN recipes => recipes[a].from \notin part
    BY <2>1, DerivationAssumption DEF DInv, Acyclic
  <2>3. a \in Targets => Source(a) \in Assets /\ Good(Source(a)) /\ Above[a] = {a} \cup Above[Source(a)]
    BY <2>2, RecipesAre, AboveIs DEF DInv, Targets, Source
  <2>4. a \notin Targets => Above[a] = {}
    BY <2>2, AboveIs
  <2>5. Good(a)
    BY <2>2, <2>3, <2>4
  <2> QED
    BY <2>2, <2>5
<1> QED
  BY <1>1

\* Whoever covers a target covers the targets it derives from.
LEMMA AffectedIsClosed ==
    ASSUME DInv, NEW selected, selected \subseteq Targets, NEW a \in Affected(selected), Source(a) \in Targets
    PROVE  Source(a) \in Affected(selected)
<1> DEFINE s == Source(a)
<1>1. a \in Targets /\ a \in Assets /\ s \in Assets /\ selected \subseteq Assets
  BY RecipesAre DEF DInv, Targets, Source, Affected
<1>2. Above[a] = {a} \cup Above[s] /\ s \in Above[s]
  BY <1>1, AboveIs
<1>3. PICK x \in selected : a \in Above[x] \/ x \in Above[a]
  BY DEF Affected
<1>4. CASE a \in Above[x]
  BY <1>1, <1>2, <1>4, AboveIsTransitive DEF Affected
<1>5. CASE x \in Above[a]
  BY <1>1, <1>2, <1>5 DEF Affected
<1> QED
  BY <1>3, <1>4, <1>5

\* The recursions of inspection and plan, as facts about a state.
Followed ==
    /\ \A a \in Assets :
          Expected[a] = IF a \in Targets /\ Judged(a) /\ Applicable(Expected[Source(a)].content)
                        THEN Derived(a, Expected[Source(a)]) ELSE Made(content[a], <<>>)
    /\ \A selected \in SUBSET Assets : \A a \in Assets :
          Planned(selected)[a] =
              IF a \in Affected(selected) /\ Applicable(Planned(selected)[Source(a)].content)
              THEN Derived(a, Planned(selected)[Source(a)]) ELSE AsFound(a)

\* They hold in every state of the invariant.
LEMMA BothFollow == DInv => Followed
BY ExpectedIs, PlannedIs DEF Followed

\* Each target that a derive covers has the new receipt and what it says.
LEMMA CoveredAfter ==
    ASSUME DInv, NEW selected, Derive(selected), NEW a \in Affected(selected)
    PROVE  /\ receipt'[a] = Fresh(selected, a) /\ content'[a] = Fresh(selected, a).content
           /\ receipt'[a] \notin {Gone, Corrupt} /\ content'[a] # Gone
<1>1. a \in Assets /\ Derivable(a) /\ Fresh(selected, a) \in Receipts /\ Fresh(selected, a).content \in Artwork
  BY DeriveDoes
<1>2. Fresh(selected, a) \notin {Gone, Corrupt} /\ Fresh(selected, a).content # Gone
  BY <1>1, DerivationAssumption
<1>3. CASE a \in Renewed(selected)
  BY <1>1, <1>2, <1>3, DeriveDoes
<1>4. CASE a \notin Renewed(selected)
  <2>1. receipt[a] = Fresh(selected, a) /\ receipt'[a] = receipt[a] /\ content'[a] = content[a]
    BY <1>1, <1>4, DeriveDoes DEF Renewed
  <2>2. StateOf(a) \in {"unchanged", "stale-authority"}
    BY <1>1, <1>2, <2>1 DEF Derivable
  <2>3. content[a] = receipt[a].content
    BY <2>2 DEF StateOf, Compared
  <2> QED
    BY <1>2, <2>1, <2>3
<1> QED
  BY <1>3, <1>4

\* Planning again in the next state gives the same plan.
LEMMA SamePlanAfter ==
    ASSUME DInv, NEW selected \in SUBSET Targets, Derive(selected), Followed, Followed'
    PROVE  /\ Affected(selected)' = Affected(selected)
           /\ \A a \in Assets : Planned(selected)'[a] = Planned(selected)[a]
<1> DEFINE scheme == Planned(selected)
           again == Planned(selected)'
<1>1. recipes' = recipes /\ tokens' = tokens
  BY DeriveDoes
<1>2. Affected(selected)' = Affected(selected)
  BY <1>1 DEF Affected, Above, AboveIn, Targets
<1>3. selected \in SUBSET Assets
  BY RecipesAre DEF DInv, Targets
<1>4. \A a \in Assets : scheme[a] = IF a \in Affected(selected) /\ Applicable(scheme[Source(a)].content)
                                  THEN Derived(a, scheme[Source(a)]) ELSE AsFound(a)
  BY <1>3 DEF Followed
<1>5. \A a \in Assets : again[a] = IF a \in Affected(selected) /\ Applicable(again[Source(a)].content)
                                   THEN Derived(a, again[Source(a)]) ELSE AsFound(a)'
  BY <1>1, <1>2, <1>3 DEF Followed, Derived, Made, Apply, Source, Applicable
<1>6. \A a \in Assets \ Affected(selected) : AsFound(a)' = AsFound(a)
  <2>1. \A a \in Assets \ Affected(selected) : content'[a] = content[a] /\ receipt'[a] = receipt[a]
    BY DeriveDoes
  <2> QED
    BY <2>1 DEF AsFound, Made, Receipted
<1>7. \A a \in Affected(selected) : Source(a) \in Assets /\ Source(a) = recipes[a].from /\ a \in DOMAIN recipes
                                    /\ Applicable(scheme[Source(a)].content)
  BY DeriveDoes DEF Source, Targets
<1> DEFINE part == {a \in Assets : again[a] # scheme[a]}
<1>8. ASSUME part # {} PROVE FALSE
  <2>0. part \in SUBSET Assets
    OBVIOUS
  <2>1. part \in (SUBSET Assets) \ {{}}
    <3> HIDE DEF part
    <3> QED BY <1>8, <2>0
  <2>2. PICK a \in part : a \in DOMAIN recipes => recipes[a].from \notin part
    BY <2>1, DerivationAssumption DEF DInv, Acyclic
  <2> HIDE DEF scheme, again
  <2>3. a \in Affected(selected) => again[Source(a)] = scheme[Source(a)]
    BY <1>7, <2>2
  <2>4. again[a] = scheme[a]
    BY <1>4, <1>5, <1>6, <1>7, <2>2, <2>3
  <2> QED
    BY <2>2, <2>4
<1> QED
  BY <1>2, <1>8

\* The inspection of the next state follows the plan where no orphan is above.
LEMMA InspectedAsPlanned ==
    ASSUME DInv, NEW selected \in SUBSET Targets, Derive(selected), Followed, Followed'
    PROVE  \A a \in Affected(selected) :
              ~OrphanAbove(a) => /\ Judged(a)'
                                 /\ Expected'[Source(a)] = Planned(selected)[Source(a)]
                                 /\ Expected'[a] = Planned(selected)[a]
<1> DEFINE scheme == Planned(selected)
           after == Expected'
           Clear(a) == a \in Affected(selected) /\ ~OrphanAbove(a)
<1>1. recipes' = recipes /\ tokens' = tokens
  BY DeriveDoes
<1>2. selected \in SUBSET Assets
  BY RecipesAre DEF DInv, Targets
<1>3. \A a \in Affected(selected) :
         /\ a \in Targets /\ a \in Assets /\ Source(a) \in Assets /\ Source(a) = recipes[a].from
         /\ Applicable(scheme[Source(a)].content) /\ scheme[a] = Derived(a, scheme[Source(a)])
  BY DeriveDoes DEF Source
<1>4. \A a \in Affected(selected) : Judged(a)'
  <2> SUFFICES ASSUME NEW a \in Affected(selected) PROVE Judged(a)'
    OBVIOUS
  <2>1. receipt'[a] = Fresh(selected, a) /\ receipt'[a] \notin {Gone, Corrupt} /\ content'[a] # Gone
    BY CoveredAfter
  <2>2. receipt'[a].id = recipes[a].id
    BY <2>1 DEF Fresh, createBrandDerivedReceipt
  <2> QED
    BY <1>1, <2>1, <2>2 DEF Judged, Receipted
<1>5. \A a \in Assets : after[a] = IF a \in Targets /\ Judged(a)' /\ Applicable(after[Source(a)].content)
                                   THEN Derived(a, after[Source(a)]) ELSE Made(content'[a], <<>>)
  BY <1>1 DEF Followed, Derived, Made, Apply, Source, Applicable, Targets
<1>6. ASSUME NEW a, Clear(a), Source(a) \notin Targets PROVE after[Source(a)] = scheme[Source(a)]
  <2> DEFINE s == Source(a)
  <2>1. s \in Assets /\ s \notin Affected(selected) /\ a \in Above[a]
    BY <1>3, <1>6, DeriveDoes, AboveIs
  <2>2. receipt[s] = Gone
    BY <1>6, <2>1 DEF OrphanAbove, Orphan
  <2>3. content'[s] = content[s]
    BY <2>1, DeriveDoes
  <2>4. scheme[s] = Made(content[s], <<>>)
    BY <1>2, <2>1, <2>2 DEF Followed, AsFound, Receipted
  <2>5. after[s] = Made(content'[s], <<>>)
    BY <1>5, <1>6, <2>1
  <2> QED
    BY <2>3, <2>4, <2>5 DEF Made
<1>7. ASSUME NEW a, Clear(a), Source(a) \in Targets PROVE Clear(Source(a))
  <2>1. Source(a) \in Affected(selected)
    BY <1>7, AffectedIsClosed
  <2>2. Above[Source(a)] \subseteq Above[a]
    BY <1>3, <1>7, AboveIs
  <2> QED
    BY <1>7, <2>1, <2>2 DEF OrphanAbove
<1> DEFINE part == {a \in Assets : Clear(a) /\ after[a] # scheme[a]}
<1>8. ASSUME part # {} PROVE FALSE
  <2>0. part \in SUBSET Assets
    OBVIOUS
  <2>1. part \in (SUBSET Assets) \ {{}}
    <3> HIDE DEF part
    <3> QED BY <1>8, <2>0
  <2>2. PICK a \in part : a \in DOMAIN recipes => recipes[a].from \notin part
    BY <2>1, DerivationAssumption DEF DInv, Acyclic
  <2>3. Clear(a) /\ Source(a) \in Assets /\ Source(a) \notin part
    BY <1>3, <2>2 DEF Targets
  <2>4. after[Source(a)] = scheme[Source(a)]
    BY <1>6, <1>7, <2>3
  <2>5. after[a] = scheme[a]
    BY <1>3, <1>4, <1>5, <2>3, <2>4
  <2> QED
    BY <2>2, <2>5
<1>9. ASSUME NEW a, Clear(a) PROVE after[Source(a)] = scheme[Source(a)] /\ after[a] = scheme[a]
  <2>1. a \in Assets /\ Source(a) \in Assets
    BY <1>3, <1>9
  <2> QED
    BY <1>6, <1>7, <1>8, <1>9, <2>1
<1> QED
  BY <1>4, <1>9

\* So what was derived is unchanged, and the same derive finds nothing to write.
LEMMA Settles ==
    ASSUME DInv, NEW selected \in SUBSET Targets, Derive(selected), Followed, Followed'
    PROVE  /\ NewReceipts(selected)' = <<>>
           /\ \A a \in Affected(selected) : OrphanAbove(a) \/ StateOf(a)' = "unchanged"
<1>1. recipes' = recipes /\ tokens' = tokens
  BY DeriveDoes
<1>2. NewReceipts(selected)' = <<>>
  <2> DEFINE Again(a) == [id |-> recipes[a].id, recipes |-> recipes, tokens |-> tokens,
                          chain |-> Planned(selected)'[a].chain, content |-> Planned(selected)'[a].content]
             made == [a \in Affected(selected) |-> Again(a)]
  <2>1. NewReceipts(selected)' = [a \in {b \in DOMAIN made : made[b] # receipt'[b]} |-> made[a]]
    BY <1>1, SamePlanAfter DEF NewReceipts, createBrandDerivedReceipt
  <2>2. \A a \in Affected(selected) : Again(a) = Fresh(selected, a)
    BY SamePlanAfter, DeriveDoes DEF Fresh, createBrandDerivedReceipt
  <2>3. \A a \in Affected(selected) : made[a] = receipt'[a]
    BY <2>2, CoveredAfter
  <2>4. {b \in DOMAIN made : made[b] # receipt'[b]} = {}
    BY <2>3
  <2> HIDE DEF made
  <2> QED
    BY <2>1, <2>4
<1>3. ASSUME NEW a \in Affected(selected), ~OrphanAbove(a) PROVE StateOf(a)' = "unchanged"
  <2> DEFINE s == Source(a)
  <2>1. /\ Judged(a)' /\ Expected'[s] = Planned(selected)[s] /\ Expected'[a] = Planned(selected)[a]
        /\ Applicable(Planned(selected)[s].content)
    BY <1>3, InspectedAsPlanned, DeriveDoes
  <2>2. receipt'[a] = Fresh(selected, a) /\ content'[a] = receipt'[a].content
        /\ receipt'[a] # Gone /\ content'[a] # Gone
    BY CoveredAfter
  <2>3. createBrandDerivedReceipt(a, Expected[a])' = Fresh(selected, a)
    BY <1>1, <2>1 DEF createBrandDerivedReceipt, Fresh
  <2>4. Compared(a)' = "unchanged"
    BY <2>2, <2>3 DEF Compared, SameAuthority
  <2>5. Source(a)' = s
    BY <1>1 DEF Source
  <2>6. Expected'[Source(a)'].content # Gone /\ Applicable(Expected'[Source(a)'].content)
    BY <2>1, <2>5 DEF Applicable
  <2> QED
    BY <2>1, <2>2, <2>4, <2>6 DEF StateOf, Applicable
<1> QED
  BY <1>2, <1>3

\* A derive leaves what it covers unchanged to the inspection, and repeating it
\* writes nothing.
THEOREM DerivesSettle == DSpec => DeriveSettles
<1> DEFINE SettledThere == \A selected \in SUBSET Targets : Rewrites(selected) =>
              /\ NewReceipts(selected)' = <<>>
              /\ \A a \in Affected(selected) : OrphanAbove(a) \/ StateOf(a)' = "unchanged"
<1>1. DInv /\ Followed /\ Followed' => [SettledThere]_dvars
  BY Settles DEF Rewrites
<1>2. DSpec => []Followed
  BY BothFollow, DerivationInvariance, PTL
<1> QED
  BY <1>1, <1>2, DerivationInvariance, PTL DEF DeriveSettles

-----------------------------------------------------------------------------
(* The read scheduler, for any requests, ids, lanes and limits.             *)

\* Tickets order the accepted requests; a request that was never accepted has
\* not run, and a queued one has not run yet.
TicketsOK ==
    /\ \A r \in Queued \cup ran : ticket[r] <= accepted
    /\ \A r, q \in Queued : ticket[r] = ticket[q] => r = q
    /\ Running \subseteq ran
    /\ \A r \in ran : phase[r] \in {"running", "answered"}

IndInv ==
    /\ TypeOK
    /\ LanesSerial
    /\ NoneStranded
    /\ TicketsOK
    /\ LaneFifo
    /\ CancelledNeverRan
    /\ IdsUnique

-----------------------------------------------------------------------------
\* A set of naturals has a least element.
LEMMA Least ==
    ASSUME NEW T, T \subseteq Nat, T # {}
    PROVE  \E x \in T : \A y \in T : x <= y
<1>1. \A x, y \in Nat : y < x => <<y, x>> \in OpToRel(<, Nat) BY DEF OpToRel
<1>2. PICK x \in T : \A y \in T : ~(<<y, x>> \in OpToRel(<, Nat))
      BY NatLessThanWellFounded, WFMin
<1>3. \A y \in T : ~(y < x)
  <2> TAKE y \in T
  <2>1. x \in Nat /\ y \in Nat OBVIOUS
  <2>2. ~(<<y, x>> \in OpToRel(<, Nat)) BY <1>2
  <2> QED BY <1>1, <2>1, <2>2, Zenon
<1>4. \A y \in T : x <= y
  <2> TAKE y \in T
  <2>1. x \in Nat /\ y \in Nat OBVIOUS
  <2> QED BY <1>3, <2>1
<1> QED BY <1>2, <1>4

LEMMA FiniteParts ==
    ASSUME TypeOK
    PROVE  IsFiniteSet(Queued) /\ IsFiniteSet(Running)
<1>1. Queued \subseteq Requests /\ Running \subseteq Requests BY DEF Queued, Running
<1> QED BY <1>1, FS_Subset, SchedulerAssumption

\* Taking a request out of the queue starts nothing.
LEMMA CancelStartsNothing ==
    ASSUME IndInv, NEW r \in Queued
    PROVE  Drained(running, runningLanes, Queued \ {r}) = {}
<1>1. LaneHeads(runningLanes, Queued \ {r}) = {}
      BY DEF IndInv, NoneStranded, LaneHeads
<1> QED BY <1>1 DEF Drained

\* A request that settles hands its lane to the oldest one queued for it.
LEMMA SettleStartsNext ==
    ASSUME IndInv, NEW r \in Running,
           NEW D, D = Drained(running - 1, runningLanes \ {LaneOf[r]}, Queued \ {r})
    PROVE  \/ /\ D = {}
              /\ \A q \in Queued : LaneOf[q] # LaneOf[r]
           \/ \E h \in Queued :
                 /\ D = {h}
                 /\ LaneOf[h] = LaneOf[r]
                 /\ \A p \in Queued : LaneOf[p] = LaneOf[r] => ticket[h] <= ticket[p]
<1> DEFINE busy == runningLanes \ {LaneOf[r]}
           H == LaneHeads(busy, Queued)
<1>1. Queued \ {r} = Queued BY DEF Queued, Running
<1>2. H = {q \in Queued : /\ LaneOf[q] = LaneOf[r]
                          /\ \A p \in Queued : LaneOf[p] = LaneOf[q] => ticket[q] <= ticket[p]}
      BY DEF IndInv, NoneStranded, LaneHeads
<1>3. D = {q \in H : running - 1 + Cardinality({p \in H : ticket[p] < ticket[q]})
                        < MaxConcurrentReads}
      BY <1>1 DEF Drained
<1>4. CASE \A q \in Queued : LaneOf[q] # LaneOf[r]
  <2>1. H = {} BY <1>2, <1>4
  <2> QED BY <1>3, <1>4, <2>1
<1>5. CASE \E q \in Queued : LaneOf[q] = LaneOf[r]
  <2> DEFINE Mine == {q \in Queued : LaneOf[q] = LaneOf[r]}
             T == {ticket[q] : q \in Mine}
  <2>1. \A q \in Queued : ticket[q] \in Nat BY DEF IndInv, TypeOK, Queued
  <2>2. T \subseteq Nat /\ T # {} BY <1>5, <2>1
  <2>3. PICK t \in T : \A y \in T : t <= y BY <2>2, Least
  <2>4. PICK h \in Mine : t = ticket[h] OBVIOUS
  <2>5. \A p \in Mine : ticket[h] <= ticket[p] BY <2>3, <2>4
  <2>6. h \in H BY <1>2, <2>4, <2>5
  <2>7. \A q \in H : q = h
    <3> TAKE q \in H
    <3>1. q \in Mine /\ ticket[q] <= ticket[h] BY <1>2, <2>4
    <3>2. ticket[q] = ticket[h] BY <2>1, <2>5, <3>1
    <3> QED BY <3>1, <3>2 DEF IndInv, TicketsOK
  <2>8. H = {h} BY <2>6, <2>7
  <2>9. {p \in H : ticket[p] < ticket[h]} = {} BY <2>1, <2>8
  <2>10. running \in Nat /\ running <= MaxConcurrentReads
         BY DEF IndInv, TypeOK, LanesSerial
  <2> HIDE DEF H, T, Mine
  <2>11. running - 1 + Cardinality({p \in H : ticket[p] < ticket[h]}) < MaxConcurrentReads
    <3>1. Cardinality({p \in H : ticket[p] < ticket[h]}) = 0 BY <2>9, FS_EmptySet
    <3> QED BY <2>10, <3>1, SchedulerAssumption
  <2>12. D = {h} BY <1>3, <2>8, <2>11
  <2> QED BY <2>4, <2>5, <2>12 DEF Mine
<1> QED BY <1>4, <1>5

-----------------------------------------------------------------------------
LEMMA InitInv == Init => IndInv
<1> SUFFICES ASSUME Init PROVE IndInv OBVIOUS
<1>1. Queued = {} /\ Running = {} BY DEF Init, Queued, Running
<1>2. TypeOK BY DEF Init, TypeOK, Answers
<1>3. LanesSerial BY <1>1, FS_EmptySet, SchedulerAssumption DEF Init, LanesSerial
<1>4. CancelledNeverRan BY DEF Init, CancelledNeverRan
<1> QED BY <1>1, <1>2, <1>3, <1>4
        DEF Init, IndInv, NoneStranded, TicketsOK, LaneFifo, IdsUnique, Active

\* A request answered without having been accepted.
LEMMA RefuseInv ==
    ASSUME IndInv, NEW r \in Requests, phase[r] = "new",
           NEW why \in Answers \ {"none", "cancelled"}, Refuse(r, why)
    PROVE  IndInv'
<1>1. Queued' = Queued /\ Running' = Running
      BY DEF Refuse, Queued, Running, IndInv, TypeOK
<1>2. TypeOK' BY DEF Refuse, IndInv, TypeOK
<1>3. LanesSerial' BY <1>1 DEF Refuse, IndInv, LanesSerial
<1>4. NoneStranded' BY <1>1 DEF Refuse, IndInv, NoneStranded
<1>5. TicketsOK' BY <1>1 DEF Refuse, IndInv, TicketsOK, TypeOK
<1>6. LaneFifo' BY <1>1 DEF Refuse, IndInv, LaneFifo
<1>7. CancelledNeverRan'
      BY DEF Refuse, IndInv, CancelledNeverRan, TypeOK
<1>8. IdsUnique' BY <1>1 DEF IndInv, IdsUnique, Active
<1> QED BY <1>2, <1>3, <1>4, <1>5, <1>6, <1>7, <1>8 DEF IndInv

LEMMA StartedInv ==
    ASSUME IndInv, NEW r \in Requests, SubmitStarted(r)
    PROVE  IndInv'
<1> USE DEF SubmitStarted, Accept, Start
<1>1. Queued' = Queued BY DEF Queued, IndInv, TypeOK
<1>2. Running' = Running \cup {r} /\ r \notin Running BY DEF Running, IndInv, TypeOK
<1>3. running' = running + 1 BY FS_Singleton
<1>4. running < MaxConcurrentReads
      BY SchedulerAssumption DEF NoRoom, IndInv, TypeOK
<1>5. Cardinality(Running') = Cardinality(Running) + 1
      BY <1>2, FiniteParts, FS_AddElement DEF IndInv
<1>6. runningLanes' = runningLanes \cup {LaneOf[r]} OBVIOUS
<1>7. r \notin Queued BY DEF Queued
<1>8. TypeOK'
  <2>1. runningLanes' \subseteq {LaneOf[q] : q \in Requests} BY <1>6 DEF IndInv, TypeOK
  <2>2. running' \in Nat BY <1>3 DEF IndInv, TypeOK
  <2>3. ticket' \in [Requests -> Nat] /\ accepted' \in Nat BY DEF IndInv, TypeOK
  <2>4. phase' \in [Requests -> {"new", "queued", "running", "answered"}]
        BY DEF IndInv, TypeOK
  <2>5. answer' \in [Requests -> Answers] /\ aborted' \subseteq Requests
        /\ ran' \subseteq Requests BY DEF IndInv, TypeOK
  <2> QED BY <2>1, <2>2, <2>3, <2>4, <2>5 DEF TypeOK
<1>9. LanesSerial'
  <2>1. \A q \in Running : LaneOf[q] # LaneOf[r]
        BY DEF LaneBusy, IndInv, LanesSerial
  <2>2. \A p, q \in Running' : LaneOf[p] = LaneOf[q] => p = q
        BY <1>2, <2>1 DEF IndInv, LanesSerial
  <2>3. runningLanes' = {LaneOf[q] : q \in Running'}
        BY <1>2, <1>6 DEF IndInv, LanesSerial
  <2>4. running' = Cardinality(Running') BY <1>3, <1>5 DEF IndInv, LanesSerial
  <2>5. running' <= MaxConcurrentReads
        BY <1>3, <1>4, SchedulerAssumption DEF IndInv, TypeOK
  <2>6. Cardinality(Queued') <= MaxQueuedReads BY <1>1 DEF IndInv, LanesSerial
  <2> QED BY <2>2, <2>3, <2>4, <2>5, <2>6 DEF LanesSerial
<1>10. NoneStranded' BY <1>1, <1>6 DEF IndInv, NoneStranded
<1>11. TicketsOK'
  <2>1. ran' = ran \cup {r} OBVIOUS
  <2>2. \A q \in Requests : q # r => ticket'[q] = ticket[q] /\ phase'[q] = phase[q]
        BY DEF IndInv, TypeOK
  <2>3. ticket'[r] = accepted' /\ phase'[r] = "running" BY DEF IndInv, TypeOK
  <2>4. accepted' = accepted + 1 /\ accepted \in Nat BY DEF IndInv, TypeOK
  <2>5. \A q \in Queued \cup ran : ticket[q] \in Nat /\ ticket[q] <= accepted /\ q \in Requests
        BY DEF IndInv, TypeOK, TicketsOK, Queued
  <2>6. \A q \in Queued' \cup ran' : ticket'[q] <= accepted'
        BY <1>1, <2>1, <2>2, <2>3, <2>4, <2>5
  <2>7. \A p, q \in Queued' : ticket'[p] = ticket'[q] => p = q
        BY <1>1, <1>7, <2>2, <2>5 DEF IndInv, TicketsOK
  <2>8. Running' \subseteq ran' BY <1>2, <2>1 DEF IndInv, TicketsOK
  <2>9. \A q \in ran' : phase'[q] \in {"running", "answered"}
        BY <2>1, <2>2, <2>3, <2>5 DEF IndInv, TicketsOK
  <2> QED BY <2>6, <2>7, <2>8, <2>9 DEF TicketsOK
<1>12. LaneFifo'
  <2>1. \A q \in Queued : LaneOf[q] # LaneOf[r] BY DEF LaneBusy
  <2>2. \A q \in Queued \cup ran : q \in Requests BY DEF IndInv, TypeOK, Queued
  <2>3. \A q \in Queued \cup ran : q # r => ticket'[q] = ticket[q]
        BY <2>2 DEF IndInv, TypeOK
  <2> QED BY <1>1, <1>7, <2>1, <2>3 DEF IndInv, LaneFifo
<1>13. CancelledNeverRan'
      BY DEF IndInv, CancelledNeverRan, TypeOK
<1>14. IdsUnique'
  <2>1. \A q \in Active : IdOf[q] # IdOf[r] BY DEF IdInUse
  <2>2. Active' = Active \cup {r} BY <1>1, <1>2 DEF Active
  <2> QED BY <2>1, <2>2 DEF IndInv, IdsUnique
<1> QED BY <1>8, <1>9, <1>10, <1>11, <1>12, <1>13, <1>14 DEF IndInv

LEMMA QueuedInv ==
    ASSUME IndInv, NEW r \in Requests, SubmitQueued(r)
    PROVE  IndInv'
<1> USE DEF SubmitQueued, Accept
<1>1. Queued' = Queued \cup {r} BY DEF Queued, IndInv, TypeOK
<1>2. Running' = Running BY DEF Running, IndInv, TypeOK
<1>3. r \notin Queued BY DEF Queued
<1>4. Cardinality(Queued) < MaxQueuedReads
  <2>1. Cardinality(Queued) \in Nat BY FiniteParts, FS_CardinalityType DEF IndInv
  <2> QED BY <2>1, SchedulerAssumption DEF NoRoom
<1>5. Cardinality(Queued') = Cardinality(Queued) + 1
      BY <1>1, <1>3, FiniteParts, FS_AddElement DEF IndInv
<1>6. r \notin ran BY DEF IndInv, TicketsOK
<1>7. TypeOK'
  <2>1. ticket' \in [Requests -> Nat] /\ accepted' \in Nat BY DEF IndInv, TypeOK
  <2>2. phase' \in [Requests -> {"new", "queued", "running", "answered"}]
        BY DEF IndInv, TypeOK
  <2>3. /\ answer' \in [Requests -> Answers] /\ aborted' \subseteq Requests
        /\ ran' \subseteq Requests /\ running' \in Nat BY DEF IndInv, TypeOK
  <2>4. runningLanes' \subseteq {LaneOf[q] : q \in Requests} BY DEF IndInv, TypeOK
  <2> QED BY <2>1, <2>2, <2>3, <2>4 DEF TypeOK
<1>8. LanesSerial'
  <2>1. Cardinality(Queued') <= MaxQueuedReads
    <3>1. Cardinality(Queued) \in Nat BY FiniteParts, FS_CardinalityType DEF IndInv
    <3> QED BY <1>4, <1>5, <3>1, SchedulerAssumption
  <2> QED BY <1>2, <2>1 DEF IndInv, LanesSerial
<1>9. NoneStranded'
  <2>1. LaneOf[r] \in runningLanes BY DEF LaneBusy, IndInv, NoneStranded
  <2> QED BY <1>1, <2>1 DEF IndInv, NoneStranded
<1>10. \A q \in Requests : q # r => ticket'[q] = ticket[q] /\ phase'[q] = phase[q]
       BY DEF IndInv, TypeOK
<1>11. ticket'[r] = accepted + 1 /\ accepted' = accepted + 1 /\ accepted \in Nat
       BY DEF IndInv, TypeOK
<1>12. \A q \in Queued \cup ran : ticket[q] \in Nat /\ ticket[q] <= accepted /\ q \in Requests
       BY DEF IndInv, TypeOK, TicketsOK, Queued
<1>13. TicketsOK'
  <2>1. \A q \in Queued' \cup ran' : ticket'[q] <= accepted'
        BY <1>1, <1>10, <1>11, <1>12
  <2>2. \A p, q \in Queued' : ticket'[p] = ticket'[q] => p = q
    <3> SUFFICES ASSUME NEW p \in Queued', NEW q \in Queued', ticket'[p] = ticket'[q]
                 PROVE  p = q OBVIOUS
    <3>1. CASE p = r /\ q # r BY <1>1, <1>10, <1>11, <1>12, <3>1
    <3>2. CASE p # r /\ q = r BY <1>1, <1>10, <1>11, <1>12, <3>2
    <3>3. CASE p # r /\ q # r BY <1>1, <1>10, <1>12, <3>3 DEF IndInv, TicketsOK
    <3> QED BY <3>1, <3>2, <3>3
  <2>3. Running' \subseteq ran' BY <1>2 DEF IndInv, TicketsOK
  <2>4. \A q \in ran' : phase'[q] \in {"running", "answered"}
        BY <1>6, <1>10, <1>12 DEF IndInv, TicketsOK
  <2> QED BY <2>1, <2>2, <2>3, <2>4 DEF TicketsOK
<1>14. LaneFifo'
  <2> SUFFICES ASSUME NEW q \in Queued', NEW p \in ran', LaneOf[p] = LaneOf[q]
               PROVE  ticket'[p] < ticket'[q] BY DEF LaneFifo
  <2>1. p # r /\ p \in ran /\ ticket'[p] = ticket[p] BY <1>6, <1>10, <1>12
  <2>2. CASE q = r BY <1>11, <1>12, <2>1, <2>2
  <2>3. CASE q # r BY <1>1, <1>10, <1>12, <2>1, <2>3 DEF IndInv, LaneFifo
  <2> QED BY <2>2, <2>3
<1>15. CancelledNeverRan' BY <1>10 DEF IndInv, CancelledNeverRan, TypeOK
<1>16. IdsUnique'
  <2>1. \A q \in Active : IdOf[q] # IdOf[r] BY DEF IdInUse
  <2>2. Active' = Active \cup {r} BY <1>1, <1>2 DEF Active
  <2> QED BY <2>1, <2>2 DEF IndInv, IdsUnique
<1> QED BY <1>7, <1>8, <1>9, <1>13, <1>14, <1>15, <1>16 DEF IndInv

LEMMA CancelInv ==
    ASSUME IndInv, NEW r \in Requests, CancelQueued(r)
    PROVE  IndInv'
<1>1. Drained(running, runningLanes, Queued \ {r}) = {}
      BY CancelStartsNothing DEF CancelQueued
<1>2. /\ phase' = [phase EXCEPT ![r] = "answered"]
      /\ answer' = [answer EXCEPT ![r] = "cancelled"]
      /\ aborted' = aborted \cup {r}
      /\ UNCHANGED <<ticket, accepted>>
      BY <1>1 DEF CancelQueued, Leave, IndInv, TypeOK
<1>3. Start(running, runningLanes, {}) BY <1>1 DEF CancelQueued, Leave
<1>4. UNCHANGED <<running, runningLanes, ran>>
      BY <1>3, FS_EmptySet DEF Start, IndInv, TypeOK
<1>5. r \in Queued /\ r \notin ran BY DEF CancelQueued, IndInv, TicketsOK, Queued
<1>6. Queued' = Queued \ {r} BY <1>2, <1>5 DEF Queued, IndInv, TypeOK
<1>7. Running' = Running BY <1>2, <1>5 DEF Queued, Running, IndInv, TypeOK
<1>8. TypeOK' BY <1>2, <1>4 DEF IndInv, TypeOK, Answers
<1>9. LanesSerial'
  <2>1. Cardinality(Queued') = Cardinality(Queued) - 1
        BY <1>5, <1>6, FiniteParts, FS_RemoveElement DEF IndInv
  <2>2. Cardinality(Queued) \in Nat BY FiniteParts, FS_CardinalityType DEF IndInv
  <2>3. Cardinality(Queued') <= MaxQueuedReads
        BY <2>1, <2>2, SchedulerAssumption DEF IndInv, LanesSerial
  <2> QED BY <1>4, <1>7, <2>3 DEF IndInv, LanesSerial
<1>10. NoneStranded' BY <1>4, <1>6 DEF IndInv, NoneStranded
<1>11. TicketsOK'
  <2>1. \A q \in ran : q # r /\ q \in Requests BY <1>5 DEF IndInv, TypeOK
  <2>2. \A q \in ran' : phase'[q] \in {"running", "answered"}
        BY <1>2, <1>4, <2>1 DEF IndInv, TicketsOK, TypeOK
  <2> QED BY <1>2, <1>4, <1>6, <1>7, <2>2 DEF IndInv, TicketsOK
<1>12. LaneFifo' BY <1>2, <1>4, <1>6 DEF IndInv, LaneFifo
<1>13. CancelledNeverRan'
       BY <1>2, <1>4, <1>5 DEF IndInv, CancelledNeverRan, TypeOK
<1>14. IdsUnique' BY <1>6, <1>7 DEF IndInv, IdsUnique, Active
<1> QED BY <1>8, <1>9, <1>10, <1>11, <1>12, <1>13, <1>14 DEF IndInv

\* A task settles and nothing waits for its lane.
LEMMA SettleAloneInv ==
    ASSUME IndInv, NEW r \in Running, Settle(r),
           Drained(running - 1, runningLanes \ {LaneOf[r]}, Queued \ {r}) = {},
           \A q \in Queued : LaneOf[q] # LaneOf[r]
    PROVE  IndInv'
<1>1. r \in Requests /\ phase[r] = "running" /\ r \in ran
      BY DEF Running, IndInv, TicketsOK
<1>2. /\ phase' = [phase EXCEPT ![r] = "answered"]
      /\ answer' = [answer EXCEPT ![r] = "settled"]
      /\ UNCHANGED <<ticket, accepted, aborted>>
      BY DEF Settle, Leave, IndInv, TypeOK
<1>3. Start(running - 1, runningLanes \ {LaneOf[r]}, {}) BY DEF Settle, Leave
<1>4. IsFiniteSet(Running) /\ running = Cardinality(Running) /\ running \in Nat
      BY FiniteParts DEF IndInv, LanesSerial, TypeOK
<1>5. Cardinality(Running \ {r}) = running - 1 /\ Cardinality(Running \ {r}) \in Nat
      BY <1>4, FS_RemoveElement, FS_CardinalityType
<1>6. /\ running' = running - 1
      /\ runningLanes' = runningLanes \ {LaneOf[r]}
      /\ ran' = ran
      BY <1>3, <1>5, FS_EmptySet DEF Start
<1>7. Running' = Running \ {r} BY <1>1, <1>2 DEF Running, IndInv, TypeOK
<1>8. Queued' = Queued BY <1>1, <1>2 DEF Queued, IndInv, TypeOK
<1>9. TypeOK' BY <1>1, <1>2, <1>5, <1>6 DEF IndInv, TypeOK, Answers
<1>10. LanesSerial'
  <2>1. \A p, q \in Running' : LaneOf[p] = LaneOf[q] => p = q
        BY <1>7 DEF IndInv, LanesSerial
  <2>2. runningLanes' = {LaneOf[q] : q \in Running'}
        BY <1>6, <1>7 DEF IndInv, LanesSerial
  <2>3. running' <= MaxConcurrentReads
        BY <1>4, <1>6, SchedulerAssumption DEF IndInv, LanesSerial
  <2> QED BY <1>5, <1>6, <1>7, <1>8, <2>1, <2>2, <2>3 DEF IndInv, LanesSerial
<1>11. NoneStranded' BY <1>6, <1>8 DEF IndInv, NoneStranded
<1>12. TicketsOK'
  <2>1. \A q \in ran' : phase'[q] \in {"running", "answered"}
        BY <1>2, <1>6 DEF IndInv, TicketsOK, TypeOK
  <2> QED BY <1>2, <1>6, <1>7, <1>8, <2>1 DEF IndInv, TicketsOK
<1>13. LaneFifo' BY <1>2, <1>6, <1>8 DEF IndInv, LaneFifo
<1>14. CancelledNeverRan'
       BY <1>1, <1>2, <1>6 DEF IndInv, CancelledNeverRan, TypeOK
<1>15. IdsUnique' BY <1>7, <1>8 DEF IndInv, IdsUnique, Active
<1> QED BY <1>9, <1>10, <1>11, <1>12, <1>13, <1>14, <1>15 DEF IndInv

\* A task settles and the oldest request of its lane starts.
LEMMA SettleNextInv ==
    ASSUME IndInv, NEW r \in Running, Settle(r), NEW h \in Queued,
           Drained(running - 1, runningLanes \ {LaneOf[r]}, Queued \ {r}) = {h},
           LaneOf[h] = LaneOf[r],
           \A p \in Queued : LaneOf[p] = LaneOf[r] => ticket[h] <= ticket[p]
    PROVE  IndInv'
<1>1. /\ r \in Requests /\ phase[r] = "running" /\ r \in ran
      /\ h \in Requests /\ phase[h] = "queued" /\ h \notin ran /\ h # r
      BY DEF Running, Queued, IndInv, TicketsOK
<1>2. /\ phase' = [phase EXCEPT ![r] = "answered", ![h] = "running"]
      /\ answer' = [answer EXCEPT ![r] = "settled"]
      /\ UNCHANGED <<ticket, accepted, aborted>>
      BY <1>1 DEF Settle, Leave, IndInv, TypeOK
<1>3. Start(running - 1, runningLanes \ {LaneOf[r]}, {h}) BY DEF Settle, Leave
<1>4. IsFiniteSet(Running) /\ running = Cardinality(Running) /\ running \in Nat
      BY FiniteParts DEF IndInv, LanesSerial, TypeOK
<1>5. /\ IsFiniteSet(Running \ {r})
      /\ Cardinality(Running \ {r}) = running - 1
      BY <1>4, FS_RemoveElement
<1>6. LaneOf[r] \in runningLanes BY DEF IndInv, LanesSerial
<1>7. /\ running' = running
      /\ runningLanes' = runningLanes
      /\ ran' = ran \cup {h}
  <2>1. running' = running - 1 + Cardinality({h}) /\ Cardinality({h}) = 1
        BY <1>3, FS_Singleton DEF Start
  <2>2. runningLanes' = (runningLanes \ {LaneOf[r]}) \cup {LaneOf[q] : q \in {h}}
        BY <1>3 DEF Start
  <2>3. {LaneOf[q] : q \in {h}} = {LaneOf[r]} OBVIOUS
  <2>4. ran' = ran \cup {h} BY <1>3 DEF Start
  <2> QED BY <1>4, <1>6, <2>1, <2>2, <2>3, <2>4
<1>8. Running' = (Running \ {r}) \cup {h}
      BY <1>1, <1>2 DEF Running, IndInv, TypeOK
<1>9. Queued' = Queued \ {h} BY <1>1, <1>2 DEF Queued, IndInv, TypeOK
<1>10. h \notin Running BY <1>1 DEF Running
<1>11. TypeOK' BY <1>1, <1>2, <1>4, <1>7 DEF IndInv, TypeOK, Answers
<1>12. LanesSerial'
  <2>1. \A p, q \in Running' : LaneOf[p] = LaneOf[q] => p = q
        BY <1>8 DEF IndInv, LanesSerial
  <2>2. runningLanes' = {LaneOf[q] : q \in Running'}
        BY <1>7, <1>8 DEF IndInv, LanesSerial
  <2>3. running' = Cardinality(Running')
    <3> DEFINE Others == Running \ {r}
    <3>1. IsFiniteSet(Others) /\ h \notin Others BY <1>5, <1>10
    <3> HIDE DEF Others
    <3>2. Cardinality(Others \cup {h}) = Cardinality(Others) + 1 BY <3>1, FS_AddElement
    <3> QED BY <1>4, <1>5, <1>7, <1>8, <3>2 DEF Others
  <2>4. Cardinality(Queued') = Cardinality(Queued) - 1 /\ Cardinality(Queued) \in Nat
        BY <1>9, FiniteParts, FS_RemoveElement, FS_CardinalityType DEF IndInv
  <2>5. Cardinality(Queued') <= MaxQueuedReads
        BY <2>4, SchedulerAssumption DEF IndInv, LanesSerial
  <2> QED BY <1>7, <2>1, <2>2, <2>3, <2>5 DEF IndInv, LanesSerial
<1>13. NoneStranded' BY <1>7, <1>9 DEF IndInv, NoneStranded
<1>14. TicketsOK'
  <2>1. \A q \in ran' : phase'[q] \in {"running", "answered"}
        BY <1>1, <1>2, <1>7 DEF IndInv, TicketsOK, TypeOK
  <2>2. \A q \in Queued' \cup ran' : q \in Queued \cup ran BY <1>7, <1>9
  <2>3. Running' \subseteq ran' BY <1>7, <1>8 DEF IndInv, TicketsOK
  <2> QED BY <1>2, <1>9, <2>1, <2>2, <2>3 DEF IndInv, TicketsOK
<1>15. LaneFifo'
  <2> SUFFICES ASSUME NEW q \in Queued', NEW p \in ran', LaneOf[p] = LaneOf[q]
               PROVE  ticket[p] < ticket[q] BY <1>2 DEF LaneFifo
  <2>1. q \in Queued /\ q # h BY <1>9
  <2>2. CASE p \in ran BY <2>1, <2>2 DEF IndInv, LaneFifo
  <2>3. CASE p = h
    <3>1. ticket[h] <= ticket[q] BY <2>1, <2>3
    <3>2. ticket[h] # ticket[q] BY <2>1 DEF IndInv, TicketsOK
    <3>3. ticket[h] \in Nat /\ ticket[q] \in Nat BY <2>1 DEF Queued, IndInv, TypeOK
    <3> QED BY <2>3, <3>1, <3>2, <3>3
  <2> QED BY <1>7, <2>2, <2>3
<1>16. CancelledNeverRan'
  <2> SUFFICES ASSUME NEW q \in Requests
               PROVE  /\ answer'[q] = "cancelled" => phase'[q] = "answered" /\ q \notin ran'
                      /\ phase'[q] = "answered" <=> answer'[q] # "none"
      BY DEF CancelledNeverRan
  <2>1. CASE q = r BY <1>1, <1>2, <2>1 DEF IndInv, TypeOK
  <2>2. CASE q = h
        BY <1>1, <1>2, <2>2 DEF IndInv, CancelledNeverRan, TypeOK
  <2>3. CASE q # r /\ q # h
        BY <1>2, <1>7, <2>3 DEF IndInv, CancelledNeverRan, TypeOK
  <2> QED BY <2>1, <2>2, <2>3
<1>17. IdsUnique' BY <1>8, <1>9 DEF IndInv, IdsUnique, Active
<1> QED BY <1>11, <1>12, <1>13, <1>14, <1>15, <1>16, <1>17 DEF IndInv

\* Only the signals of some requests change.
LEMMA AbortInv ==
    ASSUME IndInv, aborted' \subseteq Requests,
           UNCHANGED <<phase, answer, ticket, accepted, running, runningLanes, ran>>
    PROVE  IndInv'
<1>1. Queued' = Queued /\ Running' = Running BY DEF Queued, Running
<1> QED BY <1>1 DEF IndInv, TypeOK, LanesSerial, NoneStranded, TicketsOK, LaneFifo,
                    CancelledNeverRan, IdsUnique, Active

LEMMA StepInv == IndInv /\ [Next]_vars => IndInv'
<1> SUFFICES ASSUME IndInv, [Next]_vars PROVE IndInv' OBVIOUS
<1>1. aborted \subseteq Requests /\ Active \subseteq Requests
      BY DEF IndInv, TypeOK, Active, Queued, Running
<1>2. CASE CancelAll BY <1>1, <1>2, AbortInv DEF CancelAll
<1>3. CASE \E r \in Requests : RequestStep(r)
  <2> PICK r \in Requests : RequestStep(r) BY <1>3
  <2>1. CASE SubmitDuplicate(r) BY <2>1, RefuseInv DEF SubmitDuplicate, Answers
  <2>2. CASE SubmitBusy(r) BY <2>2, RefuseInv DEF SubmitBusy, Answers
  <2>3. CASE SubmitStarted(r) BY <2>3, StartedInv
  <2>4. CASE SubmitQueued(r) BY <2>4, QueuedInv
  <2>5. CASE CancelQueued(r) BY <2>5, CancelInv
  <2>6. CASE CancelRunning(r) BY <1>1, <2>6, AbortInv DEF CancelRunning
  <2>7. CASE Settle(r)
    <3>1. r \in Running BY <2>7 DEF Settle
    <3> DEFINE D == Drained(running - 1, runningLanes \ {LaneOf[r]}, Queued \ {r})
    <3>2. \/ /\ D = {}
             /\ \A q \in Queued : LaneOf[q] # LaneOf[r]
          \/ \E h \in Queued :
                /\ D = {h}
                /\ LaneOf[h] = LaneOf[r]
                /\ \A p \in Queued : LaneOf[p] = LaneOf[r] => ticket[h] <= ticket[p]
          BY <3>1, SettleStartsNext
    <3>3. CASE D = {} /\ \A q \in Queued : LaneOf[q] # LaneOf[r]
          BY <2>7, <3>1, <3>3, SettleAloneInv
    <3>4. CASE \E h \in Queued :
                /\ D = {h}
                /\ LaneOf[h] = LaneOf[r]
                /\ \A p \in Queued : LaneOf[p] = LaneOf[r] => ticket[h] <= ticket[p]
          BY <2>7, <3>1, <3>4, SettleNextInv
    <3> QED BY <3>2, <3>3, <3>4
  <2> QED BY <2>1, <2>2, <2>3, <2>4, <2>5, <2>6, <2>7 DEF RequestStep, Submit
<1>4. CASE UNCHANGED vars BY <1>1, <1>4, AbortInv DEF vars
<1> QED BY <1>2, <1>3, <1>4 DEF Next

-----------------------------------------------------------------------------
\* The inductive invariant holds in every reachable state.
THEOREM SchedulerInvariance == Spec => []IndInv
    BY InitInv, StepInv, PTL DEF Spec

\* Every variable keeps its type.
THEOREM SchedulerTyped == Spec => []TypeOK
<1>1. IndInv => TypeOK BY DEF IndInv
<1> QED BY <1>1, SchedulerInvariance, PTL

\* Never two requests of a lane at once, nor more than the limits; the counter
\* and the lane set kept by hand always agree with what runs; and a lane serves
\* its requests in the order they were accepted.
THEOREM LanesServedInOrder == Spec => []LanesInOrder
<1>1. IndInv => LanesInOrder BY DEF IndInv, LanesInOrder
<1> QED BY <1>1, SchedulerInvariance, PTL

\* A queued request always has a running one on its lane to hand it over.
THEOREM NobodyStranded == Spec => []NoneStranded
<1>1. IndInv => NoneStranded BY DEF IndInv
<1> QED BY <1>1, SchedulerInvariance, PTL

\* A request cancelled in the queue never runs.
THEOREM CancelIsFinal == Spec => []CancelledNeverRan
<1>1. IndInv => CancelledNeverRan BY DEF IndInv
<1> QED BY <1>1, SchedulerInvariance, PTL

\* An id means at most one active request.
THEOREM OneRequestPerId == Spec => []IdsUnique
<1>1. IndInv => IdsUnique BY DEF IndInv
<1> QED BY <1>1, SchedulerInvariance, PTL
=============================================================================
