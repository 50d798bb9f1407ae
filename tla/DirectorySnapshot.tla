---------------------------- MODULE DirectorySnapshot ----------------------------
(***************************************************************************)
(* The import of a directory: src/directory-snapshot.ts over the native    *)
(* module, planDirectoryImport and executeImport of src/importer.ts, and   *)
(* the three calls of verifyExternalState in src/transaction.ts.           *)
(* The source is a root directory with one subdirectory and an SVG file in *)
(* each, and the source map.  A scan takes many looks at it, each a system *)
(* call through a handle, and somebody edits the source between any two.   *)
(* The native calls are synchronous, so within a scan nothing of the       *)
(* program itself runs, except where the check awaits other authorities    *)
(* (a normalization map, a shard manifest).                                *)
(* A stat (device, inode, links, size, times) is <<node, stamp>>: every    *)
(* change of a node gives it a new stamp.                                  *)
(***************************************************************************)
EXTENDS Naturals, Sequences

CONSTANTS
    Contents,       \* what a file may hold
    SourceMaps,     \* digests of the source map
    Executes,       \* calls of executeImport with one plan
    Nothing,        \* no file, no holder
    MaxChanges      \* bound: edits of the source

ASSUME SnapshotAssumption ==
    /\ MaxChanges \in Nat
    /\ Nothing \notin Executes \cup {"plan"} /\ "plan" \notin Executes

Dirs == {"root", "s1", "s2"}
Places == {".", "sub"}          \* the paths of the two directories
Whats == Contents \cup {"linked", "symlink", Nothing}

VARIABLES
    tree,       \* of each directory its stamp and its file
    sub,        \* the directory the root's entry leads to
    named,      \* the source path still leads to the root
    map,        \* the source map's digest
    changes,    \* edits so far; the last one's number is its stamp
    scanner,    \* who scans: "plan", an execute, Nothing
    at,         \* the scan's next look
    hold,       \* the directory the scan opened for "sub"
    seen,       \* the records of the snapshot
    session,    \* its native session: "none", "open", "closed"
    plan,       \* "none", "scanning", "ready", "disposed", "failed"
    exec,       \* where each execute stands
    lock,       \* the holder of .tfsb.lock
    imported,   \* what .tfsb was made from
    moment      \* ghost: the source when the last check of it began; Nothing
                \* since the stage was written or the window opened

directory == <<tree, sub, named, map, changes>>
scan == <<scanner, at, hold, seen>>
transaction == <<exec, lock, imported, moment>>
svars == <<directory, scan, session, plan, transaction>>

-----------------------------------------------------------------------------
(* The source and its editor.                                               *)

(* What the directory of the handle holds, wherever its name leads now.     *)
View == [map |-> map, root |-> tree["root"].file.what, sub |-> tree[sub].file.what]

Edit == changes < MaxChanges /\ changes' = changes + 1
Stamp == changes + 1

(* A file is written in place, or gets or loses a second link.              *)
EditFile(d, what) ==
    /\ Edit
    /\ tree[d].file.what \in Contents \cup {"linked"} /\ what \in Contents \cup {"linked"}
    /\ tree' = [tree EXCEPT ![d].file = [stamp |-> <<d, Stamp>>, what |-> what]]
    /\ UNCHANGED <<sub, named, map>>

(* A file is created, replaced by another or removed.                       *)
ReplaceFile(d, what) ==
    /\ Edit
    /\ tree' = [tree EXCEPT ![d] = [stamp |-> Stamp, file |-> [stamp |-> <<d, Stamp>>, what |-> what]]]
    /\ UNCHANGED <<sub, named, map>>

(* Another directory takes the subdirectory's name.                         *)
MoveSub ==
    /\ Edit
    /\ sub' = IF sub = "s1" THEN "s2" ELSE "s1"
    /\ tree' = [tree EXCEPT !["root"].stamp = Stamp]
    /\ UNCHANGED <<named, map>>

(* The root, or an ancestor, is renamed; the handle keeps it.               *)
MoveRoot == Edit /\ named' = ~named /\ UNCHANGED <<tree, sub, map>>

EditMap(m) == Edit /\ m # map /\ map' = m /\ UNCHANGED <<tree, sub, named>>

Editor ==
    /\ \/ \E d \in Dirs, what \in Whats : EditFile(d, what) \/ ReplaceFile(d, what)
       \/ MoveSub
       \/ MoveRoot
       \/ \E m \in SourceMaps : EditMap(m)
    /\ UNCHANGED <<scan, session, plan, transaction>>

-----------------------------------------------------------------------------
(* Looks.                                                                   *)

DirOf(p) == IF p = "." THEN "root" ELSE hold
Stat(d) == <<d, tree[d].stamp>>
File(p) == tree[DirOf(p)].file
Absent(p) == seen.entry[p].what = Nothing

(* createDirectorySnapshot: walkNativeTree of the root, which descends      *)
(* between the root's entries, then openSelectedNativeFile for each file;   *)
(* before and after it, the source map.                                     *)
Walk == <<
    <<"map", ".">>,
    <<"stat", ".">>, <<"entry", ".">>, <<"subentry", ".">>, <<"inspect", ".">>,
    <<"enter", "sub">>,
    <<"stat", "sub">>, <<"entry", "sub">>, <<"inspect", "sub">>, <<"restat", "sub">>,
    <<"restat", ".">>,
    <<"open", ".">>, <<"read", ".">>, <<"verify", ".">>,
    <<"reach", "sub">>, <<"open", "sub">>, <<"read", "sub">>, <<"verify", "sub">>,
    <<"remap", ".">> >>

(* Mutant: only the selected files are looked at again.                     *)
Check_FilesOnly == <<
    <<"remap", ".">>, <<"named", ".">>,
    <<"open", ".">>, <<"reread", ".">>, <<"verify", ".">>,
    <<"reach", "sub">>, <<"open", "sub">>, <<"reread", "sub">>, <<"verify", "sub">> >>

(* verifyDirectoryImportAuthority: the source map, then                     *)
(* revalidateDirectorySnapshot, directories before files.                   *)
Check == <<
    <<"remap", ".">>, <<"named", ".">>,
    <<"restat", ".">>, <<"reentry", ".">>, <<"resubentry", ".">>, <<"restat", ".">>,
    <<"reach", "sub">>, <<"restat", "sub">>, <<"reentry", "sub">>, <<"restat", "sub">>,
    <<"open", ".">>, <<"reread", ".">>, <<"verify", ".">>,
    <<"reach", "sub">>, <<"open", "sub">>, <<"reread", "sub">>, <<"verify", "sub">> >>

Looks == IF scanner = "plan" THEN Walk ELSE Check
Scanning == scanner # Nothing /\ at <= Len(Looks)
Look == Looks[at]

(* What a look finds in order.  A file that was not there has no record.    *)
Agrees(do, p) ==
    CASE do = "entry" -> File(p).what # "symlink"
      [] do = "reentry" -> File(p) = seen.entry[p]
      [] do = "restat" -> Stat(DirOf(p)) = seen.dir[p]
      [] do \in {"enter", "resubentry"} -> Stat(sub) = seen.sub
      [] do = "remap" -> map = seen.map
      [] do = "named" -> named
      [] do \in {"inspect", "verify"} -> Absent(p) \/ File(p) = seen.entry[p]
      [] do = "open" -> Absent(p) \/ (File(p) = seen.entry[p] /\ File(p).what # "linked")
      [] do = "reread" -> Absent(p) \/ File(p).what = seen.bytes[p]
      [] OTHER -> TRUE

(* What a look of the walk records.                                         *)
Noted(do, p) ==
    CASE do = "map" -> [seen EXCEPT !.map = map]
      [] do = "stat" -> [seen EXCEPT !.dir[p] = Stat(DirOf(p))]
      [] do = "entry" -> [seen EXCEPT !.entry[p] = File(p)]
      [] do = "subentry" -> [seen EXCEPT !.sub = Stat(sub)]
      [] do = "read" -> [seen EXCEPT !.bytes[p] = IF Absent(p) THEN Nothing ELSE File(p).what]
      [] OTHER -> seen

(* A look that goes on.                                                     *)
Advance ==
    /\ Agrees(Look[1], Look[2])
    /\ seen' = Noted(Look[1], Look[2])
    /\ hold' = IF Look[1] \in {"enter", "reach"} THEN sub ELSE hold
    /\ at' = at + 1
    /\ scanner' = scanner

ScanEnds == scanner' = Nothing /\ at' = 1 /\ hold' = "s1" /\ seen' = seen

SnapshotView == [map |-> seen.map, root |-> seen.bytes["."], sub |-> seen.bytes["sub"]]

-----------------------------------------------------------------------------
(* Planning.                                                                *)

Close == session' = "closed"

PlanImport ==
    /\ plan = "none" /\ named
    /\ plan' = "scanning" /\ session' = "open"
    /\ scanner' = "plan" /\ at' = 1
    /\ UNCHANGED <<hold, seen, directory, transaction>>

PlanLooks ==
    /\ scanner = "plan" /\ Scanning /\ Advance
    /\ UNCHANGED <<directory, session, plan, transaction>>

(* A look finds a change, an SVG is unsafe, planning is cancelled.          *)
PlanFails ==
    /\ scanner = "plan"
    /\ Scanning => ~Agrees(Look[1], Look[2])
    /\ plan' = "failed" /\ Close /\ ScanEnds
    /\ UNCHANGED <<directory, transaction>>

PlanIsMade(dryRun) ==
    /\ scanner = "plan" /\ ~Scanning
    /\ plan' = IF dryRun THEN "disposed" ELSE "ready"
    /\ IF dryRun THEN Close ELSE UNCHANGED session
    /\ ScanEnds
    /\ UNCHANGED <<directory, transaction>>

(* Where the program itself gets to run: no scan is on, or the check awaits *)
(* the other authorities.                                                   *)
Awaiting == scanner = Nothing \/ (scanner \in Executes /\ at = 2)

(* disposeImportPlan                                                        *)
Dispose ==
    /\ plan = "ready" /\ Awaiting
    /\ plan' = "disposed" /\ Close
    /\ UNCHANGED <<directory, scan, transaction>>

-----------------------------------------------------------------------------
(* executeImport                                                            *)

Checking == {"first", "second", "third"}
Live == {"asking", "staging", "window", "promoting", "finishing"} \cup Checking

Execute(e) ==
    /\ exec[e] = "idle" /\ plan \in {"ready", "disposed"} /\ Awaiting
    /\ exec' = [exec EXCEPT ![e] = IF plan = "disposed" THEN "refused" ELSE "asking"]
    /\ UNCHANGED <<directory, scan, session, plan, lock, imported, moment>>

TakeLock(e) ==
    /\ exec[e] = "asking" /\ lock = Nothing /\ Awaiting
    /\ lock' = e
    /\ exec' = [exec EXCEPT ![e] = "first"]
    /\ UNCHANGED <<directory, scan, session, plan, imported, moment>>

(* The transaction throws: the lock is taken, a check refuses, a call       *)
(* fails.  The finally closes the plan for every other execute too.         *)
Fail(e) ==
    /\ exec[e] \in Live \ {"finishing"}
    /\ IF scanner = e
       THEN /\ Scanning
            /\ ~Agrees(Look[1], Look[2]) \/ at = 2 \/ (at = 1 /\ session = "closed")
            /\ ScanEnds
       ELSE Awaiting /\ UNCHANGED scan
    /\ lock' = IF lock = e THEN Nothing ELSE lock
    /\ exec' = [exec EXCEPT ![e] = "refused"]
    /\ plan' = "disposed" /\ Close
    /\ UNCHANGED <<directory, imported, moment>>

BeginCheck(e) ==
    /\ exec[e] \in Checking /\ scanner = Nothing
    /\ exec[e] # "first" => imported = Nothing
    /\ scanner' = e /\ at' = 1
    /\ UNCHANGED <<hold, seen, directory, session, plan, transaction>>

AfterCheck == [first |-> "staging", second |-> "window", third |-> "promoting"]

(* The first look also takes the ghost's picture of the source.             *)
CheckLooks(e) ==
    /\ scanner = e /\ Scanning /\ Advance
    /\ at \in {1, 2} => session = "open"
    /\ moment' = IF at = 1 THEN View ELSE moment
    /\ UNCHANGED <<directory, session, plan, exec, lock, imported>>

CheckPasses(e) ==
    /\ scanner = e /\ ~Scanning
    /\ ScanEnds
    /\ exec' = [exec EXCEPT ![e] = AfterCheck[exec[e]]]
    /\ UNCHANGED <<directory, session, plan, lock, imported, moment>>

(* The stage is written and validated.                                      *)
WriteStage(e) ==
    /\ exec[e] = "staging" /\ Awaiting
    /\ exec' = [exec EXCEPT ![e] = "second"]
    /\ moment' = Nothing
    /\ UNCHANGED <<directory, scan, session, plan, lock, imported>>

(* Mutant: the source is not looked at again in the promotion window.       *)
OpenWindow_Unchecked(e) ==
    /\ exec[e] = "window" /\ imported = Nothing /\ Awaiting
    /\ exec' = [exec EXCEPT ![e] = "promoting"]
    /\ moment' = Nothing
    /\ UNCHANGED <<directory, scan, session, plan, lock, imported>>

(* The last look for a .tfsb; the stage is validated again.                 *)
OpenWindow(e) ==
    /\ exec[e] = "window" /\ imported = Nothing /\ Awaiting
    /\ exec' = [exec EXCEPT ![e] = "third"]
    /\ moment' = Nothing
    /\ UNCHANGED <<directory, scan, session, plan, lock, imported>>

Promote(e) ==
    /\ exec[e] = "promoting" /\ Awaiting
    /\ imported' = SnapshotView
    /\ exec' = [exec EXCEPT ![e] = "finishing"]
    /\ UNCHANGED <<directory, scan, session, plan, lock, moment>>

ReleaseLock(e) ==
    /\ exec[e] = "finishing" /\ lock = e /\ Awaiting
    /\ lock' = Nothing
    /\ UNCHANGED <<directory, scan, session, plan, exec, imported, moment>>

Finish(e) ==
    /\ exec[e] = "finishing" /\ lock # e /\ Awaiting
    /\ exec' = [exec EXCEPT ![e] = "done"]
    /\ plan' = "disposed" /\ Close
    /\ UNCHANGED <<directory, scan, lock, imported, moment>>

-----------------------------------------------------------------------------
SInit ==
    /\ \E what \in [Dirs -> Contents \cup {Nothing}] :
         tree = [d \in Dirs |-> [stamp |-> 0, file |-> [stamp |-> <<d, 0>>, what |-> what[d]]]]
    /\ sub = "s1" /\ named = TRUE /\ map \in SourceMaps /\ changes = 0
    /\ scanner = Nothing /\ at = 1 /\ hold = "s1"
    /\ seen = [map |-> Nothing, sub |-> Nothing, dir |-> [p \in Places |-> Nothing],
               entry |-> [p \in Places |-> Nothing], bytes |-> [p \in Places |-> Nothing]]
    /\ session = "none" /\ plan = "none"
    /\ exec = [e \in Executes |-> "idle"] /\ lock = Nothing
    /\ imported = Nothing /\ moment = Nothing

ExecuteStep(e) ==
    \/ Execute(e) \/ TakeLock(e) \/ Fail(e)
    \/ BeginCheck(e) \/ CheckLooks(e) \/ CheckPasses(e)
    \/ WriteStage(e) \/ OpenWindow(e) \/ Promote(e) \/ ReleaseLock(e) \/ Finish(e)

SNext ==
    \/ Editor
    \/ PlanImport \/ PlanLooks \/ PlanFails \/ \E dryRun \in BOOLEAN : PlanIsMade(dryRun)
    \/ Dispose
    \/ \E e \in Executes : ExecuteStep(e)

SSpec == SInit /\ [][SNext]_svars

-----------------------------------------------------------------------------
(* What the walk has not recorded yet is Nothing.                           *)
Records == [map : {Nothing} \cup SourceMaps, sub : {Nothing} \cup (Dirs \X (0..MaxChanges)),
            dir : [Places -> {Nothing} \cup (Dirs \X (0..MaxChanges))],
            entry : [Places -> {Nothing} \cup [stamp : Dirs \X (0..MaxChanges), what : Whats]],
            bytes : [Places -> Whats]]

STypeOK ==
    /\ tree \in [Dirs -> [stamp : 0..MaxChanges, file : [stamp : Dirs \X (0..MaxChanges), what : Whats]]]
    /\ sub \in {"s1", "s2"} /\ hold \in {"s1", "s2"} /\ named \in BOOLEAN
    /\ map \in SourceMaps /\ changes \in 0..MaxChanges
    /\ scanner \in Executes \cup {"plan", Nothing} /\ at \in 1..Len(Walk) + 1
    /\ seen \in Records
    /\ session \in {"none", "open", "closed"}
    /\ plan \in {"none", "scanning", "ready", "disposed", "failed"}
    /\ exec \in [Executes -> Live \cup {"idle", "refused", "done"}]
    /\ lock \in Executes \cup {Nothing}

(* A check that passed says what the source was at one moment, the one at   *)
(* which it began: the whole selected tree and the source map were what the *)
(* snapshot holds, although neither the walk nor the check is atomic.  (That *)
(* the source path leads to this tree holds at a later moment of the check: *)
(* the two may have no moment in common.)  So what .tfsb is made from is    *)
(* what the source held at a moment inside the promotion window, whatever   *)
(* was edited while the plan waited or the stage was written.               *)
CheckIsAMoment ==
    \A e \in Executes : exec[e] \in {"staging", "window", "promoting"} => moment = SnapshotView

=============================================================================
