------------------------------- MODULE Publication -------------------------------
(* Builds and an installation of one project, run as separate programs that *)
(* meet at the mutation lock and at the build directory, beside an editor   *)
(* who takes no lock.  Each program can be killed between any two calls.    *)
EXTENDS BuildTransaction, InstallTransaction

vars == <<lock, target, world, build, install>>

Init == FilesInit /\ BuildInit /\ InstallInit

-----------------------------------------------------------------------------
\* Somebody writes into the build directory, or makes one.
EditTarget ==
    /\ edits < MaxEdits /\ edits' = edits + 1
    /\ target' = IF target \in {None, "foreign"} THEN "foreign" ELSE "changed"
    /\ edited' = edited \cup {0}
    /\ late' = IF \E b \in Builds : Replacing(b) THEN late \cup {0} ELSE late
    /\ UNCHANGED <<lock, faults, crashes, build, install>>

EditDestination(k) ==
    /\ edits < MaxEdits /\ edits' = edits + 1
    /\ dest' = [dest EXCEPT ![k] = "foreign"]
    /\ edited' = edited \cup {k}
    /\ late' = IF k \in Past THEN late \cup {k} ELSE late
    /\ UNCHANGED <<lock, target, faults, crashes, build, ipc, at, iplan, istage, ibackup, staged, iflags>>

\* A killed program leaves its lock behind.
KillBuild(b) ==
    /\ crashes < MaxCrashes /\ crashes' = crashes + 1
    /\ lock = b /\ Goto(b, "killed")
    /\ UNCHANGED <<lock, target, faults, edits, edited, late, planned, stage, backup, flags, install>>

KillInstall ==
    /\ crashes < MaxCrashes /\ crashes' = crashes + 1
    /\ lock = Installer /\ ipc # "killed" /\ ipc' = "killed"
    /\ UNCHANGED <<lock, target, faults, edits, edited, late, build, at, iplan, files, staged, iflags>>

Next ==
    \/ \E b \in Builds : BuildSteps(b) /\ UNCHANGED install
    \/ InstallSteps /\ UNCHANGED <<target, build>>
    \/ EditTarget
    \/ \E k \in Destinations : EditDestination(k)
    \/ \E b \in Builds : KillBuild(b)
    \/ KillInstall

Spec == Init /\ [][Next]_vars

-----------------------------------------------------------------------------
\* The shape of the state of both transactions and of what they share.
TypeOK == FilesTypeOK /\ BuildTypeOK /\ InstallTypeOK

\* Once a build has begun to replace a whole build there always is one, under
\* the directory's name or a backup's, whatever fails and whoever is killed;
\* unless removing the old build's backup failed, or others edit in between.
BuildKept ==
    (\E b \in Builds : planned[b] \in WholeBuilds /\ (stage[b] # None \/ promoted[b] \/ backupCreated[b]))
    /\ 0 \notin late \cup edited =>
        ({target} \cup {backup[b] : b \in Builds}) \cap WholeBuilds # {}

\* Until every destination has its new file, every file the plan found at a
\* destination is still there or in its backup: an installation that is
\* killed or cannot roll back has destroyed nothing.  A place that was edited
\* after its plan, or past the last look at it, is excepted.
PriorsKept ==
    \/ \A k \in Destinations : dest[k] = "new" \/ k \in edited
    \/ \A k \in Destinations :
          (k \in edited => expected[k] = "foreign" /\ k \notin late) =>
              expected[k] \in {None, dest[k], ibackup[k]}

\* Whoever is killed and whatever fails, but for what is excepted above,
\* neither of the two publications has destroyed what stood there before its
\* own has taken the place.
NothingLost == BuildKept /\ PriorsKept

\* An edit made before the last look at its place is never destroyed unless
\* a plan had seen it.
EditSurvives ==
    /\ 0 \in edited \ late =>
          {"changed", "foreign"} \cap ({target} \cup {backup[b] : b \in Builds}
                                                \cup {planned[b] : b \in Builds}) # {}
    /\ \A k \in Destinations \cap (edited \ late) :
          "foreign" \in {dest[k], ibackup[k], expected[k]}

Ends(b, outcomes) == bpc[b] \notin outcomes /\ bpc'[b] \in outcomes
InstallEnds(outcomes) == ipc \notin outcomes /\ ipc' \in outcomes

\* The prior build as the catch finds it: whole, unless the removal of its
\* backup was under way (some of it may be gone) or over (all of it is).
Remains(b) ==
    CASE 0 \notin late \/ ~promoted[b] -> {planned[b]}
      [] 0 \in late /\ promoted[b] /\ backupCreated[b] -> {planned[b], "part"}
      [] OTHER -> {None}

\* A build says that it is done when it stands at its place and the old one's
\* backup is gone.  One that was refused or that failed leaves nothing of its
\* own, and one that failed has put back what remained of the prior build.
\* One whose rollback failed leaves what remained in its backup; or has none
\* and could not remove its own from the place; or has put it back and only
\* left its stage behind, though the message then says that the prior build
\* could not be restored.  Edits of the build directory are excepted.
BuildHonest(b) ==
    /\ Ends(b, {"built", "failed", "refused"}) => stage'[b] = None /\ backup'[b] = None
    /\ Ends(b, {"built"}) => target' = b \/ 0 \in edited
    /\ Ends(b, {"failed"}) => target' \in Remains(b) \/ 0 \in edited
    /\ Ends(b, {"rollbackFailed"}) =>
          \/ backupCreated[b] /\ backup'[b] \in Remains(b)
          \/ ~backupCreated[b] /\ promoted[b] /\ target' \in {b, "part"}
          \/ stage'[b] # None /\ backup'[b] = None /\ target' \in Remains(b)
          \/ 0 \in edited

\* An installation that was refused or rolled back has left every file as its
\* plan saw it and nothing beside them, but for a stage that could not be
\* written to its end.  One that succeeded has replaced every file and left nothing
\* beside them, or only the prior files' backups if it says so.  One that could
\* not roll back has every prior file at its place or in its backup, and at
\* its place nothing but that, the new file or none.  Edits are excepted.
InstallHonest ==
    /\ InstallEnds({"refused", "rolledBack"}) =>
          \A k \in Destinations :
             /\ ibackup'[k] = None
             /\ istage'[k] = None \/ (k > staged /\ istage'[k] = "part")
    /\ InstallEnds({"rolledBack"}) => \A k \in Destinations : dest'[k] = expected[k] \/ k \in edited
    /\ InstallEnds({"installed", "cleanupFailed"}) =>
          /\ target = seenBuild \/ 0 \in edited
          /\ \A k \in Destinations : istage'[k] = None /\ (dest'[k] = "new" \/ k \in edited)
    /\ InstallEnds({"installed"}) => \A k \in Destinations : ibackup'[k] = None
    /\ InstallEnds({"cleanupFailed"}) =>
          \A k \in Destinations : ibackup'[k] \in {None, expected[k]} \/ k \in edited
    /\ InstallEnds({"partial"}) =>
          \A k \in Destinations \ edited :
             /\ expected[k] \in {None, dest'[k], ibackup'[k]}
             /\ dest'[k] \in {expected[k], "new", None}
             /\ ibackup'[k] \in {expected[k], None}

\* What the end of a transaction says is true of the disk, whatever failed
\* before it: the code of a build or of an installation tells what stands at
\* each place and what was left beside it.
OutcomeHonest == [][(\A b \in Builds : BuildHonest(b)) /\ InstallHonest]_vars

\* The build's catch distinguishes the failure that could not restore the
\* prior build ("Build replacement failed and the prior build could not be
\* restored.") from the others: after those the prior build is there.
FailedBuildRestored ==
    [][\A b \in Builds : Ends(b, {"failed"}) /\ 0 \notin edited => target' = planned[b]]_vars

=============================================================================
