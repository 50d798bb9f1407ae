----------------------------- MODULE PublishedFiles -----------------------------
(* What the build and the install of a project share: the mutation lock,    *)
(* the build directory, and a world that can fail a call, kill a process or *)
(* edit a file at any moment.  A directory tree and a file are named by who *)
(* wrote them; the code compares content and identity.                      *)
EXTENDS Naturals, FiniteSets

CONSTANTS
    Builds,         \* calls of executeBuild, each of another canonical state
    Items,          \* the configured destinations are numbered 1..Items
    HasPrior,       \* the destinations that exist at first
    Installer,      \* the call of executeInstall
    None,
    MaxFaults,      \* bound on failing calls
    MaxCrashes,     \* bound on killed processes
    MaxEdits        \* bound on edits by others

Destinations == 1..Items

ASSUME PublishedFilesAssumption ==
    /\ Items \in Nat /\ HasPrior \subseteq Destinations
    /\ Installer \notin Builds
    /\ Builds \cap {"old", "changed", "foreign", "part"} = {}
    /\ None \notin Builds \cup {Installer, "old", "changed", "foreign", "part", "prior", "new"}
    /\ MaxFaults \in Nat /\ MaxCrashes \in Nat /\ MaxEdits \in Nat

VARIABLES
    lock,           \* whose .tfsb.lock there is
    target,         \* the build directory
    faults, crashes,
    edits,          \* how many edits by others there were
    edited,         \* where: destinations, 0 for the build directory
    late            \* the places edited, or a removal failed at, past the last check

world == <<faults, crashes, edits, edited, late>>

Trees == Builds \cup {"old", "changed", "foreign", "part", None}
WholeBuilds == Builds \cup {"old"}

FilesInit ==
    /\ lock = None
    /\ target \in {"old", None}
    /\ faults = 0 /\ crashes = 0 /\ edits = 0 /\ edited = {} /\ late = {}

\* A call that throws; whatever else it does is the action's own.
Fault == /\ faults < MaxFaults
         /\ faults' = faults + 1
         /\ UNCHANGED <<crashes, edits, edited>>

\* withCanonicalMutationLock around an operation.
Acquire(p) == lock = None /\ lock' = p
Locked(p) == lock # None /\ UNCHANGED lock
Unlock(p) == lock = p /\ lock' = None

FilesTypeOK ==
    /\ lock \in Builds \cup {Installer, None}
    /\ target \in Trees
    /\ faults \in 0..MaxFaults /\ crashes \in 0..MaxCrashes /\ edits \in 0..MaxEdits
    /\ edited \subseteq Destinations \cup {0}
    /\ late \subseteq Destinations \cup {0}
=============================================================================
