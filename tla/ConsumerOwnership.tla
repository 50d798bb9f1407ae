---------------------------- MODULE ConsumerOwnership ----------------------------
(***************************************************************************)
(* What a consumer project installs from brand packages and what it        *)
(* remembers of it: the planner of install, sync and adopt, and the state  *)
(* inspection of src/brand/consumer-plan.ts, over .tfsb/brand.lock.json.   *)
(* A package comes in releases; profiles, the releases' and the project's, *)
(* say which of its files go where, depending on parameters.               *)
(* A release, a profile or a project stands for its digest; a selector (an *)
(* asset, a binding, a companion) is the name of the file it selects.      *)
(* Protected destinations, symbolic links, recovery residue, cycles of      *)
(* profiles and limits other than their number are left out.  How the outputs and the lock are written is  *)
(* executeOutputs of OutputTransaction, and executeAdoption a canonical    *)
(* transaction: here they are one step, taken or refused.                  *)
(***************************************************************************)
EXTENDS Naturals, FiniteSets, TLC

CONSTANTS
    Releases,       \* [digest, package, version, payload, profiles]; a payload: source -> bytes
    Profiles,       \* [digest, id, package, versions, composes, parameters, outputs]
    LocalFiles,     \* sets of profiles that .tfsb/consumer-profiles.toml may hold
    Projects,       \* the project's own installs: destination -> bytes
    Within,         \* <<directory, path>>: destinations, one inside the other
    Destinations,
    Handmade,       \* bytes that somebody writes by hand
    Selections,     \* [profiles, parameters] that a caller may give; parameters: profile -> parameter -> value
    Unlocked,       \* no brand.lock.json
    MaxSelected,    \* MAX_SELECTED_PROFILES and CONSUMER_LOCK_MAX_PROFILES
    MaxHands        \* bound: what people change

Missing == "missing"
Unsafe == "unsafe"      \* a directory
MaxDepth == 4           \* of profiles composed of profiles

(* A digest names one release or profile.  A release's profiles are for its *)
(* package and have ids of their own, an id says for which package it is.   *)
(* No chain of profiles is too deep, nor is one a cycle.  Unsafe is the     *)
(* bytes of no file.                                                        *)
Digested(things) == \A x, y \in things : x.digest = y.digest => x = y
Release == [d \in {r.digest : r \in Releases} |-> CHOOSE r \in Releases : r.digest = d]
Profile == [d \in {f.digest : f \in Profiles} |-> CHOOSE f \in Profiles : f.digest = d]

ASSUME ReleasesAssumption ==
    /\ Digested(Releases) /\ Digested(Profiles)
    /\ \A r \in Releases :
         /\ r.profiles # {} /\ \A f \in r.profiles : Profile[f].package = r.package
         /\ \A f, g \in r.profiles : Profile[f].id = Profile[g].id => f = g
         /\ \A source \in DOMAIN r.payload : r.payload[source] # Unsafe
    /\ \A f, g \in Profiles : f.id = g.id => f.package = g.package
    /\ \A chain \in [1..(MaxDepth + 1) -> Profiles] :
         \E n \in 1..MaxDepth : chain[n + 1].id \notin chain[n].composes

VARIABLES
    installs,       \* the project's own installs
    local,          \* its local profiles
    brandLock,           \* brand.lock.json
    files,          \* the files at the destinations
    pending,        \* a plan made and not yet carried out, or Unlocked
    hands

cvars == <<installs, local, brandLock, files, pending, hands>>

destinationsOverlap(d, e) == d = e \/ <<d, e>> \in Within \/ <<e, d>> \in Within
Explicit(d) == \E e \in DOMAIN installs : destinationsOverlap(e, d)

(* What lstat says of a destination, and whether its parent can be one.     *)
Lstat(d) == IF \E e \in Destinations : <<d, e>> \in Within /\ files[e] # Missing THEN Unsafe ELSE files[d]
ParentSafe(d) == \A e \in Destinations : <<e, d>> \in Within => files[e] = Missing

(* What the lock says of each package, and where it put the package's files.*)
Locked == IF brandLock = Unlocked THEN <<>> ELSE brandLock.packages
Installed(p) == IF p \in DOMAIN Locked THEN Locked[p].installed ELSE <<>>
computeConsumerProjectDigest_Prior(own) == <<DOMAIN installs, local>>
computeConsumerProjectDigest(own) == <<DOMAIN own, local>>

-----------------------------------------------------------------------------
(* What the sources and the profiles resolve to.                            *)

(* verifyConsumerSources: one release of each package.                      *)
Sources ==
    {s \in SUBSET DOMAIN Release \ {{}} : \A q, r \in s : Release[q].package = Release[r].package => q = r}
PackagesOf(s) == {Release[r].package : r \in s}

(* The profiles of the releases, and the project's for the same packages;   *)
(* an id may be offered once.                                               *)
inventory(s) ==
    UNION {[profile : Release[r].profiles, release : {r}, by : {"producer"}] \cup
           [profile : {f \in local : Profile[f].package = Release[r].package}, release : {r}, by : {"project"}] : r \in s}
Id(a) == Profile[a.profile].id
Ids(available) == {Id(a) : a \in available}
Named(available, ids) == {a \in available : Id(a) \in ids}
Distinct(available) == \A a, b \in available : Id(a) = Id(b) => a = b

(* The roots and the profiles composed into them.                           *)
Selected(available, roots) ==
    LET visited[n \in 1..MaxDepth] ==
          IF n = 1 THEN roots ELSE UNION {Profile[a.profile].composes : a \in Named(available, visited[n - 1])}
    IN UNION {visited[n] : n \in 1..MaxDepth}
ProfilesResolve(available, roots) ==
    /\ roots # {}
    /\ Selected(available, roots) \subseteq Ids(available)
    /\ Cardinality(Selected(available, roots)) <= MaxSelected
resolveProfiles(available, roots) == Named(available, Selected(available, roots))

selectedParameters(a, given) == IF Id(a) \in DOMAIN given THEN given[Id(a)] ELSE <<>>
ParametersFit(a, given) ==
    LET values == selectedParameters(a, given)
        declared == Profile[a.profile].parameters
    IN DOMAIN values = DOMAIN declared /\ \A p \in DOMAIN values : values[p] \in declared[p]

(* The rules that apply, and what they resolve to; an optional one may have *)
(* nothing to resolve to.                                                   *)
Applying(a, given) ==
    {rule \in Profile[a.profile].outputs : \A c \in rule.when : selectedParameters(a, given)[c[1]] = c[2]}
Compatible(a) == Release[a.release].version \in Profile[a.profile].versions
RulesResolve(selected, given) ==
    \A a \in selected : \A rule \in Applying(a, given) :
        Compatible(a) /\ (rule.required => rule.source \in DOMAIN Release[a.release].payload)
resolveRules(selected, given) ==
    UNION {{[package |-> Release[a.release].package, profile |-> a.profile, rule |-> rule, to |-> rule.to,
             holds |-> [source |-> rule.source, bytes |-> Release[a.release].payload[rule.source]]] :
             rule \in {x \in Applying(a, given) : x.source \in DOMAIN Release[a.release].payload}} : a \in selected}
Apart(outputs) == \A x, y \in outputs : x # y => ~destinationsOverlap(x.to, y.to)

-----------------------------------------------------------------------------
(* plan.                                                                    *)

(* A sync that names no profiles takes those that the lock has of the       *)
(* packages supplied, and the parameters of all that it has.                *)
ByLock(call) == call.operation = "sync" /\ call.profiles = {}
LockedProfiles(packages) == UNION {DOMAIN Locked[p].profiles : p \in packages \cap DOMAIN Locked}
LockedParameters(id) ==
    Locked[CHOOSE p \in DOMAIN Locked : id \in DOMAIN Locked[p].profiles].profiles[id].parameters

rootProfiles(call) ==
    IF ByLock(call) THEN LockedProfiles(PackagesOf(call.sources)) ELSE call.profiles
givenParameters_Unlocked(call) == call.parameters
givenParameters(call) ==
    IF ByLock(call) THEN [id \in LockedProfiles(DOMAIN Locked) |-> LockedParameters(id)] ELSE call.parameters
selectedBy(call) == resolveProfiles(inventory(call.sources), rootProfiles(call))

(* A sync does not add an optional output to those that are installed.      *)
plannedOutputs(call, resolved) ==
    {o \in resolved : call.operation = "sync" /\ ~o.rule.required => o.to \in DOMAIN Installed(o.package)}

(* Nobody else owns the destination, the project or another package; an     *)
(* adoption takes over what the project owns.                               *)
Unowned(call, o) ==
    /\ call.operation # "adopt" => ~Explicit(o.to)
    /\ \A p \in DOMAIN Locked : call.operation # "sync" \/ p # o.package =>
         \A d \in DOMAIN Locked[p].installed : ~destinationsOverlap(d, o.to)

(* What has to be there already: nothing, what the lock says, or exactly    *)
(* the project's own output.                                                *)
MustHold(call, o) ==
    CASE call.operation = "adopt" -> o.holds.bytes
      [] call.operation = "sync" /\ o.to \in DOMAIN Installed(o.package) -> Installed(o.package)[o.to].bytes
      [] OTHER -> Missing
snapshotFits(call, o) ==
    /\ ParentSafe(o.to) /\ Lstat(o.to) = MustHold(call, o)
    /\ call.operation = "adopt" => o.to \in DOMAIN installs /\ installs[o.to] = o.holds.bytes

(* A package is installed or adopted once, and a sync removes nothing.      *)
PackagesFit(call, packages, outputs) ==
    IF call.operation = "sync"
    THEN \A p \in packages : DOMAIN Installed(p) \subseteq {o.to : o \in {x \in outputs : x.package = p}}
    ELSE packages \cap DOMAIN Locked = {}

Accepted(call) ==
    LET available == inventory(call.sources)
        selected == selectedBy(call)
        given == givenParameters(call)
        resolved == resolveRules(selected, given)
        packages == PackagesOf({a.release : a \in selected})
    IN  /\ call.operation = "sync" => PackagesOf(call.sources) \subseteq DOMAIN Locked
        /\ rootProfiles(call) \subseteq Ids(available) /\ Distinct(available)
        /\ ProfilesResolve(available, rootProfiles(call))
        /\ DOMAIN given \subseteq Ids(selected)
        /\ \A a \in selected : ParametersFit(a, given)
        /\ RulesResolve(selected, given) /\ Apart(resolved)
        /\ \A o \in resolved : Unowned(call, o)
        /\ \A o \in plannedOutputs(call, resolved) : snapshotFits(call, o)
        /\ PackagesFit(call, packages, plannedOutputs(call, resolved))
        /\ Cardinality(Ids(selected) \cup LockedProfiles(DOMAIN Locked \ packages)) <= MaxSelected

(* The lock's record of a package, and the lock with those of the call.     *)
LockedPackage(r, selected, given, outputs) ==
    [release |-> r,
     profiles |-> [id \in Ids({a \in selected : a.release = r}) |->
                     LET a == CHOOSE x \in selected : Id(x) = id
                     IN [profile |-> a.profile, parameters |-> selectedParameters(a, given)]],
     installed |-> [d \in {o.to : o \in {x \in outputs : x.package = Release[r].package}} |->
                     (CHOOSE o \in outputs : o.to = d).holds]]
updatedPackages(selected, given, outputs) ==
    LET updated == {a.release : a \in selected}
    IN [p \in PackagesOf(updated) \cup DOMAIN Locked |->
          IF p \in PackagesOf(updated)
          THEN LockedPackage(CHOOSE r \in updated : Release[r].package = p, selected, given, outputs)
          ELSE Locked[p]]
adoptionProject(call, outputs) ==
    LET adopted == {o.to : o \in {x \in outputs : call.operation = "adopt"}}
    IN [d \in DOMAIN installs \ adopted |-> installs[d]]

planned(call) ==
    LET selected == selectedBy(call)
        outputs == plannedOutputs(call, resolveRules(selected, givenParameters(call)))
        own == adoptionProject(call, outputs)
    IN [was |-> <<installs, local, brandLock>>, own |-> own,
        next |-> [project |-> computeConsumerProjectDigest(own),
                  packages |-> updatedPackages(selected, givenParameters(call), outputs)],
        found |-> [d \in {o.to : o \in outputs} |-> Lstat(d)],
        writes |-> [d \in {o.to : o \in outputs} |-> (CHOOSE o \in outputs : o.to = d).holds.bytes]]

-----------------------------------------------------------------------------
(* inspectState.                                                            *)

(* validateLockedResolution: what the locked profiles resolve to today,     *)
(* against what the lock has.                                               *)
LockedInventory(s) == resolveProfiles(inventory(s), LockedProfiles(DOMAIN Locked))
AllParameters == [id \in LockedProfiles(DOMAIN Locked) |-> LockedParameters(id)]
expectedMappings(s) == resolveRules(LockedInventory(s), AllParameters)
Mappings(outputs) == {<<o.package, o.to, o.holds>> : o \in outputs}
actualMappings == UNION {{<<p, d, Installed(p)[d]>> : d \in DOMAIN Installed(p)} : p \in DOMAIN Locked}

SourcesAsLocked(s) == \A r \in s : \E p \in DOMAIN Locked : Locked[p].release = r
ProfilesAsLocked(available) ==
    \A p \in DOMAIN Locked : \A id \in DOMAIN Locked[p].profiles :
        \E a \in available : a.profile = Locked[p].profiles[id].profile /\ Compatible(a)
ResolvesAgain(s) ==
    /\ ProfilesResolve(inventory(s), LockedProfiles(DOMAIN Locked))
    /\ Ids(LockedInventory(s)) = LockedProfiles(DOMAIN Locked)
    /\ RulesResolve(LockedInventory(s), AllParameters)
MappingsAsLocked_Exact(expected) == actualMappings = Mappings(expected)
MappingsAsLocked(expected) ==
    /\ actualMappings \subseteq Mappings(expected)
    /\ Mappings({o \in expected : o.rule.required}) \subseteq actualMappings

validateLockedResolution(s) ==
    IF ~SourcesAsLocked(s) THEN "stale"
    ELSE IF DOMAIN Locked # PackagesOf(s) THEN "source-unavailable"
    ELSE IF ~Distinct(inventory(s)) THEN "invalid"
    ELSE IF ~ProfilesAsLocked(inventory(s)) THEN "stale"
    ELSE IF ~ResolvesAgain(s) THEN "invalid"
    ELSE IF ~Apart(expectedMappings(s)) THEN "collision"
    ELSE IF ~MappingsAsLocked(expectedMappings(s)) THEN "invalid" ELSE "ok"

Colliding == \E m \in actualMappings : Lstat(m[2]) = Unsafe \/ Explicit(m[2])
Drifted == \E m \in actualMappings : Lstat(m[2]) # m[3].bytes

inspectState(s) ==
    IF brandLock = Unlocked THEN "ok"
    ELSE IF Colliding THEN "collision"
    ELSE IF Drifted THEN "drift"
    ELSE IF computeConsumerProjectDigest(installs) # brandLock.project THEN "stale"
    ELSE IF s = {} THEN "source-unavailable" ELSE validateLockedResolution(s)

-----------------------------------------------------------------------------
NoSelection == [profiles |-> {}, parameters |-> <<>>]
Call(operation, sources, selection) ==
    [operation |-> operation, sources |-> sources, profiles |-> selection.profiles, parameters |-> selection.parameters]
Calls ==
    {Call(operation, s, selection) : operation \in {"install", "sync", "adopt"}, s \in Sources, selection \in Selections}
    \cup {Call("sync", s, NoSelection) : s \in Sources}

CarryOut(p) ==
    /\ brandLock' = p.next /\ installs' = p.own
    /\ files' = [d \in Destinations |-> IF d \in DOMAIN p.writes THEN p.writes[d] ELSE files[d]]
    /\ UNCHANGED <<local, hands>>

CInit ==
    /\ installs \in Projects /\ local = {} /\ brandLock = Unlocked /\ pending = Unlocked /\ hands = 0
    /\ files = [d \in Destinations |-> IF d \in DOMAIN installs THEN installs[d] ELSE Missing]

Plan(call) ==
    /\ pending = Unlocked /\ Accepted(call)
    /\ pending' = planned(call)
    /\ UNCHANGED <<installs, local, brandLock, files, hands>>

ExecuteConsumerPlan_OldLock ==
    /\ pending # Unlocked
    /\ \A d \in DOMAIN pending.found : ParentSafe(d) /\ Lstat(d) = pending.found[d]
    /\ CarryOut(pending) /\ pending' = Unlocked
ExecuteConsumerPlan_Unlooked ==
    /\ pending # Unlocked /\ pending.was = <<installs, local, brandLock>>
    /\ CarryOut(pending) /\ pending' = Unlocked
(* The project and every destination as they were planned on.               *)
ExecuteConsumerPlan ==
    /\ pending # Unlocked /\ pending.was = <<installs, local, brandLock>>
    /\ \A d \in DOMAIN pending.found : ParentSafe(d) /\ Lstat(d) = pending.found[d]
    /\ CarryOut(pending) /\ pending' = Unlocked

(* Refused because something changed, failed and rolled back, or given up.  *)
DisposeConsumerPlan == pending # Unlocked /\ pending' = Unlocked /\ UNCHANGED <<installs, local, brandLock, files, hands>>

(* Bounds: what people change in all, and one change to what a plan was     *)
(* made from before it is carried out or given up.                          *)
Current ==
    pending # Unlocked =>
        /\ pending.was = <<installs, local, brandLock>>
        /\ \A d \in DOMAIN pending.found : Lstat(d) = pending.found[d]

(* Another process plans and carries out a call meanwhile.                  *)
AnotherCall(call) ==
    pending # Unlocked /\ Current /\ Accepted(call) /\ CarryOut(planned(call)) /\ UNCHANGED pending

Hand == hands < MaxHands /\ Current /\ hands' = hands + 1 /\ UNCHANGED <<brandLock, pending>>

(* Somebody edits or removes a file.                                        *)
EditOutput(d, b) ==
    /\ Hand /\ files[d] # b /\ Lstat(d) # Unsafe /\ (b # Missing => ParentSafe(d))
    /\ files' = [files EXCEPT ![d] = b] /\ UNCHANGED <<installs, local>>
(* tfsb install writes the project's own outputs, whatever is there.        *)
InstallProject ==
    /\ Hand /\ \A d \in DOMAIN installs : Lstat(d) # Unsafe /\ ParentSafe(d)
    /\ files' = installs @@ files /\ files' # files /\ UNCHANGED <<installs, local>>
EditProject(own) == Hand /\ installs' = own /\ own # installs /\ UNCHANGED <<local, files>>
EditProfiles(profiles) == Hand /\ local' = profiles /\ profiles # local /\ UNCHANGED <<installs, files>>

CNext ==
    \/ \E call \in Calls : Plan(call) \/ AnotherCall(call)
    \/ ExecuteConsumerPlan \/ DisposeConsumerPlan \/ InstallProject
    \/ \E d \in Destinations, b \in {Handmade, Missing} : EditOutput(d, b)
    \/ \E own \in Projects : EditProject(own)
    \/ \E profiles \in LocalFiles : EditProfiles(profiles)

CSpec == CInit /\ [][CNext]_cvars

-----------------------------------------------------------------------------
(* Only a call writes the lock.  It drops no package and no output that an  *)
(* earlier one installed, and writes a file only where there was none or    *)
(* where the package's own file was unchanged: no edit is overwritten.      *)
OwnsWhatItWrites ==
    brandLock' # brandLock =>
        /\ brandLock # Unlocked =>
             \A p \in DOMAIN Locked :
                 /\ p \in DOMAIN brandLock'.packages
                 /\ DOMAIN Installed(p) \subseteq DOMAIN brandLock'.packages[p].installed
        /\ \A d \in Destinations : files'[d] # files[d] =>
             \/ files[d] = Missing
             \/ \E m \in actualMappings : m[2] = d /\ m[3].bytes = files[d]

OwnershipKept == [][OwnsWhatItWrites]_cvars

(* The inspection with the releases that the lock records.                  *)
LockedReleases == {Locked[p].release : p \in DOMAIN Locked}
StatusNow == inspectState(LockedReleases)

(* A call that records every installed package anew leaves it in order.     *)
CallSettles ==
    [][ brandLock' # brandLock
        /\ (\A p \in DOMAIN brandLock'.packages : p \in DOMAIN Locked => Locked[p] # brandLock'.packages[p])
          => StatusNow' = "ok" ]_cvars

(* test/brand/consumer-sync.test.ts: a sync is an exact no-op when source   *)
(* and installed state are current.  The planner refuses it, and the        *)
(* inspection does not mind, where the project has come to own what an      *)
(* optional output, left out until now, would be written to.                *)
SyncAll == Call("sync", LockedReleases, NoSelection)
SyncIsQuiet ==
    brandLock # Unlocked /\ StatusNow = "ok" /\ (\A o \in expectedMappings(LockedReleases) : ~Explicit(o.to)) =>
        /\ Accepted(SyncAll)
        /\ LET p == planned(SyncAll) IN p.next = brandLock /\ p.writes = p.found

(* The planner and the inspection, which judge the same lock by code of     *)
(* their own, agree: what was just installed is in order, and what is in    *)
(* order is installed again without a change.                               *)
PlannersAgree == CallSettles /\ []SyncIsQuiet
=============================================================================
