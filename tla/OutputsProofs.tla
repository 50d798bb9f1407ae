------------------------------ MODULE OutputsProofs ------------------------------
(***************************************************************************)
(* Proofs about Outputs.  One call at a time works under the lock, and it  *)
(* works only where no side file of another lies; so what each item looks  *)
(* like follows from the call's place in the code and the sets it keeps.   *)
(* The publishers of a single target have no lock: what carries theirs is  *)
(* that a file that changed behind a publisher's last look is late.        *)
(***************************************************************************)
EXTENDS Outputs, TLAPS, FiniteSetTheorems

Forth == {"verify", "backup", "link", "unlink", "sync"}
Back == {"undo", "remove", "restore", "rename", "unstage"}
Looking == {"new", "planned", "locking", "residue", "look"}

-----------------------------------------------------------------------------
(* One item of a call: p is its destination, k its place in the order.      *)

Last(x) == Len(Order(x))
Item(x, k) == Order(x)[k]

\* The file the plan saw is in the backup, as far as the backup was made.
SavedExactly(x, p) ==
    IF p \in tx[x].backedUp THEN tx[x].backup[p] = tx[x].seen[p] \/ p \in late
                            ELSE tx[x].backup[p] = None
Saved(x, p) ==
    IF p \in tx[x].backedUp THEN tx[x].backup[p] = tx[x].seen[p] \/ Excused(p)
                            ELSE tx[x].backup[p] = None
HasBackup(x, p) == p \in tx[x].backedUp <=> tx[x].seen[p] # None

AsSeenAt(x, p) == file[p] = tx[x].seen[p] \/ Excused(p)
Absent(p) == file[p] = None \/ Excused(p)
Mine(x, p) == file[p] = x \/ Excused(p)

Untouched(x, p) ==
    /\ tx[x].backup[p] = None
    /\ p \notin tx[x].promoted \cup tx[x].backedUp \cup tx[x].forgotten
    /\ AsSeenAt(x, p)

\* The call has not come to the item yet.
ItemAhead(x, k) ==
    LET s == tx[x]  p == Item(x, k) IN
    /\ s.pc \in {"stage", "journal"} => Untouched(x, p)
    /\ s.pc = "stage" /\ k >= s.at => s.stage[p] = None
    /\ s.pc \in Forth /\ k > s.at => Untouched(x, p)
    /\ s.pc \in {"verify", "backup"} /\ k = s.at => Untouched(x, p)
    /\ s.pc = "backup" /\ k = s.at =>
          s.seen[p] # None /\ (x \in Rasters => file[p] = s.seen[p] \/ p \in late)

\* The call is at the item, or past it.
ItemInPlace(x, k) ==
    LET s == tx[x]  p == Item(x, k) IN
    /\ s.pc \in {"link", "unlink"} /\ k = s.at =>
          /\ p \notin s.promoted \cup s.forgotten
          /\ SavedExactly(x, p) /\ HasBackup(x, p)
          /\ IF s.pc = "link" THEN Absent(p) ELSE Mine(x, p) /\ s.stage[p] = "linked"
    /\ s.pc \in Forth /\ (k < s.at \/ (s.pc = "sync" /\ k = s.at)) =>
          /\ p \in s.promoted /\ p \notin s.forgotten /\ s.stage[p] = None
          /\ SavedExactly(x, p) /\ HasBackup(x, p) /\ Mine(x, p)

\* An error was caught, and the item is still to be undone.
ItemToUndo(x, k) ==
    LET s == tx[x]  p == Item(x, k) IN
    s.pc \in Back /\ (k < s.at \/ (s.pc = "undo" /\ k = s.at)) =>
        /\ Saved(x, p)
        /\ p \in s.promoted => p \notin s.forgotten
        /\ p \in s.promoted \cup s.forgotten => Mine(x, p) /\ HasBackup(x, p)
        /\ p \notin s.promoted \cup s.forgotten =>
              IF p \in s.backedUp THEN Absent(p) ELSE AsSeenAt(x, p)
        /\ p \in s.forgotten => s.stage[p] = "linked"

\* What may stay at a destination whose item was undone.
Forgone(x, p) == p \in tx[x].forgotten /\ x \in Rasters
Linked(x, p) == p \in tx[x].forgotten /\ tx[x].stage[p] = "linked"

ItemUndoing(x, k) ==
    LET s == tx[x]  p == Item(x, k) IN
    k = s.at =>
        /\ s.pc = "remove" =>
              /\ p \in s.promoted /\ p \notin s.forgotten
              /\ Saved(x, p) /\ HasBackup(x, p) /\ (file[p] = x \/ p \in late)
        /\ s.pc \in {"restore", "rename"} => p \in s.backedUp /\ Saved(x, p)
        /\ s.pc = "restore" => Absent(p) \/ Linked(x, p) \/ s.recovery
        /\ s.pc = "rename" => file[p] = None \/ p \in late
        /\ s.pc = "unstage" =>
              s.recovery \/ (s.backup[p] = None /\ (AsSeenAt(x, p) \/ Linked(x, p)))

ItemUndone(x, k) ==
    LET s == tx[x]  p == Item(x, k) IN
    (s.pc \in Back /\ k > s.at) \/ s.pc = "throw" =>
        \/ s.recovery
        \/ /\ s.backup[p] = None /\ s.stage[p] \in {None, "part"}
           /\ AsSeenAt(x, p) \/ Forgone(x, p)

\* The new files are all there, and the backups go.
ItemDone(x, k) ==
    LET s == tx[x]  p == Item(x, k) IN
    /\ s.pc \in {"clean", "finish"} =>
          /\ Mine(x, p) /\ s.stage[p] = None
          /\ s.backup[p] \in {None, s.seen[p]} \/ p \in late
    /\ (s.pc = "clean" /\ k < s.at) \/ s.pc = "finish" => s.recovery \/ s.backup[p] = None

\* As long as the call may have to go back, the file the plan saw is kept.
Kept(x, p) == tx[x].seen[p] \in {None, file[p], tx[x].backup[p]} \/ Excused(p)
ItemKept(x, k) == tx[x].pc \in Forth \cup Back \cup {"throw"} => Kept(x, Item(x, k))

ItemTold(x, k) ==
    /\ ItemAhead(x, k) /\ ItemInPlace(x, k) /\ ItemToUndo(x, k) /\ ItemUndoing(x, k)
    /\ ItemUndone(x, k) /\ ItemDone(x, k) /\ ItemKept(x, k)

-----------------------------------------------------------------------------
(* A call as a whole.                                                       *)

NoSideFiles(x) ==
    /\ \A p \in Items(x) : tx[x].stage[p] = None /\ tx[x].backup[p] = None
    /\ tx[x].promoted = {} /\ tx[x].backedUp = {} /\ tx[x].forgotten = {}
    /\ tx[x].journal = None /\ ~tx[x].recovery /\ tx[x].staged = 0

NothingMoved(x) ==
    /\ \A p \in Items(x) : tx[x].backup[p] = None
    /\ tx[x].promoted = {} /\ tx[x].backedUp = {} /\ tx[x].forgotten = {}

Position(x) ==
    LET s == tx[x] IN
    /\ s.pc \in Looking \cup {"refused", "unchanged"} => NoSideFiles(x)
    /\ s.pc # "new" => \A p \in Items(x) : s.seen[p] = s.seen[Record(x)] /\ s.seen[p] # "foreign"
    /\ s.pc = "stage" => s.at \in 1..Last(x) /\ s.staged = s.at - 1
    /\ s.pc \in {"journal"} \cup Forth => s.staged = Last(x)
    /\ s.pc \in Forth => s.at \in 1..Last(x)
    /\ s.pc \in Back \ {"undo"} => s.at \in 1..Last(x)
    /\ s.pc = "undo" => s.at \in 0..Last(x)
    /\ s.pc = "clean" => s.at \in 1..Last(x) + 1
    /\ s.pc \in {"stage", "journal"} => s.journal = None
    /\ s.pc \in Forth \cup {"clean"} => s.journal = "whole"
    /\ s.pc \in Back \/ (s.pc = "throw" /\ s.recovery) => s.journal = "whole" \/ NothingMoved(x)
    /\ s.pc = "throw" => s.recovery \/ s.journal # "whole"
    /\ s.pc = "finish" => s.journal = IF s.recovery THEN "whole" ELSE None
    /\ s.pc \in {"stage", "journal"} \cup Forth => ~s.recovery

Holds == \A x \in Calls : Running(x) => lock = x
\* A call that has looked for the residue of others has met none.
NoResidue == \A x, y \in Calls : Running(x) /\ tx[x].pc # "residue" /\ y # x => ~Residue(y)
OneHasBackups ==
    \A x, y \in Calls : \A p \in Items(x), q \in Items(y) :
        tx[x].backup[p] # None /\ tx[y].backup[q] # None => x = y

CallInv(x) == Position(x) /\ \A k \in 1..Last(x) : ItemTold(x, k)
CallsInv == /\ Holds /\ NoResidue /\ OneHasBackups /\ JournalCovers /\ PriorOrNew
            /\ \A x \in Calls : CallInv(x)

-----------------------------------------------------------------------------
(* A publisher of a single target.                                          *)

\* Another program of the same target has planned; one has seen what f wrote.
Met(f) == \E g \in Publishers \ {f} : Target(g) = Target(f) /\ pub[g].pc # "new"
Saw(f) == \E g \in Publishers \ {f} : Target(g) = Target(f) /\ pub[g].seen[Target(f)] = f

Posted == {"published", "publishedWithError", "failedPublished"}
Placed == {"sync", "drop", "removeBackup", "finish", "dropAgain", "unpublish"} \cup Posted

\* What the publisher holds aside, and what it planned on.
PubHolds(f) ==
    LET s == pub[f]  p == Target(f) IN
    /\ s.pc = "new" => s.seen[p] = None
    /\ s.pc \notin {"new", "refused"} =>
          s.seen[p] = None \/ f \in Forced \cup Brands \/ (f \in Galleries /\ s.seen[p] # "foreign")
    /\ s.pc \in {"new", "locking", "look", "stage", "recheck", "backup", "finish", "refused"} => ~s.backedUp
    /\ s.pc = "drop" /\ s.backedUp => f \in Brands
    /\ s.backedUp \/ s.pc = "backup" => s.seen[p] # None
    /\ s.pc = "locking" => f \in Previews
    /\ s.pc = "link" => f \notin Forced \cup Galleries
    /\ s.pc = "reserve" => f \in Galleries
    /\ s.pc = "rename" => f \in Forced \cup Galleries
    /\ s.pc = "removeBackup" => s.backedUp
    /\ s.pc \in {"sync", "drop", "finish"} => f \notin Forced
    /\ s.pc = "unpublish" => f \in Shards
    /\ s.pc = "bringBack" => f \in Brands /\ s.backedUp
    /\ s.pc \notin Posted => (s.backedUp <=> s.backup # None) /\ s.backup # "part"
    /\ s.backup \in {None, "part", s.seen[p]} \/ p \in late
    /\ s.pc \in {"removeBackup", "finish"} => s.stage = None
    /\ s.pc = "sync" /\ f \in Galleries \cup Brands => s.stage = None

\* The target as the publisher last saw it, or late.
PubLooked(f) ==
    LET s == pub[f]  p == Target(f) IN
    /\ s.pc = "backup" => file[p] = s.seen[p] \/ p \in late
    /\ f \in Forced /\ s.pc = "rename" => file[p] = None \/ p \in late
    /\ f \in Forced /\ s.backedUp /\ s.pc \in {"removeBackup", "undo"} => file[p] \in {None, f} \/ p \in late
    /\ s.pc = "bringBack" => file[p] = None \/ p \in late
    /\ f \in Shards /\ s.pc \in {"sync", "drop", "finish", "unpublish"} => file[p] = f \/ p \in late

\* What the publisher wrote, and what lies there as long as it wrote nothing.
PubWrote(f) ==
    LET s == pub[f]  p == Target(f) IN
    /\ s.pc \in Placed => Stands(f)
    /\ s.pc = "new" => file[p] # f /\ \A g \in Publishers : Target(g) = p => pub[g].backup # f
    /\ s.seen[p] # f
    /\ file[p] = f => s.pc \in Placed \cup {"rollbackFailed", "killed"} \/ s.backedUp \/ Excused(p) \/ Saw(f)
    /\ s.pc \notin {"new", "rollbackFailed", "killed"} \cup Placed /\ ~s.backedUp =>
          file[p] = s.seen[p] \/ Excused(p) \/ Met(f)

PubInv(f) == PubHolds(f) /\ PubLooked(f) /\ PubWrote(f)

IInv == TypeOK /\ CallsInv /\ EditSurvives /\ \A f \in Publishers : PubInv(f)

-----------------------------------------------------------------------------
(* What a program is does not change, and neither does anything made of it. *)

LEMMA KindStays ==
    ASSUME kind' = kind
    PROVE  /\ Calls' = Calls /\ Publishers' = Publishers
           /\ Consumers' = Consumers /\ Rasters' = Rasters
           /\ Scenes' = Scenes /\ Shards' = Shards /\ Forced' = Forced /\ Brands' = Brands
           /\ Bundles' = Bundles /\ Previews' = Previews /\ Workspaces' = Workspaces
           /\ Galleries' = Galleries
           /\ \A x : Order(x)' = Order(x) /\ Items(x)' = Items(x) /\ Record(x)' = Record(x)
           /\ \A f : Target(f)' = Target(f) /\ Sources(f)' = Sources(f)
<1>1. \A ks : Are(ks)' = Are(ks)
  BY DEF Are
<1>2. /\ Calls' = Calls /\ Consumers' = Consumers /\ Rasters' = Rasters
      /\ Scenes' = Scenes /\ Shards' = Shards /\ Forced' = Forced /\ Brands' = Brands
      /\ Bundles' = Bundles /\ Previews' = Previews /\ Workspaces' = Workspaces
  BY <1>1 DEF Calls, Consumers, Rasters, Scenes, Shards, Forced, Brands, Bundles, Previews, Workspaces
<1>3. Publishers' = Publishers /\ Galleries' = Galleries
  BY <1>2 DEF Publishers, Galleries
<1>4. \A x : Order(x)' = Order(x) /\ Record(x)' = Record(x)
  BY <1>2 DEF Order, Record
<1>5. \A x : Items(x)' = Items(x)
  BY <1>4 DEF Items
<1>6. \A f : Target(f)' = Target(f) /\ Sources(f)' = Sources(f)
  BY <1>2, <1>3 DEF Target, Sources
<1> QED
  BY <1>2, <1>3, <1>4, <1>5, <1>6

\* The kinds of publishers that the code tells apart.
LEMMA Apart ==
    ASSUME NEW f
    PROVE  /\ f \in Forced => f \in Bundles /\ f \notin Brands \cup Galleries \cup Scenes \cup Shards
           /\ f \in Brands => f \in Bundles /\ f \notin Forced \cup Galleries \cup Scenes \cup Shards
           /\ f \in Galleries => f \notin Bundles \cup Scenes \cup Shards
           /\ f \in Galleries <=> f \in Previews \cup Workspaces
           /\ f \in Previews => f \notin Workspaces
           /\ f \in Scenes => f \notin Shards \cup Bundles
           /\ f \in Shards => f \notin Bundles
BY DEF Forced, Brands, Bundles, Galleries, Scenes, Shards, Previews, Workspaces, Are

LEMMA TargetIs ==
    ASSUME NEW f \in Publishers
    PROVE  /\ Target(f) \in {"file", "gallery", "workspaceGallery"} /\ Target(f) \in Places
           /\ f \in Programs /\ f \notin Calls
           /\ \A x : Target(f) \notin Items(x)
<1>1. /\ Target(f) \in {"file", "gallery", "workspaceGallery"} /\ Target(f) \in Places
      /\ f \in Programs /\ f \notin Calls
  BY DEF Target, Places, Publishers
<1>2. \A x : Items(x) \subseteq {"guide", "theme", "brandLock", "image", "receipt"}
  BY DEF Items, Order
<1> QED
  BY <1>1, <1>2

\* Whose content is whose: no two programs write the same, nor what was there.
LEMMA Written ==
    ASSUME NEW x \in Programs
    PROVE  x \notin {None, "prior", "foreign", "part"} /\ x \in Contents
BY OutputFilesAssumption DEF Contents

-----------------------------------------------------------------------------
(* The step of a publisher.                                                 *)

\* A step of g puts at most one content at its target: nothing, its own, or
\* its backup; and what goes was nothing, its own or what it saw, or is late.
PubMoves(g) ==
    LET s == pub[g]  p == Target(g) IN
    \/ file' = file
    \/ /\ s.pc \notin {"new", "refused"}
       /\ file[p] \in {None, g, s.seen[p]} \/ p \in late
       /\ \/ file' = [file EXCEPT ![p] = None]
          \/ file' = [file EXCEPT ![p] = g]
          \/ file' = [file EXCEPT ![p] = s.backup] /\ s.backedUp /\ s.backup # "part"

PubTells(g) ==
    LET s == pub[g]  t == pub'[g]  p == Target(g) IN
    /\ t.pc # "new"
    /\ t.seen = s.seen \/ (s.pc = "new" /\ t.seen[p] = file[p])
    /\ t.backup \in {s.backup, None, "part"} \/ t.backup = file[p]

\* What lies around a publisher that runs on its own.
Alone(g) ==
    /\ kind' = kind /\ touched' = touched /\ late \subseteq late'
    /\ \A h \in Publishers \ {g} : pub'[h] = pub[h]

\* What a step of its own needs of the others is as it was.
LEMMA AloneTells ==
    ASSUME TypeOK, NEW g \in Publishers, Alone(g)
    PROVE  /\ Target(g)' = Target(g) /\ Publishers' = Publishers
           /\ (Saw(g)' <=> Saw(g)) /\ (Met(g)' <=> Met(g))
           /\ \A p : Excused(p) => Excused(p)'
           /\ Stands(g) <=> (file[Target(g)] = g \/ Excused(Target(g)) \/ Saw(g))
           /\ Stands(g)' <=> (file'[Target(g)] = g \/ Excused(Target(g))' \/ Saw(g))
           /\ \A h \in Publishers \ {g} : pub'[h] = pub[h]
<1>1. /\ \A h \in Publishers \ {g} : pub'[h] = pub[h]
      /\ Publishers' = Publishers /\ \A h : Target(h)' = Target(h)
  BY KindStays DEF Alone, TypeOK, PubTypeOK
<1>2. (Saw(g)' <=> Saw(g)) /\ (Met(g)' <=> Met(g))
  BY <1>1 DEF Saw, Met
<1>3. \A p : Excused(p) => Excused(p)'
  BY DEF Alone, Excused
<1>4. /\ Stands(g) <=> (file[Target(g)] = g \/ Excused(Target(g)) \/ Saw(g))
      /\ Stands(g)' <=> (file'[Target(g)] = g \/ Excused(Target(g))' \/ Saw(g)')
  BY <1>1 DEF Stands, Saw
<1> QED
  BY <1>1, <1>2, <1>3, <1>4

\* Where a publisher stands is one of the program's points, whose effects follow.
LEMMA PubPlace ==
    ASSUME TypeOK, NEW g \in Publishers
    PROVE  /\ pub[g] \in PublisherStates(g) /\ DOMAIN pub = Publishers
           /\ Target(g) \in Places /\ Target(g) \in DOMAIN pub[g].seen /\ file[Target(g)] \in Contents
           /\ file \in [Places -> Contents] /\ mishaps \in 0..MaxMishaps /\ MaxMishaps \in Nat
           /\ g \in Contents /\ None \in Contents /\ g \notin {None, "part", "foreign"}
           /\ None \notin {"part", "foreign"} /\ "part" \notin Contents
BY TargetIs, Written, OutputFilesAssumption
   DEF TypeOK, FilesTypeOK, PubTypeOK, PublisherStates, Contents

\* PlanTarget: the target is planned as it lies.
LEMMA PlanTargetHolds ==
    ASSUME TypeOK, NEW g \in Publishers, PubInv(g), PlanTarget(g), Alone(g)
    PROVE  PubTells(g) /\ PubMoves(g) /\ PubInv(g)'
<1> DEFINE s == pub[g]  t == pub'[g]  p == Target(g)
<1>p. /\ s \in PublisherStates(g) /\ DOMAIN pub = Publishers /\ p \in DOMAIN s.seen
      /\ file \in [Places -> Contents] /\ p \in Places
  BY PubPlace
<1>a. s.pc = "new" /\ t.seen[p] = file[p] /\ file' = file /\ t.stage = s.stage /\ t.backup = s.backup /\ t.backedUp = s.backedUp
  BY <1>p, Apart DEF PlanTarget, Turns, Goes, Closes, Put, Placing, PublisherStates, world, Acceptable, Sources, Canonical, Places
<1>b. \/ t.pc = "refused"
         \/ /\ file[p] = None \/ g \in Forced \cup Brands \/ (g \in Galleries /\ file[p] # "foreign")
            /\ t.pc \in {"locking", "look", "stage"} /\ (t.pc = "locking" => g \in Previews)
  BY <1>p, Apart DEF PlanTarget, Turns, Goes, Closes, Put, Placing, PublisherStates, world, Acceptable, Sources, Canonical, Places
<1>1. s.pc = "new" /\ t.seen[p] = file[p] /\ file' = file /\ t.stage = s.stage /\ t.backup = s.backup /\ t.backedUp = s.backedUp
      /\ \/ t.pc = "refused"
         \/ /\ file[p] = None \/ g \in Forced \cup Brands \/ (g \in Galleries /\ file[p] # "foreign")
            /\ t.pc \in {"locking", "look", "stage"} /\ (t.pc = "locking" => g \in Previews)
  BY <1>a, <1>b
<1> HIDE DEF s, t
<1>2. PubTells(g)
  BY <1>1, PubPlace DEF PubTells, s, t
<1>3. PubMoves(g)
  BY <1>1, PubPlace, Apart DEF PubMoves, PubInv, PubHolds, PubLooked, Posted, s, t
<1>4. PubHolds(g)'
  BY <1>1, PubPlace, Apart, AloneTells, KindStays DEF PubInv, PubHolds, PubLooked, Posted, s, t, Alone
<1>5. PubLooked(g)'
  BY <1>1, PubPlace, Apart, AloneTells, KindStays DEF PubInv, PubHolds, PubLooked, s, t, Alone
<1>6. PubWrote(g)'
  BY <1>1, PubPlace, Apart, AloneTells, KindStays DEF PubInv, PubHolds, PubLooked, PubWrote, Posted, Placed, Excused, s, t, Alone
<1> QED
  BY <1>2, <1>3, <1>4, <1>5, <1>6 DEF PubInv

\* LockPreview: the preview takes the lock, or is refused.
LEMMA LockPreviewHolds ==
    ASSUME TypeOK, NEW g \in Publishers, PubInv(g), LockPreview(g), Alone(g)
    PROVE  PubTells(g) /\ PubMoves(g) /\ PubInv(g)'
<1> DEFINE s == pub[g]  t == pub'[g]  p == Target(g)
<1>p. /\ s \in PublisherStates(g) /\ DOMAIN pub = Publishers /\ p \in DOMAIN s.seen
      /\ file \in [Places -> Contents] /\ p \in Places
  BY PubPlace
<1>1. s.pc = "locking" /\ t.pc \in {"look", "refused"} /\ file' = file /\ t.seen = s.seen /\ t.stage = s.stage /\ t.backup = s.backup /\ t.backedUp = s.backedUp
  BY <1>p, Apart DEF LockPreview, Turns, Goes, Closes, Put, Placing, PublisherStates, world
<1> HIDE DEF s, t
<1>2. PubTells(g)
  BY <1>1, PubPlace DEF PubTells, s, t
<1>3. PubMoves(g)
  BY <1>1, PubPlace, Apart DEF PubMoves, PubInv, PubHolds, PubLooked, Posted, s, t
<1>4. PubHolds(g)'
  BY <1>1, PubPlace, Apart, AloneTells, KindStays DEF PubInv, PubHolds, PubLooked, Posted, s, t, Alone
<1>5. PubLooked(g)'
  BY <1>1, PubPlace, Apart, AloneTells, KindStays DEF PubInv, PubHolds, PubLooked, s, t, Alone
<1>6. PubWrote(g)'
  BY <1>1, PubPlace, Apart, AloneTells, KindStays DEF PubInv, PubHolds, PubLooked, PubWrote, Posted, Placed, Excused, s, t, Alone
<1> QED
  BY <1>2, <1>3, <1>4, <1>5, <1>6 DEF PubInv

\* LookAgain: the plan is compared again.
LEMMA LookAgainHolds ==
    ASSUME TypeOK, NEW g \in Publishers, PubInv(g), LookAgain(g), Alone(g)
    PROVE  PubTells(g) /\ PubMoves(g) /\ PubInv(g)'
<1> DEFINE s == pub[g]  t == pub'[g]  p == Target(g)
<1>p. /\ s \in PublisherStates(g) /\ DOMAIN pub = Publishers /\ p \in DOMAIN s.seen
      /\ file \in [Places -> Contents] /\ p \in Places
  BY PubPlace
<1>1. s.pc = "look" /\ t.pc \in {"stage", "refused"} /\ file' = file /\ t.seen = s.seen /\ t.stage = s.stage /\ t.backup = s.backup /\ t.backedUp = s.backedUp
  BY <1>p, Apart DEF LookAgain, Turns, Goes, Closes, Put, Placing, PublisherStates, world, AsSeen
<1> HIDE DEF s, t
<1>2. PubTells(g)
  BY <1>1, PubPlace DEF PubTells, s, t
<1>3. PubMoves(g)
  BY <1>1, PubPlace, Apart DEF PubMoves, PubInv, PubHolds, PubLooked, Posted, s, t
<1>4. PubHolds(g)'
  BY <1>1, PubPlace, Apart, AloneTells, KindStays DEF PubInv, PubHolds, PubLooked, Posted, s, t, Alone
<1>5. PubLooked(g)'
  BY <1>1, PubPlace, Apart, AloneTells, KindStays DEF PubInv, PubHolds, PubLooked, s, t, Alone
<1>6. PubWrote(g)'
  BY <1>1, PubPlace, Apart, AloneTells, KindStays DEF PubInv, PubHolds, PubLooked, PubWrote, Posted, Placed, Excused, s, t, Alone
<1> QED
  BY <1>2, <1>3, <1>4, <1>5, <1>6 DEF PubInv

\* StageTarget: the stage is written.
LEMMA StageTargetHolds ==
    ASSUME TypeOK, NEW g \in Publishers, PubInv(g), StageTarget(g), Alone(g)
    PROVE  PubTells(g) /\ PubMoves(g) /\ PubInv(g)'
<1> DEFINE s == pub[g]  t == pub'[g]  p == Target(g)
<1>p. /\ s \in PublisherStates(g) /\ DOMAIN pub = Publishers /\ p \in DOMAIN s.seen
      /\ file \in [Places -> Contents] /\ p \in Places
  BY PubPlace
<1>1. s.pc = "stage" /\ t.pc = "recheck" /\ t.stage = "whole" /\ file' = file /\ t.seen = s.seen /\ t.backup = s.backup /\ t.backedUp = s.backedUp
  BY <1>p, Apart DEF StageTarget, Turns, Goes, Closes, Put, Placing, PublisherStates, world
<1> HIDE DEF s, t
<1>2. PubTells(g)
  BY <1>1, PubPlace DEF PubTells, s, t
<1>3. PubMoves(g)
  BY <1>1, PubPlace, Apart DEF PubMoves, PubInv, PubHolds, PubLooked, Posted, s, t
<1>4. PubHolds(g)'
  BY <1>1, PubPlace, Apart, AloneTells, KindStays DEF PubInv, PubHolds, PubLooked, Posted, s, t, Alone
<1>5. PubLooked(g)'
  BY <1>1, PubPlace, Apart, AloneTells, KindStays DEF PubInv, PubHolds, PubLooked, s, t, Alone
<1>6. PubWrote(g)'
  BY <1>1, PubPlace, Apart, AloneTells, KindStays DEF PubInv, PubHolds, PubLooked, PubWrote, Posted, Placed, Excused, s, t, Alone
<1> QED
  BY <1>2, <1>3, <1>4, <1>5, <1>6 DEF PubInv

\* Recheck: the target is compared, and the way to it chosen.
LEMMA RecheckHolds ==
    ASSUME TypeOK, NEW g \in Publishers, PubInv(g), Recheck(g), Alone(g)
    PROVE  PubTells(g) /\ PubMoves(g) /\ PubInv(g)'
<1> DEFINE s == pub[g]  t == pub'[g]  p == Target(g)
<1>p. /\ s \in PublisherStates(g) /\ DOMAIN pub = Publishers /\ p \in DOMAIN s.seen
      /\ file \in [Places -> Contents] /\ p \in Places
  BY PubPlace
<1>1. s.pc = "recheck" /\ file' = file /\ t.seen = s.seen /\ t.stage = s.stage /\ t.backup = s.backup /\ t.backedUp = s.backedUp
      /\ \/ t.pc = "undo"
         \/ t.pc = "backup" /\ file[p] = s.seen[p] /\ s.seen[p] # None
         \/ t.pc \in {"reserve", "rename", "link"} /\ file[p] = None /\ s.seen[p] = None
            /\ (t.pc = "rename" <=> g \in Forced) /\ (t.pc = "reserve" <=> g \in Galleries)
  BY <1>p, Apart DEF Recheck, Turns, Goes, Closes, Put, Placing, PublisherStates, world, AsSeen
<1> HIDE DEF s, t
<1>2. PubTells(g)
  BY <1>1, PubPlace DEF PubTells, s, t
<1>3. PubMoves(g)
  BY <1>1, PubPlace, Apart DEF PubMoves, PubInv, PubHolds, PubLooked, Posted, s, t
<1>4. PubHolds(g)'
  BY <1>1, PubPlace, Apart, AloneTells, KindStays DEF PubInv, PubHolds, PubLooked, Posted, s, t, Alone
<1>5. PubLooked(g)'
  BY <1>1, PubPlace, Apart, AloneTells, KindStays DEF PubInv, PubHolds, PubLooked, s, t, Alone
<1>6. PubWrote(g)'
  BY <1>1, PubPlace, Apart, AloneTells, KindStays DEF PubInv, PubHolds, PubLooked, PubWrote, Posted, Placed, Excused, s, t, Alone
<1> QED
  BY <1>2, <1>3, <1>4, <1>5, <1>6 DEF PubInv

\* LinkTarget: linked where nothing lay.
LEMMA LinkTargetHolds ==
    ASSUME TypeOK, NEW g \in Publishers, PubInv(g), LinkTarget(g), Alone(g)
    PROVE  PubTells(g) /\ PubMoves(g) /\ PubInv(g)'
<1> DEFINE s == pub[g]  t == pub'[g]  p == Target(g)
<1>p. /\ s \in PublisherStates(g) /\ DOMAIN pub = Publishers /\ p \in DOMAIN s.seen
      /\ file \in [Places -> Contents] /\ p \in Places
  BY PubPlace
<1>1. s.pc = "link" /\ file[p] = None /\ file' = [file EXCEPT ![p] = g]
      /\ t.stage = "linked" /\ t.pc = (IF g \in Bundles THEN "drop" ELSE "sync") /\ t.seen = s.seen /\ t.backup = s.backup /\ t.backedUp = s.backedUp
  BY <1>p, Apart DEF LinkTarget, Turns, Goes, Closes, Put, Placing, PublisherStates, world
<1> HIDE DEF s, t
<1>2. PubTells(g)
  BY <1>1, PubPlace DEF PubTells, s, t
<1>3. PubMoves(g)
  BY <1>1, PubPlace, Apart DEF PubMoves, PubInv, PubHolds, PubLooked, Posted, s, t
<1>4. PubHolds(g)'
  BY <1>1, PubPlace, Apart, AloneTells, KindStays DEF PubInv, PubHolds, PubLooked, Posted, s, t, Alone
<1>5. PubLooked(g)'
  BY <1>1, PubPlace, Apart, AloneTells, KindStays DEF PubInv, PubHolds, PubLooked, s, t, Alone
<1>6. PubWrote(g)'
  BY <1>1, PubPlace, Apart, AloneTells, KindStays DEF PubInv, PubHolds, PubLooked, PubWrote, Posted, Placed, Excused, s, t, Alone
<1> QED
  BY <1>2, <1>3, <1>4, <1>5, <1>6 DEF PubInv

\* BackUpTarget: the old target is moved aside.
LEMMA BackUpTargetHolds ==
    ASSUME TypeOK, NEW g \in Publishers, PubInv(g), BackUpTarget(g), Alone(g)
    PROVE  PubTells(g) /\ PubMoves(g) /\ PubInv(g)'
<1> DEFINE s == pub[g]  t == pub'[g]  p == Target(g)
<1>p. /\ s \in PublisherStates(g) /\ DOMAIN pub = Publishers /\ p \in DOMAIN s.seen
      /\ file \in [Places -> Contents] /\ p \in Places
  BY PubPlace
<1>1. s.pc = "backup" /\ file[p] # None /\ file' = [file EXCEPT ![p] = None]
      /\ t.backup = file[p] /\ t.backedUp /\ t.pc \in {"reserve", "rename", "link"}
      /\ (t.pc = "rename" <=> g \in Forced) /\ (t.pc = "reserve" <=> g \in Galleries) /\ t.seen = s.seen /\ t.stage = s.stage
  BY <1>p, Apart DEF BackUpTarget, Turns, Goes, Closes, Put, Placing, PublisherStates, world
<1> HIDE DEF s, t
<1>2. PubTells(g)
  BY <1>1, PubPlace DEF PubTells, s, t
<1>3. PubMoves(g)
  BY <1>1, PubPlace, Apart DEF PubMoves, PubInv, PubHolds, PubLooked, Posted, s, t
<1>4. PubHolds(g)'
  BY <1>1, PubPlace, Apart, AloneTells, KindStays DEF PubInv, PubHolds, PubLooked, Posted, s, t, Alone
<1>5. PubLooked(g)'
  BY <1>1, PubPlace, Apart, AloneTells, KindStays DEF PubInv, PubHolds, PubLooked, s, t, Alone
<1>6. PubWrote(g)'
  BY <1>1, PubPlace, Apart, AloneTells, KindStays DEF PubInv, PubHolds, PubLooked, PubWrote, Posted, Placed, Excused, s, t, Alone
<1> QED
  BY <1>2, <1>3, <1>4, <1>5, <1>6 DEF PubInv

\* ReserveTarget: the name is reserved.
LEMMA ReserveTargetHolds ==
    ASSUME TypeOK, NEW g \in Publishers, PubInv(g), ReserveTarget(g), Alone(g)
    PROVE  PubTells(g) /\ PubMoves(g) /\ PubInv(g)'
<1> DEFINE s == pub[g]  t == pub'[g]  p == Target(g)
<1>p. /\ s \in PublisherStates(g) /\ DOMAIN pub = Publishers /\ p \in DOMAIN s.seen
      /\ file \in [Places -> Contents] /\ p \in Places
  BY PubPlace
<1>1. s.pc = "reserve" /\ t.pc = "rename" /\ file' = file /\ t.seen = s.seen /\ t.stage = s.stage /\ t.backup = s.backup /\ t.backedUp = s.backedUp
  BY <1>p, Apart DEF ReserveTarget, Turns, Goes, Closes, Put, Placing, PublisherStates, world
<1> HIDE DEF s, t
<1>2. PubTells(g)
  BY <1>1, PubPlace DEF PubTells, s, t
<1>3. PubMoves(g)
  BY <1>1, PubPlace, Apart DEF PubMoves, PubInv, PubHolds, PubLooked, Posted, s, t
<1>4. PubHolds(g)'
  BY <1>1, PubPlace, Apart, AloneTells, KindStays DEF PubInv, PubHolds, PubLooked, Posted, s, t, Alone
<1>5. PubLooked(g)'
  BY <1>1, PubPlace, Apart, AloneTells, KindStays DEF PubInv, PubHolds, PubLooked, s, t, Alone
<1>6. PubWrote(g)'
  BY <1>1, PubPlace, Apart, AloneTells, KindStays DEF PubInv, PubHolds, PubLooked, PubWrote, Posted, Placed, Excused, s, t, Alone
<1> QED
  BY <1>2, <1>3, <1>4, <1>5, <1>6 DEF PubInv

\* RenameTarget: renamed to the target.
LEMMA RenameTargetHolds ==
    ASSUME TypeOK, NEW g \in Publishers, PubInv(g), RenameTarget(g), Alone(g)
    PROVE  PubTells(g) /\ PubMoves(g) /\ PubInv(g)'
<1> DEFINE s == pub[g]  t == pub'[g]  p == Target(g)
<1>p. /\ s \in PublisherStates(g) /\ DOMAIN pub = Publishers /\ p \in DOMAIN s.seen
      /\ file \in [Places -> Contents] /\ p \in Places
  BY PubPlace
<1>a. s.pc = "rename" /\ (g \in Galleries => file[p] = None) /\ file' = [file EXCEPT ![p] = g]
      /\ t.stage = None /\ t.seen = s.seen /\ t.backup = s.backup /\ t.backedUp = s.backedUp
  BY <1>p, Apart DEF RenameTarget, Turns, Goes, Closes, Put, Placing, PublisherStates, world
<1>b. t.pc = (IF g \in Galleries THEN "sync" ELSE IF s.backedUp THEN "removeBackup" ELSE "published")
  BY <1>p, Apart DEF RenameTarget, Turns, Goes, Closes, Put, Placing, PublisherStates, world
<1>1. s.pc = "rename" /\ (g \in Galleries => file[p] = None) /\ file' = [file EXCEPT ![p] = g]
      /\ t.stage = None /\ t.seen = s.seen /\ t.backup = s.backup /\ t.backedUp = s.backedUp
      /\ t.pc = (IF g \in Galleries THEN "sync" ELSE IF s.backedUp THEN "removeBackup" ELSE "published")
  BY <1>a, <1>b
<1> HIDE DEF s, t
<1>2. PubTells(g)
  BY <1>1, PubPlace DEF PubTells, s, t
<1>3. PubMoves(g)
  BY <1>1, PubPlace, Apart DEF PubMoves, PubInv, PubHolds, PubLooked, Posted, s, t
<1>4. PubHolds(g)'
  BY <1>1, PubPlace, Apart, AloneTells, KindStays DEF PubInv, PubHolds, PubLooked, Posted, s, t, Alone
<1>5. PubLooked(g)'
  BY <1>1, PubPlace, Apart, AloneTells, KindStays DEF PubInv, PubHolds, PubLooked, s, t, Alone
<1>6. PubWrote(g)'
  BY <1>1, PubPlace, Apart, AloneTells, KindStays DEF PubInv, PubHolds, PubLooked, PubWrote, Posted, Placed, Excused, s, t, Alone
<1> QED
  BY <1>2, <1>3, <1>4, <1>5, <1>6 DEF PubInv

\* TargetChanged: somebody was at the target.
LEMMA TargetChangedHolds ==
    ASSUME TypeOK, NEW g \in Publishers, PubInv(g), TargetChanged(g), Alone(g)
    PROVE  PubTells(g) /\ PubMoves(g) /\ PubInv(g)'
<1> DEFINE s == pub[g]  t == pub'[g]  p == Target(g)
<1>p. /\ s \in PublisherStates(g) /\ DOMAIN pub = Publishers /\ p \in DOMAIN s.seen
      /\ file \in [Places -> Contents] /\ p \in Places
  BY PubPlace
<1>1. s.pc \in {"link", "reserve", "rename", "backup"} /\ (s.pc = "rename" => g \in Galleries)
      /\ file' = file /\ t.seen = s.seen /\ t.stage = s.stage /\ t.backup = s.backup /\ t.backedUp = s.backedUp
      /\ t.pc = (IF g \in Brands /\ s.backedUp /\ s.pc = "link" THEN "unstage" ELSE "undo")
      /\ (s.pc \in {"link", "reserve", "rename"} => file[p] # None) /\ (s.pc = "backup" => file[p] = None)
  BY <1>p, Apart DEF TargetChanged, Turns, Goes, Closes, Put, Placing, PublisherStates, world
<1> HIDE DEF s, t
<1>2. PubTells(g)
  BY <1>1, PubPlace DEF PubTells, s, t
<1>3. PubMoves(g)
  BY <1>1, PubPlace, Apart DEF PubMoves, PubInv, PubHolds, PubLooked, Posted, s, t
<1>4. PubHolds(g)'
  BY <1>1, PubPlace, Apart, AloneTells, KindStays DEF PubInv, PubHolds, PubLooked, Posted, s, t, Alone
<1>5. PubLooked(g)'
  BY <1>1, PubPlace, Apart, AloneTells, KindStays DEF PubInv, PubHolds, PubLooked, s, t, Alone
<1>6. PubWrote(g)'
  BY <1>1, PubPlace, Apart, AloneTells, KindStays DEF PubInv, PubHolds, PubLooked, PubWrote, Posted, Placed, Excused, s, t, Alone
<1> QED
  BY <1>2, <1>3, <1>4, <1>5, <1>6 DEF PubInv

\* SyncTarget: the directory is synced.
LEMMA SyncTargetHolds ==
    ASSUME TypeOK, NEW g \in Publishers, PubInv(g), SyncTarget(g), Alone(g)
    PROVE  PubTells(g) /\ PubMoves(g) /\ PubInv(g)'
<1> DEFINE s == pub[g]  t == pub'[g]  p == Target(g)
<1>p. /\ s \in PublisherStates(g) /\ DOMAIN pub = Publishers /\ p \in DOMAIN s.seen
      /\ file \in [Places -> Contents] /\ p \in Places
  BY PubPlace
<1>1. s.pc = "sync" /\ file' = file /\ t.seen = s.seen /\ t.stage = s.stage /\ t.backup = s.backup /\ t.backedUp = s.backedUp
      /\ t.pc = (IF g \notin Galleries \cup Brands THEN "drop" ELSE IF s.backedUp THEN "removeBackup" ELSE "published")
  BY <1>p, Apart DEF SyncTarget, Turns, Goes, Closes, Put, Placing, PublisherStates, world
<1> HIDE DEF s, t
<1>2. PubTells(g)
  BY <1>1, PubPlace DEF PubTells, s, t
<1>3. PubMoves(g)
  BY <1>1, PubPlace, Apart DEF PubMoves, PubInv, PubHolds, PubLooked, Posted, s, t
<1>4. PubHolds(g)'
  BY <1>1, PubPlace, Apart, AloneTells, KindStays DEF PubInv, PubHolds, PubLooked, Posted, s, t, Alone
<1>5. PubLooked(g)'
  BY <1>1, PubPlace, Apart, AloneTells, KindStays DEF PubInv, PubHolds, PubLooked, s, t, Alone
<1>6. PubWrote(g)'
  BY <1>1, PubPlace, Apart, AloneTells, KindStays DEF PubInv, PubHolds, PubLooked, PubWrote, Posted, Placed, Excused, s, t, Alone
<1> QED
  BY <1>2, <1>3, <1>4, <1>5, <1>6 DEF PubInv

\* DropStage: the linked stage goes.
LEMMA DropStageHolds ==
    ASSUME TypeOK, NEW g \in Publishers, PubInv(g), DropStage(g), Alone(g)
    PROVE  PubTells(g) /\ PubMoves(g) /\ PubInv(g)'
<1> DEFINE s == pub[g]  t == pub'[g]  p == Target(g)
<1>p. /\ s \in PublisherStates(g) /\ DOMAIN pub = Publishers /\ p \in DOMAIN s.seen
      /\ file \in [Places -> Contents] /\ p \in Places
  BY PubPlace
<1>a. s.pc = "drop" /\ t.stage = None /\ file' = file /\ t.seen = s.seen /\ t.backup = s.backup /\ t.backedUp = s.backedUp
  BY <1>p, Apart DEF DropStage, Turns, Goes, Closes, Put, Placing, PublisherStates, world
<1>b. t.pc = (IF g \in Brands THEN "sync" ELSE IF g \in Bundles THEN "published" ELSE "finish")
  BY <1>p, Apart DEF DropStage, Turns, Goes, Closes, Put, Placing, PublisherStates, world
<1>1. s.pc = "drop" /\ t.stage = None /\ file' = file /\ t.seen = s.seen /\ t.backup = s.backup /\ t.backedUp = s.backedUp
      /\ t.pc = (IF g \in Brands THEN "sync" ELSE IF g \in Bundles THEN "published" ELSE "finish")
  BY <1>a, <1>b
<1> HIDE DEF s, t
<1>2. PubTells(g)
  BY <1>1, PubPlace DEF PubTells, s, t
<1>3. PubMoves(g)
  BY <1>1, PubPlace, Apart DEF PubMoves, PubInv, PubHolds, PubLooked, Posted, s, t
<1>4. PubHolds(g)'
  BY <1>1, PubPlace, Apart, AloneTells, KindStays DEF PubInv, PubHolds, PubLooked, Posted, s, t, Alone
<1>5. PubLooked(g)'
  BY <1>1, PubPlace, Apart, AloneTells, KindStays DEF PubInv, PubHolds, PubLooked, s, t, Alone
<1>6. PubWrote(g)'
  BY <1>1, PubPlace, Apart, AloneTells, KindStays DEF PubInv, PubHolds, PubLooked, PubWrote, Posted, Placed, Excused, s, t, Alone
<1> QED
  BY <1>2, <1>3, <1>4, <1>5, <1>6 DEF PubInv

\* RemoveBackup: the backup goes.
LEMMA RemoveBackupHolds ==
    ASSUME TypeOK, NEW g \in Publishers, PubInv(g), RemoveBackup(g), Alone(g)
    PROVE  PubTells(g) /\ PubMoves(g) /\ PubInv(g)'
<1> DEFINE s == pub[g]  t == pub'[g]  p == Target(g)
<1>p. /\ s \in PublisherStates(g) /\ DOMAIN pub = Publishers /\ p \in DOMAIN s.seen
      /\ file \in [Places -> Contents] /\ p \in Places
  BY PubPlace
<1>1. s.pc = "removeBackup" /\ t.backup = None /\ ~t.backedUp /\ file' = file /\ t.seen = s.seen /\ t.stage = s.stage
      /\ t.pc = (IF g \in Bundles THEN "published" ELSE "finish")
  BY <1>p, Apart DEF RemoveBackup, Turns, Goes, Closes, Put, Placing, PublisherStates, world
<1> HIDE DEF s, t
<1>2. PubTells(g)
  BY <1>1, PubPlace DEF PubTells, s, t
<1>3. PubMoves(g)
  BY <1>1, PubPlace, Apart DEF PubMoves, PubInv, PubHolds, PubLooked, Posted, s, t
<1>4. PubHolds(g)'
  BY <1>1, PubPlace, Apart, AloneTells, KindStays DEF PubInv, PubHolds, PubLooked, Posted, s, t, Alone
<1>5. PubLooked(g)'
  BY <1>1, PubPlace, Apart, AloneTells, KindStays DEF PubInv, PubHolds, PubLooked, s, t, Alone
<1>6. PubWrote(g)'
  BY <1>1, PubPlace, Apart, AloneTells, KindStays DEF PubInv, PubHolds, PubLooked, PubWrote, Posted, Placed, Excused, s, t, Alone
<1> QED
  BY <1>2, <1>3, <1>4, <1>5, <1>6 DEF PubInv

\* SyncAgain: the last sync.
LEMMA SyncAgainHolds ==
    ASSUME TypeOK, NEW g \in Publishers, PubInv(g), SyncAgain(g), Alone(g)
    PROVE  PubTells(g) /\ PubMoves(g) /\ PubInv(g)'
<1> DEFINE s == pub[g]  t == pub'[g]  p == Target(g)
<1>p. /\ s \in PublisherStates(g) /\ DOMAIN pub = Publishers /\ p \in DOMAIN s.seen
      /\ file \in [Places -> Contents] /\ p \in Places
  BY PubPlace
<1>1. s.pc = "finish" /\ t.pc = "published" /\ file' = file /\ t.seen = s.seen /\ t.stage = s.stage /\ t.backup = s.backup /\ t.backedUp = s.backedUp
  BY <1>p, Apart DEF SyncAgain, Turns, Goes, Closes, Put, Placing, PublisherStates, world
<1> HIDE DEF s, t
<1>2. PubTells(g)
  BY <1>1, PubPlace DEF PubTells, s, t
<1>3. PubMoves(g)
  BY <1>1, PubPlace, Apart DEF PubMoves, PubInv, PubHolds, PubLooked, Posted, s, t
<1>4. PubHolds(g)'
  BY <1>1, PubPlace, Apart, AloneTells, KindStays DEF PubInv, PubHolds, PubLooked, Posted, s, t, Alone
<1>5. PubLooked(g)'
  BY <1>1, PubPlace, Apart, AloneTells, KindStays DEF PubInv, PubHolds, PubLooked, s, t, Alone
<1>6. PubWrote(g)'
  BY <1>1, PubPlace, Apart, AloneTells, KindStays DEF PubInv, PubHolds, PubLooked, PubWrote, Posted, Placed, Excused, s, t, Alone
<1> QED
  BY <1>2, <1>3, <1>4, <1>5, <1>6 DEF PubInv

\* LookAgainFails: the second look fails.
LEMMA LookAgainFailsHolds ==
    ASSUME TypeOK, NEW g \in Publishers, PubInv(g), LookAgainFails(g), Alone(g)
    PROVE  PubTells(g) /\ PubMoves(g) /\ PubInv(g)'
<1> DEFINE s == pub[g]  t == pub'[g]  p == Target(g)
<1>p. /\ s \in PublisherStates(g) /\ DOMAIN pub = Publishers /\ p \in DOMAIN s.seen
      /\ file \in [Places -> Contents] /\ p \in Places
  BY PubPlace
<1>1. s.pc = "look" /\ t.pc = "failed" /\ file' = file /\ t.seen = s.seen /\ t.stage = s.stage /\ t.backup = s.backup /\ t.backedUp = s.backedUp
  BY <1>p, Apart DEF LookAgainFails, Turns, Goes, Closes, Put, Placing, PublisherStates, world
<1> HIDE DEF s, t
<1>2. PubTells(g)
  BY <1>1, PubPlace DEF PubTells, s, t
<1>3. PubMoves(g)
  BY <1>1, PubPlace, Apart DEF PubMoves, PubInv, PubHolds, PubLooked, Posted, s, t
<1>4. PubHolds(g)'
  BY <1>1, PubPlace, Apart, AloneTells, KindStays DEF PubInv, PubHolds, PubLooked, Posted, s, t, Alone
<1>5. PubLooked(g)'
  BY <1>1, PubPlace, Apart, AloneTells, KindStays DEF PubInv, PubHolds, PubLooked, s, t, Alone
<1>6. PubWrote(g)'
  BY <1>1, PubPlace, Apart, AloneTells, KindStays DEF PubInv, PubHolds, PubLooked, PubWrote, Posted, Placed, Excused, s, t, Alone
<1> QED
  BY <1>2, <1>3, <1>4, <1>5, <1>6 DEF PubInv

\* PublishFails: a failure before the publication.
LEMMA PublishFailsHolds ==
    ASSUME TypeOK, NEW g \in Publishers, PubInv(g), PublishFails(g), Alone(g)
    PROVE  PubTells(g) /\ PubMoves(g) /\ PubInv(g)'
<1> DEFINE s == pub[g]  t == pub'[g]  p == Target(g)
<1>p. /\ s \in PublisherStates(g) /\ DOMAIN pub = Publishers /\ p \in DOMAIN s.seen
      /\ file \in [Places -> Contents] /\ p \in Places
  BY PubPlace
<1>1. s.pc \in {"stage", "recheck", "link", "backup", "reserve", "rename"} /\ t.pc = "undo"
      /\ file' = file /\ t.seen = s.seen /\ t.backup = s.backup /\ t.backedUp = s.backedUp
  BY <1>p, Apart DEF PublishFails, Turns, Goes, Closes, Put, Placing, PublisherStates, world
<1> HIDE DEF s, t
<1>2. PubTells(g)
  BY <1>1, PubPlace DEF PubTells, s, t
<1>3. PubMoves(g)
  BY <1>1, PubPlace, Apart DEF PubMoves, PubInv, PubHolds, PubLooked, Posted, s, t
<1>4. PubHolds(g)'
  BY <1>1, PubPlace, Apart, AloneTells, KindStays DEF PubInv, PubHolds, PubLooked, Posted, s, t, Alone
<1>5. PubLooked(g)'
  BY <1>1, PubPlace, Apart, AloneTells, KindStays DEF PubInv, PubHolds, PubLooked, s, t, Alone
<1>6. PubWrote(g)'
  BY <1>1, PubPlace, Apart, AloneTells, KindStays DEF PubInv, PubHolds, PubLooked, PubWrote, Posted, Placed, Excused, s, t, Alone
<1> QED
  BY <1>2, <1>3, <1>4, <1>5, <1>6 DEF PubInv

\* FinishFails: a failure after it.
LEMMA FinishFailsHolds ==
    ASSUME TypeOK, NEW g \in Publishers, PubInv(g), FinishFails(g), Alone(g)
    PROVE  PubTells(g) /\ PubMoves(g) /\ PubInv(g)'
<1> DEFINE s == pub[g]  t == pub'[g]  p == Target(g)
<1>p. /\ s \in PublisherStates(g) /\ DOMAIN pub = Publishers /\ p \in DOMAIN s.seen
      /\ file \in [Places -> Contents] /\ p \in Places
  BY PubPlace
<1>1. s.pc \in {"sync", "drop", "removeBackup", "finish"} /\ file' = file /\ t.seen = s.seen /\ t.backedUp = s.backedUp
      /\ (t.backup = s.backup \/ (t.backup = "part" /\ s.pc = "removeBackup" /\ g \in Galleries))
      /\ \/ t.pc \in {"publishedWithError", "failedPublished", "dropAgain"} /\ (t.pc = "dropAgain" => g \notin Galleries)
         \/ t.pc = "unpublish" /\ g \in Shards
         \/ t.pc = "undo" /\ (g \in Forced \/ (g \in Brands /\ s.backedUp))
  BY <1>p, Apart DEF FinishFails, Turns, Goes, Closes, Put, Placing, PublisherStates, world
<1> HIDE DEF s, t
<1>2. PubTells(g)
  BY <1>1, PubPlace DEF PubTells, s, t
<1>3. PubMoves(g)
  BY <1>1, PubPlace, Apart DEF PubMoves, PubInv, PubHolds, PubLooked, Posted, s, t
<1>4. PubHolds(g)'
  BY <1>1, PubPlace, Apart, AloneTells, KindStays DEF PubInv, PubHolds, PubLooked, Posted, s, t, Alone
<1>5. PubLooked(g)'
  BY <1>1, PubPlace, Apart, AloneTells, KindStays DEF PubInv, PubHolds, PubLooked, s, t, Alone
<1>6. PubWrote(g)'
  BY <1>1, AloneTells DEF PubInv, PubHolds, PubWrote, Posted, Placed, s, t
<1> QED
  BY <1>2, <1>3, <1>4, <1>5, <1>6 DEF PubInv

\* UndoTarget: the old target comes back.
LEMMA UndoTargetHolds ==
    ASSUME TypeOK, NEW g \in Publishers, PubInv(g), UndoTarget(g), Alone(g)
    PROVE  PubTells(g) /\ PubMoves(g) /\ PubInv(g)'
<1> DEFINE s == pub[g]  t == pub'[g]  p == Target(g)
<1>p. /\ s \in PublisherStates(g) /\ DOMAIN pub = Publishers /\ p \in DOMAIN s.seen
      /\ file \in [Places -> Contents] /\ p \in Places
  BY PubPlace
<1>1. s.pc = "undo" /\ t.seen = s.seen /\ t.stage = s.stage
      /\ \/ /\ g \in Brands /\ s.backedUp /\ file' = file /\ t.backup = s.backup /\ t.backedUp = s.backedUp
            /\ t.pc = (IF file[p] = None THEN "bringBack" ELSE "rollbackFailed")
         \/ /\ s.backedUp /\ g \notin Brands /\ (g \in Galleries => file[p] = None)
            /\ file' = [file EXCEPT ![p] = s.backup] /\ t.backup = None /\ ~t.backedUp /\ t.pc = "unstage"
         \/ t.pc = "unstage" /\ file' = file /\ t.backup = s.backup /\ t.backedUp = s.backedUp
  <2>1. CASE g \in Brands /\ s.backedUp
    <3>1. Goes(g, "undo", IF file[p] = None THEN "bringBack" ELSE "rollbackFailed") /\ file' = file
      BY <1>p, <2>1, Apart DEF UndoTarget, PublisherStates
    <3> QED
      BY <3>1, <2>1, <1>p, Apart DEF Turns, Goes, Put, PublisherStates
  <2>2. CASE g \notin Brands /\ s.backedUp /\ (g \in Galleries => file[p] = None)
    <3>1. Put(p, s.backup) /\ s.pc = "undo"
          /\ Turns(g, [s EXCEPT !.backup = None, !.backedUp = FALSE, !.pc = "unstage"])
      BY <1>p, <2>2, Apart DEF UndoTarget, PublisherStates
    <3> QED
      BY <3>1, <2>2, <1>p, Apart DEF Turns, Goes, Put, PublisherStates
  <2>3. CASE ~s.backedUp \/ (g \in Galleries /\ file[p] # None)
    <3>1. Goes(g, "undo", "unstage") /\ file' = file
      BY <1>p, <2>3, Apart DEF UndoTarget, PublisherStates
    <3> QED
      BY <3>1, <2>3, <1>p, Apart DEF Turns, Goes, Put, PublisherStates
  <2> QED
    BY <2>1, <2>2, <2>3
<1> HIDE DEF s, t
<1>2. PubTells(g)
  BY <1>1, PubPlace DEF PubTells, s, t
<1>3. PubMoves(g)
  BY <1>1, PubPlace, Apart DEF PubMoves, PubInv, PubHolds, PubLooked, Posted, s, t
<1>4. PubHolds(g)'
  BY <1>1, PubPlace, Apart, AloneTells, KindStays DEF PubInv, PubHolds, PubLooked, Posted, s, t, Alone
<1>5. PubLooked(g)'
  BY <1>1, PubPlace, Apart, AloneTells, KindStays DEF PubInv, PubHolds, PubLooked, s, t, Alone
<1>6. PubWrote(g)'
  BY <1>1, PubPlace, Apart, AloneTells, KindStays DEF PubInv, PubHolds, PubLooked, PubWrote, Posted, Placed, Excused, s, t, Alone
<1> QED
  BY <1>2, <1>3, <1>4, <1>5, <1>6 DEF PubInv

\* BringBack: a brand bundle brings it back.
LEMMA BringBackHolds ==
    ASSUME TypeOK, NEW g \in Publishers, PubInv(g), BringBack(g), Alone(g)
    PROVE  PubTells(g) /\ PubMoves(g) /\ PubInv(g)'
<1> DEFINE s == pub[g]  t == pub'[g]  p == Target(g)
<1>p. /\ s \in PublisherStates(g) /\ DOMAIN pub = Publishers /\ p \in DOMAIN s.seen
      /\ file \in [Places -> Contents] /\ p \in Places
  BY PubPlace
<1>1. s.pc = "bringBack" /\ file' = [file EXCEPT ![p] = s.backup]
      /\ t.backup = None /\ ~t.backedUp /\ t.pc = "unstage" /\ t.seen = s.seen /\ t.stage = s.stage
  BY <1>p, Apart DEF BringBack, Turns, Goes, Closes, Put, Placing, PublisherStates, world
<1> HIDE DEF s, t
<1>2. PubTells(g)
  BY <1>1, PubPlace DEF PubTells, s, t
<1>3. PubMoves(g)
  BY <1>1, PubPlace, Apart DEF PubMoves, PubInv, PubHolds, PubLooked, Posted, s, t
<1>4. PubHolds(g)'
  BY <1>1, PubPlace, Apart, AloneTells, KindStays DEF PubInv, PubHolds, PubLooked, Posted, s, t, Alone
<1>5. PubLooked(g)'
  BY <1>1, PubPlace, Apart, AloneTells, KindStays DEF PubInv, PubHolds, PubLooked, s, t, Alone
<1>6. PubWrote(g)'
  BY <1>1, PubPlace, Apart, AloneTells, KindStays DEF PubInv, PubHolds, PubLooked, PubWrote, Posted, Placed, Excused, s, t, Alone
<1> QED
  BY <1>2, <1>3, <1>4, <1>5, <1>6 DEF PubInv

\* DropAgain: the stage is removed once more.
LEMMA DropAgainHolds ==
    ASSUME TypeOK, NEW g \in Publishers, PubInv(g), DropAgain(g), Alone(g)
    PROVE  PubTells(g) /\ PubMoves(g) /\ PubInv(g)'
<1> DEFINE s == pub[g]  t == pub'[g]  p == Target(g)
<1>p. /\ s \in PublisherStates(g) /\ DOMAIN pub = Publishers /\ p \in DOMAIN s.seen
      /\ file \in [Places -> Contents] /\ p \in Places
  BY PubPlace
<1>1. s.pc = "dropAgain" /\ t.pc = "failedPublished" /\ file' = file /\ t.seen = s.seen /\ t.backup = s.backup /\ t.backedUp = s.backedUp
  BY <1>p, Apart DEF DropAgain, Turns, Goes, Closes, Put, Placing, PublisherStates, world
<1> HIDE DEF s, t
<1>2. PubTells(g)
  BY <1>1, PubPlace DEF PubTells, s, t
<1>3. PubMoves(g)
  BY <1>1, PubPlace, Apart DEF PubMoves, PubInv, PubHolds, PubLooked, Posted, s, t
<1>4. PubHolds(g)'
  BY <1>1, PubPlace, Apart, AloneTells, KindStays DEF PubInv, PubHolds, PubLooked, Posted, s, t, Alone
<1>5. PubLooked(g)'
  BY <1>1, PubPlace, Apart, AloneTells, KindStays DEF PubInv, PubHolds, PubLooked, s, t, Alone
<1>6. PubWrote(g)'
  BY <1>1, PubPlace, Apart, AloneTells, KindStays DEF PubInv, PubHolds, PubLooked, PubWrote, Posted, Placed, Excused, s, t, Alone
<1> QED
  BY <1>2, <1>3, <1>4, <1>5, <1>6 DEF PubInv

\* Unpublish: a shard manifest removes what it published.
LEMMA UnpublishHolds ==
    ASSUME TypeOK, NEW g \in Publishers, PubInv(g), Unpublish(g), Alone(g)
    PROVE  PubTells(g) /\ PubMoves(g) /\ PubInv(g)'
<1> DEFINE s == pub[g]  t == pub'[g]  p == Target(g)
<1>p. /\ s \in PublisherStates(g) /\ DOMAIN pub = Publishers /\ p \in DOMAIN s.seen
      /\ file \in [Places -> Contents] /\ p \in Places
  BY PubPlace
<1>1. s.pc = "unpublish" /\ t.pc = "unstage" /\ file' = [file EXCEPT ![p] = None] /\ t.seen = s.seen /\ t.stage = s.stage /\ t.backup = s.backup /\ t.backedUp = s.backedUp
  BY <1>p, Apart DEF Unpublish, Turns, Goes, Closes, Put, Placing, PublisherStates, world
<1> HIDE DEF s, t
<1>2. PubTells(g)
  BY <1>1, PubPlace DEF PubTells, s, t
<1>3. PubMoves(g)
  BY <1>1, PubPlace, Apart DEF PubMoves, PubInv, PubHolds, PubLooked, Posted, s, t
<1>4. PubHolds(g)'
  BY <1>1, PubPlace, Apart, AloneTells, KindStays DEF PubInv, PubHolds, PubLooked, Posted, s, t, Alone
<1>5. PubLooked(g)'
  BY <1>1, PubPlace, Apart, AloneTells, KindStays DEF PubInv, PubHolds, PubLooked, s, t, Alone
<1>6. PubWrote(g)'
  BY <1>1, PubPlace, Apart, AloneTells, KindStays DEF PubInv, PubHolds, PubLooked, PubWrote, Posted, Placed, Excused, s, t, Alone
<1> QED
  BY <1>2, <1>3, <1>4, <1>5, <1>6 DEF PubInv

\* UnpublishFails: or cannot.
LEMMA UnpublishFailsHolds ==
    ASSUME TypeOK, NEW g \in Publishers, PubInv(g), UnpublishFails(g), Alone(g)
    PROVE  PubTells(g) /\ PubMoves(g) /\ PubInv(g)'
<1> DEFINE s == pub[g]  t == pub'[g]  p == Target(g)
<1>p. /\ s \in PublisherStates(g) /\ DOMAIN pub = Publishers /\ p \in DOMAIN s.seen
      /\ file \in [Places -> Contents] /\ p \in Places
  BY PubPlace
<1>1. s.pc = "unpublish" /\ t.pc = "failedPublished" /\ file' = file /\ t.seen = s.seen /\ t.backup = s.backup /\ t.backedUp = s.backedUp
  BY <1>p, Apart DEF UnpublishFails, Turns, Goes, Closes, Put, Placing, PublisherStates, world
<1> HIDE DEF s, t
<1>2. PubTells(g)
  BY <1>1, PubPlace DEF PubTells, s, t
<1>3. PubMoves(g)
  BY <1>1, PubPlace, Apart DEF PubMoves, PubInv, PubHolds, PubLooked, Posted, s, t
<1>4. PubHolds(g)'
  BY <1>1, PubPlace, Apart, AloneTells, KindStays DEF PubInv, PubHolds, PubLooked, Posted, s, t, Alone
<1>5. PubLooked(g)'
  BY <1>1, PubPlace, Apart, AloneTells, KindStays DEF PubInv, PubHolds, PubLooked, s, t, Alone
<1>6. PubWrote(g)'
  BY <1>1, PubPlace, Apart, AloneTells, KindStays DEF PubInv, PubHolds, PubLooked, PubWrote, Posted, Placed, Excused, s, t, Alone
<1> QED
  BY <1>2, <1>3, <1>4, <1>5, <1>6 DEF PubInv

\* UndoTargetFails: the old target does not come back.
LEMMA UndoTargetFailsHolds ==
    ASSUME TypeOK, NEW g \in Publishers, PubInv(g), UndoTargetFails(g), Alone(g)
    PROVE  PubTells(g) /\ PubMoves(g) /\ PubInv(g)'
<1> DEFINE s == pub[g]  t == pub'[g]  p == Target(g)
<1>p. /\ s \in PublisherStates(g) /\ DOMAIN pub = Publishers /\ p \in DOMAIN s.seen
      /\ file \in [Places -> Contents] /\ p \in Places
  BY PubPlace
<1>1. file' = file /\ t.seen = s.seen /\ t.stage = s.stage /\ t.backup = s.backup /\ t.backedUp = s.backedUp
      /\ \/ s.pc = "bringBack" /\ t.pc = "rollbackFailed" /\ g \in Brands
         \/ s.pc = "undo" /\ t.pc = "unstage" /\ g \notin Brands /\ s.backedUp
  BY <1>p, Apart DEF UndoTargetFails, Turns, Goes, Closes, Put, Placing, PublisherStates, world
<1> HIDE DEF s, t
<1>2. PubTells(g)
  BY <1>1, PubPlace DEF PubTells, s, t
<1>3. PubMoves(g)
  BY <1>1, PubPlace, Apart DEF PubMoves, PubInv, PubHolds, PubLooked, Posted, s, t
<1>4. PubHolds(g)'
  BY <1>1, PubPlace, Apart, AloneTells, KindStays DEF PubInv, PubHolds, PubLooked, Posted, s, t, Alone
<1>5. PubLooked(g)'
  BY <1>1, PubPlace, Apart, AloneTells, KindStays DEF PubInv, PubHolds, PubLooked, s, t, Alone
<1>6. PubWrote(g)'
  BY <1>1, PubPlace, Apart, AloneTells, KindStays DEF PubInv, PubHolds, PubLooked, PubWrote, Posted, Placed, Excused, s, t, Alone
<1> QED
  BY <1>2, <1>3, <1>4, <1>5, <1>6 DEF PubInv

\* DiscardStage: the stage goes.
LEMMA DiscardStageHolds ==
    ASSUME TypeOK, NEW g \in Publishers, PubInv(g), DiscardStage(g), Alone(g)
    PROVE  PubTells(g) /\ PubMoves(g) /\ PubInv(g)'
<1> DEFINE s == pub[g]  t == pub'[g]  p == Target(g)
<1>p. /\ s \in PublisherStates(g) /\ DOMAIN pub = Publishers /\ p \in DOMAIN s.seen
      /\ file \in [Places -> Contents] /\ p \in Places
  BY PubPlace
<1>1. s.pc = "unstage" /\ file' = file /\ t.seen = s.seen /\ t.backup = s.backup /\ t.backedUp = s.backedUp
      /\ t.pc = (IF s.backedUp THEN "rollbackFailed" ELSE "failed")
  BY <1>p, Apart DEF DiscardStage, Turns, Goes, Closes, Put, Placing, PublisherStates, world
<1> HIDE DEF s, t
<1>2. PubTells(g)
  BY <1>1, PubPlace DEF PubTells, s, t
<1>3. PubMoves(g)
  BY <1>1, PubPlace, Apart DEF PubMoves, PubInv, PubHolds, PubLooked, Posted, s, t
<1>4. PubHolds(g)'
  BY <1>1, PubPlace, Apart, AloneTells, KindStays DEF PubInv, PubHolds, PubLooked, Posted, s, t, Alone
<1>5. PubLooked(g)'
  BY <1>1, PubPlace, Apart, AloneTells, KindStays DEF PubInv, PubHolds, PubLooked, s, t, Alone
<1>6. PubWrote(g)'
  BY <1>1, PubPlace, Apart, AloneTells, KindStays DEF PubInv, PubHolds, PubLooked, PubWrote, Posted, Placed, Excused, s, t, Alone
<1> QED
  BY <1>2, <1>3, <1>4, <1>5, <1>6 DEF PubInv

\* DiscardStageFails: or stays.
LEMMA DiscardStageFailsHolds ==
    ASSUME TypeOK, NEW g \in Publishers, PubInv(g), DiscardStageFails(g), Alone(g)
    PROVE  PubTells(g) /\ PubMoves(g) /\ PubInv(g)'
<1> DEFINE s == pub[g]  t == pub'[g]  p == Target(g)
<1>p. /\ s \in PublisherStates(g) /\ DOMAIN pub = Publishers /\ p \in DOMAIN s.seen
      /\ file \in [Places -> Contents] /\ p \in Places
  BY PubPlace
<1>1. s.pc = "unstage" /\ file' = file /\ t.seen = s.seen /\ t.backup = s.backup /\ t.backedUp = s.backedUp
      /\ t.pc = (IF s.backedUp THEN "rollbackFailed" ELSE "failed")
  BY <1>p, Apart DEF DiscardStageFails, Turns, Goes, Closes, Put, Placing, PublisherStates, world
<1> HIDE DEF s, t
<1>2. PubTells(g)
  BY <1>1, PubPlace DEF PubTells, s, t
<1>3. PubMoves(g)
  BY <1>1, PubPlace, Apart DEF PubMoves, PubInv, PubHolds, PubLooked, Posted, s, t
<1>4. PubHolds(g)'
  BY <1>1, PubPlace, Apart, AloneTells, KindStays DEF PubInv, PubHolds, PubLooked, Posted, s, t, Alone
<1>5. PubLooked(g)'
  BY <1>1, PubPlace, Apart, AloneTells, KindStays DEF PubInv, PubHolds, PubLooked, s, t, Alone
<1>6. PubWrote(g)'
  BY <1>1, PubPlace, Apart, AloneTells, KindStays DEF PubInv, PubHolds, PubLooked, PubWrote, Posted, Placed, Excused, s, t, Alone
<1> QED
  BY <1>2, <1>3, <1>4, <1>5, <1>6 DEF PubInv

\* The types of a publisher, and what its step leaves alone.
LEMMA PubStepTyped ==
    ASSUME TypeOK, NEW g \in Publishers, PubInv(g), PubSteps(g)
    PROVE  /\ pub' = [pub EXCEPT ![g] = pub'[g]] /\ pub'[g] \in PublisherStates(g)
           /\ kind' = kind /\ touched' = touched /\ mishaps' \in 0..MaxMishaps
           /\ lock' \in {lock, None} \/ (lock = None /\ lock' = g /\ g \in Previews)
           /\ lock' # lock => lock \in {None, g}
<1> DEFINE s == pub[g]  t == pub'[g]  p == Target(g)
<1> DEFINE Frame == /\ kind' = kind /\ touched' = touched /\ mishaps' \in 0..MaxMishaps
                    /\ lock' \in {lock, None} \/ (lock = None /\ lock' = g /\ g \in Previews)
                    /\ lock' # lock => lock \in {None, g}
<1> DEFINE Typed == pub' = [pub EXCEPT ![g] = t] /\ t \in PublisherStates(g)
<1>p. /\ s \in PublisherStates(g) /\ DOMAIN pub = Publishers /\ p \in DOMAIN s.seen /\ file[p] \in Contents
      /\ mishaps \in 0..MaxMishaps /\ MaxMishaps \in Nat /\ None \in Contents
      /\ file \in [Places -> Contents]
  BY PubPlace DEF TypeOK, FilesTypeOK
<1>q. DOMAIN s.seen \subseteq Places
  <2>1. DOMAIN s.seen = {p} \cup Sources(g)
    BY <1>p DEF PublisherStates
  <2>2. Sources(g) \subseteq Places /\ p \in Places
    BY PubPlace DEF Sources, Canonical, Places
  <2> QED
    BY <2>1, <2>2
<1>1. CASE PlanTarget(g)
  <2>1. Frame
    BY <1>p, <1>1 DEF PlanTarget, Goes, Closes, Releases, world, Fault, Mishap
  <2>2. Typed
    BY <1>p, <1>q, <1>1 DEF PlanTarget, Turns, Goes, Closes, PublisherStates, PubEnded
  <2> QED
    BY <2>1, <2>2
<1>2. CASE LockPreview(g)
  <2>1. Frame
    BY <1>p, <1>2 DEF LockPreview, Goes, Closes, Releases, world, Fault, Mishap, PubInv, PubHolds
  <2>2. Typed
    BY <1>p, <1>q, <1>2 DEF LockPreview, Turns, Goes, Closes, PublisherStates, PubEnded
  <2> QED
    BY <2>1, <2>2
<1>3. CASE LookAgain(g)
  <2>1. Frame
    BY <1>p, <1>3 DEF LookAgain, Goes, Closes, Releases, world, Fault, Mishap
  <2>2. Typed
    BY <1>p, <1>q, <1>3 DEF LookAgain, Turns, Goes, Closes, PublisherStates, PubEnded
  <2> QED
    BY <2>1, <2>2
<1>4. CASE StageTarget(g)
  <2>1. Frame
    BY <1>p, <1>4 DEF StageTarget, Goes, Closes, Releases, world, Fault, Mishap
  <2>2. Typed
    BY <1>p, <1>q, <1>4 DEF StageTarget, Turns, Goes, Closes, PublisherStates, PubEnded
  <2> QED
    BY <2>1, <2>2
<1>5. CASE Recheck(g)
  <2>1. Frame
    BY <1>p, <1>5 DEF Recheck, Goes, Closes, Releases, world, Fault, Mishap
  <2>2. Typed
    BY <1>p, <1>q, <1>5 DEF Recheck, Turns, Goes, Closes, PublisherStates, PubEnded, Placing
  <2> QED
    BY <2>1, <2>2
<1>6. CASE LinkTarget(g)
  <2>1. Frame
    BY <1>p, <1>6 DEF LinkTarget, Goes, Closes, Releases, world, Fault, Mishap
  <2>2. Typed
    BY <1>p, <1>q, <1>6 DEF LinkTarget, Turns, Goes, Closes, PublisherStates, PubEnded
  <2> QED
    BY <2>1, <2>2
<1>7. CASE BackUpTarget(g)
  <2>1. Frame
    BY <1>p, <1>7 DEF BackUpTarget, Goes, Closes, Releases, world, Fault, Mishap
  <2>2. PICK pc \in {"reserve", "rename", "link"} :
          Turns(g, [s EXCEPT !.backup = file[p], !.backedUp = TRUE, !.pc = pc])
    BY <1>7 DEF BackUpTarget, Placing
  <2>3. Typed
    BY <1>p, <2>2 DEF Turns, PublisherStates, PubEnded
  <2> QED
    BY <2>1, <2>3
<1>8. CASE ReserveTarget(g)
  <2>1. Frame
    BY <1>p, <1>8 DEF ReserveTarget, Goes, Closes, Releases, world, Fault, Mishap
  <2>2. Typed
    BY <1>p, <1>q, <1>8 DEF ReserveTarget, Turns, Goes, Closes, PublisherStates, PubEnded
  <2> QED
    BY <2>1, <2>2
<1>9. CASE RenameTarget(g)
  <2>1. Frame
    BY <1>p, <1>9 DEF RenameTarget, Goes, Closes, Releases, world, Fault, Mishap
  <2>2. Typed
    BY <1>p, <1>q, <1>9 DEF RenameTarget, Turns, Goes, Closes, PublisherStates, PubEnded
  <2> QED
    BY <2>1, <2>2
<1>10. CASE TargetChanged(g)
  <2>1. Frame
    BY <1>p, <1>10 DEF TargetChanged, Goes, Closes, Releases, world, Fault, Mishap
  <2>2. Typed
    BY <1>p, <1>q, <1>10 DEF TargetChanged, Turns, Goes, Closes, PublisherStates, PubEnded
  <2> QED
    BY <2>1, <2>2
<1>11. CASE SyncTarget(g)
  <2>1. Frame
    BY <1>p, <1>11 DEF SyncTarget, Goes, Closes, Releases, world, Fault, Mishap
  <2>2. Typed
    BY <1>p, <1>q, <1>11 DEF SyncTarget, Turns, Goes, Closes, PublisherStates, PubEnded
  <2> QED
    BY <2>1, <2>2
<1>12. CASE DropStage(g)
  <2>1. Frame
    BY <1>p, <1>12 DEF DropStage, Goes, Closes, Releases, world, Fault, Mishap
  <2>2. Typed
    BY <1>p, <1>q, <1>12 DEF DropStage, Turns, Goes, Closes, PublisherStates, PubEnded
  <2> QED
    BY <2>1, <2>2
<1>13. CASE RemoveBackup(g)
  <2>1. Frame
    BY <1>p, <1>13 DEF RemoveBackup, Goes, Closes, Releases, world, Fault, Mishap
  <2>2. Typed
    BY <1>p, <1>q, <1>13 DEF RemoveBackup, Turns, Goes, Closes, PublisherStates, PubEnded
  <2> QED
    BY <2>1, <2>2
<1>14. CASE SyncAgain(g)
  <2>1. Frame
    BY <1>p, <1>14 DEF SyncAgain, Goes, Closes, Releases, world, Fault, Mishap
  <2>2. Typed
    BY <1>p, <1>q, <1>14 DEF SyncAgain, Turns, Goes, Closes, PublisherStates, PubEnded
  <2> QED
    BY <2>1, <2>2
<1>15. CASE LookAgainFails(g)
  <2>1. Frame
    BY <1>p, <1>15 DEF LookAgainFails, Goes, Closes, Releases, world, Fault, Mishap
  <2>2. Typed
    BY <1>p, <1>q, <1>15 DEF LookAgainFails, Turns, Goes, Closes, PublisherStates, PubEnded
  <2> QED
    BY <2>1, <2>2
<1>16. CASE PublishFails(g)
  <2>1. Frame
    BY <1>p, <1>16 DEF PublishFails, Goes, Closes, Releases, world, Fault, Mishap
  <2>2. PICK left \in {None, "part", s.stage} :
          Turns(g, [s EXCEPT !.stage = left, !.pc = "undo"])
    BY <1>16 DEF PublishFails
  <2>3. Typed
    BY <1>p, <2>2 DEF Turns, PublisherStates, PubEnded
  <2> QED
    BY <2>1, <2>3
<1>17. CASE FinishFails(g)
  <2>1. Frame
    BY <1>p, <1>17 DEF FinishFails, Goes, Closes, Releases, world, Fault, Mishap
  <2>2. PICK stage \in {None, s.stage}, backup \in {"part", s.backup},
                pc \in {"publishedWithError", "failedPublished", "unpublish", "undo", "dropAgain"} :
          Turns(g, [s EXCEPT !.stage = stage, !.backup = backup, !.pc = pc])
    BY <1>17 DEF FinishFails
  <2>3. pub' = [pub EXCEPT ![g] = [s EXCEPT !.stage = stage, !.backup = backup, !.pc = pc]]
    BY <2>2 DEF Turns
  <2>4. t = [s EXCEPT !.stage = stage, !.backup = backup, !.pc = pc]
    BY <1>p, <2>3
  <2>5. t \in PublisherStates(g)
    <3>1. pc \in {"unpublish", "undo", "dropAgain"} \cup PubEnded
      BY <2>2 DEF PubEnded
    <3>2. stage \in {None, "part", "whole", "linked"} /\ backup \in Contents \cup {"part"}
      BY <1>p, <2>2 DEF PublisherStates
    <3> QED
      BY <1>p, <2>4, <3>1, <3>2 DEF PublisherStates
  <2>6. Typed
    BY <2>3, <2>4, <2>5
  <2> QED
    BY <2>1, <2>6
<1>18. CASE UndoTarget(g)
  <2>1. Frame
    BY <1>p, <1>18 DEF UndoTarget, Goes, Closes, Releases, world, Fault, Mishap
  <2>2. \/ \E pc \in {"bringBack", "rollbackFailed", "unstage"} : Goes(g, "undo", pc)
        \/ Turns(g, [s EXCEPT !.backup = None, !.backedUp = FALSE, !.pc = "unstage"])
    BY <1>18 DEF UndoTarget
  <2>3. CASE \E pc \in {"bringBack", "rollbackFailed", "unstage"} : Goes(g, "undo", pc)
    BY <1>p, <2>1, <2>3 DEF Turns, Goes, PublisherStates, PubEnded
  <2>4. CASE Turns(g, [s EXCEPT !.backup = None, !.backedUp = FALSE, !.pc = "unstage"])
    BY <1>p, <2>1, <2>4 DEF Turns, PublisherStates
  <2> QED
    BY <2>1, <2>2, <2>3, <2>4
<1>19. CASE BringBack(g)
  <2>1. Frame
    BY <1>p, <1>19 DEF BringBack, Goes, Closes, Releases, world, Fault, Mishap
  <2>2. Typed
    BY <1>p, <1>q, <1>19 DEF BringBack, Turns, Goes, Closes, PublisherStates, PubEnded
  <2> QED
    BY <2>1, <2>2
<1>20. CASE DropAgain(g)
  <2>1. Frame
    BY <1>p, <1>20 DEF DropAgain, Goes, Closes, Releases, world, Fault, Mishap
  <2>2. PICK left \in {None, s.stage} :
          Turns(g, [s EXCEPT !.stage = left, !.pc = "failedPublished"])
    BY <1>20 DEF DropAgain
  <2>3. Typed
    BY <1>p, <2>2 DEF Turns, PublisherStates, PubEnded
  <2> QED
    BY <2>1, <2>3
<1>21. CASE Unpublish(g)
  <2>1. Frame
    BY <1>p, <1>21 DEF Unpublish, Goes, Closes, Releases, world, Fault, Mishap
  <2>2. Typed
    BY <1>p, <1>q, <1>21 DEF Unpublish, Turns, Goes, Closes, PublisherStates, PubEnded
  <2> QED
    BY <2>1, <2>2
<1>22. CASE UnpublishFails(g)
  <2>1. Frame
    BY <1>p, <1>22 DEF UnpublishFails, Goes, Closes, Releases, world, Fault, Mishap
  <2>2. PICK left \in {None, s.stage} :
          Turns(g, [s EXCEPT !.stage = left, !.pc = "failedPublished"])
    BY <1>22 DEF UnpublishFails
  <2>3. Typed
    BY <1>p, <2>2 DEF Turns, PublisherStates, PubEnded
  <2> QED
    BY <2>1, <2>3
<1>23. CASE UndoTargetFails(g)
  <2>1. Frame
    BY <1>p, <1>23 DEF UndoTargetFails, Goes, Closes, Releases, world, Fault, Mishap
  <2>2. Typed
    BY <1>p, <1>q, <1>23 DEF UndoTargetFails, Turns, Goes, Closes, PublisherStates, PubEnded
  <2> QED
    BY <2>1, <2>2
<1>24. CASE DiscardStage(g)
  <2>1. Frame
    BY <1>p, <1>24 DEF DiscardStage, Goes, Closes, Releases, world, Fault, Mishap
  <2>2. Typed
    BY <1>p, <1>q, <1>24 DEF DiscardStage, Turns, Goes, Closes, PublisherStates, PubEnded
  <2> QED
    BY <2>1, <2>2
<1>25. CASE DiscardStageFails(g)
  <2>1. Frame
    BY <1>p, <1>25 DEF DiscardStageFails, Goes, Closes, Releases, world, Fault, Mishap
  <2>2. Typed
    BY <1>p, <1>q, <1>25 DEF DiscardStageFails, Turns, Goes, Closes, PublisherStates, PubEnded
  <2> QED
    BY <2>1, <2>2
<1> QED
  BY <1>1, <1>2, <1>3, <1>4, <1>5, <1>6, <1>7, <1>8, <1>9, <1>10, <1>11, <1>12, <1>13, <1>14, <1>15, <1>16, <1>17, <1>18, <1>19, <1>20, <1>21, <1>22, <1>23, <1>24, <1>25 DEF PubSteps

\* Each step of a publisher keeps what is known of it.
LEMMA PubStepHolds ==
    ASSUME TypeOK, NEW g \in Publishers, PubInv(g), PubSteps(g), Alone(g)
    PROVE  PubTells(g) /\ PubMoves(g) /\ PubInv(g)'
BY PlanTargetHolds, LockPreviewHolds, LookAgainHolds, StageTargetHolds, RecheckHolds,
   LinkTargetHolds, BackUpTargetHolds, ReserveTargetHolds, RenameTargetHolds, TargetChangedHolds,
   SyncTargetHolds, DropStageHolds, RemoveBackupHolds, SyncAgainHolds, LookAgainFailsHolds,
   PublishFailsHolds, FinishFailsHolds, UndoTargetHolds, BringBackHolds, DropAgainHolds,
   UnpublishHolds, UnpublishFailsHolds, UndoTargetFailsHolds, DiscardStageHolds, DiscardStageFailsHolds
   DEF PubSteps

-----------------------------------------------------------------------------
(* A publisher while another publisher runs, or while somebody edits.       *)

\* A file that changes behind a publisher's last look at it is late.
Noted(f) ==
    Target(f) \in PubWindow(f) /\ file'[Target(f)] # file[Target(f)] => Target(f) \in late'

\* What was last looked at stays so, or is late.
LEMMA LookedStays ==
    ASSUME NEW f \in Publishers, PubLooked(f), kind' = kind, pub'[f] = pub[f], late \subseteq late', Noted(f)
    PROVE  PubLooked(f)'
<1> DEFINE s == pub[f]  p == Target(f)
<1>1. Target(f)' = p /\ Forced' = Forced /\ Shards' = Shards
  BY KindStays
<1>2. CASE file'[p] = file[p]
  BY <1>1, <1>2 DEF PubLooked
<1>3. CASE p \in late'
  BY <1>1, <1>3 DEF PubLooked
<1>4. CASE PubWindow(f) = {}
  BY <1>1, <1>4 DEF PubLooked, PubWindow
<1> QED
  BY <1>2, <1>3, <1>4 DEF Noted, PubWindow

LEMMA HoldsStays ==
    ASSUME NEW f \in Publishers, PubHolds(f), kind' = kind, pub'[f] = pub[f], late \subseteq late'
    PROVE  PubHolds(f)'
BY KindStays DEF PubHolds

\* Another publisher's step: what f published goes only to one who saw it.
LEMMA PubOther ==
    ASSUME TypeOK, NEW f \in Publishers, NEW g \in Publishers, f # g,
           PubInv(f), PubInv(g), Alone(g), PubTells(g), PubMoves(g), Noted(f)
    PROVE  PubInv(f)'
<1> DEFINE s == pub[f]  p == Target(f)
<1>1. /\ pub'[f] = s /\ \A h \in Publishers \ {g} : pub'[h] = pub[h]
      /\ kind' = kind /\ late \subseteq late' /\ touched' = touched
  BY DEF Alone
<1>2. /\ Target(f)' = p /\ Publishers' = Publishers /\ \A h : Target(h)' = Target(h)
  BY <1>1, KindStays
<1>3. PubHolds(f)' /\ PubLooked(f)'
  BY <1>1, LookedStays, HoldsStays DEF PubInv
<1>4. \A q : Excused(q) => Excused(q)'
  BY <1>1 DEF Excused
<1>5. Met(f) => Met(f)'
  BY <1>1, <1>2 DEF Met, PubTells
<1>6. pub[g].pc = "new" => pub[g].seen[Target(g)] = None
  BY DEF PubInv, PubHolds
<1>7. Saw(f) => Saw(f)'
  BY <1>1, <1>2, <1>6, PubPlace, Written, TargetIs DEF Saw, PubTells
<1>8. CASE Target(g) # p
  <2>1. file'[p] = file[p]
    BY <1>8, PubPlace DEF PubMoves
  <2>2. \A h \in Publishers : Target(h) = p => pub'[h].backup = pub[h].backup
    BY <1>1, <1>8
  <2>3. Stands(f) => Stands(f)'
    BY <1>2, <1>4, <1>7, <2>1 DEF Stands, Saw
  <2>4. PubWrote(f)'
    BY <1>1, <1>2, <1>4, <1>5, <1>7, <2>1, <2>2, <2>3 DEF PubInv, PubWrote
  <2> QED
    BY <1>3, <2>4 DEF PubInv
<1>9. CASE Target(g) = p
  <2>1. /\ pub'[g].pc # "new" /\ Met(f)'
    BY <1>1, <1>2, <1>9 DEF PubTells, Met
  <2>2. pub[g].seen[p] = f => Saw(f)
    BY <1>9 DEF Saw
  <2>3. pub[g].backup \in {None, "part", pub[g].seen[p]} \/ Excused(p)
    BY <1>9 DEF PubInv, PubHolds, Excused
  <2>4. f # None /\ f # "part" /\ p \in Places /\ file \in [Places -> Contents]
    BY PubPlace
  <2>5. file'[p] # file[p] => \/ /\ file[p] \in {None, g, pub[g].seen[p]} \/ Excused(p)
                                 /\ file'[p] \in {None, g, pub[g].backup}
    BY <1>9, <2>4 DEF PubMoves, Excused
  <2>6. Stands(f) => Stands(f)'
    BY <1>1, <1>2, <1>4, <1>7, <2>2, <2>4, <2>5 DEF Stands, Saw
  <2>7. s.pc = "new" => /\ file'[p] # f
                        /\ \A h \in Publishers : Target(h) = p => pub'[h].backup # f
    <3> SUFFICES ASSUME s.pc = "new"
                 PROVE  file'[p] # f /\ \A h \in Publishers : Target(h) = p => pub'[h].backup # f
      OBVIOUS
    <3>1. file[p] # f /\ \A h \in Publishers : Target(h) = p => pub[h].backup # f
      BY DEF PubInv, PubWrote
    <3> QED
      BY <1>1, <1>9, <2>4, <2>5, <3>1 DEF PubTells
  <2>8. file'[p] = f => file[p] = f \/ Excused(p)' \/ Saw(f)'
    BY <1>2, <1>4, <1>7, <2>2, <2>3, <2>4, <2>5
  <2>9. PubWrote(f)'
    BY <1>1, <1>2, <1>4, <1>7, <2>1, <2>6, <2>7, <2>8 DEF PubInv, PubWrote
  <2> QED
    BY <1>3, <2>9 DEF PubInv
<1> QED
  BY <1>8, <1>9

\* An edit, or a step of somebody who is not at the target.
LEMMA PubStill ==
    ASSUME TypeOK, NEW f \in Publishers, PubInv(f), kind' = kind, pub' = pub, late \subseteq late',
           \A p \in Places : touched[p] # "no" => touched'[p] # "no",
           \/ file'[Target(f)] = file[Target(f)]
           \/ file'[Target(f)] \in {"foreign", None} /\ touched'[Target(f)] # "no",
           Noted(f)
    PROVE  PubInv(f)'
<1> DEFINE p == Target(f)
<1>1. /\ Target(f)' = p /\ Publishers' = Publishers /\ \A h : Target(h)' = Target(h)
  BY KindStays
<1>2. PubHolds(f)' /\ PubLooked(f)'
  BY LookedStays, HoldsStays DEF PubInv
<1>3. (Met(f)' <=> Met(f)) /\ (Saw(f)' <=> Saw(f)) /\ (Excused(p) => Excused(p)')
  BY <1>1, TargetIs DEF Met, Saw, Excused
<1>4. file'[p] = file[p] \/ (file'[p] # f /\ Excused(p)')
  BY <1>1, PubPlace DEF Excused
<1>5. Stands(f) => Stands(f)'
  BY <1>1, <1>3, <1>4 DEF Stands, Saw
<1>6. PubWrote(f)'
  BY <1>1, <1>3, <1>4, <1>5 DEF PubInv, PubWrote
<1> QED
  BY <1>2, <1>6 DEF PubInv

-----------------------------------------------------------------------------
(* The step of a call.                                                      *)

\* The items of a call are its places in order, none of them twice.
LEMMA Ordered ==
    ASSUME NEW x \in Calls
    PROVE  /\ Last(x) \in {2, 3} /\ Record(x) \in Items(x) /\ Items(x) \subseteq Places
           /\ \A k \in 1..Last(x) : Item(x, k) \in Items(x)
           /\ \A j \in 1..Last(x), k \in 1..Last(x) : Item(x, j) = Item(x, k) => j = k
           /\ \A p \in Items(x) : \E k \in 1..Last(x) : Item(x, k) = p
           /\ x \in Programs /\ x \notin Publishers
           /\ x \in Consumers <=> x \notin Rasters
<1>1. CASE x \in Consumers
  BY <1>1 DEF Last, Item, Order, Items, Record, Places, Publishers, Calls, Consumers, Rasters, Are
<1>2. CASE x \notin Consumers
  BY <1>2 DEF Last, Item, Order, Items, Record, Places, Publishers, Calls, Consumers, Rasters, Are
<1> QED
  BY <1>1, <1>2

\* Two calls have all items in common, or none.
LEMMA Families ==
    ASSUME NEW x \in Calls, NEW y \in Calls
    PROVE  /\ Items(x) = Items(y) => Record(x) = Record(y) /\ (x \in Rasters <=> y \in Rasters)
           /\ Items(x) # Items(y) => Items(x) \cap Items(y) = {}
<1>1. \A z : z \in Consumers => Items(z) = {"guide", "theme", "brandLock"} /\ Record(z) = "brandLock"
  BY DEF Items, Order, Record
<1>2. \A z : z \notin Consumers => Items(z) = {"image", "receipt"} /\ Record(z) = "receipt"
  BY DEF Items, Order, Record
<1> QED
  BY <1>1, <1>2, Ordered

\* What lies around a call that runs.
Steady == kind' = kind /\ touched' = touched /\ late \subseteq late'

LEMMA ItemsStay ==
    ASSUME kind' = kind
    PROVE  \A x : Last(x)' = Last(x) /\ \A k : Item(x, k)' = Item(x, k)
BY KindStays DEF Last, Item

LEMMA CallPlace ==
    ASSUME TypeOK, NEW x \in Calls
    PROVE  /\ tx[x] \in CallStates(x) /\ DOMAIN tx = Calls
           /\ file \in [Places -> Contents] /\ mishaps \in 0..MaxMishaps /\ MaxMishaps \in Nat
           /\ x \in Contents /\ None \in Contents /\ x \notin {None, "foreign"}
           /\ None \notin {"part", "foreign", "whole", "linked", "unopened"}
           /\ \A q \in Items(x) : file[q] \in Contents
BY Ordered, Written, OutputFilesAssumption DEF TypeOK, FilesTypeOK, TxTypeOK, Contents

\* PlanCall: the plan takes what lies there as one writer's.
PlanCallEffect(x) ==
    LET s == tx[x]  t == tx'[x]  p == Item(x, tx[x].at) IN
      /\ s.pc = "new" /\ t.pc \in {"planned", "locking"} /\ file' = file /\ lock' = lock
      /\ \A q \in Items(x) : t.seen[q] = file[q] /\ file[q] = file[Record(x)] /\ file[q] # "foreign"
      /\ t.at = s.at /\ t.staged = s.staged /\ t.stage = s.stage /\ t.backup = s.backup
      /\ t.promoted = s.promoted /\ t.backedUp = s.backedUp /\ t.forgotten = s.forgotten /\ t.journal = s.journal
      /\ t.recovery = s.recovery

\* That is what PlanCall does.
LEMMA PlanCallDoes ==
    ASSUME TypeOK, NEW x \in Calls, Position(x), PlanCall(x)
    PROVE  PlanCallEffect(x)
<1> DEFINE s == tx[x]  p == Item(x, tx[x].at)
<1>1. /\ s \in CallStates(x) /\ DOMAIN tx = Calls /\ Last(x) \in {2, 3} /\ p = Here(x)
      /\ (x \in Consumers <=> x \notin Rasters) /\ None # "whole"
  BY CallPlace, Ordered DEF Item, Here
<1>2. s.at \in 1..Last(x) => p \in Items(x)
  BY Ordered
<1> QED
  BY <1>1, <1>2 DEF PlanCall, PlanCallEffect, Becomes, CallStates, Position, world, Last

\* LookEarly: the export looks before the lock.
LookEarlyEffect(x) ==
    LET s == tx[x]  t == tx'[x]  p == Item(x, tx[x].at) IN
      /\ s.pc = "planned" /\ t.pc \in {"locking", "unchanged", "refused"} /\ file' = file /\ lock' = lock
      /\ t.at = s.at /\ t.staged = s.staged /\ t.seen = s.seen /\ t.stage = s.stage
      /\ t.backup = s.backup /\ t.promoted = s.promoted /\ t.backedUp = s.backedUp /\ t.forgotten = s.forgotten
      /\ t.journal = s.journal /\ t.recovery = s.recovery

\* That is what LookEarly does.
LEMMA LookEarlyDoes ==
    ASSUME TypeOK, NEW x \in Calls, Position(x), LookEarly(x)
    PROVE  LookEarlyEffect(x)
<1> DEFINE s == tx[x]  p == Item(x, tx[x].at)
<1>1. /\ s \in CallStates(x) /\ DOMAIN tx = Calls /\ Last(x) \in {2, 3} /\ p = Here(x)
      /\ (x \in Consumers <=> x \notin Rasters) /\ None # "whole"
  BY CallPlace, Ordered DEF Item, Here
<1>2. s.at \in 1..Last(x) => p \in Items(x)
  BY Ordered
<1> QED
  BY <1>1, <1>2 DEF LookEarly, LookEarlyEffect, Becomes, CallStates, Position, world, Last, Moves

\* LockProject: the lock is taken, or somebody has it.
LockProjectEffect(x) ==
    LET s == tx[x]  t == tx'[x]  p == Item(x, tx[x].at) IN
      /\ s.pc = "locking" /\ file' = file
      /\ (t.pc = "residue" /\ lock = None /\ lock' = x) \/ (t.pc = "refused" /\ lock' = lock)
      /\ t.at = s.at /\ t.staged = s.staged /\ t.seen = s.seen /\ t.stage = s.stage
      /\ t.backup = s.backup /\ t.promoted = s.promoted /\ t.backedUp = s.backedUp /\ t.forgotten = s.forgotten
      /\ t.journal = s.journal /\ t.recovery = s.recovery

\* That is what LockProject does.
LEMMA LockProjectDoes ==
    ASSUME TypeOK, NEW x \in Calls, Position(x), LockProject(x)
    PROVE  LockProjectEffect(x)
<1> DEFINE s == tx[x]  p == Item(x, tx[x].at)
<1>1. /\ s \in CallStates(x) /\ DOMAIN tx = Calls /\ Last(x) \in {2, 3} /\ p = Here(x)
      /\ (x \in Consumers <=> x \notin Rasters) /\ None # "whole"
  BY CallPlace, Ordered DEF Item, Here
<1>2. s.at \in 1..Last(x) => p \in Items(x)
  BY Ordered
<1> QED
  BY <1>1, <1>2 DEF LockProject, LockProjectEffect, Becomes, CallStates, Position, world, Last, Moves

\* CheckResidue: nobody starts over the residue of another.
CheckResidueEffect(x) ==
    LET s == tx[x]  t == tx'[x]  p == Item(x, tx[x].at) IN
      /\ s.pc = "residue" /\ file' = file
      /\ \/ t.pc = "refused" /\ lock = x /\ lock' = None
         \/ t.pc = "look" /\ lock' = lock /\ \A y \in Calls : ~Residue(y)
      /\ t.at = s.at /\ t.staged = s.staged /\ t.seen = s.seen /\ t.stage = s.stage
      /\ t.backup = s.backup /\ t.promoted = s.promoted /\ t.backedUp = s.backedUp /\ t.forgotten = s.forgotten
      /\ t.journal = s.journal /\ t.recovery = s.recovery

\* That is what CheckResidue does.
LEMMA CheckResidueDoes ==
    ASSUME TypeOK, NEW x \in Calls, Position(x), CheckResidue(x)
    PROVE  CheckResidueEffect(x)
<1> DEFINE s == tx[x]  p == Item(x, tx[x].at)
<1>1. /\ s \in CallStates(x) /\ DOMAIN tx = Calls /\ Last(x) \in {2, 3} /\ p = Here(x)
      /\ (x \in Consumers <=> x \notin Rasters) /\ None # "whole"
  BY CallPlace, Ordered DEF Item, Here
<1>2. s.at \in 1..Last(x) => p \in Items(x)
  BY Ordered
<1> QED
  BY <1>1, <1>2 DEF CheckResidue, CheckResidueEffect, Becomes, CallStates, Position, world, Last, Moves, Ends

\* LookBehindLock: behind the lock everything is as planned.
LookBehindLockEffect(x) ==
    LET s == tx[x]  t == tx'[x]  p == Item(x, tx[x].at) IN
      /\ s.pc = "look" /\ file' = file
      /\ \/ /\ t.pc = "stage" /\ t.at = 1 /\ lock' = lock
            /\ \A q \in Items(x) : file[q] = s.seen[q]
         \/ /\ t.pc \in {"unchanged", "refused"} /\ t.at = s.at /\ lock = x /\ lock' = None
      /\ t.staged = s.staged /\ t.seen = s.seen /\ t.stage = s.stage /\ t.backup = s.backup
      /\ t.promoted = s.promoted /\ t.backedUp = s.backedUp /\ t.forgotten = s.forgotten /\ t.journal = s.journal
      /\ t.recovery = s.recovery

\* That is what LookBehindLock does.
LEMMA LookBehindLockDoes ==
    ASSUME TypeOK, NEW x \in Calls, Position(x), LookBehindLock(x)
    PROVE  LookBehindLockEffect(x)
<1> DEFINE s == tx[x]  p == Item(x, tx[x].at)
<1>1. /\ s \in CallStates(x) /\ DOMAIN tx = Calls /\ Last(x) \in {2, 3} /\ p = Here(x)
      /\ (x \in Consumers <=> x \notin Rasters) /\ None # "whole"
  BY CallPlace, Ordered DEF Item, Here
<1>2. s.at \in 1..Last(x) => p \in Items(x)
  BY Ordered
<1>3. s.pc = "look" /\ file' = file
  BY <1>1 DEF LookBehindLock, Ends, Unchanged, world
<1>4. \/ Becomes(x, [s EXCEPT !.pc = "stage", !.at = 1]) /\ lock' = lock /\ \A q \in Items(x) : file[q] = s.seen[q]
      \/ \E o \in {"unchanged", "refused"} : Becomes(x, [s EXCEPT !.pc = o]) /\ lock = x /\ lock' = None
  BY <1>1, <1>2, <1>3 DEF LookBehindLock, CallStates, Position, Forth, Ends, Unchanged, world
<1>5. CASE Becomes(x, [s EXCEPT !.pc = "stage", !.at = 1]) /\ lock' = lock /\ \A q \in Items(x) : file[q] = s.seen[q]
  BY <1>1, <1>2, <1>3, <1>5 DEF LookBehindLockEffect, Becomes, CallStates, Position, Back, Restoring, Here, Item
<1>6. CASE \E o \in {"unchanged", "refused"} : Becomes(x, [s EXCEPT !.pc = o]) /\ lock = x /\ lock' = None
  BY <1>1, <1>2, <1>3, <1>6 DEF LookBehindLockEffect, Becomes, CallStates, Position, Back, Restoring, Here, Item
<1> QED
  BY <1>4, <1>5, <1>6

\* LookFails: a look fails.
LookFailsEffect(x) ==
    LET s == tx[x]  t == tx'[x]  p == Item(x, tx[x].at) IN
      /\ s.pc \in {"planned", "residue", "look"} /\ t.pc = "failed" /\ file' = file
      /\ (lock = x /\ lock' = None) \/ (s.pc = "planned" /\ lock' = lock)
      /\ t.at = s.at /\ t.staged = s.staged /\ t.seen = s.seen /\ t.stage = s.stage
      /\ t.backup = s.backup /\ t.promoted = s.promoted /\ t.backedUp = s.backedUp /\ t.forgotten = s.forgotten
      /\ t.journal = s.journal /\ t.recovery = s.recovery

\* That is what LookFails does.
LEMMA LookFailsDoes ==
    ASSUME TypeOK, NEW x \in Calls, Position(x), LookFails(x)
    PROVE  LookFailsEffect(x)
<1> DEFINE s == tx[x]  p == Item(x, tx[x].at)
<1>1. /\ s \in CallStates(x) /\ DOMAIN tx = Calls /\ Last(x) \in {2, 3} /\ p = Here(x)
      /\ (x \in Consumers <=> x \notin Rasters) /\ None # "whole"
  BY CallPlace, Ordered DEF Item, Here
<1>2. s.at \in 1..Last(x) => p \in Items(x)
  BY Ordered
<1> QED
  BY <1>1, <1>2 DEF LookFails, LookFailsEffect, Becomes, CallStates, Position, world, Last, Moves, Ends, Fault

\* StageItem: the item is staged.
StageItemEffect(x) ==
    LET s == tx[x]  t == tx'[x]  p == Item(x, tx[x].at) IN
      /\ s.pc = "stage" /\ file' = file /\ lock' = lock
      /\ t.stage = [s.stage EXCEPT ![p] = "whole"] /\ t.staged = s.staged + 1 /\ t.at = s.at + 1
      /\ t.pc = (IF s.at = Last(x) THEN "journal" ELSE "stage")
      /\ t.seen = s.seen /\ t.backup = s.backup /\ t.promoted = s.promoted /\ t.backedUp = s.backedUp
      /\ t.forgotten = s.forgotten /\ t.journal = s.journal /\ t.recovery = s.recovery

\* That is what StageItem does.
LEMMA StageItemDoes ==
    ASSUME TypeOK, NEW x \in Calls, Position(x), StageItem(x)
    PROVE  StageItemEffect(x)
<1> DEFINE s == tx[x]  p == Item(x, tx[x].at)
<1>1. /\ s \in CallStates(x) /\ DOMAIN tx = Calls /\ Last(x) \in {2, 3} /\ p = Here(x)
      /\ (x \in Consumers <=> x \notin Rasters) /\ None # "whole"
  BY CallPlace, Ordered DEF Item, Here
<1>2. s.at \in 1..Last(x) => p \in Items(x)
  BY Ordered
<1> QED
  BY <1>1, <1>2 DEF StageItem, StageItemEffect, Becomes, CallStates, Position, world, Last

\* StagingFails: what was staged is undone, what was not yet listed stays.
StagingFailsEffect(x) ==
    LET s == tx[x]  t == tx'[x]  p == Item(x, tx[x].at) IN
      /\ s.pc = "stage" /\ t.pc = "undo" /\ file' = file /\ lock' = lock /\ t.at = t.staged
      /\ \/ t.staged = s.staged /\ \E left \in {None, "part"} : t.stage = [s.stage EXCEPT ![p] = left]
         \/ t.staged = s.staged + 1 /\ t.stage = [s.stage EXCEPT ![p] = "whole"]
      /\ t.seen = s.seen /\ t.backup = s.backup /\ t.promoted = s.promoted /\ t.backedUp = s.backedUp
      /\ t.forgotten = s.forgotten /\ t.journal = s.journal /\ t.recovery = s.recovery

\* That is what StagingFails does.
LEMMA StagingFailsDoes ==
    ASSUME TypeOK, NEW x \in Calls, Position(x), StagingFails(x)
    PROVE  StagingFailsEffect(x)
<1> DEFINE s == tx[x]  p == Item(x, tx[x].at)
<1>1. /\ s \in CallStates(x) /\ DOMAIN tx = Calls /\ Last(x) \in {2, 3} /\ p = Here(x)
      /\ (x \in Consumers <=> x \notin Rasters) /\ None # "whole"
  BY CallPlace, Ordered DEF Item, Here
<1>2. s.at \in 1..Last(x) => p \in Items(x)
  BY Ordered
<1>3. s.pc = "stage" /\ file' = file /\ lock' = lock
  BY <1>1 DEF StagingFails, Undo, Fault, Here, Item
<1>4. \/ \E left \in {None, "part"} : Becomes(x, [s EXCEPT !.stage[p] = left, !.pc = "undo", !.at = s.staged])
      \/ Becomes(x, [s EXCEPT !.stage[p] = "whole", !.staged = @ + 1, !.pc = "undo", !.at = s.staged + 1])
  BY <1>1, <1>2, <1>3 DEF StagingFails, CallStates, Position, Forth, Undo, Fault, Here, Item
<1>5. CASE \E left \in {None, "part"} : Becomes(x, [s EXCEPT !.stage[p] = left, !.pc = "undo", !.at = s.staged])
  BY <1>1, <1>2, <1>3, <1>5 DEF StagingFailsEffect, Becomes, CallStates, Position, Back, Restoring, Here, Item
<1>6. CASE Becomes(x, [s EXCEPT !.stage[p] = "whole", !.staged = @ + 1, !.pc = "undo", !.at = s.staged + 1])
  BY <1>1, <1>2, <1>3, <1>6 DEF StagingFailsEffect, Becomes, CallStates, Position, Back, Restoring, Here, Item
<1> QED
  BY <1>4, <1>5, <1>6

\* WriteJournal: the journal is written.
WriteJournalEffect(x) ==
    LET s == tx[x]  t == tx'[x]  p == Item(x, tx[x].at) IN
      /\ s.pc = "journal" /\ t.pc = "verify" /\ t.at = 1 /\ t.journal = "whole" /\ file' = file /\ lock' = lock
      /\ t.staged = s.staged /\ t.seen = s.seen /\ t.stage = s.stage /\ t.backup = s.backup
      /\ t.promoted = s.promoted /\ t.backedUp = s.backedUp /\ t.forgotten = s.forgotten /\ t.recovery = s.recovery

\* That is what WriteJournal does.
LEMMA WriteJournalDoes ==
    ASSUME TypeOK, NEW x \in Calls, Position(x), WriteJournal(x)
    PROVE  WriteJournalEffect(x)
<1> DEFINE s == tx[x]  p == Item(x, tx[x].at)
<1>1. /\ s \in CallStates(x) /\ DOMAIN tx = Calls /\ Last(x) \in {2, 3} /\ p = Here(x)
      /\ (x \in Consumers <=> x \notin Rasters) /\ None # "whole"
  BY CallPlace, Ordered DEF Item, Here
<1>2. s.at \in 1..Last(x) => p \in Items(x)
  BY Ordered
<1> QED
  BY <1>1, <1>2 DEF WriteJournal, WriteJournalEffect, Becomes, CallStates, Position, world, Last

\* JournalFails: the journal fails, in part or whole.
JournalFailsEffect(x) ==
    LET s == tx[x]  t == tx'[x]  p == Item(x, tx[x].at) IN
      /\ s.pc = "journal" /\ t.pc = "undo" /\ t.at = s.staged /\ file' = file /\ lock' = lock
      /\ t.journal \in {None, "part", "unopened", "whole"}
      /\ t.staged = s.staged /\ t.seen = s.seen /\ t.stage = s.stage /\ t.backup = s.backup
      /\ t.promoted = s.promoted /\ t.backedUp = s.backedUp /\ t.forgotten = s.forgotten /\ t.recovery = s.recovery

\* That is what JournalFails does.
LEMMA JournalFailsDoes ==
    ASSUME TypeOK, NEW x \in Calls, Position(x), JournalFails(x)
    PROVE  JournalFailsEffect(x)
<1> DEFINE s == tx[x]  p == Item(x, tx[x].at)
<1>1. /\ s \in CallStates(x) /\ DOMAIN tx = Calls /\ Last(x) \in {2, 3} /\ p = Here(x)
      /\ (x \in Consumers <=> x \notin Rasters) /\ None # "whole"
  BY CallPlace, Ordered DEF Item, Here
<1>2. s.at \in 1..Last(x) => p \in Items(x)
  BY Ordered
<1> QED
  BY <1>1, <1>2 DEF JournalFails, JournalFailsEffect, Becomes, CallStates, Position, world, Last, Undo, Fault

\* VerifyItem: the item is looked at before it is moved.
VerifyItemEffect(x) ==
    LET s == tx[x]  t == tx'[x]  p == Item(x, tx[x].at) IN
      /\ s.pc = "verify" /\ file' = file /\ lock' = lock
      /\ \/ /\ t.pc = (IF s.seen[p] = None THEN "link" ELSE "backup") /\ t.at = s.at
            /\ file[p] = (IF x \in Consumers /\ p \in s.promoted THEN x ELSE s.seen[p])
         \/ t.pc = "undo" /\ t.at = s.staged
      /\ t.staged = s.staged /\ t.seen = s.seen /\ t.stage = s.stage /\ t.backup = s.backup
      /\ t.promoted = s.promoted /\ t.backedUp = s.backedUp /\ t.forgotten = s.forgotten /\ t.journal = s.journal
      /\ t.recovery = s.recovery

\* That is what VerifyItem does.
LEMMA VerifyItemDoes ==
    ASSUME TypeOK, NEW x \in Calls, Position(x), VerifyItem(x)
    PROVE  VerifyItemEffect(x)
<1> DEFINE s == tx[x]  p == Item(x, tx[x].at)
<1>1. /\ s \in CallStates(x) /\ DOMAIN tx = Calls /\ Last(x) \in {2, 3} /\ p = Here(x)
      /\ (x \in Consumers <=> x \notin Rasters) /\ None # "whole"
  BY CallPlace, Ordered DEF Item, Here
<1>2. s.at \in 1..Last(x) => p \in Items(x)
  BY Ordered
<1>3. s.pc = "verify" /\ file' = file /\ lock' = lock
  BY <1>1 DEF VerifyItem, Moves, Undo, AsLeft, Unchanged, Here, Item, world
<1>4. \/ Becomes(x, [s EXCEPT !.pc = IF s.seen[p] = None THEN "link" ELSE "backup"])
         /\ file[p] = (IF x \in Consumers /\ p \in s.promoted THEN x ELSE s.seen[p])
      \/ Becomes(x, [s EXCEPT !.pc = "undo", !.at = s.staged])
  BY <1>1, <1>2, <1>3 DEF VerifyItem, CallStates, Position, Forth, Moves, Undo, AsLeft, Unchanged, Here, Item, world
<1>5. CASE Becomes(x, [s EXCEPT !.pc = IF s.seen[p] = None THEN "link" ELSE "backup"])
         /\ file[p] = (IF x \in Consumers /\ p \in s.promoted THEN x ELSE s.seen[p])
  BY <1>1, <1>2, <1>3, <1>5 DEF VerifyItemEffect, Becomes, CallStates, Position, Back, Restoring, Here, Item
<1>6. CASE Becomes(x, [s EXCEPT !.pc = "undo", !.at = s.staged])
  BY <1>1, <1>2, <1>3, <1>6 DEF VerifyItemEffect, Becomes, CallStates, Position, Back, Restoring, Here, Item
<1> QED
  BY <1>4, <1>5, <1>6

\* BackUpItem: the old file is moved aside.
BackUpItemEffect(x) ==
    LET s == tx[x]  t == tx'[x]  p == Item(x, tx[x].at) IN
      /\ s.pc = "backup" /\ file[p] # None /\ file' = [file EXCEPT ![p] = None] /\ lock' = lock
      /\ t.backup = [s.backup EXCEPT ![p] = file[p]] /\ t.backedUp = s.backedUp \cup {p}
      /\ \/ t.pc = "link" /\ t.at = s.at /\ (x \in Consumers => file[p] = s.seen[p])
         \/ t.pc = "undo" /\ t.at = s.staged /\ x \in Consumers
      /\ t.staged = s.staged /\ t.seen = s.seen /\ t.stage = s.stage /\ t.promoted = s.promoted
      /\ t.forgotten = s.forgotten /\ t.journal = s.journal /\ t.recovery = s.recovery

\* That is what BackUpItem does.
LEMMA BackUpItemDoes ==
    ASSUME TypeOK, NEW x \in Calls, Position(x), BackUpItem(x)
    PROVE  BackUpItemEffect(x)
<1> DEFINE s == tx[x]  p == Item(x, tx[x].at)
<1>1. /\ s \in CallStates(x) /\ DOMAIN tx = Calls /\ Last(x) \in {2, 3} /\ p = Here(x)
      /\ (x \in Consumers <=> x \notin Rasters) /\ None # "whole"
  BY CallPlace, Ordered DEF Item, Here
<1>2. s.at \in 1..Last(x) => p \in Items(x)
  BY Ordered
<1>3. s.pc = "backup" /\ file[p] # None /\ file' = [file EXCEPT ![p] = None] /\ lock' = lock
  BY <1>1 DEF BackUpItem, Put, Undo, Here, Item, world
<1>4. \/ Becomes(x, [s EXCEPT !.backup[p] = file[p], !.backedUp = @ \cup {p}, !.pc = "link"])
         /\ (x \in Consumers => file[p] = s.seen[p])
      \/ Becomes(x, [s EXCEPT !.backup[p] = file[p], !.backedUp = @ \cup {p}, !.pc = "undo", !.at = s.staged])
         /\ x \in Consumers
  BY <1>1, <1>2, <1>3 DEF BackUpItem, CallStates, Position, Forth, Put, Undo, Here, Item, world
<1>5. CASE Becomes(x, [s EXCEPT !.backup[p] = file[p], !.backedUp = @ \cup {p}, !.pc = "link"])
         /\ (x \in Consumers => file[p] = s.seen[p])
  BY <1>1, <1>2, <1>3, <1>5 DEF BackUpItemEffect, Becomes, CallStates, Position, Back, Restoring, Here, Item
<1>6. CASE Becomes(x, [s EXCEPT !.backup[p] = file[p], !.backedUp = @ \cup {p}, !.pc = "undo", !.at = s.staged])
         /\ x \in Consumers
  BY <1>1, <1>2, <1>3, <1>6 DEF BackUpItemEffect, Becomes, CallStates, Position, Back, Restoring, Here, Item
<1> QED
  BY <1>4, <1>5, <1>6

\* LinkItem: the new file is linked where nothing lies.
LinkItemEffect(x) ==
    LET s == tx[x]  t == tx'[x]  p == Item(x, tx[x].at) IN
      /\ s.pc = "link" /\ t.pc = "unlink" /\ file[p] = None /\ file' = [file EXCEPT ![p] = x] /\ lock' = lock
      /\ t.stage = [s.stage EXCEPT ![p] = "linked"]
      /\ t.at = s.at /\ t.staged = s.staged /\ t.seen = s.seen /\ t.backup = s.backup
      /\ t.promoted = s.promoted /\ t.backedUp = s.backedUp /\ t.forgotten = s.forgotten /\ t.journal = s.journal
      /\ t.recovery = s.recovery

\* That is what LinkItem does.
LEMMA LinkItemDoes ==
    ASSUME TypeOK, NEW x \in Calls, Position(x), LinkItem(x)
    PROVE  LinkItemEffect(x)
<1> DEFINE s == tx[x]  p == Item(x, tx[x].at)
<1>1. /\ s \in CallStates(x) /\ DOMAIN tx = Calls /\ Last(x) \in {2, 3} /\ p = Here(x)
      /\ (x \in Consumers <=> x \notin Rasters) /\ None # "whole"
  BY CallPlace, Ordered DEF Item, Here
<1>2. s.at \in 1..Last(x) => p \in Items(x)
  BY Ordered
<1> QED
  BY <1>1, <1>2 DEF LinkItem, LinkItemEffect, Becomes, CallStates, Position, world, Last, Put

\* UnlinkStage: the stage goes, and the item counts as promoted.
UnlinkStageEffect(x) ==
    LET s == tx[x]  t == tx'[x]  p == Item(x, tx[x].at) IN
      /\ s.pc = "unlink" /\ t.pc = "sync" /\ file' = file /\ lock' = lock
      /\ t.stage = [s.stage EXCEPT ![p] = None] /\ t.promoted = s.promoted \cup {p}
      /\ t.at = s.at /\ t.staged = s.staged /\ t.seen = s.seen /\ t.backup = s.backup
      /\ t.backedUp = s.backedUp /\ t.forgotten = s.forgotten /\ t.journal = s.journal /\ t.recovery = s.recovery

\* That is what UnlinkStage does.
LEMMA UnlinkStageDoes ==
    ASSUME TypeOK, NEW x \in Calls, Position(x), UnlinkStage(x)
    PROVE  UnlinkStageEffect(x)
<1> DEFINE s == tx[x]  p == Item(x, tx[x].at)
<1>1. /\ s \in CallStates(x) /\ DOMAIN tx = Calls /\ Last(x) \in {2, 3} /\ p = Here(x)
      /\ (x \in Consumers <=> x \notin Rasters) /\ None # "whole"
  BY CallPlace, Ordered DEF Item, Here
<1>2. s.at \in 1..Last(x) => p \in Items(x)
  BY Ordered
<1> QED
  BY <1>1, <1>2 DEF UnlinkStage, UnlinkStageEffect, Becomes, CallStates, Position, world, Last

\* SyncItem: on to the next item, or to the end.
SyncItemEffect(x) ==
    LET s == tx[x]  t == tx'[x]  p == Item(x, tx[x].at) IN
      /\ s.pc = "sync" /\ file' = file /\ lock' = lock
      /\ \/ s.at = Last(x) /\ t.pc = "clean" /\ t.at = 1
         \/ s.at # Last(x) /\ t.pc = "verify" /\ t.at = s.at + 1
      /\ t.staged = s.staged /\ t.seen = s.seen /\ t.stage = s.stage /\ t.backup = s.backup
      /\ t.promoted = s.promoted /\ t.backedUp = s.backedUp /\ t.forgotten = s.forgotten /\ t.journal = s.journal
      /\ t.recovery = s.recovery

\* That is what SyncItem does.
LEMMA SyncItemDoes ==
    ASSUME TypeOK, NEW x \in Calls, Position(x), SyncItem(x)
    PROVE  SyncItemEffect(x)
<1> DEFINE s == tx[x]  p == Item(x, tx[x].at)
<1>1. /\ s \in CallStates(x) /\ DOMAIN tx = Calls /\ Last(x) \in {2, 3} /\ p = Here(x)
      /\ (x \in Consumers <=> x \notin Rasters) /\ None # "whole"
  BY CallPlace, Ordered DEF Item, Here
<1>2. s.at \in 1..Last(x) => p \in Items(x)
  BY Ordered
<1> QED
  BY <1>1, <1>2 DEF SyncItem, SyncItemEffect, Becomes, CallStates, Position, world, Last

\* DestinationChanged: somebody was at the destination.
DestinationChangedEffect(x) ==
    LET s == tx[x]  t == tx'[x]  p == Item(x, tx[x].at) IN
      /\ s.pc \in {"backup", "link"} /\ t.pc = "undo" /\ t.at = s.staged /\ file' = file /\ lock' = lock
      /\ t.staged = s.staged /\ t.seen = s.seen /\ t.stage = s.stage /\ t.backup = s.backup
      /\ t.promoted = s.promoted /\ t.backedUp = s.backedUp /\ t.forgotten = s.forgotten /\ t.journal = s.journal
      /\ t.recovery = s.recovery

\* That is what DestinationChanged does.
LEMMA DestinationChangedDoes ==
    ASSUME TypeOK, NEW x \in Calls, Position(x), DestinationChanged(x)
    PROVE  DestinationChangedEffect(x)
<1> DEFINE s == tx[x]  p == Item(x, tx[x].at)
<1>1. /\ s \in CallStates(x) /\ DOMAIN tx = Calls /\ Last(x) \in {2, 3} /\ p = Here(x)
      /\ (x \in Consumers <=> x \notin Rasters) /\ None # "whole"
  BY CallPlace, Ordered DEF Item, Here
<1>2. s.at \in 1..Last(x) => p \in Items(x)
  BY Ordered
<1> QED
  BY <1>1, <1>2 DEF DestinationChanged, DestinationChangedEffect, Becomes, CallStates, Position, world, Last, Undo

\* PromotionFails: a failure on the way; a linked stage that cannot go is forgotten.
PromotionFailsEffect(x) ==
    LET s == tx[x]  t == tx'[x]  p == Item(x, tx[x].at) IN
      /\ s.pc \in Forth /\ t.pc = "undo" /\ t.at = s.staged /\ file' = file /\ lock' = lock
      /\ t.forgotten = (IF s.pc = "unlink" THEN {p} ELSE s.forgotten)
      /\ t.staged = s.staged /\ t.seen = s.seen /\ t.stage = s.stage /\ t.backup = s.backup
      /\ t.promoted = s.promoted /\ t.backedUp = s.backedUp /\ t.journal = s.journal /\ t.recovery = s.recovery

\* That is what PromotionFails does.
LEMMA PromotionFailsDoes ==
    ASSUME TypeOK, NEW x \in Calls, Position(x), PromotionFails(x)
    PROVE  PromotionFailsEffect(x)
<1> DEFINE s == tx[x]  p == Item(x, tx[x].at)
<1>1. /\ s \in CallStates(x) /\ DOMAIN tx = Calls /\ Last(x) \in {2, 3} /\ p = Here(x)
      /\ (x \in Consumers <=> x \notin Rasters) /\ None # "whole"
  BY CallPlace, Ordered DEF Item, Here
<1>2. s.at \in 1..Last(x) => p \in Items(x)
  BY Ordered
<1> QED
  BY <1>1, <1>2 DEF PromotionFails, PromotionFailsEffect, Becomes, CallStates, Position, world, Last, Undo, Fault, Forth

\* UndoItem: an item is undone according to what lies there.
UndoItemEffect(x) ==
    LET s == tx[x]  t == tx'[x]  p == Item(x, tx[x].at) IN
      /\ s.pc = "undo" /\ s.at > 0 /\ file' = file /\ lock' = lock
      /\ \/ /\ p \notin s.promoted /\ t.pc = Restoring(x) /\ t.at = s.at /\ t.recovery = s.recovery
         \/ /\ p \in s.promoted /\ file[p] = x /\ t.pc = "remove" /\ t.at = s.at /\ t.recovery = s.recovery
         \/ /\ p \in s.promoted /\ file[p] = None /\ x \in Consumers
            /\ t.pc = Restoring(x) /\ t.at = s.at /\ t.recovery = s.recovery
         \/ /\ p \in s.promoted /\ file[p] \notin {x, None} /\ x \in Consumers
            /\ t.pc = "undo" /\ t.at = s.at - 1 /\ t.recovery
         \/ /\ p \in s.promoted /\ file[p] # x /\ x \in Rasters
            /\ t.pc = Restoring(x) /\ t.at = s.at /\ t.recovery
      /\ t.staged = s.staged /\ t.seen = s.seen /\ t.stage = s.stage /\ t.backup = s.backup
      /\ t.promoted = s.promoted /\ t.backedUp = s.backedUp /\ t.forgotten = s.forgotten /\ t.journal = s.journal

\* That is what UndoItem does.
LEMMA UndoItemDoes ==
    ASSUME TypeOK, NEW x \in Calls, Position(x), UndoItem(x)
    PROVE  UndoItemEffect(x)
<1> DEFINE s == tx[x]  p == Item(x, tx[x].at)
<1>1. /\ s \in CallStates(x) /\ DOMAIN tx = Calls /\ Last(x) \in {2, 3} /\ p = Here(x)
      /\ (x \in Consumers <=> x \notin Rasters) /\ None # "whole"
  BY CallPlace, Ordered DEF Item, Here
<1>2. s.at \in 1..Last(x) => p \in Items(x)
  BY Ordered
<1>3. s.pc = "undo" /\ s.at > 0 /\ file' = file /\ lock' = lock
  BY <1>1 DEF UndoItem, Moves, NextItem, GiveUp, Here, Item, world
<1>4. \/ p \notin s.promoted /\ Becomes(x, [s EXCEPT !.pc = Restoring(x)])
      \/ p \in s.promoted /\ file[p] = x /\ Becomes(x, [s EXCEPT !.pc = "remove"])
      \/ p \in s.promoted /\ file[p] = None /\ x \in Consumers /\ Becomes(x, [s EXCEPT !.pc = Restoring(x)])
      \/ p \in s.promoted /\ file[p] \notin {x, None} /\ x \in Consumers
         /\ Becomes(x, [s EXCEPT !.recovery = TRUE, !.pc = "undo", !.at = @ - 1])
      \/ p \in s.promoted /\ file[p] # x /\ x \in Rasters
         /\ Becomes(x, [s EXCEPT !.recovery = TRUE, !.pc = Restoring(x)])
  BY <1>1, <1>2, <1>3 DEF UndoItem, CallStates, Position, Forth, Moves, NextItem, GiveUp, Here, Item, world
<1>5. CASE p \notin s.promoted /\ Becomes(x, [s EXCEPT !.pc = Restoring(x)])
  BY <1>1, <1>2, <1>3, <1>5 DEF UndoItemEffect, Becomes, CallStates, Position, Back, Restoring, Here, Item
<1>6. CASE p \in s.promoted /\ file[p] = x /\ Becomes(x, [s EXCEPT !.pc = "remove"])
  BY <1>1, <1>2, <1>3, <1>6 DEF UndoItemEffect, Becomes, CallStates, Position, Back, Restoring, Here, Item
<1>7. CASE p \in s.promoted /\ file[p] = None /\ x \in Consumers /\ Becomes(x, [s EXCEPT !.pc = Restoring(x)])
  BY <1>1, <1>2, <1>3, <1>7 DEF UndoItemEffect, Becomes, CallStates, Position, Back, Restoring, Here, Item
<1>8. CASE p \in s.promoted /\ file[p] \notin {x, None} /\ x \in Consumers
         /\ Becomes(x, [s EXCEPT !.recovery = TRUE, !.pc = "undo", !.at = @ - 1])
  BY <1>1, <1>2, <1>3, <1>8 DEF UndoItemEffect, Becomes, CallStates, Position, Back, Restoring, Here, Item
<1>9. CASE p \in s.promoted /\ file[p] # x /\ x \in Rasters
         /\ Becomes(x, [s EXCEPT !.recovery = TRUE, !.pc = Restoring(x)])
  BY <1>1, <1>2, <1>3, <1>9 DEF UndoItemEffect, Becomes, CallStates, Position, Back, Restoring, Here, Item
<1> QED
  BY <1>4, <1>5, <1>6, <1>7, <1>8, <1>9

\* RemoveItem: the call's own file goes.
RemoveItemEffect(x) ==
    LET s == tx[x]  t == tx'[x]  p == Item(x, tx[x].at) IN
      /\ s.pc = "remove" /\ t.pc = Restoring(x) /\ file' = [file EXCEPT ![p] = None] /\ lock' = lock
      /\ t.at = s.at /\ t.staged = s.staged /\ t.seen = s.seen /\ t.stage = s.stage
      /\ t.backup = s.backup /\ t.promoted = s.promoted /\ t.backedUp = s.backedUp /\ t.forgotten = s.forgotten
      /\ t.journal = s.journal /\ t.recovery = s.recovery

\* That is what RemoveItem does.
LEMMA RemoveItemDoes ==
    ASSUME TypeOK, NEW x \in Calls, Position(x), RemoveItem(x)
    PROVE  RemoveItemEffect(x)
<1> DEFINE s == tx[x]  p == Item(x, tx[x].at)
<1>1. /\ s \in CallStates(x) /\ DOMAIN tx = Calls /\ Last(x) \in {2, 3} /\ p = Here(x)
      /\ (x \in Consumers <=> x \notin Rasters) /\ None # "whole"
  BY CallPlace, Ordered DEF Item, Here
<1>2. s.at \in 1..Last(x) => p \in Items(x)
  BY Ordered
<1> QED
  BY <1>1, <1>2 DEF RemoveItem, RemoveItemEffect, Becomes, CallStates, Position, world, Last, Moves, Put

\* LookForRestore: the backup comes back only where nothing lies.
LookForRestoreEffect(x) ==
    LET s == tx[x]  t == tx'[x]  p == Item(x, tx[x].at) IN
      /\ s.pc = "restore" /\ file' = file /\ lock' = lock
      /\ \/ t.pc = "rename" /\ t.at = s.at /\ t.recovery = s.recovery /\ file[p] = None
         \/ t.pc = "unstage" /\ t.at = s.at /\ t.recovery
         \/ t.pc = "undo" /\ t.at = s.at - 1 /\ t.recovery
      /\ t.staged = s.staged /\ t.seen = s.seen /\ t.stage = s.stage /\ t.backup = s.backup
      /\ t.promoted = s.promoted /\ t.backedUp = s.backedUp /\ t.forgotten = s.forgotten /\ t.journal = s.journal

\* That is what LookForRestore does.
LEMMA LookForRestoreDoes ==
    ASSUME TypeOK, NEW x \in Calls, Position(x), LookForRestore(x)
    PROVE  LookForRestoreEffect(x)
<1> DEFINE s == tx[x]  p == Item(x, tx[x].at)
<1>1. /\ s \in CallStates(x) /\ DOMAIN tx = Calls /\ Last(x) \in {2, 3} /\ p = Here(x)
      /\ (x \in Consumers <=> x \notin Rasters) /\ None # "whole"
  BY CallPlace, Ordered DEF Item, Here
<1>2. s.at \in 1..Last(x) => p \in Items(x)
  BY Ordered
<1>3. s.pc = "restore" /\ file' = file /\ lock' = lock
  BY <1>1 DEF LookForRestore, Moves, NextItem, GiveUp, Here, Item, world
<1>4. \/ file[p] = None /\ Becomes(x, [s EXCEPT !.pc = "rename"])
      \/ Becomes(x, [s EXCEPT !.recovery = TRUE, !.pc = "unstage"])
      \/ Becomes(x, [s EXCEPT !.recovery = TRUE, !.pc = "undo", !.at = @ - 1])
  BY <1>1, <1>2, <1>3 DEF LookForRestore, CallStates, Position, Forth, Moves, NextItem, GiveUp, Here, Item, world
<1>5. CASE file[p] = None /\ Becomes(x, [s EXCEPT !.pc = "rename"])
  BY <1>1, <1>2, <1>3, <1>5 DEF LookForRestoreEffect, Becomes, CallStates, Position, Back, Restoring, Here, Item
<1>6. CASE Becomes(x, [s EXCEPT !.recovery = TRUE, !.pc = "unstage"])
  BY <1>1, <1>2, <1>3, <1>6 DEF LookForRestoreEffect, Becomes, CallStates, Position, Back, Restoring, Here, Item
<1>7. CASE Becomes(x, [s EXCEPT !.recovery = TRUE, !.pc = "undo", !.at = @ - 1])
  BY <1>1, <1>2, <1>3, <1>7 DEF LookForRestoreEffect, Becomes, CallStates, Position, Back, Restoring, Here, Item
<1> QED
  BY <1>4, <1>5, <1>6, <1>7

\* RestoreItem: the backup comes back.
RestoreItemEffect(x) ==
    LET s == tx[x]  t == tx'[x]  p == Item(x, tx[x].at) IN
      /\ s.pc = "rename" /\ t.pc = "unstage" /\ file' = [file EXCEPT ![p] = s.backup[p]] /\ lock' = lock
      /\ t.backup = [s.backup EXCEPT ![p] = None] /\ t.backedUp = s.backedUp \ {p}
      /\ t.at = s.at /\ t.staged = s.staged /\ t.seen = s.seen /\ t.stage = s.stage
      /\ t.promoted = s.promoted /\ t.forgotten = s.forgotten /\ t.journal = s.journal /\ t.recovery = s.recovery

\* That is what RestoreItem does.
LEMMA RestoreItemDoes ==
    ASSUME TypeOK, NEW x \in Calls, Position(x), RestoreItem(x)
    PROVE  RestoreItemEffect(x)
<1> DEFINE s == tx[x]  p == Item(x, tx[x].at)
<1>1. /\ s \in CallStates(x) /\ DOMAIN tx = Calls /\ Last(x) \in {2, 3} /\ p = Here(x)
      /\ (x \in Consumers <=> x \notin Rasters) /\ None # "whole"
  BY CallPlace, Ordered DEF Item, Here
<1>2. s.at \in 1..Last(x) => p \in Items(x)
  BY Ordered
<1> QED
  BY <1>1, <1>2 DEF RestoreItem, RestoreItemEffect, Becomes, CallStates, Position, world, Last, Put

\* RemoveStage: the stage goes, except one that was linked.
RemoveStageEffect(x) ==
    LET s == tx[x]  t == tx'[x]  p == Item(x, tx[x].at) IN
      /\ s.pc = "unstage" /\ t.pc = "undo" /\ t.at = s.at - 1 /\ file' = file /\ lock' = lock
      /\ \/ x \in Consumers /\ s.stage[p] = "linked" /\ t.recovery /\ t.stage = s.stage
         \/ ~(x \in Consumers /\ s.stage[p] = "linked") /\ t.recovery = s.recovery
            /\ t.stage = [s.stage EXCEPT ![p] = None]
      /\ t.staged = s.staged /\ t.seen = s.seen /\ t.backup = s.backup /\ t.promoted = s.promoted
      /\ t.backedUp = s.backedUp /\ t.forgotten = s.forgotten /\ t.journal = s.journal

\* That is what RemoveStage does.
LEMMA RemoveStageDoes ==
    ASSUME TypeOK, NEW x \in Calls, Position(x), RemoveStage(x)
    PROVE  RemoveStageEffect(x)
<1> DEFINE s == tx[x]  p == Item(x, tx[x].at)
<1>1. /\ s \in CallStates(x) /\ DOMAIN tx = Calls /\ Last(x) \in {2, 3} /\ p = Here(x)
      /\ (x \in Consumers <=> x \notin Rasters) /\ None # "whole"
  BY CallPlace, Ordered DEF Item, Here
<1>2. s.at \in 1..Last(x) => p \in Items(x)
  BY Ordered
<1> QED
  BY <1>1, <1>2 DEF RemoveStage, RemoveStageEffect, Becomes, CallStates, Position, world, Last, NextItem, GiveUp

\* UndoFails: what cannot be undone asks for recovery.
UndoFailsEffect(x) ==
    LET s == tx[x]  t == tx'[x]  p == Item(x, tx[x].at) IN
      /\ s.pc \in Back /\ s.at > 0 /\ t.pc = "undo" /\ t.at = s.at - 1 /\ t.recovery /\ file' = file /\ lock' = lock
      /\ t.stage = s.stage \/ t.stage = [s.stage EXCEPT ![p] = None]
      /\ t.staged = s.staged /\ t.seen = s.seen /\ t.backup = s.backup /\ t.promoted = s.promoted
      /\ t.backedUp = s.backedUp /\ t.forgotten = s.forgotten /\ t.journal = s.journal

\* That is what UndoFails does.
LEMMA UndoFailsDoes ==
    ASSUME TypeOK, NEW x \in Calls, Position(x), UndoFails(x)
    PROVE  UndoFailsEffect(x)
<1> DEFINE s == tx[x]  p == Item(x, tx[x].at)
<1>1. /\ s \in CallStates(x) /\ DOMAIN tx = Calls /\ Last(x) \in {2, 3} /\ p = Here(x)
      /\ (x \in Consumers <=> x \notin Rasters) /\ None # "whole"
  BY CallPlace, Ordered DEF Item, Here
<1>2. s.at \in 1..Last(x) => p \in Items(x)
  BY Ordered
<1>3. s.pc \in Back /\ s.at > 0 /\ file' = file /\ lock' = lock
  BY <1>1 DEF UndoFails, NextItem, GiveUp, Fault, Back, Here, Item
<1>4. \/ Becomes(x, [s EXCEPT !.recovery = TRUE, !.pc = "undo", !.at = @ - 1])
      \/ Becomes(x, [s EXCEPT !.recovery = TRUE, !.stage[p] = None, !.pc = "undo", !.at = @ - 1])
  BY <1>1, <1>2, <1>3 DEF UndoFails, CallStates, Position, Forth, NextItem, GiveUp, Fault, Back, Here, Item
<1>5. CASE Becomes(x, [s EXCEPT !.recovery = TRUE, !.pc = "undo", !.at = @ - 1])
  BY <1>1, <1>2, <1>3, <1>5 DEF UndoFailsEffect, Becomes, CallStates, Position, Back, Restoring, Here, Item
<1>6. CASE Becomes(x, [s EXCEPT !.recovery = TRUE, !.stage[p] = None, !.pc = "undo", !.at = @ - 1])
  BY <1>1, <1>2, <1>3, <1>6 DEF UndoFailsEffect, Becomes, CallStates, Position, Back, Restoring, Here, Item
<1> QED
  BY <1>4, <1>5, <1>6

\* UndoJournal: the journal goes unless something is left to recover.
UndoJournalEffect(x) ==
    LET s == tx[x]  t == tx'[x]  p == Item(x, tx[x].at) IN
      /\ s.pc = "undo" /\ s.at = 0 /\ t.pc = "throw" /\ file' = file /\ lock' = lock
      /\ \/ (s.recovery \/ s.journal = "unopened") /\ t.recovery /\ t.journal = s.journal
         \/ ~s.recovery /\ s.journal # "unopened" /\ t.recovery = s.recovery /\ t.journal # "whole"
            /\ t.journal = (IF s.journal = "whole" THEN None ELSE s.journal)
      /\ t.at = s.at /\ t.staged = s.staged /\ t.seen = s.seen /\ t.stage = s.stage
      /\ t.backup = s.backup /\ t.promoted = s.promoted /\ t.backedUp = s.backedUp /\ t.forgotten = s.forgotten

\* That is what UndoJournal does.
LEMMA UndoJournalDoes ==
    ASSUME TypeOK, NEW x \in Calls, Position(x), UndoJournal(x)
    PROVE  UndoJournalEffect(x)
<1> DEFINE s == tx[x]  p == Item(x, tx[x].at)
<1>1. /\ s \in CallStates(x) /\ DOMAIN tx = Calls /\ Last(x) \in {2, 3} /\ p = Here(x)
      /\ (x \in Consumers <=> x \notin Rasters) /\ None # "whole"
  BY CallPlace, Ordered DEF Item, Here
<1>2. s.at \in 1..Last(x) => p \in Items(x)
  BY Ordered
<1>3. s.pc = "undo" /\ s.at = 0 /\ file' = file /\ lock' = lock
  BY <1>1 DEF UndoJournal, JournalStays, GiveUp, world
<1>4. \/ (s.recovery \/ s.journal = "unopened") /\ Becomes(x, [s EXCEPT !.recovery = TRUE, !.pc = "throw"])
      \/ ~s.recovery /\ s.journal # "unopened" /\ Becomes(x, [s EXCEPT !.pc = "throw", !.journal = IF @ = "whole" THEN None ELSE @])
  BY <1>1, <1>2, <1>3 DEF UndoJournal, CallStates, Position, Forth, JournalStays, GiveUp, world
<1>5. CASE (s.recovery \/ s.journal = "unopened") /\ Becomes(x, [s EXCEPT !.recovery = TRUE, !.pc = "throw"])
  BY <1>1, <1>2, <1>3, <1>5 DEF UndoJournalEffect, Becomes, CallStates, Position, Back, Restoring, Here, Item
<1>6. CASE ~s.recovery /\ s.journal # "unopened" /\ Becomes(x, [s EXCEPT !.pc = "throw", !.journal = IF @ = "whole" THEN None ELSE @])
  BY <1>1, <1>2, <1>3, <1>6 DEF UndoJournalEffect, Becomes, CallStates, Position, Back, Restoring, Here, Item
<1> QED
  BY <1>4, <1>5, <1>6

\* EndRollback: the rollback is reported.
EndRollbackEffect(x) ==
    LET s == tx[x]  t == tx'[x]  p == Item(x, tx[x].at) IN
      /\ s.pc = "throw" /\ t.pc = (IF s.recovery THEN "recoveryRequired" ELSE "rolledBack")
      /\ file' = file /\ lock = x /\ lock' = None
      /\ t.at = s.at /\ t.staged = s.staged /\ t.seen = s.seen /\ t.stage = s.stage
      /\ t.backup = s.backup /\ t.promoted = s.promoted /\ t.backedUp = s.backedUp /\ t.forgotten = s.forgotten
      /\ t.journal = s.journal /\ t.recovery = s.recovery

\* That is what EndRollback does.
LEMMA EndRollbackDoes ==
    ASSUME TypeOK, NEW x \in Calls, Position(x), EndRollback(x)
    PROVE  EndRollbackEffect(x)
<1> DEFINE s == tx[x]  p == Item(x, tx[x].at)
<1>1. /\ s \in CallStates(x) /\ DOMAIN tx = Calls /\ Last(x) \in {2, 3} /\ p = Here(x)
      /\ (x \in Consumers <=> x \notin Rasters) /\ None # "whole"
  BY CallPlace, Ordered DEF Item, Here
<1>2. s.at \in 1..Last(x) => p \in Items(x)
  BY Ordered
<1> QED
  BY <1>1, <1>2 DEF EndRollback, EndRollbackEffect, Becomes, CallStates, Position, world, Last, Ends

\* CleanItem: a backup goes.
CleanItemEffect(x) ==
    LET s == tx[x]  t == tx'[x]  p == Item(x, tx[x].at) IN
      /\ s.pc = "clean" /\ s.at <= Last(x) /\ t.pc = "clean" /\ t.at = s.at + 1 /\ file' = file /\ lock' = lock
      /\ t.backup = [s.backup EXCEPT ![p] = None]
      /\ t.staged = s.staged /\ t.seen = s.seen /\ t.stage = s.stage /\ t.promoted = s.promoted
      /\ t.backedUp = s.backedUp /\ t.forgotten = s.forgotten /\ t.journal = s.journal /\ t.recovery = s.recovery

\* That is what CleanItem does.
LEMMA CleanItemDoes ==
    ASSUME TypeOK, NEW x \in Calls, Position(x), CleanItem(x)
    PROVE  CleanItemEffect(x)
<1> DEFINE s == tx[x]  p == Item(x, tx[x].at)
<1>1. /\ s \in CallStates(x) /\ DOMAIN tx = Calls /\ Last(x) \in {2, 3} /\ p = Here(x)
      /\ (x \in Consumers <=> x \notin Rasters) /\ None # "whole"
  BY CallPlace, Ordered DEF Item, Here
<1>2. s.at \in 1..Last(x) => p \in Items(x)
  BY Ordered
<1> QED
  BY <1>1, <1>2 DEF CleanItem, CleanItemEffect, Becomes, CallStates, Position, world, Last

\* CleaningFails: a backup cannot go.
CleaningFailsEffect(x) ==
    LET s == tx[x]  t == tx'[x]  p == Item(x, tx[x].at) IN
      /\ s.pc = "clean" /\ s.at <= Last(x) /\ t.pc = "clean" /\ t.at = s.at + 1 /\ file' = file /\ lock' = lock
      /\ t.recovery /\ (t.backup = s.backup \/ t.backup = [s.backup EXCEPT ![p] = None])
      /\ t.staged = s.staged /\ t.seen = s.seen /\ t.stage = s.stage /\ t.promoted = s.promoted
      /\ t.backedUp = s.backedUp /\ t.forgotten = s.forgotten /\ t.journal = s.journal

\* That is what CleaningFails does.
LEMMA CleaningFailsDoes ==
    ASSUME TypeOK, NEW x \in Calls, Position(x), CleaningFails(x)
    PROVE  CleaningFailsEffect(x)
<1> DEFINE s == tx[x]  p == Item(x, tx[x].at)
<1>1. /\ s \in CallStates(x) /\ DOMAIN tx = Calls /\ Last(x) \in {2, 3} /\ p = Here(x)
      /\ (x \in Consumers <=> x \notin Rasters) /\ None # "whole"
  BY CallPlace, Ordered DEF Item, Here
<1>2. s.at \in 1..Last(x) => p \in Items(x)
  BY Ordered
<1> QED
  BY <1>1, <1>2 DEF CleaningFails, CleaningFailsEffect, Becomes, CallStates, Position, world, Last, GiveUp, Fault

\* CleanJournal: the journal goes once the backups are gone.
CleanJournalEffect(x) ==
    LET s == tx[x]  t == tx'[x]  p == Item(x, tx[x].at) IN
      /\ s.pc = "clean" /\ s.at > Last(x) /\ t.pc = "finish" /\ file' = file /\ lock' = lock
      /\ t.journal = (IF s.recovery THEN s.journal ELSE None)
      /\ t.at = s.at /\ t.staged = s.staged /\ t.seen = s.seen /\ t.stage = s.stage
      /\ t.backup = s.backup /\ t.promoted = s.promoted /\ t.backedUp = s.backedUp /\ t.forgotten = s.forgotten
      /\ t.recovery = s.recovery

\* That is what CleanJournal does.
LEMMA CleanJournalDoes ==
    ASSUME TypeOK, NEW x \in Calls, Position(x), CleanJournal(x)
    PROVE  CleanJournalEffect(x)
<1> DEFINE s == tx[x]  p == Item(x, tx[x].at)
<1>1. /\ s \in CallStates(x) /\ DOMAIN tx = Calls /\ Last(x) \in {2, 3} /\ p = Here(x)
      /\ (x \in Consumers <=> x \notin Rasters) /\ None # "whole"
  BY CallPlace, Ordered DEF Item, Here
<1>2. s.at \in 1..Last(x) => p \in Items(x)
  BY Ordered
<1> QED
  BY <1>1, <1>2 DEF CleanJournal, CleanJournalEffect, Becomes, CallStates, Position, world, Last

\* EndPublication: the publication is reported.
EndPublicationEffect(x) ==
    LET s == tx[x]  t == tx'[x]  p == Item(x, tx[x].at) IN
      /\ s.pc = "finish" /\ t.pc = (IF s.recovery THEN "recoveryRequired" ELSE "published")
      /\ file' = file /\ lock = x /\ lock' = None
      /\ t.at = s.at /\ t.staged = s.staged /\ t.seen = s.seen /\ t.stage = s.stage
      /\ t.backup = s.backup /\ t.promoted = s.promoted /\ t.backedUp = s.backedUp /\ t.forgotten = s.forgotten
      /\ t.journal = s.journal /\ t.recovery = s.recovery

\* That is what EndPublication does.
LEMMA EndPublicationDoes ==
    ASSUME TypeOK, NEW x \in Calls, Position(x), EndPublication(x)
    PROVE  EndPublicationEffect(x)
<1> DEFINE s == tx[x]  p == Item(x, tx[x].at)
<1>1. /\ s \in CallStates(x) /\ DOMAIN tx = Calls /\ Last(x) \in {2, 3} /\ p = Here(x)
      /\ (x \in Consumers <=> x \notin Rasters) /\ None # "whole"
  BY CallPlace, Ordered DEF Item, Here
<1>2. s.at \in 1..Last(x) => p \in Items(x)
  BY Ordered
<1> QED
  BY <1>1, <1>2 DEF EndPublication, EndPublicationEffect, Becomes, CallStates, Position, world, Last, Ends

\* JournalRemovalFails: the removal of the journal throws.
JournalRemovalFailsEffect(x) ==
    LET s == tx[x]  t == tx'[x]  p == Item(x, tx[x].at) IN
      /\ (s.pc = "undo" /\ s.at = 0) \/ (s.pc = "clean" /\ s.at > Last(x))
      /\ ~s.recovery /\ t.pc = "failed" /\ file' = file /\ lock' = None /\ t.journal \in {None, s.journal}
      /\ t.at = s.at /\ t.staged = s.staged /\ t.seen = s.seen /\ t.stage = s.stage
      /\ t.backup = s.backup /\ t.promoted = s.promoted /\ t.backedUp = s.backedUp /\ t.forgotten = s.forgotten
      /\ t.recovery = s.recovery

\* That is what JournalRemovalFails does.
LEMMA JournalRemovalFailsDoes ==
    ASSUME TypeOK, NEW x \in Calls, Position(x), JournalRemovalFails(x)
    PROVE  JournalRemovalFailsEffect(x)
<1> DEFINE s == tx[x]  p == Item(x, tx[x].at)
<1>1. /\ s \in CallStates(x) /\ DOMAIN tx = Calls /\ Last(x) \in {2, 3} /\ p = Here(x)
      /\ (x \in Consumers <=> x \notin Rasters) /\ None # "whole"
  BY CallPlace, Ordered DEF Item, Here
<1>2. s.at \in 1..Last(x) => p \in Items(x)
  BY Ordered
<1> QED
  BY <1>1, <1>2 DEF JournalRemovalFails, JournalRemovalFailsEffect, Becomes, CallStates, Position, world, Last, JournalStays, Fault

\* UnlockFails: the lock stays.
UnlockFailsEffect(x) ==
    LET s == tx[x]  t == tx'[x]  p == Item(x, tx[x].at) IN
      /\ s.pc \in {"throw", "finish"} /\ t.pc = "failed" /\ file' = file /\ lock' = lock
      /\ t.at = s.at /\ t.staged = s.staged /\ t.seen = s.seen /\ t.stage = s.stage
      /\ t.backup = s.backup /\ t.promoted = s.promoted /\ t.backedUp = s.backedUp /\ t.forgotten = s.forgotten
      /\ t.journal = s.journal /\ t.recovery = s.recovery

\* That is what UnlockFails does.
LEMMA UnlockFailsDoes ==
    ASSUME TypeOK, NEW x \in Calls, Position(x), UnlockFails(x)
    PROVE  UnlockFailsEffect(x)
<1> DEFINE s == tx[x]  p == Item(x, tx[x].at)
<1>1. /\ s \in CallStates(x) /\ DOMAIN tx = Calls /\ Last(x) \in {2, 3} /\ p = Here(x)
      /\ (x \in Consumers <=> x \notin Rasters) /\ None # "whole"
  BY CallPlace, Ordered DEF Item, Here
<1>2. s.at \in 1..Last(x) => p \in Items(x)
  BY Ordered
<1> QED
  BY <1>1, <1>2 DEF UnlockFails, UnlockFailsEffect, Becomes, CallStates, Position, world, Last, Fault

\* The state of a call, field by field.
Flat(r) == [pc |-> r.pc, at |-> r.at, staged |-> r.staged, seen |-> r.seen, stage |-> r.stage,
            backup |-> r.backup, promoted |-> r.promoted, backedUp |-> r.backedUp,
            forgotten |-> r.forgotten, journal |-> r.journal, recovery |-> r.recovery]

RangedAt(x, r) ==
    /\ r.pc \in {"new", "planned", "locking", "residue", "look", "stage", "journal", "throw", "clean",
                 "finish", "killed"} \cup Forth \cup Back \cup Ended
    /\ r.at \in 0..(Last(x) + 1) /\ r.staged \in 0..Last(x)
RangedIn(x, r) ==
    /\ r.seen \in [Items(x) \cup Canonical -> Contents]
    /\ r.stage \in [Items(x) -> {None, "part", "whole", "linked"}]
    /\ r.backup \in [Items(x) -> Contents]
    /\ r.promoted \subseteq Items(x) /\ r.backedUp \subseteq Items(x) /\ r.forgotten \subseteq Items(x)
    /\ r.journal \in {None, "part", "unopened", "whole"} /\ r.recovery \in BOOLEAN
Ranged(x, r) == RangedAt(x, r) /\ RangedIn(x, r)

LEMMA StateOf ==
    ASSUME NEW x \in Calls, NEW r
    PROVE  r \in CallStates(x) <=> r = Flat(r) /\ Ranged(x, r)
<1>1. ASSUME r \in CallStates(x) PROVE r = Flat(r) /\ Ranged(x, r)
  <2>1. r = Flat(r)
    BY <1>1 DEF CallStates, Flat
  <2>2. Ranged(x, r)
    BY <1>1 DEF CallStates, Ranged, RangedAt, RangedIn, Last, Forth, Back, Ended
  <2> QED
    BY <2>1, <2>2
<1>2. ASSUME r = Flat(r), Ranged(x, r) PROVE r \in CallStates(x)
  <2>1. Flat(r) \in CallStates(x)
    BY <1>2 DEF CallStates, Flat, Ranged, RangedAt, RangedIn, Last, Forth, Back, Ended
  <2> QED
    BY <1>2, <2>1
<1> QED
  BY <1>1, <1>2

\* The types of a call, and what its step leaves alone.
LEMMA CallStepTyped ==
    ASSUME TypeOK, NEW x \in Calls, Position(x), CallSteps(x)
    PROVE  /\ tx' = [tx EXCEPT ![x] = tx'[x]] /\ tx'[x] \in CallStates(x)
           /\ kind' = kind /\ touched' = touched /\ mishaps' \in 0..MaxMishaps
<1> DEFINE s == tx[x]  t == tx'[x]  p == Item(x, tx[x].at)
<1> DEFINE Frame == kind' = kind /\ touched' = touched /\ mishaps' \in 0..MaxMishaps
<1> DEFINE Shape == tx' = [tx EXCEPT ![x] = t] /\ t = Flat(t)
<1>1. /\ s \in CallStates(x) /\ DOMAIN tx = Calls /\ Last(x) \in {2, 3} /\ p = Here(x)
      /\ (x \in Consumers <=> x \notin Rasters) /\ None # "whole"
      /\ mishaps \in 0..MaxMishaps /\ MaxMishaps \in Nat
  BY CallPlace, Ordered DEF Item, Here
<1>2. s.at \in 1..Last(x) => p \in Items(x)
  BY Ordered
<1>3. s = Flat(s) /\ Ranged(x, s)
  BY <1>1, StateOf
<1>4. /\ Items(x) \subseteq Places /\ \A q \in Places : file[q] \in Contents
      /\ None \in Contents /\ x \in Contents
  BY CallPlace, Ordered
<1>a1. CASE PlanCall(x)
  <2>e. PlanCallEffect(x)
    BY <1>a1, PlanCallDoes
  <2>1. Frame
    BY <1>1, <1>a1 DEF PlanCall, world, Fault, Mishap
  <2>2. Shape
    BY <1>1, <1>a1 DEF PlanCall, Becomes, CallStates, Flat
  <2>3. t.seen \in [Items(x) \cup Canonical -> Contents]
    BY <1>1, <1>4, <1>a1 DEF PlanCall, Becomes, CallStates, Canonical, Places
  <2>4. RangedAt(x, t)
    BY <1>1, <1>3, <2>e DEF PlanCallEffect, Ranged, RangedAt
  <2>5. RangedIn(x, t)
    BY <1>3, <2>3, <2>e DEF PlanCallEffect, Ranged, RangedIn
  <2> QED
    BY <2>1, <2>2, <2>4, <2>5, StateOf DEF Ranged
<1>a2. CASE LookEarly(x)
  <2>e. LookEarlyEffect(x)
    BY <1>a2, LookEarlyDoes
  <2>1. Frame
    BY <1>1, <1>a2 DEF LookEarly, world, Fault, Mishap
  <2>2. Shape
    BY <1>1, <1>a2 DEF LookEarly, Becomes, CallStates, Flat, Moves
  <2>4. RangedAt(x, t)
    BY <1>1, <1>3, <2>e DEF LookEarlyEffect, Ranged, RangedAt, Ended, Position, Forth, Back, Restoring
  <2>5. RangedIn(x, t)
    BY <1>2, <1>3, <1>4, <2>e DEF LookEarlyEffect, Ranged, RangedIn, Position, Forth, Back, Ended
  <2> QED
    BY <2>1, <2>2, <2>4, <2>5, StateOf DEF Ranged
<1>a3. CASE LockProject(x)
  <2>e. LockProjectEffect(x)
    BY <1>a3, LockProjectDoes
  <2>1. Frame
    BY <1>1, <1>a3 DEF LockProject, world, Fault, Mishap
  <2>2. Shape
    BY <1>1, <1>a3 DEF LockProject, Becomes, CallStates, Flat, Moves
  <2>4. RangedAt(x, t)
    BY <1>1, <1>3, <2>e DEF LockProjectEffect, Ranged, RangedAt, Ended, Position, Forth, Back, Restoring
  <2>5. RangedIn(x, t)
    BY <1>2, <1>3, <1>4, <2>e DEF LockProjectEffect, Ranged, RangedIn, Position, Forth, Back, Ended
  <2> QED
    BY <2>1, <2>2, <2>4, <2>5, StateOf DEF Ranged
<1>a4. CASE CheckResidue(x)
  <2>e. CheckResidueEffect(x)
    BY <1>a4, CheckResidueDoes
  <2>1. Frame
    BY <1>1, <1>a4 DEF CheckResidue, world, Fault, Mishap
  <2>2. Shape
    BY <1>1, <1>a4 DEF CheckResidue, Becomes, CallStates, Flat, Moves, Ends
  <2>4. RangedAt(x, t)
    BY <1>1, <1>3, <2>e DEF CheckResidueEffect, Ranged, RangedAt, Ended, Position, Forth, Back, Restoring
  <2>5. RangedIn(x, t)
    BY <1>2, <1>3, <1>4, <2>e DEF CheckResidueEffect, Ranged, RangedIn, Position, Forth, Back, Ended
  <2> QED
    BY <2>1, <2>2, <2>4, <2>5, StateOf DEF Ranged
<1>a5. CASE LookBehindLock(x)
  <2>e. LookBehindLockEffect(x)
    BY <1>a5, LookBehindLockDoes
  <2>1. Frame
    BY <1>1, <1>a5 DEF LookBehindLock, world, Fault, Mishap
  <2>2. Shape
    <3>1. s.pc = "look" /\ file' = file
      BY <1>1, <1>a5 DEF LookBehindLock, Ends, Unchanged, world
    <3>2. \/ Becomes(x, [s EXCEPT !.pc = "stage", !.at = 1])
          \/ \E o \in {"unchanged", "refused"} : Becomes(x, [s EXCEPT !.pc = o])
      BY <1>1, <1>2, <1>a5, <3>1 DEF LookBehindLock, CallStates, Position, Forth, Ends, Unchanged, world
    <3>3. CASE Becomes(x, [s EXCEPT !.pc = "stage", !.at = 1])
      BY <1>1, <3>3 DEF Becomes, CallStates, Flat
    <3>4. CASE \E o \in {"unchanged", "refused"} : Becomes(x, [s EXCEPT !.pc = o])
      BY <1>1, <3>4 DEF Becomes, CallStates, Flat
    <3> QED
      BY <3>2, <3>3, <3>4
  <2>4. RangedAt(x, t)
    BY <1>1, <1>3, <2>e DEF LookBehindLockEffect, Ranged, RangedAt, Ended, Position, Forth, Back, Restoring
  <2>5. RangedIn(x, t)
    BY <1>2, <1>3, <1>4, <2>e DEF LookBehindLockEffect, Ranged, RangedIn, Position, Forth, Back, Ended
  <2> QED
    BY <2>1, <2>2, <2>4, <2>5, StateOf DEF Ranged
<1>a6. CASE LookFails(x)
  <2>e. LookFailsEffect(x)
    BY <1>a6, LookFailsDoes
  <2>1. Frame
    BY <1>1, <1>a6 DEF LookFails, world, Fault, Mishap
  <2>2. Shape
    BY <1>1, <1>a6 DEF LookFails, Becomes, CallStates, Flat, Moves, Ends, Fault
  <2>4. RangedAt(x, t)
    BY <1>1, <1>3, <2>e DEF LookFailsEffect, Ranged, RangedAt, Ended, Position, Forth, Back, Restoring
  <2>5. RangedIn(x, t)
    BY <1>2, <1>3, <1>4, <2>e DEF LookFailsEffect, Ranged, RangedIn, Position, Forth, Back, Ended
  <2> QED
    BY <2>1, <2>2, <2>4, <2>5, StateOf DEF Ranged
<1>a7. CASE StageItem(x)
  <2>e. StageItemEffect(x)
    BY <1>a7, StageItemDoes
  <2>1. Frame
    BY <1>1, <1>a7 DEF StageItem, world, Fault, Mishap
  <2>2. Shape
    BY <1>1, <1>a7 DEF StageItem, Becomes, CallStates, Flat
  <2>3. s.at \in 1..Last(x) /\ s.staged = s.at - 1
    BY <2>e DEF StageItemEffect, Position
  <2>4. RangedAt(x, t)
    BY <1>1, <1>3, <2>3, <2>e DEF StageItemEffect, Ranged, RangedAt
  <2>5. RangedIn(x, t)
    BY <1>2, <1>3, <1>4, <2>e DEF StageItemEffect, Ranged, RangedIn, Position, Forth, Back, Ended
  <2> QED
    BY <2>1, <2>2, <2>4, <2>5, StateOf DEF Ranged
<1>a8. CASE StagingFails(x)
  <2>e. StagingFailsEffect(x)
    BY <1>a8, StagingFailsDoes
  <2>1. Frame
    BY <1>1, <1>a8 DEF StagingFails, world, Fault, Mishap
  <2>2. Shape
    <3>1. s.pc = "stage" /\ file' = file /\ lock' = lock
      BY <1>1, <1>a8 DEF StagingFails, Undo, Fault, Here, Item
    <3>2. \/ \E left \in {None, "part"} : Becomes(x, [s EXCEPT !.stage[p] = left, !.pc = "undo", !.at = s.staged])
          \/ Becomes(x, [s EXCEPT !.stage[p] = "whole", !.staged = @ + 1, !.pc = "undo", !.at = s.staged + 1])
      BY <1>1, <1>2, <1>a8, <3>1 DEF StagingFails, CallStates, Position, Forth, Undo, Fault, Here, Item
    <3>3. CASE \E left \in {None, "part"} : Becomes(x, [s EXCEPT !.stage[p] = left, !.pc = "undo", !.at = s.staged])
      BY <1>1, <3>3 DEF Becomes, CallStates, Flat
    <3>4. CASE Becomes(x, [s EXCEPT !.stage[p] = "whole", !.staged = @ + 1, !.pc = "undo", !.at = s.staged + 1])
      BY <1>1, <3>4 DEF Becomes, CallStates, Flat
    <3> QED
      BY <3>2, <3>3, <3>4
  <2>4. RangedAt(x, t)
    BY <1>1, <1>3, <2>e DEF StagingFailsEffect, Ranged, RangedAt, Ended, Position, Forth, Back, Restoring
  <2>5. RangedIn(x, t)
    BY <1>2, <1>3, <1>4, <2>e DEF StagingFailsEffect, Ranged, RangedIn, Position, Forth, Back, Ended
  <2> QED
    BY <2>1, <2>2, <2>4, <2>5, StateOf DEF Ranged
<1>a9. CASE WriteJournal(x)
  <2>e. WriteJournalEffect(x)
    BY <1>a9, WriteJournalDoes
  <2>1. Frame
    BY <1>1, <1>a9 DEF WriteJournal, world, Fault, Mishap
  <2>2. Shape
    BY <1>1, <1>a9 DEF WriteJournal, Becomes, CallStates, Flat
  <2>4. RangedAt(x, t)
    BY <1>1, <1>3, <2>e DEF WriteJournalEffect, Ranged, RangedAt, Ended, Position, Forth, Back, Restoring
  <2>5. RangedIn(x, t)
    BY <1>2, <1>3, <1>4, <2>e DEF WriteJournalEffect, Ranged, RangedIn, Position, Forth, Back, Ended
  <2> QED
    BY <2>1, <2>2, <2>4, <2>5, StateOf DEF Ranged
<1>a10. CASE JournalFails(x)
  <2>e. JournalFailsEffect(x)
    BY <1>a10, JournalFailsDoes
  <2>1. Frame
    BY <1>1, <1>a10 DEF JournalFails, world, Fault, Mishap
  <2>2. Shape
    <3>1. PICK left : Becomes(x, [s EXCEPT !.journal = left, !.pc = "undo", !.at = s.staged])
      BY <1>1, <1>a10 DEF JournalFails, CallStates, Undo
    <3> QED
      BY <1>1, <3>1 DEF Becomes, CallStates, Flat
  <2>4. RangedAt(x, t)
    BY <1>1, <1>3, <2>e DEF JournalFailsEffect, Ranged, RangedAt, Ended, Position, Forth, Back, Restoring
  <2>5. RangedIn(x, t)
    BY <1>2, <1>3, <1>4, <2>e DEF JournalFailsEffect, Ranged, RangedIn, Position, Forth, Back, Ended
  <2> QED
    BY <2>1, <2>2, <2>4, <2>5, StateOf DEF Ranged
<1>a11. CASE VerifyItem(x)
  <2>e. VerifyItemEffect(x)
    BY <1>a11, VerifyItemDoes
  <2>1. Frame
    BY <1>1, <1>a11 DEF VerifyItem, world, Fault, Mishap
  <2>2. Shape
    <3>1. s.pc = "verify" /\ file' = file /\ lock' = lock
      BY <1>1, <1>a11 DEF VerifyItem, Moves, Undo, AsLeft, Unchanged, Here, Item, world
    <3>2. \/ Becomes(x, [s EXCEPT !.pc = IF s.seen[p] = None THEN "link" ELSE "backup"])
          \/ Becomes(x, [s EXCEPT !.pc = "undo", !.at = s.staged])
      BY <1>1, <1>2, <1>a11, <3>1 DEF VerifyItem, CallStates, Position, Forth, Moves, Undo, AsLeft, Unchanged, Here, Item, world
    <3>3. CASE Becomes(x, [s EXCEPT !.pc = IF s.seen[p] = None THEN "link" ELSE "backup"])
      BY <1>1, <3>3 DEF Becomes, CallStates, Flat
    <3>4. CASE Becomes(x, [s EXCEPT !.pc = "undo", !.at = s.staged])
      BY <1>1, <3>4 DEF Becomes, CallStates, Flat
    <3> QED
      BY <3>2, <3>3, <3>4
  <2>4. RangedAt(x, t)
    BY <1>1, <1>3, <2>e DEF VerifyItemEffect, Ranged, RangedAt, Ended, Position, Forth, Back, Restoring
  <2>5. RangedIn(x, t)
    BY <1>2, <1>3, <1>4, <2>e DEF VerifyItemEffect, Ranged, RangedIn, Position, Forth, Back, Ended
  <2> QED
    BY <2>1, <2>2, <2>4, <2>5, StateOf DEF Ranged
<1>a12. CASE BackUpItem(x)
  <2>e. BackUpItemEffect(x)
    BY <1>a12, BackUpItemDoes
  <2>1. Frame
    BY <1>1, <1>a12 DEF BackUpItem, world, Fault, Mishap
  <2>2. Shape
    <3>1. s.pc = "backup" /\ file[p] # None /\ file' = [file EXCEPT ![p] = None] /\ lock' = lock
      BY <1>1, <1>a12 DEF BackUpItem, Put, Undo, Here, Item, world
    <3>2. \/ Becomes(x, [s EXCEPT !.backup[p] = file[p], !.backedUp = @ \cup {p}, !.pc = "link"])
          \/ Becomes(x, [s EXCEPT !.backup[p] = file[p], !.backedUp = @ \cup {p}, !.pc = "undo", !.at = s.staged])
      BY <1>1, <1>2, <1>a12, <3>1 DEF BackUpItem, CallStates, Position, Forth, Put, Undo, Here, Item, world
    <3>3. CASE Becomes(x, [s EXCEPT !.backup[p] = file[p], !.backedUp = @ \cup {p}, !.pc = "link"])
      BY <1>1, <3>3 DEF Becomes, CallStates, Flat
    <3>4. CASE Becomes(x, [s EXCEPT !.backup[p] = file[p], !.backedUp = @ \cup {p}, !.pc = "undo", !.at = s.staged])
      BY <1>1, <3>4 DEF Becomes, CallStates, Flat
    <3> QED
      BY <3>2, <3>3, <3>4
  <2>4. RangedAt(x, t)
    BY <1>1, <1>3, <2>e DEF BackUpItemEffect, Ranged, RangedAt, Ended, Position, Forth, Back, Restoring
  <2>5. RangedIn(x, t)
    BY <1>2, <1>3, <1>4, <2>e DEF BackUpItemEffect, Ranged, RangedIn, Position, Forth, Back, Ended
  <2> QED
    BY <2>1, <2>2, <2>4, <2>5, StateOf DEF Ranged
<1>a13. CASE LinkItem(x)
  <2>e. LinkItemEffect(x)
    BY <1>a13, LinkItemDoes
  <2>1. Frame
    BY <1>1, <1>a13 DEF LinkItem, world, Fault, Mishap
  <2>2. Shape
    BY <1>1, <1>a13 DEF LinkItem, Becomes, CallStates, Flat, Put
  <2>4. RangedAt(x, t)
    BY <1>1, <1>3, <2>e DEF LinkItemEffect, Ranged, RangedAt, Ended, Position, Forth, Back, Restoring
  <2>5. RangedIn(x, t)
    BY <1>2, <1>3, <1>4, <2>e DEF LinkItemEffect, Ranged, RangedIn, Position, Forth, Back, Ended
  <2> QED
    BY <2>1, <2>2, <2>4, <2>5, StateOf DEF Ranged
<1>a14. CASE UnlinkStage(x)
  <2>e. UnlinkStageEffect(x)
    BY <1>a14, UnlinkStageDoes
  <2>1. Frame
    BY <1>1, <1>a14 DEF UnlinkStage, world, Fault, Mishap
  <2>2. Shape
    BY <1>1, <1>a14 DEF UnlinkStage, Becomes, CallStates, Flat
  <2>4. RangedAt(x, t)
    BY <1>1, <1>3, <2>e DEF UnlinkStageEffect, Ranged, RangedAt, Ended, Position, Forth, Back, Restoring
  <2>5. RangedIn(x, t)
    BY <1>2, <1>3, <1>4, <2>e DEF UnlinkStageEffect, Ranged, RangedIn, Position, Forth, Back, Ended
  <2> QED
    BY <2>1, <2>2, <2>4, <2>5, StateOf DEF Ranged
<1>a15. CASE SyncItem(x)
  <2>e. SyncItemEffect(x)
    BY <1>a15, SyncItemDoes
  <2>1. Frame
    BY <1>1, <1>a15 DEF SyncItem, world, Fault, Mishap
  <2>2. Shape
    BY <1>1, <1>a15 DEF SyncItem, Becomes, CallStates, Flat
  <2>4. RangedAt(x, t)
    BY <1>1, <1>3, <2>e DEF SyncItemEffect, Ranged, RangedAt, Ended, Position, Forth, Back, Restoring
  <2>5. RangedIn(x, t)
    BY <1>2, <1>3, <1>4, <2>e DEF SyncItemEffect, Ranged, RangedIn, Position, Forth, Back, Ended
  <2> QED
    BY <2>1, <2>2, <2>4, <2>5, StateOf DEF Ranged
<1>a16. CASE DestinationChanged(x)
  <2>e. DestinationChangedEffect(x)
    BY <1>a16, DestinationChangedDoes
  <2>1. Frame
    BY <1>1, <1>a16 DEF DestinationChanged, world, Fault, Mishap
  <2>2. Shape
    BY <1>1, <1>a16 DEF DestinationChanged, Becomes, CallStates, Flat, Undo
  <2>4. RangedAt(x, t)
    BY <1>1, <1>3, <2>e DEF DestinationChangedEffect, Ranged, RangedAt, Ended, Position, Forth, Back, Restoring
  <2>5. RangedIn(x, t)
    BY <1>2, <1>3, <1>4, <2>e DEF DestinationChangedEffect, Ranged, RangedIn, Position, Forth, Back, Ended
  <2> QED
    BY <2>1, <2>2, <2>4, <2>5, StateOf DEF Ranged
<1>a17. CASE PromotionFails(x)
  <2>e. PromotionFailsEffect(x)
    BY <1>a17, PromotionFailsDoes
  <2>1. Frame
    BY <1>1, <1>a17 DEF PromotionFails, world, Fault, Mishap
  <2>2. Shape
    BY <1>1, <1>a17 DEF PromotionFails, Becomes, CallStates, Flat, Undo, Fault, Forth
  <2>4. RangedAt(x, t)
    BY <1>1, <1>3, <2>e DEF PromotionFailsEffect, Ranged, RangedAt, Ended, Position, Forth, Back, Restoring
  <2>5. RangedIn(x, t)
    BY <1>2, <1>3, <1>4, <2>e DEF PromotionFailsEffect, Ranged, RangedIn, Position, Forth, Back, Ended
  <2> QED
    BY <2>1, <2>2, <2>4, <2>5, StateOf DEF Ranged
<1>a18. CASE UndoItem(x)
  <2>e. UndoItemEffect(x)
    BY <1>a18, UndoItemDoes
  <2>1. Frame
    BY <1>1, <1>a18 DEF UndoItem, world, Fault, Mishap
  <2>2. Shape
    <3>1. s.pc = "undo" /\ s.at > 0 /\ file' = file /\ lock' = lock
      BY <1>1, <1>a18 DEF UndoItem, Moves, NextItem, GiveUp, Here, Item, world
    <3>2. \/ Becomes(x, [s EXCEPT !.pc = Restoring(x)])
          \/ Becomes(x, [s EXCEPT !.pc = "remove"])
          \/ Becomes(x, [s EXCEPT !.pc = Restoring(x)])
          \/ Becomes(x, [s EXCEPT !.recovery = TRUE, !.pc = "undo", !.at = @ - 1])
          \/ Becomes(x, [s EXCEPT !.recovery = TRUE, !.pc = Restoring(x)])
      BY <1>1, <1>2, <1>a18, <3>1 DEF UndoItem, CallStates, Position, Forth, Moves, NextItem, GiveUp, Here, Item, world
    <3>3. CASE Becomes(x, [s EXCEPT !.pc = Restoring(x)])
      BY <1>1, <3>3 DEF Becomes, CallStates, Flat
    <3>4. CASE Becomes(x, [s EXCEPT !.pc = "remove"])
      BY <1>1, <3>4 DEF Becomes, CallStates, Flat
    <3>5. CASE Becomes(x, [s EXCEPT !.pc = Restoring(x)])
      BY <1>1, <3>5 DEF Becomes, CallStates, Flat
    <3>6. CASE Becomes(x, [s EXCEPT !.recovery = TRUE, !.pc = "undo", !.at = @ - 1])
      BY <1>1, <3>6 DEF Becomes, CallStates, Flat
    <3>7. CASE Becomes(x, [s EXCEPT !.recovery = TRUE, !.pc = Restoring(x)])
      BY <1>1, <3>7 DEF Becomes, CallStates, Flat
    <3> QED
      BY <3>2, <3>3, <3>4, <3>5, <3>6, <3>7
  <2>4. RangedAt(x, t)
    BY <1>1, <1>3, <2>e DEF UndoItemEffect, Ranged, RangedAt, Ended, Position, Forth, Back, Restoring
  <2>5. RangedIn(x, t)
    BY <1>2, <1>3, <1>4, <2>e DEF UndoItemEffect, Ranged, RangedIn, Position, Forth, Back, Ended
  <2> QED
    BY <2>1, <2>2, <2>4, <2>5, StateOf DEF Ranged
<1>a19. CASE RemoveItem(x)
  <2>e. RemoveItemEffect(x)
    BY <1>a19, RemoveItemDoes
  <2>1. Frame
    BY <1>1, <1>a19 DEF RemoveItem, world, Fault, Mishap
  <2>2. Shape
    BY <1>1, <1>a19 DEF RemoveItem, Becomes, CallStates, Flat, Moves, Put
  <2>4. RangedAt(x, t)
    BY <1>1, <1>3, <2>e DEF RemoveItemEffect, Ranged, RangedAt, Ended, Position, Forth, Back, Restoring
  <2>5. RangedIn(x, t)
    BY <1>2, <1>3, <1>4, <2>e DEF RemoveItemEffect, Ranged, RangedIn, Position, Forth, Back, Ended
  <2> QED
    BY <2>1, <2>2, <2>4, <2>5, StateOf DEF Ranged
<1>a20. CASE LookForRestore(x)
  <2>e. LookForRestoreEffect(x)
    BY <1>a20, LookForRestoreDoes
  <2>1. Frame
    BY <1>1, <1>a20 DEF LookForRestore, world, Fault, Mishap
  <2>2. Shape
    <3>1. s.pc = "restore" /\ file' = file /\ lock' = lock
      BY <1>1, <1>a20 DEF LookForRestore, Moves, NextItem, GiveUp, Here, Item, world
    <3>2. \/ Becomes(x, [s EXCEPT !.pc = "rename"])
          \/ Becomes(x, [s EXCEPT !.recovery = TRUE, !.pc = "unstage"])
          \/ Becomes(x, [s EXCEPT !.recovery = TRUE, !.pc = "undo", !.at = @ - 1])
      BY <1>1, <1>2, <1>a20, <3>1 DEF LookForRestore, CallStates, Position, Forth, Moves, NextItem, GiveUp, Here, Item, world
    <3>3. CASE Becomes(x, [s EXCEPT !.pc = "rename"])
      BY <1>1, <3>3 DEF Becomes, CallStates, Flat
    <3>4. CASE Becomes(x, [s EXCEPT !.recovery = TRUE, !.pc = "unstage"])
      BY <1>1, <3>4 DEF Becomes, CallStates, Flat
    <3>5. CASE Becomes(x, [s EXCEPT !.recovery = TRUE, !.pc = "undo", !.at = @ - 1])
      BY <1>1, <3>5 DEF Becomes, CallStates, Flat
    <3> QED
      BY <3>2, <3>3, <3>4, <3>5
  <2>4. RangedAt(x, t)
    BY <1>1, <1>3, <2>e DEF LookForRestoreEffect, Ranged, RangedAt, Ended, Position, Forth, Back, Restoring
  <2>5. RangedIn(x, t)
    BY <1>2, <1>3, <1>4, <2>e DEF LookForRestoreEffect, Ranged, RangedIn, Position, Forth, Back, Ended
  <2> QED
    BY <2>1, <2>2, <2>4, <2>5, StateOf DEF Ranged
<1>a21. CASE RestoreItem(x)
  <2>e. RestoreItemEffect(x)
    BY <1>a21, RestoreItemDoes
  <2>1. Frame
    BY <1>1, <1>a21 DEF RestoreItem, world, Fault, Mishap
  <2>2. Shape
    BY <1>1, <1>a21 DEF RestoreItem, Becomes, CallStates, Flat, Put
  <2>4. RangedAt(x, t)
    BY <1>1, <1>3, <2>e DEF RestoreItemEffect, Ranged, RangedAt, Ended, Position, Forth, Back, Restoring
  <2>5. RangedIn(x, t)
    BY <1>2, <1>3, <1>4, <2>e DEF RestoreItemEffect, Ranged, RangedIn, Position, Forth, Back, Ended
  <2> QED
    BY <2>1, <2>2, <2>4, <2>5, StateOf DEF Ranged
<1>a22. CASE RemoveStage(x)
  <2>e. RemoveStageEffect(x)
    BY <1>a22, RemoveStageDoes
  <2>1. Frame
    BY <1>1, <1>a22 DEF RemoveStage, world, Fault, Mishap
  <2>2. Shape
    BY <1>1, <1>a22 DEF RemoveStage, Becomes, CallStates, Flat, NextItem, GiveUp
  <2>4. RangedAt(x, t)
    BY <1>1, <1>3, <2>e DEF RemoveStageEffect, Ranged, RangedAt, Ended, Position, Forth, Back, Restoring
  <2>3. t.stage \in [Items(x) -> {None, "part", "whole", "linked"}]
    BY <1>3, <2>e DEF RemoveStageEffect, Ranged, RangedIn
  <2>5. RangedIn(x, t)
    BY <1>3, <2>3, <2>e DEF RemoveStageEffect, Ranged, RangedIn
  <2> QED
    BY <2>1, <2>2, <2>4, <2>5, StateOf DEF Ranged
<1>a23. CASE UndoFails(x)
  <2>e. UndoFailsEffect(x)
    BY <1>a23, UndoFailsDoes
  <2>1. Frame
    BY <1>1, <1>a23 DEF UndoFails, world, Fault, Mishap
  <2>2. Shape
    <3>1. s.pc \in Back /\ s.at > 0 /\ file' = file /\ lock' = lock
      BY <1>1, <1>a23 DEF UndoFails, NextItem, GiveUp, Fault, Back, Here, Item
    <3>2. \/ Becomes(x, [s EXCEPT !.recovery = TRUE, !.pc = "undo", !.at = @ - 1])
          \/ Becomes(x, [s EXCEPT !.recovery = TRUE, !.stage[p] = None, !.pc = "undo", !.at = @ - 1])
      BY <1>1, <1>2, <1>a23, <3>1 DEF UndoFails, CallStates, Position, Forth, NextItem, GiveUp, Fault, Back, Here, Item
    <3>3. CASE Becomes(x, [s EXCEPT !.recovery = TRUE, !.pc = "undo", !.at = @ - 1])
      BY <1>1, <3>3 DEF Becomes, CallStates, Flat
    <3>4. CASE Becomes(x, [s EXCEPT !.recovery = TRUE, !.stage[p] = None, !.pc = "undo", !.at = @ - 1])
      BY <1>1, <3>4 DEF Becomes, CallStates, Flat
    <3> QED
      BY <3>2, <3>3, <3>4
  <2>4. RangedAt(x, t)
    BY <1>1, <1>3, <2>e DEF UndoFailsEffect, Ranged, RangedAt, Ended, Position, Forth, Back, Restoring
  <2>5. RangedIn(x, t)
    BY <1>2, <1>3, <1>4, <2>e DEF UndoFailsEffect, Ranged, RangedIn, Position, Forth, Back, Ended
  <2> QED
    BY <2>1, <2>2, <2>4, <2>5, StateOf DEF Ranged
<1>a24. CASE UndoJournal(x)
  <2>e. UndoJournalEffect(x)
    BY <1>a24, UndoJournalDoes
  <2>1. Frame
    BY <1>1, <1>a24 DEF UndoJournal, world, Fault, Mishap
  <2>2. Shape
    <3>1. s.pc = "undo" /\ s.at = 0 /\ file' = file /\ lock' = lock
      BY <1>1, <1>a24 DEF UndoJournal, JournalStays, GiveUp, world
    <3>2. \/ Becomes(x, [s EXCEPT !.recovery = TRUE, !.pc = "throw"])
          \/ Becomes(x, [s EXCEPT !.pc = "throw", !.journal = IF @ = "whole" THEN None ELSE @])
      BY <1>1, <1>2, <1>a24, <3>1 DEF UndoJournal, CallStates, Position, Forth, JournalStays, GiveUp, world
    <3>3. CASE Becomes(x, [s EXCEPT !.recovery = TRUE, !.pc = "throw"])
      BY <1>1, <3>3 DEF Becomes, CallStates, Flat
    <3>4. CASE Becomes(x, [s EXCEPT !.pc = "throw", !.journal = IF @ = "whole" THEN None ELSE @])
      BY <1>1, <3>4 DEF Becomes, CallStates, Flat
    <3> QED
      BY <3>2, <3>3, <3>4
  <2>4. RangedAt(x, t)
    BY <1>1, <1>3, <2>e DEF UndoJournalEffect, Ranged, RangedAt, Ended, Position, Forth, Back, Restoring
  <2>5. RangedIn(x, t)
    BY <1>2, <1>3, <1>4, <2>e DEF UndoJournalEffect, Ranged, RangedIn, Position, Forth, Back, Ended
  <2> QED
    BY <2>1, <2>2, <2>4, <2>5, StateOf DEF Ranged
<1>a25. CASE EndRollback(x)
  <2>e. EndRollbackEffect(x)
    BY <1>a25, EndRollbackDoes
  <2>1. Frame
    BY <1>1, <1>a25 DEF EndRollback, world, Fault, Mishap
  <2>2. Shape
    BY <1>1, <1>a25 DEF EndRollback, Becomes, CallStates, Flat, Ends
  <2>4. RangedAt(x, t)
    BY <1>1, <1>3, <2>e DEF EndRollbackEffect, Ranged, RangedAt, Ended, Position, Forth, Back, Restoring
  <2>5. RangedIn(x, t)
    BY <1>2, <1>3, <1>4, <2>e DEF EndRollbackEffect, Ranged, RangedIn, Position, Forth, Back, Ended
  <2> QED
    BY <2>1, <2>2, <2>4, <2>5, StateOf DEF Ranged
<1>a26. CASE CleanItem(x)
  <2>e. CleanItemEffect(x)
    BY <1>a26, CleanItemDoes
  <2>1. Frame
    BY <1>1, <1>a26 DEF CleanItem, world, Fault, Mishap
  <2>2. Shape
    BY <1>1, <1>a26 DEF CleanItem, Becomes, CallStates, Flat
  <2>4. RangedAt(x, t)
    BY <1>1, <1>3, <2>e DEF CleanItemEffect, Ranged, RangedAt, Ended, Position, Forth, Back, Restoring
  <2>5. RangedIn(x, t)
    BY <1>2, <1>3, <1>4, <2>e DEF CleanItemEffect, Ranged, RangedIn, Position, Forth, Back, Ended
  <2> QED
    BY <2>1, <2>2, <2>4, <2>5, StateOf DEF Ranged
<1>a27. CASE CleaningFails(x)
  <2>e. CleaningFailsEffect(x)
    BY <1>a27, CleaningFailsDoes
  <2>1. Frame
    BY <1>1, <1>a27 DEF CleaningFails, world, Fault, Mishap
  <2>2. Shape
    BY <1>1, <1>a27 DEF CleaningFails, Becomes, CallStates, Flat, GiveUp, Fault
  <2>4. RangedAt(x, t)
    BY <1>1, <1>3, <2>e DEF CleaningFailsEffect, Ranged, RangedAt, Ended, Position, Forth, Back, Restoring
  <2>5. RangedIn(x, t)
    BY <1>2, <1>3, <1>4, <2>e DEF CleaningFailsEffect, Ranged, RangedIn, Position, Forth, Back, Ended
  <2> QED
    BY <2>1, <2>2, <2>4, <2>5, StateOf DEF Ranged
<1>a28. CASE CleanJournal(x)
  <2>e. CleanJournalEffect(x)
    BY <1>a28, CleanJournalDoes
  <2>1. Frame
    BY <1>1, <1>a28 DEF CleanJournal, world, Fault, Mishap
  <2>2. Shape
    BY <1>1, <1>a28 DEF CleanJournal, Becomes, CallStates, Flat
  <2>4. RangedAt(x, t)
    BY <1>1, <1>3, <2>e DEF CleanJournalEffect, Ranged, RangedAt, Ended, Position, Forth, Back, Restoring
  <2>5. RangedIn(x, t)
    BY <1>2, <1>3, <1>4, <2>e DEF CleanJournalEffect, Ranged, RangedIn, Position, Forth, Back, Ended
  <2> QED
    BY <2>1, <2>2, <2>4, <2>5, StateOf DEF Ranged
<1>a29. CASE EndPublication(x)
  <2>e. EndPublicationEffect(x)
    BY <1>a29, EndPublicationDoes
  <2>1. Frame
    BY <1>1, <1>a29 DEF EndPublication, world, Fault, Mishap
  <2>2. Shape
    BY <1>1, <1>a29 DEF EndPublication, Becomes, CallStates, Flat, Ends
  <2>4. RangedAt(x, t)
    BY <1>1, <1>3, <2>e DEF EndPublicationEffect, Ranged, RangedAt, Ended, Position, Forth, Back, Restoring
  <2>5. RangedIn(x, t)
    BY <1>2, <1>3, <1>4, <2>e DEF EndPublicationEffect, Ranged, RangedIn, Position, Forth, Back, Ended
  <2> QED
    BY <2>1, <2>2, <2>4, <2>5, StateOf DEF Ranged
<1>a30. CASE JournalRemovalFails(x)
  <2>e. JournalRemovalFailsEffect(x)
    BY <1>a30, JournalRemovalFailsDoes
  <2>1. Frame
    BY <1>1, <1>a30 DEF JournalRemovalFails, world, Fault, Mishap
  <2>2. Shape
    BY <1>1, <1>a30 DEF JournalRemovalFails, Becomes, CallStates, Flat, JournalStays, Fault
  <2>4. RangedAt(x, t)
    BY <1>1, <1>3, <2>e DEF JournalRemovalFailsEffect, Ranged, RangedAt, Ended, Position, Forth, Back, Restoring
  <2>5. RangedIn(x, t)
    BY <1>2, <1>3, <1>4, <2>e DEF JournalRemovalFailsEffect, Ranged, RangedIn, Position, Forth, Back, Ended
  <2> QED
    BY <2>1, <2>2, <2>4, <2>5, StateOf DEF Ranged
<1>a31. CASE UnlockFails(x)
  <2>e. UnlockFailsEffect(x)
    BY <1>a31, UnlockFailsDoes
  <2>1. Frame
    BY <1>1, <1>a31 DEF UnlockFails, world, Fault, Mishap
  <2>2. Shape
    BY <1>1, <1>a31 DEF UnlockFails, Becomes, CallStates, Flat, Fault
  <2>4. RangedAt(x, t)
    BY <1>1, <1>3, <2>e DEF UnlockFailsEffect, Ranged, RangedAt, Ended, Position, Forth, Back, Restoring
  <2>5. RangedIn(x, t)
    BY <1>2, <1>3, <1>4, <2>e DEF UnlockFailsEffect, Ranged, RangedIn, Position, Forth, Back, Ended
  <2> QED
    BY <2>1, <2>2, <2>4, <2>5, StateOf DEF Ranged
<1> QED
  BY <1>a1, <1>a2, <1>a3, <1>a4, <1>a5, <1>a6, <1>a7, <1>a8, <1>a9, <1>a10, <1>a11,
     <1>a12, <1>a13, <1>a14, <1>a15, <1>a16, <1>a17, <1>a18, <1>a19, <1>a20, <1>a21, <1>a22,
     <1>a23, <1>a24, <1>a25, <1>a26, <1>a27, <1>a28, <1>a29, <1>a30, <1>a31
  DEF CallSteps

-----------------------------------------------------------------------------
(* Each step of a call keeps what is known of its items and of its place.   *)

\* Before the journal is written nothing has been moved.
LEMMA NothingYet ==
    ASSUME TypeOK, NEW x \in Calls, tx[x].pc \in {"stage", "journal"},
           \A k \in 1..Last(x) : ItemAhead(x, k)
    PROVE  NothingMoved(x)
<1>1. \A k \in 1..Last(x) : Untouched(x, Item(x, k))
  BY DEF ItemAhead
<1>2. \A p \in Items(x) : tx[x].backup[p] = None /\ p \notin tx[x].promoted \cup tx[x].backedUp \cup tx[x].forgotten
  BY <1>1, Ordered DEF Untouched
<1>3. Ranged(x, tx[x])
  BY CallPlace, StateOf
<1> QED
  BY <1>2, <1>3 DEF NothingMoved, Ranged, RangedIn

\* Where item k lies, and that a step moves only the item it is at.
LEMMA Among ==
    ASSUME TypeOK, NEW x \in Calls, NEW k \in 1..Last(x), kind' = kind
    PROVE  /\ Item(x, k)' = Item(x, k) /\ Item(x, k) \in Items(x) /\ Item(x, k) \in Places
           /\ tx[x].at \in 1..Last(x) => Item(x, tx[x].at) \in Items(x)
           /\ tx[x].at \in 1..Last(x) => (Item(x, k) = Item(x, tx[x].at) <=> k = tx[x].at)
           /\ Rasters' = Rasters /\ Last(x)' = Last(x) /\ Last(x) \in {2, 3}
           /\ tx[x].at \in 0..4 /\ tx[x].staged \in 0..3
           /\ file \in [Places -> Contents] /\ x \notin {None, "foreign"} /\ None \notin {"foreign", "part", "whole", "linked"}
           /\ tx[x].stage \in [Items(x) -> {None, "part", "whole", "linked"}] /\ tx[x].backup \in [Items(x) -> Contents]
           /\ (x \in Consumers <=> x \notin Rasters) /\ Here(x) = Item(x, tx[x].at)
<1>1. Ranged(x, tx[x])
  BY CallPlace, StateOf
<1>2. Here(x) = Item(x, tx[x].at)
  BY DEF Here, Item
<1> QED
  BY <1>1, <1>2, Ordered, ItemsStay, KindStays, CallPlace DEF Ranged, RangedAt, RangedIn

\* A step that leaves an item's file and records alone keeps what is known of it.
LEMMA StillSo ==
    ASSUME NEW x, NEW p, Steady, tx'[x].seen[p] = tx[x].seen[p],
           tx'[x].backup[p] = tx[x].backup[p], p \in tx'[x].backedUp <=> p \in tx[x].backedUp
    PROVE  /\ (SavedExactly(x, p) => SavedExactly(x, p)') /\ (Saved(x, p) => Saved(x, p)')
           /\ HasBackup(x, p) => HasBackup(x, p)'
           /\ file'[p] = file[p] =>
                 /\ (AsSeenAt(x, p) => AsSeenAt(x, p)') /\ (Absent(p) => Absent(p)')
                 /\ (Mine(x, p) => Mine(x, p)') /\ (Kept(x, p) => Kept(x, p)')
<1>1. (p \in late => p \in late') /\ (Excused(p) => Excused(p)')
  BY DEF Steady, Excused
<1>2. (SavedExactly(x, p) => SavedExactly(x, p)') /\ (Saved(x, p) => Saved(x, p)')
  BY <1>1 DEF SavedExactly, Saved
<1>3. HasBackup(x, p) => HasBackup(x, p)'
  BY DEF HasBackup
<1> SUFFICES ASSUME file'[p] = file[p]
             PROVE  /\ (AsSeenAt(x, p) => AsSeenAt(x, p)') /\ (Absent(p) => Absent(p)')
                    /\ (Mine(x, p) => Mine(x, p)') /\ (Kept(x, p) => Kept(x, p)')
  BY <1>2, <1>3
<1>4. AsSeenAt(x, p) => AsSeenAt(x, p)'
  BY <1>1 DEF AsSeenAt
<1>5. (Absent(p) => Absent(p)') /\ (Mine(x, p) => Mine(x, p)')
  BY <1>1 DEF Absent, Mine
<1>6. Kept(x, p) => Kept(x, p)'
  BY <1>1 DEF Kept
<1> QED
  BY <1>4, <1>5, <1>6

\* What was backed up exactly was backed up.
LEMMA ExactlyIsSaved ==
    ASSUME NEW x, NEW p, SavedExactly(x, p)
    PROVE  Saved(x, p)
BY DEF SavedExactly, Saved, Excused

\* An item that was not touched.
LEMMA UntouchedTells ==
    ASSUME NEW x, NEW p, Untouched(x, p)
    PROVE  /\ Saved(x, p) /\ AsSeenAt(x, p) /\ tx[x].backup[p] = None
           /\ p \notin tx[x].promoted /\ p \notin tx[x].backedUp /\ p \notin tx[x].forgotten
BY DEF Untouched, Saved

\* PlanCall: the plan takes what lies there as one writer's.
LEMMA PlanCallKeeps ==
    ASSUME TypeOK, NEW x \in Calls, CallInv(x), PlanCallEffect(x), Steady
    PROVE  CallInv(x)'
<1>1. ASSUME NEW k \in 1..Last(x) PROVE ItemTold(x, k)'
  <2>1. ItemTold(x, k) /\ Position(x)
    BY <1>1 DEF CallInv
  <2>2. ItemAhead(x, k)' /\ ItemInPlace(x, k)' /\ ItemToUndo(x, k)' /\ ItemUndoing(x, k)' /\ ItemUndone(x, k)' /\ ItemDone(x, k)' /\ ItemKept(x, k)'
    BY <2>1 DEF PlanCallEffect, Forth, Back, Restoring, ItemAhead, ItemInPlace, ItemToUndo, ItemUndoing, ItemUndone, ItemDone, ItemKept
  <2> QED
    BY <2>2 DEF ItemTold
<1>3. Position(x)'
  BY CallPlace, Ordered, KindStays, ItemsStay
     DEF PlanCallEffect, Steady, CallInv, Position, Looking, Forth, Back, Restoring, NoSideFiles, NothingMoved
<1> QED
  BY <1>1, <1>3, ItemsStay DEF CallInv, Steady

\* LookEarly: the export looks before the lock.
LEMMA LookEarlyKeeps ==
    ASSUME TypeOK, NEW x \in Calls, CallInv(x), LookEarlyEffect(x), Steady
    PROVE  CallInv(x)'
<1>1. ASSUME NEW k \in 1..Last(x) PROVE ItemTold(x, k)'
  <2>1. ItemTold(x, k) /\ Position(x)
    BY <1>1 DEF CallInv
  <2>2. ItemAhead(x, k)' /\ ItemInPlace(x, k)' /\ ItemToUndo(x, k)' /\ ItemUndoing(x, k)' /\ ItemUndone(x, k)' /\ ItemDone(x, k)' /\ ItemKept(x, k)'
    BY <2>1 DEF LookEarlyEffect, Forth, Back, Restoring, ItemAhead, ItemInPlace, ItemToUndo, ItemUndoing, ItemUndone, ItemDone, ItemKept
  <2> QED
    BY <2>2 DEF ItemTold
<1>3. Position(x)'
  BY CallPlace, Ordered, KindStays, ItemsStay
     DEF LookEarlyEffect, Steady, CallInv, Position, Looking, Forth, Back, Restoring, NoSideFiles, NothingMoved
<1> QED
  BY <1>1, <1>3, ItemsStay DEF CallInv, Steady

\* LockProject: the lock is taken, or somebody has it.
LEMMA LockProjectKeeps ==
    ASSUME TypeOK, NEW x \in Calls, CallInv(x), LockProjectEffect(x), Steady
    PROVE  CallInv(x)'
<1>1. ASSUME NEW k \in 1..Last(x) PROVE ItemTold(x, k)'
  <2>1. ItemTold(x, k) /\ Position(x)
    BY <1>1 DEF CallInv
  <2>2. ItemAhead(x, k)' /\ ItemInPlace(x, k)' /\ ItemToUndo(x, k)' /\ ItemUndoing(x, k)' /\ ItemUndone(x, k)' /\ ItemDone(x, k)' /\ ItemKept(x, k)'
    BY <2>1 DEF LockProjectEffect, Forth, Back, Restoring, ItemAhead, ItemInPlace, ItemToUndo, ItemUndoing, ItemUndone, ItemDone, ItemKept
  <2> QED
    BY <2>2 DEF ItemTold
<1>3. Position(x)'
  BY CallPlace, Ordered, KindStays, ItemsStay
     DEF LockProjectEffect, Steady, CallInv, Position, Looking, Forth, Back, Restoring, NoSideFiles, NothingMoved
<1> QED
  BY <1>1, <1>3, ItemsStay DEF CallInv, Steady

\* CheckResidue: nobody starts over the residue of another.
LEMMA CheckResidueKeeps ==
    ASSUME TypeOK, NEW x \in Calls, CallInv(x), CheckResidueEffect(x), Steady
    PROVE  CallInv(x)'
<1>1. ASSUME NEW k \in 1..Last(x) PROVE ItemTold(x, k)'
  <2>1. ItemTold(x, k) /\ Position(x)
    BY <1>1 DEF CallInv
  <2>2. ItemAhead(x, k)' /\ ItemInPlace(x, k)' /\ ItemToUndo(x, k)' /\ ItemUndoing(x, k)' /\ ItemUndone(x, k)' /\ ItemDone(x, k)' /\ ItemKept(x, k)'
    BY <2>1 DEF CheckResidueEffect, Forth, Back, Restoring, ItemAhead, ItemInPlace, ItemToUndo, ItemUndoing, ItemUndone, ItemDone, ItemKept
  <2> QED
    BY <2>2 DEF ItemTold
<1>3. Position(x)'
  BY KindStays DEF CheckResidueEffect, Steady, CallInv, Position, Looking,
     Forth, Back, NoSideFiles
<1> QED
  BY <1>1, <1>3, ItemsStay DEF CallInv, Steady

\* LookBehindLock: behind the lock everything is as planned.
LEMMA LookBehindLockKeeps ==
    ASSUME TypeOK, NEW x \in Calls, CallInv(x), LookBehindLockEffect(x), Steady
    PROVE  CallInv(x)'
<1>1. ASSUME NEW k \in 1..Last(x) PROVE ItemTold(x, k)'
  <2>1. ItemTold(x, k) /\ Position(x)
    BY <1>1 DEF CallInv
  <2>2. ItemAhead(x, k)'
    BY <2>1, Among DEF LookBehindLockEffect, Steady, Position, ItemAhead,
       Forth, Untouched, AsSeenAt, NoSideFiles, Looking
  <2>3. ItemInPlace(x, k)' /\ ItemToUndo(x, k)' /\ ItemUndoing(x, k)' /\ ItemUndone(x, k)' /\ ItemDone(x, k)' /\ ItemKept(x, k)'
    BY <2>1 DEF LookBehindLockEffect, Forth, Back, Restoring, ItemInPlace, ItemToUndo, ItemUndoing, ItemUndone, ItemDone, ItemKept
  <2> QED
    BY <2>2, <2>3 DEF ItemTold
<1>3. Position(x)'
  BY CallPlace, Ordered, KindStays, ItemsStay
     DEF LookBehindLockEffect, Steady, CallInv, Position, Looking, Forth, Back, Restoring, NoSideFiles, NothingMoved
<1> QED
  BY <1>1, <1>3, ItemsStay DEF CallInv, Steady

\* LookFails: a look fails.
LEMMA LookFailsKeeps ==
    ASSUME TypeOK, NEW x \in Calls, CallInv(x), LookFailsEffect(x), Steady
    PROVE  CallInv(x)'
<1>1. ASSUME NEW k \in 1..Last(x) PROVE ItemTold(x, k)'
  <2>1. ItemTold(x, k) /\ Position(x)
    BY <1>1 DEF CallInv
  <2>2. ItemAhead(x, k)' /\ ItemInPlace(x, k)' /\ ItemToUndo(x, k)' /\ ItemUndoing(x, k)' /\ ItemUndone(x, k)' /\ ItemDone(x, k)' /\ ItemKept(x, k)'
    BY <2>1 DEF LookFailsEffect, Forth, Back, Restoring, ItemAhead, ItemInPlace, ItemToUndo, ItemUndoing, ItemUndone, ItemDone, ItemKept
  <2> QED
    BY <2>2 DEF ItemTold
<1>3. Position(x)'
  BY CallPlace, Ordered, KindStays, ItemsStay
     DEF LookFailsEffect, Steady, CallInv, Position, Looking, Forth, Back, Restoring, NoSideFiles, NothingMoved
<1> QED
  BY <1>1, <1>3, ItemsStay DEF CallInv, Steady

\* StageItem: the item is staged.
LEMMA StageItemKeeps ==
    ASSUME TypeOK, NEW x \in Calls, CallInv(x), StageItemEffect(x), Steady
    PROVE  CallInv(x)'
<1>1. ASSUME NEW k \in 1..Last(x) PROVE ItemTold(x, k)'
  <2>1. ItemTold(x, k) /\ Position(x)
    BY <1>1 DEF CallInv
  <2>2. ItemAhead(x, k)'
    BY <1>1, <2>1, Among DEF StageItemEffect, Steady, Position, ItemTold, ItemAhead,
       Forth, Back, Restoring, Untouched, SavedExactly, Saved, HasBackup, AsSeenAt, Absent, Mine, Forgone, Linked, Kept, Excused
  <2>3. ItemInPlace(x, k)' /\ ItemToUndo(x, k)' /\ ItemUndoing(x, k)' /\ ItemUndone(x, k)' /\ ItemDone(x, k)' /\ ItemKept(x, k)'
    BY <2>1 DEF StageItemEffect, Forth, Back, Restoring, ItemInPlace, ItemToUndo, ItemUndoing, ItemUndone, ItemDone, ItemKept
  <2> QED
    BY <2>2, <2>3 DEF ItemTold
<1>3. Position(x)'
  BY CallPlace, Ordered, KindStays, ItemsStay
     DEF StageItemEffect, Steady, CallInv, Position, Looking, Forth, Back, Restoring, NoSideFiles, NothingMoved
<1> QED
  BY <1>1, <1>3, ItemsStay DEF CallInv, Steady

\* StagingFails: what was staged is undone, what was not yet listed stays.
LEMMA StagingFailsKeeps ==
    ASSUME TypeOK, NEW x \in Calls, CallInv(x), StagingFailsEffect(x), Steady
    PROVE  CallInv(x)'
<1>1. ASSUME NEW k \in 1..Last(x) PROVE ItemTold(x, k)'
  <2>1. ItemTold(x, k) /\ Position(x)
    BY <1>1 DEF CallInv
  <2>2. ItemToUndo(x, k)'
    BY <1>1, <2>1, Among DEF StagingFailsEffect, Steady, Position, ItemTold, ItemToUndo, ItemAhead,
       Forth, Back, Restoring, Untouched, SavedExactly, Saved, HasBackup, AsSeenAt, Absent, Mine, Forgone, Linked, Kept, Excused
  <2>3. ItemUndoing(x, k)'
    BY <1>1, <2>1, Among DEF StagingFailsEffect, Steady, Position, ItemTold, ItemUndoing, ItemAhead,
       Forth, Back, Restoring, Untouched, SavedExactly, Saved, HasBackup, AsSeenAt, Absent, Mine, Forgone, Linked, Kept, Excused
  <2>4. ItemUndone(x, k)'
    BY <2>1, Among DEF StagingFailsEffect, Steady, Position, ItemTold,
       ItemUndone, ItemAhead, Untouched, Saved, AsSeenAt, Excused
  <2>5. ItemKept(x, k)'
    BY <2>1, Among DEF StagingFailsEffect, Steady, ItemTold, ItemKept,
       ItemAhead, Untouched, AsSeenAt, Kept, Excused
  <2>6. ItemAhead(x, k)' /\ ItemInPlace(x, k)' /\ ItemDone(x, k)'
    BY <2>1 DEF StagingFailsEffect, Forth, Back, Restoring, ItemAhead, ItemInPlace, ItemDone
  <2> QED
    BY <2>2, <2>3, <2>4, <2>5, <2>6 DEF ItemTold
<1>2. NothingMoved(x)
  BY NothingYet DEF CallInv, ItemTold, StagingFailsEffect
<1>3. Position(x)'
  BY <1>2, Ordered, KindStays, ItemsStay DEF StagingFailsEffect, Steady,
     CallInv, Position, Looking, Forth, NothingMoved
<1> QED
  BY <1>1, <1>3, ItemsStay DEF CallInv, Steady

\* WriteJournal: the journal is written.
LEMMA WriteJournalKeeps ==
    ASSUME TypeOK, NEW x \in Calls, CallInv(x), WriteJournalEffect(x), Steady
    PROVE  CallInv(x)'
<1>1. ASSUME NEW k \in 1..Last(x) PROVE ItemTold(x, k)'
  <2>1. ItemTold(x, k) /\ Position(x)
    BY <1>1 DEF CallInv
  <2>2. ItemAhead(x, k)'
    BY <1>1, <2>1, Among DEF WriteJournalEffect, Steady, Position, ItemTold, ItemAhead,
       Forth, Back, Restoring, Untouched, SavedExactly, Saved, HasBackup, AsSeenAt, Absent, Mine, Forgone, Linked, Kept, Excused
  <2>3. ItemInPlace(x, k)'
    BY Among DEF WriteJournalEffect, ItemInPlace
  <2>4. ItemKept(x, k)'
    BY <1>1, <2>1, Among DEF WriteJournalEffect, Steady, Position, ItemTold, ItemKept, ItemAhead,
       Forth, Back, Restoring, Untouched, SavedExactly, Saved, HasBackup, AsSeenAt, Absent, Mine, Forgone, Linked, Kept, Excused
  <2>5. ItemToUndo(x, k)' /\ ItemUndoing(x, k)' /\ ItemUndone(x, k)' /\ ItemDone(x, k)'
    BY <2>1 DEF WriteJournalEffect, Forth, Back, Restoring, ItemToUndo, ItemUndoing, ItemUndone, ItemDone
  <2> QED
    BY <2>2, <2>3, <2>4, <2>5 DEF ItemTold
<1>3. Position(x)'
  BY CallPlace, Ordered, KindStays, ItemsStay
     DEF WriteJournalEffect, Steady, CallInv, Position, Looking, Forth, Back, Restoring, NoSideFiles, NothingMoved
<1> QED
  BY <1>1, <1>3, ItemsStay DEF CallInv, Steady

\* JournalFails: the journal fails, in part or whole.
LEMMA JournalFailsKeeps ==
    ASSUME TypeOK, NEW x \in Calls, CallInv(x), JournalFailsEffect(x), Steady
    PROVE  CallInv(x)'
<1>1. ASSUME NEW k \in 1..Last(x) PROVE ItemTold(x, k)'
  <2>1. ItemTold(x, k) /\ Position(x)
    BY <1>1 DEF CallInv
  <2>2. ItemToUndo(x, k)'
    BY <1>1, <2>1, Among DEF JournalFailsEffect, Steady, Position, ItemTold, ItemToUndo, ItemAhead,
       Forth, Back, Restoring, Untouched, SavedExactly, Saved, HasBackup, AsSeenAt, Absent, Mine, Forgone, Linked, Kept, Excused
  <2>3. ItemUndoing(x, k)'
    BY <1>1, <2>1, Among DEF JournalFailsEffect, Steady, Position, ItemTold, ItemUndoing, ItemAhead,
       Forth, Back, Restoring, Untouched, SavedExactly, Saved, HasBackup, AsSeenAt, Absent, Mine, Forgone, Linked, Kept, Excused
  <2>4. ItemUndone(x, k)'
    BY <1>1, <2>1, Among DEF JournalFailsEffect, Steady, Position, ItemTold, ItemUndone, ItemAhead,
       Forth, Back, Restoring, Untouched, SavedExactly, Saved, HasBackup, AsSeenAt, Absent, Mine, Forgone, Linked, Kept, Excused
  <2>5. ItemKept(x, k)'
    BY <1>1, <2>1, Among DEF JournalFailsEffect, Steady, Position, ItemTold, ItemKept, ItemAhead,
       Forth, Back, Restoring, Untouched, SavedExactly, Saved, HasBackup, AsSeenAt, Absent, Mine, Forgone, Linked, Kept, Excused
  <2>6. ItemAhead(x, k)' /\ ItemInPlace(x, k)' /\ ItemDone(x, k)'
    BY <2>1 DEF JournalFailsEffect, Forth, Back, Restoring, ItemAhead, ItemInPlace, ItemDone
  <2> QED
    BY <2>2, <2>3, <2>4, <2>5, <2>6 DEF ItemTold
<1>2. NothingMoved(x)
  BY NothingYet DEF CallInv, ItemTold, JournalFailsEffect
<1>3. Position(x)'
  BY <1>2, CallPlace, Ordered, KindStays, ItemsStay
     DEF JournalFailsEffect, Steady, CallInv, Position, Looking, Forth, Back, Restoring, NoSideFiles, NothingMoved
<1> QED
  BY <1>1, <1>3, ItemsStay DEF CallInv, Steady

\* VerifyItem: the item is looked at before it is moved.
LEMMA VerifyItemKeeps ==
    ASSUME TypeOK, NEW x \in Calls, CallInv(x), VerifyItemEffect(x), Steady
    PROVE  CallInv(x)'
<1>1. ASSUME NEW k \in 1..Last(x) PROVE ItemTold(x, k)'
  <2>1. ItemTold(x, k) /\ Position(x)
    BY <1>1 DEF CallInv
  <2>2. ItemAhead(x, k)'
    BY <2>1, Among DEF VerifyItemEffect, Steady, ItemTold, ItemAhead,
       Forth, Untouched, AsSeenAt, Excused
  <2>3. ItemInPlace(x, k)'
    BY <2>1, Among DEF VerifyItemEffect, Steady, ItemTold, ItemInPlace,
       ItemAhead, Forth, Untouched, SavedExactly, HasBackup, Absent, Mine, Excused
  <2>4. ItemToUndo(x, k)'
    BY <2>1, Among DEF VerifyItemEffect, Steady, ItemTold, ItemToUndo,
       ItemAhead, ItemInPlace, Forth, Untouched, SavedExactly, Saved, HasBackup,
       AsSeenAt, Mine, Excused
  <2>5. ItemUndoing(x, k)'
    BY <1>1, <2>1, Among DEF VerifyItemEffect, Steady, Position, ItemTold, ItemUndoing, ItemAhead, ItemInPlace, ItemKept,
       Forth, Back, Restoring, Untouched, SavedExactly, Saved, HasBackup, AsSeenAt, Absent, Mine, Forgone, Linked, Kept, Excused
  <2>6. ItemUndone(x, k)'
    BY <2>1, Among DEF VerifyItemEffect, Steady, Position, ItemUndone,
       Forth, Back
  <2>7. ItemKept(x, k)'
    BY <1>1, <2>1, Among DEF VerifyItemEffect, Steady, Position, ItemTold, ItemKept, ItemAhead, ItemInPlace,
       Forth, Back, Restoring, Untouched, SavedExactly, Saved, HasBackup, AsSeenAt, Absent, Mine, Forgone, Linked, Kept, Excused
  <2>8. ItemDone(x, k)'
    BY <2>1 DEF VerifyItemEffect, Forth, Back, Restoring, ItemDone
  <2> QED
    BY <2>2, <2>3, <2>4, <2>5, <2>6, <2>7, <2>8 DEF ItemTold
<1>3. Position(x)'
  BY Ordered, KindStays, ItemsStay DEF VerifyItemEffect, Steady, CallInv,
     Position, Looking, Forth
<1> QED
  BY <1>1, <1>3, ItemsStay DEF CallInv, Steady

\* BackUpItem: the old file is moved aside.
LEMMA BackUpItemKeeps ==
    ASSUME TypeOK, NEW x \in Calls, CallInv(x), BackUpItemEffect(x), Steady
    PROVE  CallInv(x)'
<1>1. ASSUME NEW k \in 1..Last(x) PROVE ItemTold(x, k)'
  <2>1. ItemTold(x, k) /\ Position(x)
    BY <1>1 DEF CallInv
  <2> DEFINE p == Item(x, k)
  <2>a. /\ tx[x].pc = "backup" /\ tx[x].at \in 1..Last(x) /\ tx'[x].seen = tx[x].seen
        /\ tx'[x].stage = tx[x].stage /\ tx'[x].promoted = tx[x].promoted /\ tx'[x].forgotten = tx[x].forgotten
        /\ file' = [file EXCEPT ![Item(x, tx[x].at)] = None]
        /\ tx'[x].backup = [tx[x].backup EXCEPT ![Item(x, tx[x].at)] = file[Item(x, tx[x].at)]]
        /\ tx'[x].backedUp = tx[x].backedUp \cup {Item(x, tx[x].at)}
        /\ \/ tx'[x].pc = "link" /\ tx'[x].at = tx[x].at
              /\ (x \in Consumers => file[Item(x, tx[x].at)] = tx[x].seen[Item(x, tx[x].at)])
           \/ tx'[x].pc = "undo" /\ x \in Consumers
    BY <2>1 DEF BackUpItemEffect, Position, Forth
  <2>b. /\ p' = p /\ p \in Items(x) /\ p \in Places /\ (p = Item(x, tx[x].at) <=> k = tx[x].at)
        /\ file \in [Places -> Contents] /\ tx[x].backup \in [Items(x) -> Contents]
        /\ (x \in Consumers <=> x \notin Rasters) /\ k \in Nat /\ tx[x].at \in Nat
    BY <1>1, <2>a, Among DEF Steady
  <2>c. ASSUME k # tx[x].at
        PROVE  /\ file'[p] = file[p] /\ tx'[x].backup[p] = tx[x].backup[p]
               /\ p \in tx'[x].backedUp <=> p \in tx[x].backedUp
    BY <2>a, <2>b, <2>c
  <2>d. ASSUME k # tx[x].at
        PROVE  /\ (SavedExactly(x, p) => SavedExactly(x, p)') /\ (Saved(x, p) => Saved(x, p)')
               /\ (HasBackup(x, p) => HasBackup(x, p)') /\ (AsSeenAt(x, p) => AsSeenAt(x, p)')
               /\ (Mine(x, p) => Mine(x, p)') /\ (Kept(x, p) => Kept(x, p)')
    BY <2>a, <2>b, <2>c, <2>d, StillSo
  <2>e. k > tx[x].at => Untouched(x, p)
    BY <2>1, <2>a DEF ItemTold, ItemAhead, Forth
  <2>f. k < tx[x].at => /\ p \in tx[x].promoted /\ p \notin tx[x].forgotten /\ tx[x].stage[p] = None
                        /\ SavedExactly(x, p) /\ HasBackup(x, p) /\ Mine(x, p)
    BY <2>1, <2>a DEF ItemTold, ItemInPlace, Forth
  <2>g. ASSUME k = tx[x].at
        PROVE  /\ Untouched(x, p) /\ tx[x].seen[p] # None
               /\ x \in Rasters => file[p] = tx[x].seen[p] \/ p \in late
               /\ file'[p] = None /\ tx'[x].backup[p] = file[p] /\ p \in tx'[x].backedUp
    <3>1. /\ Untouched(x, p) /\ tx[x].seen[p] # None
          /\ x \in Rasters => file[p] = tx[x].seen[p] \/ p \in late
      BY <2>1, <2>a, <2>g DEF ItemTold, ItemAhead
    <3> QED
      BY <2>a, <2>b, <2>g, <3>1
  <2>2. ItemAhead(x, k)'
    <3>1. k > tx[x].at => Untouched(x, p)'
      BY <2>a, <2>b, <2>c, <2>d, <2>e DEF Untouched
    <3> QED
      BY <2>a, <2>b, <3>1 DEF ItemAhead, Forth
  <2>3. ItemInPlace(x, k)'
    <3>1. CASE tx'[x].pc = "undo"
      BY <3>1 DEF ItemInPlace, Forth
    <3>2. CASE tx'[x].pc = "link" /\ k = tx[x].at
      <4>1. file[p] = tx[x].seen[p] \/ p \in late
        BY <2>a, <2>b, <2>g, <3>2
      <4>2. SavedExactly(x, p)' /\ HasBackup(x, p)' /\ Absent(p)'
        BY <2>a, <2>b, <2>g, <3>2, <4>1 DEF SavedExactly, HasBackup, Absent, Steady
      <4>3. p \notin tx[x].promoted /\ p \notin tx[x].forgotten
        BY <2>g, <3>2, UntouchedTells
      <4> QED
        BY <2>a, <2>b, <3>2, <4>2, <4>3 DEF ItemInPlace
    <3>3. CASE tx'[x].pc = "link" /\ k # tx[x].at
      BY <2>a, <2>b, <2>d, <2>f, <3>3 DEF ItemInPlace
    <3> QED
      BY <2>a, <3>1, <3>2, <3>3
  <2>4. ItemToUndo(x, k)'
    <3>1. CASE k = tx[x].at
      <4>1. Saved(x, p)' /\ Absent(p)'
        BY <2>a, <2>b, <2>g, <3>1 DEF Untouched, AsSeenAt, Saved, Absent, Excused, Steady
      <4> QED
        BY <2>a, <2>b, <2>g, <3>1, <4>1, UntouchedTells DEF ItemToUndo
    <3>2. CASE k < tx[x].at
      BY <2>a, <2>b, <2>d, <2>f, <3>2, ExactlyIsSaved DEF ItemToUndo
    <3>3. CASE k > tx[x].at
      BY <2>a, <2>b, <2>c, <2>d, <2>e, <3>3, UntouchedTells DEF ItemToUndo
    <3> QED
      BY <2>b, <3>1, <3>2, <3>3
  <2>5. ItemUndoing(x, k)'
    BY <1>1, <2>1, Among DEF BackUpItemEffect, Steady, Position, ItemTold, ItemUndoing, ItemAhead, ItemInPlace, ItemKept,
       Forth, Back, Restoring, Untouched, SavedExactly, Saved, HasBackup, AsSeenAt, Absent, Mine, Forgone, Linked, Kept, Excused
  <2>6. ItemUndone(x, k)'
    BY <2>1, Among DEF BackUpItemEffect, Steady, Position, ItemUndone,
       Forth, Back
  <2>7. ItemKept(x, k)'
    <3>1. CASE k = tx[x].at
      BY <2>a, <2>b, <2>g, <3>1 DEF Untouched, AsSeenAt, ItemKept, Kept, Excused, Steady
    <3>2. CASE k # tx[x].at
      BY <2>1, <2>a, <2>b, <2>d, <3>2 DEF ItemTold, ItemKept, Forth
    <3> QED
      BY <3>1, <3>2
  <2>8. ItemDone(x, k)'
    BY <2>1 DEF BackUpItemEffect, Forth, Back, Restoring, ItemDone
  <2> QED
    BY <2>2, <2>3, <2>4, <2>5, <2>6, <2>7, <2>8 DEF ItemTold
<1>3. Position(x)'
  BY Ordered, KindStays, ItemsStay DEF BackUpItemEffect, Steady, CallInv,
     Position, Looking, Forth, Back, Restoring, NoSideFiles
<1> QED
  BY <1>1, <1>3, ItemsStay DEF CallInv, Steady

\* LinkItem: the new file is linked where nothing lies.
LEMMA LinkItemKeeps ==
    ASSUME TypeOK, NEW x \in Calls, CallInv(x), LinkItemEffect(x), Steady
    PROVE  CallInv(x)'
<1>1. ASSUME NEW k \in 1..Last(x) PROVE ItemTold(x, k)'
  <2>1. ItemTold(x, k) /\ Position(x)
    BY <1>1 DEF CallInv
  <2>2. ItemAhead(x, k)'
    BY <2>1, Among DEF LinkItemEffect, Steady, Position, ItemTold,
       ItemAhead, Forth, Untouched, AsSeenAt, Excused
  <2>3. ItemInPlace(x, k)'
    BY <1>1, <2>1, Among DEF LinkItemEffect, Steady, Position, ItemTold,
       ItemInPlace, Forth, SavedExactly, HasBackup, Mine, Kept, Excused
  <2>4. ItemKept(x, k)'
    BY <2>1, Among DEF LinkItemEffect, Steady, ItemTold, ItemKept, Forth,
       Kept, Excused
  <2>5. ItemToUndo(x, k)' /\ ItemUndoing(x, k)' /\ ItemUndone(x, k)' /\ ItemDone(x, k)'
    BY <2>1 DEF LinkItemEffect, Forth, Back, Restoring, ItemToUndo, ItemUndoing, ItemUndone, ItemDone
  <2> QED
    BY <2>2, <2>3, <2>4, <2>5 DEF ItemTold
<1>3. Position(x)'
  BY KindStays, ItemsStay DEF LinkItemEffect, Steady, CallInv, Position, Looking,
     Forth
<1> QED
  BY <1>1, <1>3, ItemsStay DEF CallInv, Steady

\* UnlinkStage: the stage goes, and the item counts as promoted.
LEMMA UnlinkStageKeeps ==
    ASSUME TypeOK, NEW x \in Calls, CallInv(x), UnlinkStageEffect(x), Steady
    PROVE  CallInv(x)'
<1>1. ASSUME NEW k \in 1..Last(x) PROVE ItemTold(x, k)'
  <2>1. ItemTold(x, k) /\ Position(x)
    BY <1>1 DEF CallInv
  <2>2. ItemAhead(x, k)'
    BY <2>1, Among DEF UnlinkStageEffect, Steady, Position, ItemTold,
       ItemAhead, Forth, Untouched, AsSeenAt, Excused
  <2>3. ItemInPlace(x, k)'
    BY <2>1, Among DEF UnlinkStageEffect, Steady, ItemTold, ItemInPlace, Forth,
       SavedExactly, HasBackup, Mine, Excused
  <2>4. ItemKept(x, k)'
    BY <2>1, Among DEF UnlinkStageEffect, Steady, ItemTold, ItemKept,
       Forth, Kept, Excused
  <2>5. ItemToUndo(x, k)' /\ ItemUndoing(x, k)' /\ ItemUndone(x, k)' /\ ItemDone(x, k)'
    BY <2>1 DEF UnlinkStageEffect, Forth, Back, Restoring, ItemToUndo, ItemUndoing, ItemUndone, ItemDone
  <2> QED
    BY <2>2, <2>3, <2>4, <2>5 DEF ItemTold
<1>3. Position(x)'
  BY KindStays, ItemsStay DEF UnlinkStageEffect, Steady, CallInv,
     Position, Looking, Forth
<1> QED
  BY <1>1, <1>3, ItemsStay DEF CallInv, Steady

\* SyncItem: on to the next item, or to the end.
LEMMA SyncItemKeeps ==
    ASSUME TypeOK, NEW x \in Calls, CallInv(x), SyncItemEffect(x), Steady
    PROVE  CallInv(x)'
<1>1. ASSUME NEW k \in 1..Last(x) PROVE ItemTold(x, k)'
  <2>1. ItemTold(x, k) /\ Position(x)
    BY <1>1 DEF CallInv
  <2>2. ItemAhead(x, k)'
    BY <2>1, Among DEF SyncItemEffect, Steady, Position, ItemTold,
       ItemAhead, Forth, Untouched, AsSeenAt, Excused
  <2>3. ItemInPlace(x, k)'
    BY <2>1, Among DEF SyncItemEffect, Steady, ItemTold, ItemInPlace,
       Forth, SavedExactly, HasBackup, Mine, Excused
  <2>4. ItemKept(x, k)'
    BY <1>1, <2>1, Among DEF SyncItemEffect, Steady, Position, ItemTold, ItemKept, ItemAhead, ItemInPlace,
       Forth, Back, Restoring, Untouched, SavedExactly, Saved, HasBackup, AsSeenAt, Absent, Mine, Forgone, Linked, Kept, Excused
  <2>5. ItemDone(x, k)'
    BY <2>1, Among DEF SyncItemEffect, Steady, ItemTold, ItemDone, ItemInPlace,
       Forth, SavedExactly, Mine, Excused
  <2>6. ItemToUndo(x, k)' /\ ItemUndoing(x, k)' /\ ItemUndone(x, k)'
    BY <2>1 DEF SyncItemEffect, Forth, Back, Restoring, ItemToUndo, ItemUndoing, ItemUndone
  <2> QED
    BY <2>2, <2>3, <2>4, <2>5, <2>6 DEF ItemTold
<1>3. Position(x)'
  BY Ordered, KindStays, ItemsStay DEF SyncItemEffect, Steady, CallInv,
     Position, Looking, Forth
<1> QED
  BY <1>1, <1>3, ItemsStay DEF CallInv, Steady

\* DestinationChanged: somebody was at the destination.
LEMMA DestinationChangedKeeps ==
    ASSUME TypeOK, NEW x \in Calls, CallInv(x), DestinationChangedEffect(x), Steady
    PROVE  CallInv(x)'
<1>1. ASSUME NEW k \in 1..Last(x) PROVE ItemTold(x, k)'
  <2>1. ItemTold(x, k) /\ Position(x)
    BY <1>1 DEF CallInv
  <2>2. ItemToUndo(x, k)'
    BY <2>1, Among DEF DestinationChangedEffect, Steady, ItemTold,
       ItemToUndo, ItemAhead, ItemInPlace, Forth, Restoring, Untouched,
       SavedExactly, Saved, HasBackup, AsSeenAt, Absent, Mine, Excused
  <2>3. ItemUndoing(x, k)'
    BY <1>1, <2>1, Among DEF DestinationChangedEffect, Steady, Position, ItemTold, ItemUndoing, ItemAhead, ItemInPlace, ItemKept,
       Forth, Back, Restoring, Untouched, SavedExactly, Saved, HasBackup, AsSeenAt, Absent, Mine, Forgone, Linked, Kept, Excused
  <2>4. ItemUndone(x, k)'
    BY <2>1, Among DEF DestinationChangedEffect, Steady, Position,
       ItemUndone, Forth
  <2>5. ItemKept(x, k)'
    BY <1>1, <2>1, Among DEF DestinationChangedEffect, Steady, Position, ItemTold, ItemKept, ItemAhead, ItemInPlace,
       Forth, Back, Restoring, Untouched, SavedExactly, Saved, HasBackup, AsSeenAt, Absent, Mine, Forgone, Linked, Kept, Excused
  <2>6. ItemAhead(x, k)' /\ ItemInPlace(x, k)' /\ ItemDone(x, k)'
    BY <2>1 DEF DestinationChangedEffect, Forth, Back, Restoring, ItemAhead, ItemInPlace, ItemDone
  <2> QED
    BY <2>2, <2>3, <2>4, <2>5, <2>6 DEF ItemTold
<1>3. Position(x)'
  BY Ordered, KindStays, ItemsStay DEF DestinationChangedEffect, Steady,
     CallInv, Position, Looking, Forth
<1> QED
  BY <1>1, <1>3, ItemsStay DEF CallInv, Steady

\* PromotionFails: a failure on the way; a linked stage that cannot go is forgotten.
LEMMA PromotionFailsKeeps ==
    ASSUME TypeOK, NEW x \in Calls, CallInv(x), PromotionFailsEffect(x), Steady
    PROVE  CallInv(x)'
<1>1. ASSUME NEW k \in 1..Last(x) PROVE ItemTold(x, k)'
  <2>1. ItemTold(x, k) /\ Position(x)
    BY <1>1 DEF CallInv
  <2>2. ItemToUndo(x, k)'
    <3> DEFINE p == Item(x, k)
    <3>1. /\ tx[x].pc \in Forth /\ tx[x].at \in 1..Last(x)
          /\ file' = file /\ tx'[x].seen = tx[x].seen /\ tx'[x].stage = tx[x].stage
          /\ tx'[x].backup = tx[x].backup /\ tx'[x].promoted = tx[x].promoted
          /\ tx'[x].backedUp = tx[x].backedUp
      BY <2>1 DEF PromotionFailsEffect, Position
    <3>2. p' = p /\ (p = Item(x, tx[x].at) <=> k = tx[x].at)
      BY <1>1, <3>1, Among DEF Steady
    <3>3. p \in tx'[x].forgotten <=> IF tx[x].pc = "unlink" THEN k = tx[x].at ELSE p \in tx[x].forgotten
      BY <3>2 DEF PromotionFailsEffect
    <3>4. /\ (Saved(x, p) => Saved(x, p)') /\ (HasBackup(x, p) => HasBackup(x, p)')
          /\ (AsSeenAt(x, p) => AsSeenAt(x, p)') /\ (Absent(p) => Absent(p)') /\ (Mine(x, p) => Mine(x, p)')
      BY <3>1, <3>2, StillSo
    <3>5. k \in Nat /\ tx[x].at \in Nat
      BY <1>1, <3>1, Among DEF Steady
    <3>6. CASE k > tx[x].at \/ (k = tx[x].at /\ tx[x].pc \in {"verify", "backup"})
      <4>1. Untouched(x, p)
        BY <2>1, <3>1, <3>6 DEF ItemTold, ItemAhead
      <4>2. p \notin tx'[x].forgotten
        BY <3>3, <3>5, <3>6, <4>1, UntouchedTells
      <4> QED
        BY <3>1, <3>2, <3>4, <4>1, <4>2, UntouchedTells DEF ItemToUndo
    <3>7. CASE k < tx[x].at \/ (k = tx[x].at /\ tx[x].pc = "sync")
      <4>1. /\ p \in tx[x].promoted /\ p \notin tx[x].forgotten
            /\ SavedExactly(x, p) /\ HasBackup(x, p) /\ Mine(x, p)
        BY <2>1, <3>1, <3>7 DEF ItemTold, ItemInPlace
      <4>2. p \notin tx'[x].forgotten
        BY <3>3, <3>5, <3>7, <4>1
      <4> QED
        BY <3>1, <3>2, <3>4, <4>1, <4>2, ExactlyIsSaved DEF ItemToUndo
    <3>8. CASE k = tx[x].at /\ tx[x].pc = "link"
      <4>1. /\ p \notin tx[x].promoted /\ p \notin tx[x].forgotten
            /\ SavedExactly(x, p) /\ HasBackup(x, p) /\ Absent(p)
        BY <2>1, <3>8 DEF ItemTold, ItemInPlace
      <4>2. p \notin tx'[x].forgotten
        BY <3>3, <3>8, <4>1
      <4>3. p \notin tx[x].backedUp => AsSeenAt(x, p)
        BY <4>1 DEF HasBackup, Absent, AsSeenAt
      <4> QED
        BY <3>1, <3>2, <3>4, <4>1, <4>2, <4>3, ExactlyIsSaved DEF ItemToUndo
    <3>9. CASE k = tx[x].at /\ tx[x].pc = "unlink"
      <4>1. /\ p \notin tx[x].promoted /\ SavedExactly(x, p) /\ HasBackup(x, p)
            /\ Mine(x, p) /\ tx[x].stage[p] = "linked"
        BY <2>1, <3>9 DEF ItemTold, ItemInPlace
      <4>2. p \in tx'[x].forgotten
        BY <3>3, <3>9
      <4> QED
        BY <3>1, <3>2, <3>4, <4>1, <4>2, ExactlyIsSaved DEF ItemToUndo
    <3> QED
      BY <3>1, <3>5, <3>6, <3>7, <3>8, <3>9 DEF Forth
  <2>3. ItemUndoing(x, k)'
    BY <1>1, <2>1, Among DEF PromotionFailsEffect, Steady, Position, ItemTold, ItemUndoing, ItemAhead, ItemInPlace, ItemKept,
       Forth, Back, Restoring, Untouched, SavedExactly, Saved, HasBackup, AsSeenAt, Absent, Mine, Forgone, Linked, Kept, Excused
  <2>4. ItemUndone(x, k)'
    BY <2>1, Among DEF PromotionFailsEffect, Steady, Position, ItemUndone
  <2>5. ItemKept(x, k)'
    BY <1>1, <2>1, Among DEF PromotionFailsEffect, Steady, Position, ItemTold, ItemKept, ItemAhead, ItemInPlace,
       Forth, Back, Restoring, Untouched, SavedExactly, Saved, HasBackup, AsSeenAt, Absent, Mine, Forgone, Linked, Kept, Excused
  <2>6. ItemAhead(x, k)' /\ ItemInPlace(x, k)' /\ ItemDone(x, k)'
    BY <2>1 DEF PromotionFailsEffect, Forth, Back, Restoring, ItemAhead, ItemInPlace, ItemDone
  <2> QED
    BY <2>2, <2>3, <2>4, <2>5, <2>6 DEF ItemTold
<1>3. Position(x)'
  BY Ordered, KindStays, ItemsStay DEF PromotionFailsEffect, Steady,
     CallInv, Position, Looking, NoSideFiles
<1> QED
  BY <1>1, <1>3, ItemsStay DEF CallInv, Steady

\* UndoItem: an item is undone according to what lies there.
LEMMA UndoItemKeeps ==
    ASSUME TypeOK, NEW x \in Calls, CallInv(x), UndoItemEffect(x), Steady
    PROVE  CallInv(x)'
<1>1. ASSUME NEW k \in 1..Last(x) PROVE ItemTold(x, k)'
  <2>1. ItemTold(x, k) /\ Position(x)
    BY <1>1 DEF CallInv
  <2>2. ItemToUndo(x, k)'
    BY <2>1, Among DEF UndoItemEffect, Steady, ItemTold, ItemToUndo, Back,
       Saved, HasBackup, AsSeenAt, Absent, Mine, Excused
  <2>3. ItemUndoing(x, k)'
    <3>0. CASE k # tx'[x].at
      BY <1>1, <3>0, Among DEF ItemUndoing, Steady
    <3> SUFFICES ASSUME k = tx'[x].at PROVE ItemUndoing(x, k)'
      BY <3>0
    <3> DEFINE p == Item(x, k)
    <3>1. CASE tx'[x].pc = "undo"
      BY <3>1 DEF ItemUndoing
    <3>2. CASE tx'[x].pc # "undo"
      <4>1. k = tx[x].at /\ tx[x].pc = "undo"
        BY <3>2 DEF UndoItemEffect
      <4>2. p' = p /\ Here(x) = p
        BY <1>1, <4>1, Among DEF Steady
      <4>3. /\ Saved(x, p)
            /\ p \in tx[x].promoted => p \notin tx[x].forgotten /\ HasBackup(x, p)
            /\ p \notin tx[x].promoted \cup tx[x].forgotten =>
                  IF p \in tx[x].backedUp THEN Absent(p) ELSE AsSeenAt(x, p)
            /\ p \in tx[x].forgotten => Linked(x, p)
        BY <2>1, <4>1 DEF ItemTold, ItemToUndo, Back, Linked
      <4>4. /\ file' = file /\ tx'[x].seen = tx[x].seen /\ tx'[x].stage = tx[x].stage
            /\ tx'[x].backup = tx[x].backup /\ tx'[x].promoted = tx[x].promoted
            /\ tx'[x].backedUp = tx[x].backedUp /\ tx'[x].forgotten = tx[x].forgotten
        BY DEF UndoItemEffect
      <4>5. /\ Saved(x, p)' /\ (HasBackup(x, p) => HasBackup(x, p)')
            /\ (AsSeenAt(x, p) => AsSeenAt(x, p)') /\ (Absent(p) => Absent(p)')
        BY <4>2, <4>3, <4>4, StillSo
      <4>6. Linked(x, p) => Linked(x, p)'
        BY <4>2, <4>4 DEF Linked
      <4>7. p \notin tx[x].backedUp => tx[x].backup[p] = None
        BY <4>3 DEF Saved
      <4>8. CASE p \notin tx[x].promoted
        <5>1. tx'[x].pc = IF p \in tx[x].backedUp THEN "restore" ELSE "unstage"
          BY <4>1, <4>2, <4>8 DEF UndoItemEffect, Restoring
        <5> QED
          BY <4>2, <4>3, <4>4, <4>5, <4>6, <4>7, <4>8, <5>1 DEF ItemUndoing
      <4>9. CASE p \in tx[x].promoted /\ file[p] = x
        <5>1. tx'[x].pc = "remove"
          BY <3>2, <4>1, <4>9, <1>1, Among DEF UndoItemEffect, Steady
        <5> QED
          BY <4>2, <4>3, <4>4, <4>5, <4>9, <5>1 DEF ItemUndoing
      <4>10. CASE p \in tx[x].promoted /\ file[p] # x
        <5>1. /\ tx'[x].pc = IF p \in tx[x].backedUp THEN "restore" ELSE "unstage"
              /\ tx'[x].recovery \/ file[p] = None
          BY <3>2, <4>1, <4>2, <4>10 DEF UndoItemEffect, Restoring
        <5>2. p \notin tx[x].backedUp => tx[x].seen[p] = None
          BY <4>3, <4>10 DEF HasBackup
        <5>3. file[p] = None => Absent(p)
          BY DEF Absent
        <5>4. file[p] = None /\ p \notin tx[x].backedUp => AsSeenAt(x, p)
          BY <5>2 DEF AsSeenAt
        <5> QED
          BY <4>2, <4>4, <4>5, <4>7, <5>1, <5>3, <5>4 DEF ItemUndoing
      <4> QED
        BY <4>8, <4>9, <4>10
    <3> QED
      BY <3>1, <3>2
  <2>4. ItemUndone(x, k)'
    BY <1>1, <2>1, Among DEF UndoItemEffect, Steady, Position, ItemTold, ItemUndone, ItemToUndo, ItemUndoing, ItemKept,
       Forth, Back, Restoring, Untouched, SavedExactly, Saved, HasBackup, AsSeenAt, Absent, Mine, Forgone, Linked, Kept, Excused
  <2>5. ItemKept(x, k)'
    BY <1>1, <2>1, Among DEF UndoItemEffect, Steady, Position, ItemTold, ItemKept, ItemToUndo, ItemUndoing, ItemUndone,
       Forth, Back, Restoring, Untouched, SavedExactly, Saved, HasBackup, AsSeenAt, Absent, Mine, Forgone, Linked, Kept, Excused
  <2>6. ItemAhead(x, k)' /\ ItemInPlace(x, k)' /\ ItemDone(x, k)'
    BY <2>1 DEF UndoItemEffect, Forth, Back, Restoring, ItemAhead, ItemInPlace, ItemDone
  <2> QED
    BY <2>2, <2>3, <2>4, <2>5, <2>6 DEF ItemTold
<1>3. Position(x)'
  BY CallPlace, Ordered, KindStays, ItemsStay DEF UndoItemEffect, Steady,
     CallInv, Position, Looking, Forth, Back, Restoring, NothingMoved
<1> QED
  BY <1>1, <1>3, ItemsStay DEF CallInv, Steady

\* RemoveItem: the call's own file goes.
LEMMA RemoveItemKeeps ==
    ASSUME TypeOK, NEW x \in Calls, CallInv(x), RemoveItemEffect(x), Steady
    PROVE  CallInv(x)'
<1>1. ASSUME NEW k \in 1..Last(x) PROVE ItemTold(x, k)'
  <2>1. ItemTold(x, k) /\ Position(x)
    BY <1>1 DEF CallInv
  <2>2. ItemToUndo(x, k)'
    BY <2>1, Among DEF RemoveItemEffect, Steady, Position, ItemTold,
       ItemToUndo, ItemUndone, ItemKept, Forth, Back, Restoring, Saved, HasBackup,
       AsSeenAt, Absent, Mine, Forgone, Linked, Excused
  <2>3. ItemUndoing(x, k)'
    <3>0. CASE k # tx'[x].at
      BY <1>1, <3>0, Among DEF ItemUndoing, Steady
    <3> SUFFICES ASSUME k = tx'[x].at PROVE ItemUndoing(x, k)'
      BY <3>0
    <3> DEFINE p == Item(x, k)
    <3>1. /\ k = tx[x].at /\ tx[x].pc = "remove" /\ tx'[x].pc = Restoring(x)
          /\ file' = [file EXCEPT ![p] = None] /\ tx'[x].seen = tx[x].seen
          /\ tx'[x].backup = tx[x].backup /\ tx'[x].backedUp = tx[x].backedUp
      BY DEF RemoveItemEffect
    <3>2. p' = p /\ Here(x) = p /\ p \in Places /\ file \in [Places -> Contents]
      BY <1>1, <3>1, Among DEF Steady
    <3>3. Saved(x, p) /\ HasBackup(x, p)
      BY <2>1, <3>1 DEF ItemTold, ItemUndoing
    <3>4. Saved(x, p)'
      BY <3>1, <3>2, <3>3, StillSo
    <3>5. file'[p] = None /\ Absent(p)'
      BY <3>1, <3>2 DEF Absent
    <3>6. p \notin tx[x].backedUp => AsSeenAt(x, p)' /\ tx'[x].backup[p] = None
      BY <3>1, <3>2, <3>3, <3>5 DEF AsSeenAt, Saved, HasBackup
    <3>7. tx'[x].pc = IF p \in tx[x].backedUp THEN "restore" ELSE "unstage"
      BY <3>1, <3>2 DEF Restoring
    <3> QED
      BY <3>1, <3>2, <3>4, <3>5, <3>6, <3>7 DEF ItemUndoing
  <2>4. ItemUndone(x, k)'
    BY <2>1, Among DEF RemoveItemEffect, Steady, Position, ItemTold, ItemUndone,
       Back, Restoring, AsSeenAt, Forgone, Excused
  <2>5. ItemKept(x, k)'
    BY <2>1, Among DEF RemoveItemEffect, Steady, Position, ItemTold,
       ItemKept, ItemUndoing, Forth, Back, Restoring, Untouched, Saved, HasBackup,
       AsSeenAt, Kept, Excused
  <2>6. ItemAhead(x, k)' /\ ItemInPlace(x, k)' /\ ItemDone(x, k)'
    BY <2>1 DEF RemoveItemEffect, Forth, Back, Restoring, ItemAhead, ItemInPlace, ItemDone
  <2> QED
    BY <2>2, <2>3, <2>4, <2>5, <2>6 DEF ItemTold
<1>3. Position(x)'
  BY KindStays, ItemsStay DEF RemoveItemEffect, Steady, CallInv, Position,
     Looking, Forth, Back, Restoring, NothingMoved
<1> QED
  BY <1>1, <1>3, ItemsStay DEF CallInv, Steady

\* LookForRestore: the backup comes back only where nothing lies.
LEMMA LookForRestoreKeeps ==
    ASSUME TypeOK, NEW x \in Calls, CallInv(x), LookForRestoreEffect(x), Steady
    PROVE  CallInv(x)'
<1>1. ASSUME NEW k \in 1..Last(x) PROVE ItemTold(x, k)'
  <2>1. ItemTold(x, k) /\ Position(x)
    BY <1>1 DEF CallInv
  <2>2. ItemToUndo(x, k)'
    BY <2>1, Among DEF LookForRestoreEffect, Steady, ItemTold, ItemToUndo,
       Back, Saved, HasBackup, AsSeenAt, Absent, Mine, Excused
  <2>3. ItemUndoing(x, k)'
    <3>0. CASE k # tx'[x].at
      BY <1>1, <3>0, Among DEF ItemUndoing, Steady
    <3> SUFFICES ASSUME k = tx'[x].at PROVE ItemUndoing(x, k)'
      BY <3>0
    <3>1. CASE tx'[x].pc # "rename"
      BY <3>1 DEF LookForRestoreEffect, ItemUndoing
    <3>2. CASE tx'[x].pc = "rename"
      <4>1. tx[x].at = k /\ file[Item(x, tx[x].at)] = None /\ tx[x].pc = "restore"
        BY <3>2 DEF LookForRestoreEffect
      <4>2. Item(x, k) \in tx[x].backedUp /\ Saved(x, Item(x, k))
        BY <2>1, <4>1 DEF ItemTold, ItemUndoing
      <4>3. tx'[x].backedUp = tx[x].backedUp /\ file' = file
        BY DEF LookForRestoreEffect
      <4>4. Item(x, k)' = Item(x, k)
        BY <1>1, Among DEF Steady
      <4>5. Saved(x, Item(x, k))'
        BY <4>2, <4>4, StillSo DEF LookForRestoreEffect
      <4> QED
        BY <3>2, <4>1, <4>2, <4>3, <4>4, <4>5 DEF ItemUndoing
    <3> QED
      BY <3>1, <3>2
  <2>4. ItemUndone(x, k)'
    BY <1>1, <2>1, Among DEF LookForRestoreEffect, Steady, Position, ItemTold, ItemUndone, ItemToUndo, ItemUndoing, ItemKept,
       Forth, Back, Restoring, Untouched, SavedExactly, Saved, HasBackup, AsSeenAt, Absent, Mine, Forgone, Linked, Kept, Excused
  <2>5. ItemKept(x, k)'
    BY <1>1, <2>1, Among DEF LookForRestoreEffect, Steady, Position, ItemTold, ItemKept, ItemToUndo, ItemUndoing, ItemUndone,
       Forth, Back, Restoring, Untouched, SavedExactly, Saved, HasBackup, AsSeenAt, Absent, Mine, Forgone, Linked, Kept, Excused
  <2>6. ItemAhead(x, k)' /\ ItemInPlace(x, k)' /\ ItemDone(x, k)'
    BY <2>1 DEF LookForRestoreEffect, Forth, Back, Restoring, ItemAhead, ItemInPlace, ItemDone
  <2> QED
    BY <2>2, <2>3, <2>4, <2>5, <2>6 DEF ItemTold
<1>3. Position(x)'
  BY Ordered, KindStays, ItemsStay DEF LookForRestoreEffect, Steady,
     CallInv, Position, Looking, Forth, Back, NothingMoved
<1> QED
  BY <1>1, <1>3, ItemsStay DEF CallInv, Steady

\* RestoreItem: the backup comes back.
LEMMA RestoreItemKeeps ==
    ASSUME TypeOK, NEW x \in Calls, CallInv(x), RestoreItemEffect(x), Steady
    PROVE  CallInv(x)'
<1>1. ASSUME NEW k \in 1..Last(x) PROVE ItemTold(x, k)'
  <2>1. ItemTold(x, k) /\ Position(x)
    BY <1>1 DEF CallInv
  <2>2. ItemToUndo(x, k)'
    <3> DEFINE p == Item(x, k)
    <3>1. /\ tx[x].pc = "rename" /\ tx'[x].pc = "unstage" /\ tx'[x].at = tx[x].at
          /\ tx'[x].seen = tx[x].seen /\ tx'[x].stage = tx[x].stage
          /\ tx'[x].promoted = tx[x].promoted /\ tx'[x].forgotten = tx[x].forgotten
          /\ file' = [file EXCEPT ![Item(x, tx[x].at)] = tx[x].backup[Item(x, tx[x].at)]]
          /\ tx'[x].backup = [tx[x].backup EXCEPT ![Item(x, tx[x].at)] = None]
          /\ tx'[x].backedUp = tx[x].backedUp \ {Item(x, tx[x].at)}
      BY DEF RestoreItemEffect
    <3>2. CASE ~(k < tx[x].at)
      BY <3>1, <3>2 DEF ItemToUndo
    <3>3. CASE k < tx[x].at
      <4>1. /\ p' = p /\ p \in Items(x) /\ p \in Places /\ p # Item(x, tx[x].at)
            /\ file \in [Places -> Contents] /\ tx[x].backup \in [Items(x) -> Contents]
        BY <1>1, <2>1, <3>1, <3>3, Among DEF Steady, Position, Back
      <4>2. /\ file'[p] = file[p] /\ tx'[x].backup[p] = tx[x].backup[p]
            /\ p \in tx'[x].backedUp <=> p \in tx[x].backedUp
        BY <3>1, <4>1
      <4>3. /\ (Saved(x, p) => Saved(x, p)') /\ (HasBackup(x, p) => HasBackup(x, p)')
            /\ (AsSeenAt(x, p) => AsSeenAt(x, p)') /\ (Absent(p) => Absent(p)') /\ (Mine(x, p) => Mine(x, p)')
        BY <3>1, <4>1, <4>2, StillSo
      <4>4. ItemToUndo(x, k)
        BY <2>1 DEF ItemTold
      <4> QED
        BY <3>1, <3>3, <4>1, <4>2, <4>3, <4>4 DEF ItemToUndo, Back
    <3> QED
      BY <3>2, <3>3
  <2>3. ItemUndoing(x, k)'
    <3> DEFINE p == Item(x, k)
    <3>0. CASE k # tx'[x].at
      BY <1>1, <3>0, Among DEF ItemUndoing, Steady
    <3> SUFFICES ASSUME k = tx'[x].at PROVE ItemUndoing(x, k)'
      BY <3>0
    <3>1. /\ k = tx[x].at /\ tx[x].pc = "rename" /\ tx'[x].pc = "unstage" /\ tx'[x].seen = tx[x].seen
          /\ file' = [file EXCEPT ![p] = tx[x].backup[p]]
          /\ tx'[x].backup = [tx[x].backup EXCEPT ![p] = None]
      BY DEF RestoreItemEffect
    <3>2. p \in tx[x].backedUp /\ Saved(x, p)
      BY <2>1, <3>1 DEF ItemTold, ItemUndoing
    <3>3. /\ p' = p /\ p \in Items(x) /\ p \in Places /\ file \in [Places -> Contents]
          /\ tx[x].backup \in [Items(x) -> Contents]
      BY <1>1, Among DEF Steady
    <3>4. tx[x].backup[p] = tx[x].seen[p] \/ Excused(p)
      BY <3>2 DEF Saved
    <3>5. file'[p] = tx[x].backup[p] /\ tx'[x].backup[p] = None
      BY <3>1, <3>3
    <3>6. Excused(p) => Excused(p)'
      BY <3>3 DEF Excused, Steady
    <3>7. AsSeenAt(x, p)'
      BY <3>1, <3>3, <3>4, <3>5, <3>6 DEF AsSeenAt
    <3> QED
      BY <3>1, <3>3, <3>5, <3>7 DEF ItemUndoing
  <2>4. ItemUndone(x, k)'
    BY <2>1, Among DEF RestoreItemEffect, Steady, Position, ItemTold,
       ItemUndone, Back, AsSeenAt, Forgone, Excused
  <2>5. ItemKept(x, k)'
    BY <1>1, <2>1, Among DEF RestoreItemEffect, Steady, Position,
       ItemTold, ItemKept, ItemUndoing, Forth, Back, Untouched, SavedExactly,
       Linked, Kept, Excused
  <2>6. ItemAhead(x, k)' /\ ItemInPlace(x, k)' /\ ItemDone(x, k)'
    BY <2>1 DEF RestoreItemEffect, Forth, Back, Restoring, ItemAhead, ItemInPlace, ItemDone
  <2> QED
    BY <2>2, <2>3, <2>4, <2>5, <2>6 DEF ItemTold
<1>3. Position(x)'
  BY KindStays, ItemsStay DEF RestoreItemEffect, Steady, CallInv,
     Position, Looking, Forth, Back, NothingMoved
<1> QED
  BY <1>1, <1>3, ItemsStay DEF CallInv, Steady

\* RemoveStage: the stage goes, except one that was linked.
LEMMA RemoveStageKeeps ==
    ASSUME TypeOK, NEW x \in Calls, CallInv(x), RemoveStageEffect(x), Steady
    PROVE  CallInv(x)'
<1>1. ASSUME NEW k \in 1..Last(x) PROVE ItemTold(x, k)'
  <2>1. ItemTold(x, k) /\ Position(x)
    BY <1>1 DEF CallInv
  <2>2. ItemToUndo(x, k)'
    <3> DEFINE p == Item(x, k)
    <3>1. /\ tx[x].pc \in Back /\ tx'[x].pc = "undo" /\ tx'[x].at = tx[x].at - 1 /\ file' = file
          /\ tx'[x].stage = tx[x].stage \/ tx'[x].stage = [tx[x].stage EXCEPT ![Item(x, tx[x].at)] = None]
          /\ tx'[x].seen = tx[x].seen /\ tx'[x].backup = tx[x].backup /\ tx'[x].promoted = tx[x].promoted
          /\ tx'[x].backedUp = tx[x].backedUp /\ tx'[x].forgotten = tx[x].forgotten
      BY DEF RemoveStageEffect, Back
    <3>2. k \in Nat /\ tx[x].at \in Nat /\ p' = p /\ p \in Items(x)
      BY <1>1, Among DEF Steady
    <3>3. CASE ~(k < tx[x].at)
      BY <3>1, <3>2, <3>3 DEF ItemToUndo
    <3>4. CASE k < tx[x].at
      <4>1. p # Item(x, tx[x].at)
        BY <1>1, <2>1, <3>1, <3>2, <3>4, Among DEF Steady, Position, Back
      <4>2. tx[x].stage[p] = "linked" => tx'[x].stage[p] = "linked"
        BY <1>1, <3>1, <3>2, <4>1, Among DEF Steady
      <4>3. /\ (Saved(x, p) => Saved(x, p)') /\ (HasBackup(x, p) => HasBackup(x, p)')
            /\ (AsSeenAt(x, p) => AsSeenAt(x, p)') /\ (Absent(p) => Absent(p)') /\ (Mine(x, p) => Mine(x, p)')
        BY <3>1, <3>2, StillSo
      <4>4. ItemToUndo(x, k)
        BY <2>1 DEF ItemTold
      <4> QED
        BY <3>1, <3>2, <3>4, <4>2, <4>3, <4>4 DEF ItemToUndo
    <3> QED
      BY <3>3, <3>4
  <2>3. ItemUndoing(x, k)'
    BY <1>1, <2>1, Among DEF RemoveStageEffect, Steady, Position, ItemTold, ItemUndoing, ItemToUndo, ItemUndone, ItemKept,
       Forth, Back, Restoring, Untouched, SavedExactly, Saved, HasBackup, AsSeenAt, Absent, Mine, Forgone, Linked, Kept, Excused
  <2>4. ItemUndone(x, k)'
    BY <2>1, Among DEF RemoveStageEffect, Steady, ItemTold, ItemUndone,
       ItemUndoing, Back, AsSeenAt, Forgone, Linked, Excused
  <2>5. ItemKept(x, k)'
    BY <1>1, <2>1, Among DEF RemoveStageEffect, Steady, Position, ItemTold, ItemKept, ItemToUndo, ItemUndoing, ItemUndone,
       Forth, Back, Restoring, Untouched, SavedExactly, Saved, HasBackup, AsSeenAt, Absent, Mine, Forgone, Linked, Kept, Excused
  <2>6. ItemAhead(x, k)' /\ ItemInPlace(x, k)' /\ ItemDone(x, k)'
    BY <2>1 DEF RemoveStageEffect, Forth, Back, Restoring, ItemAhead, ItemInPlace, ItemDone
  <2> QED
    BY <2>2, <2>3, <2>4, <2>5, <2>6 DEF ItemTold
<1>3. Position(x)'
  BY Ordered, KindStays, ItemsStay DEF RemoveStageEffect, Steady, CallInv,
     Position, Looking, Forth, Back, NoSideFiles, NothingMoved
<1> QED
  BY <1>1, <1>3, ItemsStay DEF CallInv, Steady

\* UndoFails: what cannot be undone asks for recovery.
LEMMA UndoFailsKeeps ==
    ASSUME TypeOK, NEW x \in Calls, CallInv(x), UndoFailsEffect(x), Steady
    PROVE  CallInv(x)'
<1>1. ASSUME NEW k \in 1..Last(x) PROVE ItemTold(x, k)'
  <2>1. ItemTold(x, k) /\ Position(x)
    BY <1>1 DEF CallInv
  <2>2. ItemToUndo(x, k)'
    <3> DEFINE p == Item(x, k)
    <3>1. /\ tx[x].pc \in Back /\ tx'[x].pc = "undo" /\ tx'[x].at = tx[x].at - 1 /\ file' = file
          /\ tx'[x].stage = tx[x].stage \/ tx'[x].stage = [tx[x].stage EXCEPT ![Item(x, tx[x].at)] = None]
          /\ tx'[x].seen = tx[x].seen /\ tx'[x].backup = tx[x].backup /\ tx'[x].promoted = tx[x].promoted
          /\ tx'[x].backedUp = tx[x].backedUp /\ tx'[x].forgotten = tx[x].forgotten
      BY DEF UndoFailsEffect, Back
    <3>2. k \in Nat /\ tx[x].at \in Nat /\ p' = p /\ p \in Items(x)
      BY <1>1, Among DEF Steady
    <3>3. CASE ~(k < tx[x].at)
      BY <3>1, <3>2, <3>3 DEF ItemToUndo
    <3>4. CASE k < tx[x].at
      <4>1. p # Item(x, tx[x].at)
        BY <1>1, <2>1, <3>1, <3>2, <3>4, Among DEF Steady, Position, Back
      <4>2. tx[x].stage[p] = "linked" => tx'[x].stage[p] = "linked"
        BY <1>1, <3>1, <3>2, <4>1, Among DEF Steady
      <4>3. /\ (Saved(x, p) => Saved(x, p)') /\ (HasBackup(x, p) => HasBackup(x, p)')
            /\ (AsSeenAt(x, p) => AsSeenAt(x, p)') /\ (Absent(p) => Absent(p)') /\ (Mine(x, p) => Mine(x, p)')
        BY <3>1, <3>2, StillSo
      <4>4. ItemToUndo(x, k)
        BY <2>1 DEF ItemTold
      <4> QED
        BY <3>1, <3>2, <3>4, <4>2, <4>3, <4>4 DEF ItemToUndo
    <3> QED
      BY <3>3, <3>4
  <2>3. ItemUndoing(x, k)'
    BY <1>1, <2>1, Among DEF UndoFailsEffect, Steady, Position, ItemTold, ItemUndoing, ItemToUndo, ItemUndone, ItemKept,
       Forth, Back, Restoring, Untouched, SavedExactly, Saved, HasBackup, AsSeenAt, Absent, Mine, Forgone, Linked, Kept, Excused
  <2>4. ItemUndone(x, k)'
    BY <1>1, <2>1, Among DEF UndoFailsEffect, Steady, Position, ItemTold, ItemUndone, ItemToUndo, ItemUndoing, ItemKept,
       Forth, Back, Restoring, Untouched, SavedExactly, Saved, HasBackup, AsSeenAt, Absent, Mine, Forgone, Linked, Kept, Excused
  <2>5. ItemKept(x, k)'
    BY <2>1, Among DEF UndoFailsEffect, Steady, ItemTold, ItemKept, Kept,
       Excused
  <2>6. ItemAhead(x, k)' /\ ItemInPlace(x, k)' /\ ItemDone(x, k)'
    BY <2>1 DEF UndoFailsEffect, Forth, Back, Restoring, ItemAhead, ItemInPlace, ItemDone
  <2> QED
    BY <2>2, <2>3, <2>4, <2>5, <2>6 DEF ItemTold
<1>3. Position(x)'
  BY Ordered, KindStays, ItemsStay DEF UndoFailsEffect, Steady, CallInv,
     Position, Looking, Forth, Back, NothingMoved
<1> QED
  BY <1>1, <1>3, ItemsStay DEF CallInv, Steady

\* UndoJournal: the journal goes unless something is left to recover.
LEMMA UndoJournalKeeps ==
    ASSUME TypeOK, NEW x \in Calls, CallInv(x), UndoJournalEffect(x), Steady
    PROVE  CallInv(x)'
<1>1. ASSUME NEW k \in 1..Last(x) PROVE ItemTold(x, k)'
  <2>1. ItemTold(x, k) /\ Position(x)
    BY <1>1 DEF CallInv
  <2>2. ItemUndone(x, k)'
    BY <2>1, Among DEF UndoJournalEffect, Steady, ItemTold, ItemUndone,
       Back, AsSeenAt, Forgone, Excused
  <2>3. ItemKept(x, k)'
    BY <1>1, <2>1, Among DEF UndoJournalEffect, Steady, Position, ItemTold, ItemKept, ItemToUndo, ItemUndoing, ItemUndone,
       Forth, Back, Restoring, Untouched, SavedExactly, Saved, HasBackup, AsSeenAt, Absent, Mine, Forgone, Linked, Kept, Excused
  <2>4. ItemAhead(x, k)' /\ ItemInPlace(x, k)' /\ ItemToUndo(x, k)' /\ ItemUndoing(x, k)' /\ ItemDone(x, k)'
    BY <2>1 DEF UndoJournalEffect, Forth, Back, Restoring, ItemAhead, ItemInPlace, ItemToUndo, ItemUndoing, ItemDone
  <2> QED
    BY <2>2, <2>3, <2>4 DEF ItemTold
<1>3. Position(x)'
  BY KindStays DEF UndoJournalEffect, Steady, CallInv, Position, Looking,
     Forth, Back, NothingMoved
<1> QED
  BY <1>1, <1>3, ItemsStay DEF CallInv, Steady

\* EndRollback: the rollback is reported.
LEMMA EndRollbackKeeps ==
    ASSUME TypeOK, NEW x \in Calls, CallInv(x), EndRollbackEffect(x), Steady
    PROVE  CallInv(x)'
<1>1. ASSUME NEW k \in 1..Last(x) PROVE ItemTold(x, k)'
  <2>1. ItemTold(x, k) /\ Position(x)
    BY <1>1 DEF CallInv
  <2>2. ItemAhead(x, k)' /\ ItemInPlace(x, k)' /\ ItemToUndo(x, k)' /\ ItemUndoing(x, k)' /\ ItemUndone(x, k)' /\ ItemDone(x, k)' /\ ItemKept(x, k)'
    BY <2>1 DEF EndRollbackEffect, Forth, Back, Restoring, ItemAhead, ItemInPlace, ItemToUndo, ItemUndoing, ItemUndone, ItemDone, ItemKept
  <2> QED
    BY <2>2 DEF ItemTold
<1>3. Position(x)'
  BY KindStays DEF EndRollbackEffect, Steady, CallInv, Position, Looking,
     Forth, Back
<1> QED
  BY <1>1, <1>3, ItemsStay DEF CallInv, Steady

\* CleanItem: a backup goes.
LEMMA CleanItemKeeps ==
    ASSUME TypeOK, NEW x \in Calls, CallInv(x), CleanItemEffect(x), Steady
    PROVE  CallInv(x)'
<1>1. ASSUME NEW k \in 1..Last(x) PROVE ItemTold(x, k)'
  <2>1. ItemTold(x, k) /\ Position(x)
    BY <1>1 DEF CallInv
  <2>2. ItemDone(x, k)'
    BY <1>1, <2>1, Among DEF CleanItemEffect, Steady, Position, ItemTold, ItemDone,
       Forth, Back, Restoring, Untouched, SavedExactly, Saved, HasBackup, AsSeenAt, Absent, Mine, Forgone, Linked, Kept, Excused
  <2>3. ItemAhead(x, k)' /\ ItemInPlace(x, k)' /\ ItemToUndo(x, k)' /\ ItemUndoing(x, k)' /\ ItemUndone(x, k)' /\ ItemKept(x, k)'
    BY <2>1 DEF CleanItemEffect, Forth, Back, Restoring, ItemAhead, ItemInPlace, ItemToUndo, ItemUndoing, ItemUndone, ItemKept
  <2> QED
    BY <2>2, <2>3 DEF ItemTold
<1>3. Position(x)'
  BY Ordered, KindStays, ItemsStay DEF CleanItemEffect, Steady, CallInv,
     Position, Forth, Back, NoSideFiles
<1> QED
  BY <1>1, <1>3, ItemsStay DEF CallInv, Steady

\* CleaningFails: a backup cannot go.
LEMMA CleaningFailsKeeps ==
    ASSUME TypeOK, NEW x \in Calls, CallInv(x), CleaningFailsEffect(x), Steady
    PROVE  CallInv(x)'
<1>1. ASSUME NEW k \in 1..Last(x) PROVE ItemTold(x, k)'
  <2>1. ItemTold(x, k) /\ Position(x)
    BY <1>1 DEF CallInv
  <2>2. ItemDone(x, k)'
    BY <2>1, Among DEF CleaningFailsEffect, Steady, ItemTold, ItemDone,
       Mine, Excused
  <2>3. ItemAhead(x, k)' /\ ItemInPlace(x, k)' /\ ItemToUndo(x, k)' /\ ItemUndoing(x, k)' /\ ItemUndone(x, k)' /\ ItemKept(x, k)'
    BY <2>1 DEF CleaningFailsEffect, Forth, Back, Restoring, ItemAhead, ItemInPlace, ItemToUndo, ItemUndoing, ItemUndone, ItemKept
  <2> QED
    BY <2>2, <2>3 DEF ItemTold
<1>3. Position(x)'
  BY CallPlace, Ordered, KindStays, ItemsStay
     DEF CleaningFailsEffect, Steady, CallInv, Position, Looking, Forth, Back, Restoring, NoSideFiles, NothingMoved
<1> QED
  BY <1>1, <1>3, ItemsStay DEF CallInv, Steady

\* CleanJournal: the journal goes once the backups are gone.
LEMMA CleanJournalKeeps ==
    ASSUME TypeOK, NEW x \in Calls, CallInv(x), CleanJournalEffect(x), Steady
    PROVE  CallInv(x)'
<1>1. ASSUME NEW k \in 1..Last(x) PROVE ItemTold(x, k)'
  <2>1. ItemTold(x, k) /\ Position(x)
    BY <1>1 DEF CallInv
  <2>2. ItemDone(x, k)'
    BY <1>1, <2>1, Among DEF CleanJournalEffect, Steady, Position, ItemTold, ItemDone,
       Forth, Back, Restoring, Untouched, SavedExactly, Saved, HasBackup, AsSeenAt, Absent, Mine, Forgone, Linked, Kept, Excused
  <2>3. ItemAhead(x, k)' /\ ItemInPlace(x, k)' /\ ItemToUndo(x, k)' /\ ItemUndoing(x, k)' /\ ItemUndone(x, k)' /\ ItemKept(x, k)'
    BY <2>1 DEF CleanJournalEffect, Forth, Back, Restoring, ItemAhead, ItemInPlace, ItemToUndo, ItemUndoing, ItemUndone, ItemKept
  <2> QED
    BY <2>2, <2>3 DEF ItemTold
<1>3. Position(x)'
  BY KindStays DEF CleanJournalEffect, Steady, CallInv, Position, Looking,
     Forth, Back
<1> QED
  BY <1>1, <1>3, ItemsStay DEF CallInv, Steady

\* EndPublication: the publication is reported.
LEMMA EndPublicationKeeps ==
    ASSUME TypeOK, NEW x \in Calls, CallInv(x), EndPublicationEffect(x), Steady
    PROVE  CallInv(x)'
<1>1. ASSUME NEW k \in 1..Last(x) PROVE ItemTold(x, k)'
  <2>1. ItemTold(x, k) /\ Position(x)
    BY <1>1 DEF CallInv
  <2>2. ItemAhead(x, k)' /\ ItemInPlace(x, k)' /\ ItemToUndo(x, k)' /\ ItemUndoing(x, k)' /\ ItemUndone(x, k)' /\ ItemDone(x, k)' /\ ItemKept(x, k)'
    BY <2>1 DEF EndPublicationEffect, Forth, Back, Restoring, ItemAhead, ItemInPlace, ItemToUndo, ItemUndoing, ItemUndone, ItemDone, ItemKept
  <2> QED
    BY <2>2 DEF ItemTold
<1>3. Position(x)'
  BY KindStays DEF EndPublicationEffect, Steady, CallInv, Position,
     Looking, Forth, Back
<1> QED
  BY <1>1, <1>3, ItemsStay DEF CallInv, Steady

\* JournalRemovalFails: the removal of the journal throws.
LEMMA JournalRemovalFailsKeeps ==
    ASSUME TypeOK, NEW x \in Calls, CallInv(x), JournalRemovalFailsEffect(x), Steady
    PROVE  CallInv(x)'
<1>1. ASSUME NEW k \in 1..Last(x) PROVE ItemTold(x, k)'
  <2>1. ItemTold(x, k) /\ Position(x)
    BY <1>1 DEF CallInv
  <2>2. ItemAhead(x, k)' /\ ItemInPlace(x, k)' /\ ItemToUndo(x, k)' /\ ItemUndoing(x, k)' /\ ItemUndone(x, k)' /\ ItemDone(x, k)' /\ ItemKept(x, k)'
    BY <2>1 DEF JournalRemovalFailsEffect, Forth, Back, Restoring, ItemAhead, ItemInPlace, ItemToUndo, ItemUndoing, ItemUndone, ItemDone, ItemKept
  <2> QED
    BY <2>2 DEF ItemTold
<1>3. Position(x)'
  BY CallPlace, Ordered, KindStays, ItemsStay
     DEF JournalRemovalFailsEffect, Steady, CallInv, Position, Looking, Forth, Back, Restoring, NoSideFiles, NothingMoved
<1> QED
  BY <1>1, <1>3, ItemsStay DEF CallInv, Steady

\* UnlockFails: the lock stays.
LEMMA UnlockFailsKeeps ==
    ASSUME TypeOK, NEW x \in Calls, CallInv(x), UnlockFailsEffect(x), Steady
    PROVE  CallInv(x)'
<1>1. ASSUME NEW k \in 1..Last(x) PROVE ItemTold(x, k)'
  <2>1. ItemTold(x, k) /\ Position(x)
    BY <1>1 DEF CallInv
  <2>2. ItemAhead(x, k)' /\ ItemInPlace(x, k)' /\ ItemToUndo(x, k)' /\ ItemUndoing(x, k)' /\ ItemUndone(x, k)' /\ ItemDone(x, k)' /\ ItemKept(x, k)'
    BY <2>1 DEF UnlockFailsEffect, Forth, Back, Restoring, ItemAhead, ItemInPlace, ItemToUndo, ItemUndoing, ItemUndone, ItemDone, ItemKept
  <2> QED
    BY <2>2 DEF ItemTold
<1>3. Position(x)'
  BY KindStays DEF UnlockFailsEffect, Steady, CallInv, Position, Looking,
     Forth, Back
<1> QED
  BY <1>1, <1>3, ItemsStay DEF CallInv, Steady

-----------------------------------------------------------------------------
(* What the step of a call means for the others.                            *)

\* The call has looked for the residue of others.
Works(x) == Running(x) /\ tx[x].pc # "residue"

TellsLock(x) ==
    /\ lock' = lock \/ (lock = None /\ lock' = x) \/ (lock = x /\ lock' = None) \/ (Running(x) /\ lock' = None)
    /\ Running(x)' => (Running(x) /\ lock' = lock) \/ lock' = x

TellsWork(x) ==
    /\ Residue(x)' => Residue(x) \/ Works(x)
    /\ Works(x)' => Works(x) \/ \A y \in Calls : ~Residue(y)
    /\ \A q \in Items(x) : tx'[x].backup[q] # None => tx[x].backup[q] # None \/ Works(x)

\* All items are of one writer, or somebody else had a hand in it.
OneWriter(x) ==
    \/ \A p \in Items(x) : file[p] = file[Record(x)]
    \/ \E p \in Items(x) : Excused(p) \/ (x \in Rasters /\ p \in tx[x].forgotten)

\* The files change behind a journal; it goes when nothing is half done.
TellsFile(x) ==
    LET s == tx[x]  t == tx'[x] IN
    /\ \/ file' = file
       \/ /\ Works(x) /\ s.journal = "whole" /\ t.journal = "whole"
          /\ \E p \in Items(x) : \A q \in Places : q # p => file'[q] = file[q]
          /\ file' \in [Places -> Contents]
    /\ s.journal = "whole" /\ t.journal # "whole" => file' = file /\ t.forgotten = s.forgotten /\ OneWriter(x)
    /\ t.forgotten = s.forgotten \/ t.journal = "whole"

\* A call that has come to its end changes nothing any more.
TellsRest(x) ==
    LET s == tx[x]  t == tx'[x] IN
    \/ t.pc \in Forth \cup Back \cup {"throw", "clean", "finish"}
    \/ t.journal # "whole"
    \/ file' = file /\ t.seen = s.seen /\ t.backup = s.backup /\ s.journal = "whole"

\* What a person wrote is moved aside or brought back, never removed.
TellsEdit(x) ==
    LET s == tx[x]  t == tx'[x] IN
    \A q \in Items(x) \ late :
        /\ file[q] = "foreign" => file'[q] = "foreign" \/ t.backup[q] = "foreign"
        /\ s.backup[q] = "foreign" => t.backup[q] = "foreign" \/ file'[q] = "foreign"

CallTells(x) == TellsLock(x) /\ TellsWork(x) /\ TellsFile(x) /\ TellsRest(x) /\ TellsEdit(x)

\* When the journal may go, nothing is half done.
LEMMA NothingHalf ==
    ASSUME TypeOK, NEW x \in Calls, CallInv(x), ~tx[x].recovery,
           (tx[x].pc = "undo" /\ tx[x].at = 0) \/ (tx[x].pc = "clean" /\ tx[x].at > Last(x))
    PROVE  OneWriter(x)
<1>1. \A k \in 1..Last(x) : ItemTold(x, k) /\ k > 0 /\ k \in Nat
  BY DEF CallInv
<1>2. CASE tx[x].pc = "undo"
  <2>1. \A k \in 1..Last(x) : AsSeenAt(x, Item(x, k)) \/ Forgone(x, Item(x, k))
    BY <1>1, <1>2 DEF ItemTold, ItemUndone, Back
  <2>2. \A p \in Items(x) : AsSeenAt(x, p) \/ Forgone(x, p)
    BY <2>1, Ordered
  <2>3. \A p \in Items(x) : tx[x].seen[p] = tx[x].seen[Record(x)]
    BY <1>2 DEF CallInv, Position
  <2> QED
    BY <2>2, <2>3, Ordered DEF OneWriter, AsSeenAt, Forgone
<1>3. CASE tx[x].pc = "clean"
  <2>1. \A k \in 1..Last(x) : Mine(x, Item(x, k))
    BY <1>1, <1>3 DEF ItemTold, ItemDone
  <2>2. \A p \in Items(x) : Mine(x, p)
    BY <2>1, Ordered
  <2> QED
    BY <2>2, Ordered DEF OneWriter, Mine
<1> QED
  BY <1>2, <1>3

\* PlanCall: the plan takes what lies there as one writer's.
LEMMA PlanCallTells ==
    ASSUME TypeOK, NEW x \in Calls, CallInv(x), PlanCallEffect(x), Steady
    PROVE  CallTells(x)
<1>1. /\ Ranged(x, tx[x]) /\ DOMAIN file = Places /\ Items(x)' = Items(x) /\ Items(x) \subseteq Places
      /\ tx[x].at \in 1..Last(x) => Item(x, tx[x].at) \in Items(x)
      /\ Last(x) \in {2, 3} /\ None # "whole" /\ file \in [Places -> Contents] /\ x \in Contents /\ None \in Contents
      /\ x # "foreign" /\ None # "foreign"
  BY CallPlace, StateOf, Ordered, KindStays DEF Steady
<1>p. Position(x)
  BY DEF CallInv
<1>3. TellsLock(x) /\ TellsWork(x)
  BY <1>1 DEF PlanCallEffect, TellsLock, TellsWork, Works, Running, Residue, Ended, Forth, Back, Restoring, Ranged, RangedIn
<1>4. TellsFile(x)
  BY <1>1, <1>p DEF PlanCallEffect, TellsFile, Works, Running, Ended, Forth, Back, Position, Ranged, RangedIn
<1>5. TellsRest(x)
  BY <1>1, <1>p DEF PlanCallEffect, TellsRest, Forth, Back, Restoring, Position, Looking, NoSideFiles
<1>6. TellsEdit(x)
  BY <1>1 DEF PlanCallEffect, TellsEdit, Ranged, RangedIn
<1> QED
  BY <1>3, <1>4, <1>5, <1>6 DEF CallTells

\* LookEarly: the export looks before the lock.
LEMMA LookEarlyTells ==
    ASSUME TypeOK, NEW x \in Calls, CallInv(x), LookEarlyEffect(x), Steady
    PROVE  CallTells(x)
<1>1. /\ Ranged(x, tx[x]) /\ DOMAIN file = Places /\ Items(x)' = Items(x) /\ Items(x) \subseteq Places
      /\ tx[x].at \in 1..Last(x) => Item(x, tx[x].at) \in Items(x)
      /\ Last(x) \in {2, 3} /\ None # "whole" /\ file \in [Places -> Contents] /\ x \in Contents /\ None \in Contents
      /\ x # "foreign" /\ None # "foreign"
  BY CallPlace, StateOf, Ordered, KindStays DEF Steady
<1>p. Position(x)
  BY DEF CallInv
<1>3. TellsLock(x) /\ TellsWork(x)
  BY <1>1 DEF LookEarlyEffect, TellsLock, TellsWork, Works, Running, Residue, Ended, Forth, Back, Restoring, Ranged, RangedIn
<1>4. TellsFile(x)
  BY <1>1, <1>p DEF LookEarlyEffect, TellsFile, Works, Running, Ended, Forth, Back, Position, Ranged, RangedIn
<1>5. TellsRest(x)
  BY <1>1, <1>p DEF LookEarlyEffect, TellsRest, Forth, Back, Restoring, Position, Looking, NoSideFiles
<1>6. TellsEdit(x)
  BY <1>1 DEF LookEarlyEffect, TellsEdit, Ranged, RangedIn
<1> QED
  BY <1>3, <1>4, <1>5, <1>6 DEF CallTells

\* LockProject: the lock is taken, or somebody has it.
LEMMA LockProjectTells ==
    ASSUME TypeOK, NEW x \in Calls, CallInv(x), LockProjectEffect(x), Steady
    PROVE  CallTells(x)
<1>1. /\ Ranged(x, tx[x]) /\ DOMAIN file = Places /\ Items(x)' = Items(x) /\ Items(x) \subseteq Places
      /\ tx[x].at \in 1..Last(x) => Item(x, tx[x].at) \in Items(x)
      /\ Last(x) \in {2, 3} /\ None # "whole" /\ file \in [Places -> Contents] /\ x \in Contents /\ None \in Contents
      /\ x # "foreign" /\ None # "foreign"
  BY CallPlace, StateOf, Ordered, KindStays DEF Steady
<1>p. Position(x)
  BY DEF CallInv
<1>3. TellsLock(x) /\ TellsWork(x)
  BY <1>1 DEF LockProjectEffect, TellsLock, TellsWork, Works, Running, Residue, Ended, Forth, Back, Restoring, Ranged, RangedIn
<1>4. TellsFile(x)
  BY <1>1, <1>p DEF LockProjectEffect, TellsFile, Works, Running, Ended, Forth, Back, Position, Ranged, RangedIn
<1>5. TellsRest(x)
  BY <1>1, <1>p DEF LockProjectEffect, TellsRest, Forth, Back, Restoring, Position, Looking, NoSideFiles
<1>6. TellsEdit(x)
  BY <1>1 DEF LockProjectEffect, TellsEdit, Ranged, RangedIn
<1> QED
  BY <1>3, <1>4, <1>5, <1>6 DEF CallTells

\* CheckResidue: nobody starts over the residue of another.
LEMMA CheckResidueTells ==
    ASSUME TypeOK, NEW x \in Calls, CallInv(x), CheckResidueEffect(x), Steady
    PROVE  CallTells(x)
<1>1. /\ Ranged(x, tx[x]) /\ DOMAIN file = Places /\ Items(x)' = Items(x) /\ Items(x) \subseteq Places
      /\ tx[x].at \in 1..Last(x) => Item(x, tx[x].at) \in Items(x)
      /\ Last(x) \in {2, 3} /\ None # "whole" /\ file \in [Places -> Contents] /\ x \in Contents /\ None \in Contents
      /\ x # "foreign" /\ None # "foreign"
  BY CallPlace, StateOf, Ordered, KindStays DEF Steady
<1>p. Position(x)
  BY DEF CallInv
<1>3. TellsLock(x) /\ TellsWork(x)
  BY <1>1 DEF CheckResidueEffect, TellsLock, TellsWork, Works, Running,
     Residue, Ended
<1>4. TellsFile(x)
  BY <1>1, <1>p DEF CheckResidueEffect, TellsFile, Works, Running, Ended, Forth, Back, Position, Ranged, RangedIn
<1>5. TellsRest(x)
  BY <1>1, <1>p DEF CheckResidueEffect, TellsRest, Forth, Back, Restoring, Position, Looking, NoSideFiles
<1>6. TellsEdit(x)
  BY <1>1 DEF CheckResidueEffect, TellsEdit, Ranged, RangedIn
<1> QED
  BY <1>3, <1>4, <1>5, <1>6 DEF CallTells

\* LookBehindLock: behind the lock everything is as planned.
LEMMA LookBehindLockTells ==
    ASSUME TypeOK, NEW x \in Calls, CallInv(x), LookBehindLockEffect(x), Steady
    PROVE  CallTells(x)
<1>1. /\ Ranged(x, tx[x]) /\ DOMAIN file = Places /\ Items(x)' = Items(x) /\ Items(x) \subseteq Places
      /\ tx[x].at \in 1..Last(x) => Item(x, tx[x].at) \in Items(x)
      /\ Last(x) \in {2, 3} /\ None # "whole" /\ file \in [Places -> Contents] /\ x \in Contents /\ None \in Contents
      /\ x # "foreign" /\ None # "foreign"
  BY CallPlace, StateOf, Ordered, KindStays DEF Steady
<1>p. Position(x)
  BY DEF CallInv
<1>3. TellsLock(x) /\ TellsWork(x)
  BY <1>1 DEF LookBehindLockEffect, TellsLock, TellsWork, Works, Running, Residue, Ended, Forth, Back, Restoring, Ranged, RangedIn
<1>4. TellsFile(x)
  BY <1>1, <1>p DEF LookBehindLockEffect, TellsFile, Works, Running, Ended, Forth, Back, Position, Ranged, RangedIn
<1>5. TellsRest(x)
  BY <1>1, <1>p DEF LookBehindLockEffect, TellsRest, Forth, Back, Restoring, Position, Looking, NoSideFiles
<1>6. TellsEdit(x)
  BY <1>1 DEF LookBehindLockEffect, TellsEdit, Ranged, RangedIn
<1> QED
  BY <1>3, <1>4, <1>5, <1>6 DEF CallTells

\* LookFails: a look fails.
LEMMA LookFailsTells ==
    ASSUME TypeOK, NEW x \in Calls, CallInv(x), LookFailsEffect(x), Steady
    PROVE  CallTells(x)
<1>1. /\ Ranged(x, tx[x]) /\ DOMAIN file = Places /\ Items(x)' = Items(x) /\ Items(x) \subseteq Places
      /\ tx[x].at \in 1..Last(x) => Item(x, tx[x].at) \in Items(x)
      /\ Last(x) \in {2, 3} /\ None # "whole" /\ file \in [Places -> Contents] /\ x \in Contents /\ None \in Contents
      /\ x # "foreign" /\ None # "foreign"
  BY CallPlace, StateOf, Ordered, KindStays DEF Steady
<1>p. Position(x)
  BY DEF CallInv
<1>3. TellsLock(x) /\ TellsWork(x)
  BY <1>1 DEF LookFailsEffect, TellsLock, TellsWork, Works, Running, Residue, Ended, Forth, Back, Restoring, Ranged, RangedIn
<1>4. TellsFile(x)
  BY <1>1, <1>p DEF LookFailsEffect, TellsFile, Works, Running, Ended, Forth, Back, Position, Ranged, RangedIn
<1>5. TellsRest(x)
  BY <1>1, <1>p DEF LookFailsEffect, TellsRest, Forth, Back, Restoring, Position, Looking, NoSideFiles
<1>6. TellsEdit(x)
  BY <1>1 DEF LookFailsEffect, TellsEdit, Ranged, RangedIn
<1> QED
  BY <1>3, <1>4, <1>5, <1>6 DEF CallTells

\* StageItem: the item is staged.
LEMMA StageItemTells ==
    ASSUME TypeOK, NEW x \in Calls, CallInv(x), StageItemEffect(x), Steady
    PROVE  CallTells(x)
<1>1. /\ Ranged(x, tx[x]) /\ DOMAIN file = Places /\ Items(x)' = Items(x) /\ Items(x) \subseteq Places
      /\ tx[x].at \in 1..Last(x) => Item(x, tx[x].at) \in Items(x)
      /\ Last(x) \in {2, 3} /\ None # "whole" /\ file \in [Places -> Contents] /\ x \in Contents /\ None \in Contents
      /\ x # "foreign" /\ None # "foreign"
  BY CallPlace, StateOf, Ordered, KindStays DEF Steady
<1>p. Position(x)
  BY DEF CallInv
<1>3. TellsLock(x) /\ TellsWork(x)
  BY <1>1, <1>p DEF StageItemEffect, TellsLock, TellsWork, Works, Running, Residue, Ended, Forth, Back, Restoring, Ranged, RangedIn, Position
<1>4. TellsFile(x)
  BY <1>1, <1>p DEF StageItemEffect, TellsFile, Works, Running, Ended, Forth, Back, Position, Ranged, RangedIn
<1>5. TellsRest(x)
  BY <1>1, <1>p DEF StageItemEffect, TellsRest, Forth, Back, Restoring, Position, Looking, NoSideFiles
<1>6. TellsEdit(x)
  BY <1>1 DEF StageItemEffect, TellsEdit, Ranged, RangedIn
<1> QED
  BY <1>3, <1>4, <1>5, <1>6 DEF CallTells

\* StagingFails: what was staged is undone, what was not yet listed stays.
LEMMA StagingFailsTells ==
    ASSUME TypeOK, NEW x \in Calls, CallInv(x), StagingFailsEffect(x), Steady
    PROVE  CallTells(x)
<1>1. /\ Ranged(x, tx[x]) /\ DOMAIN file = Places /\ Items(x)' = Items(x) /\ Items(x) \subseteq Places
      /\ tx[x].at \in 1..Last(x) => Item(x, tx[x].at) \in Items(x)
      /\ Last(x) \in {2, 3} /\ None # "whole" /\ file \in [Places -> Contents] /\ x \in Contents /\ None \in Contents
      /\ x # "foreign" /\ None # "foreign"
  BY CallPlace, StateOf, Ordered, KindStays DEF Steady
<1>p. Position(x)
  BY DEF CallInv
<1>3. TellsLock(x) /\ TellsWork(x)
  BY <1>1 DEF StagingFailsEffect, TellsLock, TellsWork, Works, Running, Residue, Ended, Forth, Back, Restoring, Ranged, RangedIn
<1>4. TellsFile(x)
  BY <1>1, <1>p DEF StagingFailsEffect, TellsFile, Works, Running, Ended, Forth, Back, Position, Ranged, RangedIn
<1>5. TellsRest(x)
  BY <1>1, <1>p DEF StagingFailsEffect, TellsRest, Forth, Back, Restoring, Position, Looking, NoSideFiles
<1>6. TellsEdit(x)
  BY <1>1 DEF StagingFailsEffect, TellsEdit, Ranged, RangedIn
<1> QED
  BY <1>3, <1>4, <1>5, <1>6 DEF CallTells

\* WriteJournal: the journal is written.
LEMMA WriteJournalTells ==
    ASSUME TypeOK, NEW x \in Calls, CallInv(x), WriteJournalEffect(x), Steady
    PROVE  CallTells(x)
<1>1. /\ Ranged(x, tx[x]) /\ DOMAIN file = Places /\ Items(x)' = Items(x) /\ Items(x) \subseteq Places
      /\ tx[x].at \in 1..Last(x) => Item(x, tx[x].at) \in Items(x)
      /\ Last(x) \in {2, 3} /\ None # "whole" /\ file \in [Places -> Contents] /\ x \in Contents /\ None \in Contents
      /\ x # "foreign" /\ None # "foreign"
  BY CallPlace, StateOf, Ordered, KindStays DEF Steady
<1>p. Position(x)
  BY DEF CallInv
<1>3. TellsLock(x) /\ TellsWork(x)
  BY <1>1 DEF WriteJournalEffect, TellsLock, TellsWork, Works, Running, Residue, Ended, Forth, Back, Restoring, Ranged, RangedIn
<1>4. TellsFile(x)
  BY <1>1, <1>p DEF WriteJournalEffect, TellsFile, Works, Running, Ended, Forth, Back, Position, Ranged, RangedIn
<1>5. TellsRest(x)
  BY <1>1, <1>p DEF WriteJournalEffect, TellsRest, Forth, Back, Restoring, Position, Looking, NoSideFiles
<1>6. TellsEdit(x)
  BY <1>1 DEF WriteJournalEffect, TellsEdit, Ranged, RangedIn
<1> QED
  BY <1>3, <1>4, <1>5, <1>6 DEF CallTells

\* JournalFails: the journal fails, in part or whole.
LEMMA JournalFailsTells ==
    ASSUME TypeOK, NEW x \in Calls, CallInv(x), JournalFailsEffect(x), Steady
    PROVE  CallTells(x)
<1>1. /\ Ranged(x, tx[x]) /\ DOMAIN file = Places /\ Items(x)' = Items(x) /\ Items(x) \subseteq Places
      /\ tx[x].at \in 1..Last(x) => Item(x, tx[x].at) \in Items(x)
      /\ Last(x) \in {2, 3} /\ None # "whole" /\ file \in [Places -> Contents] /\ x \in Contents /\ None \in Contents
      /\ x # "foreign" /\ None # "foreign"
  BY CallPlace, StateOf, Ordered, KindStays DEF Steady
<1>p. Position(x)
  BY DEF CallInv
<1>3. TellsLock(x) /\ TellsWork(x)
  BY <1>1 DEF JournalFailsEffect, TellsLock, TellsWork, Works, Running, Residue, Ended, Forth, Back, Restoring, Ranged, RangedIn
<1>4. TellsFile(x)
  BY <1>1, <1>p DEF JournalFailsEffect, TellsFile, Works, Running, Ended, Forth, Back, Position, Ranged, RangedIn
<1>5. TellsRest(x)
  BY <1>1, <1>p DEF JournalFailsEffect, TellsRest, Forth, Back, Restoring, Position, Looking, NoSideFiles
<1>6. TellsEdit(x)
  BY <1>1 DEF JournalFailsEffect, TellsEdit, Ranged, RangedIn
<1> QED
  BY <1>3, <1>4, <1>5, <1>6 DEF CallTells

\* VerifyItem: the item is looked at before it is moved.
LEMMA VerifyItemTells ==
    ASSUME TypeOK, NEW x \in Calls, CallInv(x), VerifyItemEffect(x), Steady
    PROVE  CallTells(x)
<1>1. /\ Ranged(x, tx[x]) /\ DOMAIN file = Places /\ Items(x)' = Items(x) /\ Items(x) \subseteq Places
      /\ tx[x].at \in 1..Last(x) => Item(x, tx[x].at) \in Items(x)
      /\ Last(x) \in {2, 3} /\ None # "whole" /\ file \in [Places -> Contents] /\ x \in Contents /\ None \in Contents
      /\ x # "foreign" /\ None # "foreign"
  BY CallPlace, StateOf, Ordered, KindStays DEF Steady
<1>p. Position(x)
  BY DEF CallInv
<1>3. TellsLock(x) /\ TellsWork(x)
  BY <1>1 DEF VerifyItemEffect, TellsLock, TellsWork, Works, Running, Residue, Ended, Forth, Back, Restoring, Ranged, RangedIn
<1>4. TellsFile(x)
  BY <1>1, <1>p DEF VerifyItemEffect, TellsFile, Works, Running, Ended, Forth, Back, Position, Ranged, RangedIn
<1>5. TellsRest(x)
  BY <1>1, <1>p DEF VerifyItemEffect, TellsRest, Forth, Back, Restoring, Position, Looking, NoSideFiles
<1>6. TellsEdit(x)
  BY <1>1 DEF VerifyItemEffect, TellsEdit, Ranged, RangedIn
<1> QED
  BY <1>3, <1>4, <1>5, <1>6 DEF CallTells

\* BackUpItem: the old file is moved aside.
LEMMA BackUpItemTells ==
    ASSUME TypeOK, NEW x \in Calls, CallInv(x), BackUpItemEffect(x), Steady
    PROVE  CallTells(x)
<1>1. /\ Ranged(x, tx[x]) /\ DOMAIN file = Places /\ Items(x)' = Items(x) /\ Items(x) \subseteq Places
      /\ tx[x].at \in 1..Last(x) => Item(x, tx[x].at) \in Items(x)
      /\ Last(x) \in {2, 3} /\ None # "whole" /\ file \in [Places -> Contents] /\ x \in Contents /\ None \in Contents
      /\ x # "foreign" /\ None # "foreign"
  BY CallPlace, StateOf, Ordered, KindStays DEF Steady
<1>p. Position(x)
  BY DEF CallInv
<1>2. tx[x].at \in 1..Last(x) => ItemTold(x, tx[x].at)
  BY DEF CallInv
<1>3. TellsLock(x) /\ TellsWork(x)
  BY <1>1, <1>p DEF BackUpItemEffect, TellsLock, TellsWork, Works, Running, Residue, Ended, Forth, Back, Restoring, Ranged, RangedIn, Position
<1>4. TellsFile(x)
  BY <1>1, <1>p, <1>2 DEF BackUpItemEffect, TellsFile, Works, Running, Ended, Forth, Back, Position, Ranged, RangedIn, ItemTold, ItemUndoing, NothingMoved
<1>5. TellsRest(x)
  BY <1>1, <1>p DEF BackUpItemEffect, TellsRest, Forth, Back, Restoring, Position, Looking, NoSideFiles
<1>6. TellsEdit(x)
  BY <1>1, <1>2, <1>p DEF BackUpItemEffect, TellsEdit, Ranged, RangedIn,
     ItemTold, ItemAhead, Untouched, Forth, Position
<1> QED
  BY <1>3, <1>4, <1>5, <1>6 DEF CallTells

\* LinkItem: the new file is linked where nothing lies.
LEMMA LinkItemTells ==
    ASSUME TypeOK, NEW x \in Calls, CallInv(x), LinkItemEffect(x), Steady
    PROVE  CallTells(x)
<1>1. /\ Ranged(x, tx[x]) /\ DOMAIN file = Places /\ Items(x)' = Items(x) /\ Items(x) \subseteq Places
      /\ tx[x].at \in 1..Last(x) => Item(x, tx[x].at) \in Items(x)
      /\ Last(x) \in {2, 3} /\ None # "whole" /\ file \in [Places -> Contents] /\ x \in Contents /\ None \in Contents
      /\ x # "foreign" /\ None # "foreign"
  BY CallPlace, StateOf, Ordered, KindStays DEF Steady
<1>p. Position(x)
  BY DEF CallInv
<1>2. tx[x].at \in 1..Last(x) => ItemTold(x, tx[x].at)
  BY DEF CallInv
<1>3. TellsLock(x) /\ TellsWork(x)
  BY <1>1 DEF LinkItemEffect, TellsLock, TellsWork, Works, Running, Residue, Ended, Forth, Back, Restoring, Ranged, RangedIn
<1>4. TellsFile(x)
  BY <1>1, <1>p, <1>2 DEF LinkItemEffect, TellsFile, Works, Running, Ended, Forth, Back, Position, Ranged, RangedIn, ItemTold, ItemUndoing, NothingMoved
<1>5. TellsRest(x)
  BY <1>1, <1>p DEF LinkItemEffect, TellsRest, Forth, Back, Restoring, Position, Looking, NoSideFiles
<1>6. TellsEdit(x)
  BY <1>1, <1>2, <1>p DEF LinkItemEffect, TellsEdit, Ranged, RangedIn, ItemTold, ItemAhead, Forth, Position
<1> QED
  BY <1>3, <1>4, <1>5, <1>6 DEF CallTells

\* UnlinkStage: the stage goes, and the item counts as promoted.
LEMMA UnlinkStageTells ==
    ASSUME TypeOK, NEW x \in Calls, CallInv(x), UnlinkStageEffect(x), Steady
    PROVE  CallTells(x)
<1>1. /\ Ranged(x, tx[x]) /\ DOMAIN file = Places /\ Items(x)' = Items(x) /\ Items(x) \subseteq Places
      /\ tx[x].at \in 1..Last(x) => Item(x, tx[x].at) \in Items(x)
      /\ Last(x) \in {2, 3} /\ None # "whole" /\ file \in [Places -> Contents] /\ x \in Contents /\ None \in Contents
      /\ x # "foreign" /\ None # "foreign"
  BY CallPlace, StateOf, Ordered, KindStays DEF Steady
<1>p. Position(x)
  BY DEF CallInv
<1>3. TellsLock(x) /\ TellsWork(x)
  BY <1>1 DEF UnlinkStageEffect, TellsLock, TellsWork, Works, Running, Residue, Ended, Forth, Back, Restoring, Ranged, RangedIn
<1>4. TellsFile(x)
  BY <1>1, <1>p DEF UnlinkStageEffect, TellsFile, Works, Running, Ended, Forth, Back, Position, Ranged, RangedIn
<1>5. TellsRest(x)
  BY <1>1, <1>p DEF UnlinkStageEffect, TellsRest, Forth, Back, Restoring, Position, Looking, NoSideFiles
<1>6. TellsEdit(x)
  BY <1>1 DEF UnlinkStageEffect, TellsEdit, Ranged, RangedIn
<1> QED
  BY <1>3, <1>4, <1>5, <1>6 DEF CallTells

\* SyncItem: on to the next item, or to the end.
LEMMA SyncItemTells ==
    ASSUME TypeOK, NEW x \in Calls, CallInv(x), SyncItemEffect(x), Steady
    PROVE  CallTells(x)
<1>1. /\ Ranged(x, tx[x]) /\ DOMAIN file = Places /\ Items(x)' = Items(x) /\ Items(x) \subseteq Places
      /\ tx[x].at \in 1..Last(x) => Item(x, tx[x].at) \in Items(x)
      /\ Last(x) \in {2, 3} /\ None # "whole" /\ file \in [Places -> Contents] /\ x \in Contents /\ None \in Contents
      /\ x # "foreign" /\ None # "foreign"
  BY CallPlace, StateOf, Ordered, KindStays DEF Steady
<1>p. Position(x)
  BY DEF CallInv
<1>3. TellsLock(x) /\ TellsWork(x)
  BY <1>1 DEF SyncItemEffect, TellsLock, TellsWork, Works, Running, Residue, Ended, Forth, Back, Restoring, Ranged, RangedIn
<1>4. TellsFile(x)
  BY <1>1, <1>p DEF SyncItemEffect, TellsFile, Works, Running, Ended, Forth, Back, Position, Ranged, RangedIn
<1>5. TellsRest(x)
  BY <1>1, <1>p DEF SyncItemEffect, TellsRest, Forth, Back, Restoring, Position, Looking, NoSideFiles
<1>6. TellsEdit(x)
  BY <1>1 DEF SyncItemEffect, TellsEdit, Ranged, RangedIn
<1> QED
  BY <1>3, <1>4, <1>5, <1>6 DEF CallTells

\* DestinationChanged: somebody was at the destination.
LEMMA DestinationChangedTells ==
    ASSUME TypeOK, NEW x \in Calls, CallInv(x), DestinationChangedEffect(x), Steady
    PROVE  CallTells(x)
<1>1. /\ Ranged(x, tx[x]) /\ DOMAIN file = Places /\ Items(x)' = Items(x) /\ Items(x) \subseteq Places
      /\ tx[x].at \in 1..Last(x) => Item(x, tx[x].at) \in Items(x)
      /\ Last(x) \in {2, 3} /\ None # "whole" /\ file \in [Places -> Contents] /\ x \in Contents /\ None \in Contents
      /\ x # "foreign" /\ None # "foreign"
  BY CallPlace, StateOf, Ordered, KindStays DEF Steady
<1>p. Position(x)
  BY DEF CallInv
<1>3. TellsLock(x) /\ TellsWork(x)
  BY <1>1 DEF DestinationChangedEffect, TellsLock, TellsWork, Works, Running, Residue, Ended, Forth, Back, Restoring, Ranged, RangedIn
<1>4. TellsFile(x)
  BY <1>1, <1>p DEF DestinationChangedEffect, TellsFile, Works, Running, Ended, Forth, Back, Position, Ranged, RangedIn
<1>5. TellsRest(x)
  BY <1>1, <1>p DEF DestinationChangedEffect, TellsRest, Forth, Back, Restoring, Position, Looking, NoSideFiles
<1>6. TellsEdit(x)
  BY <1>1 DEF DestinationChangedEffect, TellsEdit, Ranged, RangedIn
<1> QED
  BY <1>3, <1>4, <1>5, <1>6 DEF CallTells

\* PromotionFails: a failure on the way; a linked stage that cannot go is forgotten.
LEMMA PromotionFailsTells ==
    ASSUME TypeOK, NEW x \in Calls, CallInv(x), PromotionFailsEffect(x), Steady
    PROVE  CallTells(x)
<1>1. /\ Ranged(x, tx[x]) /\ DOMAIN file = Places /\ Items(x)' = Items(x) /\ Items(x) \subseteq Places
      /\ tx[x].at \in 1..Last(x) => Item(x, tx[x].at) \in Items(x)
      /\ Last(x) \in {2, 3} /\ None # "whole" /\ file \in [Places -> Contents] /\ x \in Contents /\ None \in Contents
      /\ x # "foreign" /\ None # "foreign"
  BY CallPlace, StateOf, Ordered, KindStays DEF Steady
<1>p. Position(x)
  BY DEF CallInv
<1>3. TellsLock(x) /\ TellsWork(x)
  BY <1>1 DEF PromotionFailsEffect, TellsLock, TellsWork, Works, Running, Residue, Ended, Forth, Back, Restoring, Ranged, RangedIn
<1>4. TellsFile(x)
  BY <1>1, <1>p DEF PromotionFailsEffect, TellsFile, Works, Running, Ended, Forth, Back, Position, Ranged, RangedIn
<1>5. TellsRest(x)
  BY <1>1, <1>p DEF PromotionFailsEffect, TellsRest, Forth, Back, Restoring, Position, Looking, NoSideFiles
<1>6. TellsEdit(x)
  BY <1>1 DEF PromotionFailsEffect, TellsEdit, Ranged, RangedIn
<1> QED
  BY <1>3, <1>4, <1>5, <1>6 DEF CallTells

\* UndoItem: an item is undone according to what lies there.
LEMMA UndoItemTells ==
    ASSUME TypeOK, NEW x \in Calls, CallInv(x), UndoItemEffect(x), Steady
    PROVE  CallTells(x)
<1>1. /\ Ranged(x, tx[x]) /\ DOMAIN file = Places /\ Items(x)' = Items(x) /\ Items(x) \subseteq Places
      /\ tx[x].at \in 1..Last(x) => Item(x, tx[x].at) \in Items(x)
      /\ Last(x) \in {2, 3} /\ None # "whole" /\ file \in [Places -> Contents] /\ x \in Contents /\ None \in Contents
      /\ x # "foreign" /\ None # "foreign"
  BY CallPlace, StateOf, Ordered, KindStays DEF Steady
<1>p. Position(x)
  BY DEF CallInv
<1>3. TellsLock(x) /\ TellsWork(x)
  BY <1>1 DEF UndoItemEffect, TellsLock, TellsWork, Works, Running, Residue, Ended, Forth, Back, Restoring, Ranged, RangedIn
<1>4. TellsFile(x)
  BY <1>1, <1>p DEF UndoItemEffect, TellsFile, Works, Running, Ended, Forth, Back, Position, Ranged, RangedIn
<1>5. TellsRest(x)
  BY <1>1, <1>p DEF UndoItemEffect, TellsRest, Forth, Back, Restoring, Position, Looking, NoSideFiles
<1>6. TellsEdit(x)
  BY <1>1 DEF UndoItemEffect, TellsEdit, Ranged, RangedIn
<1> QED
  BY <1>3, <1>4, <1>5, <1>6 DEF CallTells

\* RemoveItem: the call's own file goes.
LEMMA RemoveItemTells ==
    ASSUME TypeOK, NEW x \in Calls, CallInv(x), RemoveItemEffect(x), Steady
    PROVE  CallTells(x)
<1>1. /\ Ranged(x, tx[x]) /\ DOMAIN file = Places /\ Items(x)' = Items(x) /\ Items(x) \subseteq Places
      /\ tx[x].at \in 1..Last(x) => Item(x, tx[x].at) \in Items(x)
      /\ Last(x) \in {2, 3} /\ None # "whole" /\ file \in [Places -> Contents] /\ x \in Contents /\ None \in Contents
      /\ x # "foreign" /\ None # "foreign"
  BY CallPlace, StateOf, Ordered, KindStays DEF Steady
<1>p. Position(x)
  BY DEF CallInv
<1>2. tx[x].at \in 1..Last(x) => ItemTold(x, tx[x].at)
  BY DEF CallInv
<1>3. TellsLock(x) /\ TellsWork(x)
  BY <1>1 DEF RemoveItemEffect, TellsLock, TellsWork, Works, Running, Residue, Ended, Forth, Back, Restoring, Ranged, RangedIn
<1>4. TellsFile(x)
  BY <1>1, <1>p, <1>2 DEF RemoveItemEffect, TellsFile, Works, Running, Ended, Forth, Back, Position, Ranged, RangedIn, ItemTold, ItemUndoing, NothingMoved
<1>5. TellsRest(x)
  BY <1>1, <1>p DEF RemoveItemEffect, TellsRest, Forth, Back, Restoring, Position, Looking, NoSideFiles
<1>6. TellsEdit(x)
  BY <1>1, <1>2, <1>p DEF RemoveItemEffect, TellsEdit, Ranged, RangedIn, ItemTold, ItemUndoing, Back, Position
<1> QED
  BY <1>3, <1>4, <1>5, <1>6 DEF CallTells

\* LookForRestore: the backup comes back only where nothing lies.
LEMMA LookForRestoreTells ==
    ASSUME TypeOK, NEW x \in Calls, CallInv(x), LookForRestoreEffect(x), Steady
    PROVE  CallTells(x)
<1>1. /\ Ranged(x, tx[x]) /\ DOMAIN file = Places /\ Items(x)' = Items(x) /\ Items(x) \subseteq Places
      /\ tx[x].at \in 1..Last(x) => Item(x, tx[x].at) \in Items(x)
      /\ Last(x) \in {2, 3} /\ None # "whole" /\ file \in [Places -> Contents] /\ x \in Contents /\ None \in Contents
      /\ x # "foreign" /\ None # "foreign"
  BY CallPlace, StateOf, Ordered, KindStays DEF Steady
<1>p. Position(x)
  BY DEF CallInv
<1>3. TellsLock(x) /\ TellsWork(x)
  BY <1>1 DEF LookForRestoreEffect, TellsLock, TellsWork, Works, Running, Residue, Ended, Forth, Back, Restoring, Ranged, RangedIn
<1>4. TellsFile(x)
  BY <1>1, <1>p DEF LookForRestoreEffect, TellsFile, Works, Running, Ended, Forth, Back, Position, Ranged, RangedIn
<1>5. TellsRest(x)
  BY <1>1, <1>p DEF LookForRestoreEffect, TellsRest, Forth, Back, Restoring, Position, Looking, NoSideFiles
<1>6. TellsEdit(x)
  BY <1>1 DEF LookForRestoreEffect, TellsEdit, Ranged, RangedIn
<1> QED
  BY <1>3, <1>4, <1>5, <1>6 DEF CallTells

\* RestoreItem: the backup comes back.
LEMMA RestoreItemTells ==
    ASSUME TypeOK, NEW x \in Calls, CallInv(x), RestoreItemEffect(x), Steady
    PROVE  CallTells(x)
<1>1. /\ Ranged(x, tx[x]) /\ DOMAIN file = Places /\ Items(x)' = Items(x) /\ Items(x) \subseteq Places
      /\ tx[x].at \in 1..Last(x) => Item(x, tx[x].at) \in Items(x)
      /\ Last(x) \in {2, 3} /\ None # "whole" /\ file \in [Places -> Contents] /\ x \in Contents /\ None \in Contents
      /\ x # "foreign" /\ None # "foreign"
  BY CallPlace, StateOf, Ordered, KindStays DEF Steady
<1>p. Position(x)
  BY DEF CallInv
<1>2. tx[x].at \in 1..Last(x) => ItemTold(x, tx[x].at)
  BY DEF CallInv
<1>3. TellsLock(x) /\ TellsWork(x)
  BY <1>1 DEF RestoreItemEffect, TellsLock, TellsWork, Works, Running, Residue, Ended, Forth, Back, Restoring, Ranged, RangedIn
<1>4. TellsFile(x)
  BY <1>1, <1>p, <1>2 DEF RestoreItemEffect, TellsFile, Works, Running, Ended, Forth, Back, Position, Ranged, RangedIn, ItemTold, ItemUndoing, NothingMoved
<1>5. TellsRest(x)
  BY <1>1, <1>p DEF RestoreItemEffect, TellsRest, Forth, Back, Restoring, Position, Looking, NoSideFiles
<1>6. TellsEdit(x)
  BY <1>1, <1>2, <1>p DEF RestoreItemEffect, TellsEdit, Ranged, RangedIn, ItemTold, ItemUndoing, Back, Position
<1> QED
  BY <1>3, <1>4, <1>5, <1>6 DEF CallTells

\* RemoveStage: the stage goes, except one that was linked.
LEMMA RemoveStageTells ==
    ASSUME TypeOK, NEW x \in Calls, CallInv(x), RemoveStageEffect(x), Steady
    PROVE  CallTells(x)
<1>1. /\ Ranged(x, tx[x]) /\ DOMAIN file = Places /\ Items(x)' = Items(x) /\ Items(x) \subseteq Places
      /\ tx[x].at \in 1..Last(x) => Item(x, tx[x].at) \in Items(x)
      /\ Last(x) \in {2, 3} /\ None # "whole" /\ file \in [Places -> Contents] /\ x \in Contents /\ None \in Contents
      /\ x # "foreign" /\ None # "foreign"
  BY CallPlace, StateOf, Ordered, KindStays DEF Steady
<1>p. Position(x)
  BY DEF CallInv
<1>3. TellsLock(x) /\ TellsWork(x)
  BY <1>1 DEF RemoveStageEffect, TellsLock, TellsWork, Works, Running, Residue, Ended, Forth, Back, Restoring, Ranged, RangedIn
<1>4. TellsFile(x)
  BY <1>1, <1>p DEF RemoveStageEffect, TellsFile, Works, Running, Ended, Forth, Back, Position, Ranged, RangedIn
<1>5. TellsRest(x)
  BY <1>1, <1>p DEF RemoveStageEffect, TellsRest, Forth, Back, Restoring, Position, Looking, NoSideFiles
<1>6. TellsEdit(x)
  BY <1>1 DEF RemoveStageEffect, TellsEdit, Ranged, RangedIn
<1> QED
  BY <1>3, <1>4, <1>5, <1>6 DEF CallTells

\* UndoFails: what cannot be undone asks for recovery.
LEMMA UndoFailsTells ==
    ASSUME TypeOK, NEW x \in Calls, CallInv(x), UndoFailsEffect(x), Steady
    PROVE  CallTells(x)
<1>1. /\ Ranged(x, tx[x]) /\ DOMAIN file = Places /\ Items(x)' = Items(x) /\ Items(x) \subseteq Places
      /\ tx[x].at \in 1..Last(x) => Item(x, tx[x].at) \in Items(x)
      /\ Last(x) \in {2, 3} /\ None # "whole" /\ file \in [Places -> Contents] /\ x \in Contents /\ None \in Contents
      /\ x # "foreign" /\ None # "foreign"
  BY CallPlace, StateOf, Ordered, KindStays DEF Steady
<1>p. Position(x)
  BY DEF CallInv
<1>3. TellsLock(x) /\ TellsWork(x)
  BY <1>1 DEF UndoFailsEffect, TellsLock, TellsWork, Works, Running, Residue, Ended, Forth, Back, Restoring, Ranged, RangedIn
<1>4. TellsFile(x)
  BY <1>1, <1>p DEF UndoFailsEffect, TellsFile, Works, Running, Ended, Forth, Back, Position, Ranged, RangedIn
<1>5. TellsRest(x)
  BY <1>1, <1>p DEF UndoFailsEffect, TellsRest, Forth, Back, Restoring, Position, Looking, NoSideFiles
<1>6. TellsEdit(x)
  BY <1>1 DEF UndoFailsEffect, TellsEdit, Ranged, RangedIn
<1> QED
  BY <1>3, <1>4, <1>5, <1>6 DEF CallTells

\* UndoJournal: the journal goes unless something is left to recover.
LEMMA UndoJournalTells ==
    ASSUME TypeOK, NEW x \in Calls, CallInv(x), UndoJournalEffect(x), Steady
    PROVE  CallTells(x)
<1>1. /\ Ranged(x, tx[x]) /\ DOMAIN file = Places /\ Items(x)' = Items(x) /\ Items(x) \subseteq Places
      /\ tx[x].at \in 1..Last(x) => Item(x, tx[x].at) \in Items(x)
      /\ Last(x) \in {2, 3} /\ None # "whole" /\ file \in [Places -> Contents] /\ x \in Contents /\ None \in Contents
      /\ x # "foreign" /\ None # "foreign"
  BY CallPlace, StateOf, Ordered, KindStays DEF Steady
<1>p. Position(x)
  BY DEF CallInv
<1>3. TellsLock(x) /\ TellsWork(x)
  BY <1>1 DEF UndoJournalEffect, TellsLock, TellsWork, Works, Running, Residue, Ended, Forth, Back, Restoring, Ranged, RangedIn
<1>4. TellsFile(x)
  BY <1>1, <1>p, NothingHalf DEF UndoJournalEffect, TellsFile, Works, Running, Ended, Forth, Back, Position, Ranged, RangedIn
<1>5. TellsRest(x)
  BY <1>1, <1>p DEF UndoJournalEffect, TellsRest, Forth, Back, Restoring, Position, Looking, NoSideFiles
<1>6. TellsEdit(x)
  BY <1>1 DEF UndoJournalEffect, TellsEdit, Ranged, RangedIn
<1> QED
  BY <1>3, <1>4, <1>5, <1>6 DEF CallTells

\* EndRollback: the rollback is reported.
LEMMA EndRollbackTells ==
    ASSUME TypeOK, NEW x \in Calls, CallInv(x), EndRollbackEffect(x), Steady
    PROVE  CallTells(x)
<1>1. /\ Ranged(x, tx[x]) /\ DOMAIN file = Places /\ Items(x)' = Items(x) /\ Items(x) \subseteq Places
      /\ tx[x].at \in 1..Last(x) => Item(x, tx[x].at) \in Items(x)
      /\ Last(x) \in {2, 3} /\ None # "whole" /\ file \in [Places -> Contents] /\ x \in Contents /\ None \in Contents
      /\ x # "foreign" /\ None # "foreign"
  BY CallPlace, StateOf, Ordered, KindStays DEF Steady
<1>p. Position(x)
  BY DEF CallInv
<1>3. TellsLock(x) /\ TellsWork(x)
  BY <1>1 DEF EndRollbackEffect, TellsLock, TellsWork, Works, Running, Residue, Ended, Forth, Back, Restoring, Ranged, RangedIn
<1>4. TellsFile(x)
  BY <1>1, <1>p DEF EndRollbackEffect, TellsFile, Works, Running, Ended, Forth, Back, Position, Ranged, RangedIn
<1>5. TellsRest(x)
  BY <1>1, <1>p DEF EndRollbackEffect, TellsRest, Forth, Back, Restoring, Position, Looking, NoSideFiles
<1>6. TellsEdit(x)
  BY <1>1 DEF EndRollbackEffect, TellsEdit, Ranged, RangedIn
<1> QED
  BY <1>3, <1>4, <1>5, <1>6 DEF CallTells

\* CleanItem: a backup goes.
LEMMA CleanItemTells ==
    ASSUME TypeOK, NEW x \in Calls, CallInv(x), CleanItemEffect(x), Steady
    PROVE  CallTells(x)
<1>1. /\ Ranged(x, tx[x]) /\ DOMAIN file = Places /\ Items(x)' = Items(x) /\ Items(x) \subseteq Places
      /\ tx[x].at \in 1..Last(x) => Item(x, tx[x].at) \in Items(x)
      /\ Last(x) \in {2, 3} /\ None # "whole" /\ file \in [Places -> Contents] /\ x \in Contents /\ None \in Contents
      /\ x # "foreign" /\ None # "foreign"
  BY CallPlace, StateOf, Ordered, KindStays DEF Steady
<1>p. Position(x)
  BY DEF CallInv
<1>2. tx[x].at \in 1..Last(x) => ItemTold(x, tx[x].at)
  BY DEF CallInv
<1>3. TellsLock(x) /\ TellsWork(x)
  BY <1>1 DEF CleanItemEffect, TellsLock, TellsWork, Works, Running, Residue, Ended, Forth, Back, Restoring, Ranged, RangedIn
<1>4. TellsFile(x)
  BY <1>1, <1>p DEF CleanItemEffect, TellsFile, Works, Running, Ended, Forth, Back, Position, Ranged, RangedIn
<1>5. TellsRest(x)
  BY <1>1, <1>p DEF CleanItemEffect, TellsRest, Forth, Back, Restoring, Position, Looking, NoSideFiles
<1>6. TellsEdit(x)
  BY <1>2, <1>p DEF CleanItemEffect, TellsEdit, ItemTold, ItemDone,
     Position
<1> QED
  BY <1>3, <1>4, <1>5, <1>6 DEF CallTells

\* CleaningFails: a backup cannot go.
LEMMA CleaningFailsTells ==
    ASSUME TypeOK, NEW x \in Calls, CallInv(x), CleaningFailsEffect(x), Steady
    PROVE  CallTells(x)
<1>1. /\ Ranged(x, tx[x]) /\ DOMAIN file = Places /\ Items(x)' = Items(x) /\ Items(x) \subseteq Places
      /\ tx[x].at \in 1..Last(x) => Item(x, tx[x].at) \in Items(x)
      /\ Last(x) \in {2, 3} /\ None # "whole" /\ file \in [Places -> Contents] /\ x \in Contents /\ None \in Contents
      /\ x # "foreign" /\ None # "foreign"
  BY CallPlace, StateOf, Ordered, KindStays DEF Steady
<1>p. Position(x)
  BY DEF CallInv
<1>2. tx[x].at \in 1..Last(x) => ItemTold(x, tx[x].at)
  BY DEF CallInv
<1>3. TellsLock(x) /\ TellsWork(x)
  BY <1>1 DEF CleaningFailsEffect, TellsLock, TellsWork, Works, Running, Residue, Ended, Forth, Back, Restoring, Ranged, RangedIn
<1>4. TellsFile(x)
  BY <1>1, <1>p DEF CleaningFailsEffect, TellsFile, Works, Running, Ended, Forth, Back, Position, Ranged, RangedIn
<1>5. TellsRest(x)
  BY <1>1, <1>p DEF CleaningFailsEffect, TellsRest, Forth, Back, Restoring, Position, Looking, NoSideFiles
<1>6. TellsEdit(x)
  BY <1>1, <1>2, <1>p DEF CleaningFailsEffect, TellsEdit, Ranged, RangedIn,
     ItemTold, ItemDone, Position
<1> QED
  BY <1>3, <1>4, <1>5, <1>6 DEF CallTells

\* CleanJournal: the journal goes once the backups are gone.
LEMMA CleanJournalTells ==
    ASSUME TypeOK, NEW x \in Calls, CallInv(x), CleanJournalEffect(x), Steady
    PROVE  CallTells(x)
<1>1. /\ Ranged(x, tx[x]) /\ DOMAIN file = Places /\ Items(x)' = Items(x) /\ Items(x) \subseteq Places
      /\ tx[x].at \in 1..Last(x) => Item(x, tx[x].at) \in Items(x)
      /\ Last(x) \in {2, 3} /\ None # "whole" /\ file \in [Places -> Contents] /\ x \in Contents /\ None \in Contents
      /\ x # "foreign" /\ None # "foreign"
  BY CallPlace, StateOf, Ordered, KindStays DEF Steady
<1>p. Position(x)
  BY DEF CallInv
<1>3. TellsLock(x) /\ TellsWork(x)
  BY <1>1 DEF CleanJournalEffect, TellsLock, TellsWork, Works, Running, Residue, Ended, Forth, Back, Restoring, Ranged, RangedIn
<1>4. TellsFile(x)
  BY <1>1, <1>p, NothingHalf DEF CleanJournalEffect, TellsFile, Works, Running, Ended, Forth, Back, Position, Ranged, RangedIn
<1>5. TellsRest(x)
  BY <1>1, <1>p DEF CleanJournalEffect, TellsRest, Forth, Back, Restoring, Position, Looking, NoSideFiles
<1>6. TellsEdit(x)
  BY <1>1 DEF CleanJournalEffect, TellsEdit, Ranged, RangedIn
<1> QED
  BY <1>3, <1>4, <1>5, <1>6 DEF CallTells

\* EndPublication: the publication is reported.
LEMMA EndPublicationTells ==
    ASSUME TypeOK, NEW x \in Calls, CallInv(x), EndPublicationEffect(x), Steady
    PROVE  CallTells(x)
<1>1. /\ Ranged(x, tx[x]) /\ DOMAIN file = Places /\ Items(x)' = Items(x) /\ Items(x) \subseteq Places
      /\ tx[x].at \in 1..Last(x) => Item(x, tx[x].at) \in Items(x)
      /\ Last(x) \in {2, 3} /\ None # "whole" /\ file \in [Places -> Contents] /\ x \in Contents /\ None \in Contents
      /\ x # "foreign" /\ None # "foreign"
  BY CallPlace, StateOf, Ordered, KindStays DEF Steady
<1>p. Position(x)
  BY DEF CallInv
<1>3. TellsLock(x) /\ TellsWork(x)
  BY <1>1 DEF EndPublicationEffect, TellsLock, TellsWork, Works, Running, Residue, Ended, Forth, Back, Restoring, Ranged, RangedIn
<1>4. TellsFile(x)
  BY <1>1, <1>p DEF EndPublicationEffect, TellsFile, Works, Running, Ended, Forth, Back, Position, Ranged, RangedIn
<1>5. TellsRest(x)
  BY <1>1, <1>p DEF EndPublicationEffect, TellsRest, Forth, Back, Restoring, Position, Looking, NoSideFiles
<1>6. TellsEdit(x)
  BY <1>1 DEF EndPublicationEffect, TellsEdit, Ranged, RangedIn
<1> QED
  BY <1>3, <1>4, <1>5, <1>6 DEF CallTells

\* JournalRemovalFails: the removal of the journal throws.
LEMMA JournalRemovalFailsTells ==
    ASSUME TypeOK, NEW x \in Calls, CallInv(x), JournalRemovalFailsEffect(x), Steady
    PROVE  CallTells(x)
<1>1. /\ Ranged(x, tx[x]) /\ DOMAIN file = Places /\ Items(x)' = Items(x) /\ Items(x) \subseteq Places
      /\ tx[x].at \in 1..Last(x) => Item(x, tx[x].at) \in Items(x)
      /\ Last(x) \in {2, 3} /\ None # "whole" /\ file \in [Places -> Contents] /\ x \in Contents /\ None \in Contents
      /\ x # "foreign" /\ None # "foreign"
  BY CallPlace, StateOf, Ordered, KindStays DEF Steady
<1>p. Position(x)
  BY DEF CallInv
<1>3. TellsLock(x) /\ TellsWork(x)
  BY <1>1 DEF JournalRemovalFailsEffect, TellsLock, TellsWork, Works, Running, Residue, Ended, Forth, Back, Restoring, Ranged, RangedIn
<1>4. TellsFile(x)
  BY <1>1, <1>p, NothingHalf DEF JournalRemovalFailsEffect, TellsFile, Works, Running, Ended, Forth, Back, Position, Ranged, RangedIn
<1>5. TellsRest(x)
  BY <1>1, <1>p DEF JournalRemovalFailsEffect, TellsRest, Forth, Back, Restoring, Position, Looking, NoSideFiles
<1>6. TellsEdit(x)
  BY <1>1 DEF JournalRemovalFailsEffect, TellsEdit, Ranged, RangedIn
<1> QED
  BY <1>3, <1>4, <1>5, <1>6 DEF CallTells

\* UnlockFails: the lock stays.
LEMMA UnlockFailsTells ==
    ASSUME TypeOK, NEW x \in Calls, CallInv(x), UnlockFailsEffect(x), Steady
    PROVE  CallTells(x)
<1>1. /\ Ranged(x, tx[x]) /\ DOMAIN file = Places /\ Items(x)' = Items(x) /\ Items(x) \subseteq Places
      /\ tx[x].at \in 1..Last(x) => Item(x, tx[x].at) \in Items(x)
      /\ Last(x) \in {2, 3} /\ None # "whole" /\ file \in [Places -> Contents] /\ x \in Contents /\ None \in Contents
      /\ x # "foreign" /\ None # "foreign"
  BY CallPlace, StateOf, Ordered, KindStays DEF Steady
<1>p. Position(x)
  BY DEF CallInv
<1>3. TellsLock(x) /\ TellsWork(x)
  BY <1>1 DEF UnlockFailsEffect, TellsLock, TellsWork, Works, Running, Residue, Ended, Forth, Back, Restoring, Ranged, RangedIn
<1>4. TellsFile(x)
  BY <1>1, <1>p DEF UnlockFailsEffect, TellsFile, Works, Running, Ended, Forth, Back, Position, Ranged, RangedIn
<1>5. TellsRest(x)
  BY <1>1, <1>p DEF UnlockFailsEffect, TellsRest, Forth, Back, Restoring, Position, Looking, NoSideFiles
<1>6. TellsEdit(x)
  BY <1>1 DEF UnlockFailsEffect, TellsEdit, Ranged, RangedIn
<1> QED
  BY <1>3, <1>4, <1>5, <1>6 DEF CallTells

\* Each step of a call keeps what is known of it, and is no harm to the others.
LEMMA CallStepHolds ==
    ASSUME TypeOK, NEW x \in Calls, CallInv(x), CallSteps(x), late \subseteq late'
    PROVE  /\ CallInv(x)' /\ CallTells(x) /\ Steady
           /\ tx' = [tx EXCEPT ![x] = tx'[x]] /\ tx'[x] \in CallStates(x) /\ mishaps' \in 0..MaxMishaps
<1>1. Position(x)
  BY DEF CallInv
<1>2. /\ tx' = [tx EXCEPT ![x] = tx'[x]] /\ tx'[x] \in CallStates(x)
      /\ mishaps' \in 0..MaxMishaps /\ Steady
  BY <1>1, CallStepTyped DEF Steady
<1>3. CallInv(x)' /\ CallTells(x)
  <2>1. CASE PlanCall(x)
    BY <1>1, <1>2, <2>1, PlanCallDoes, PlanCallKeeps, PlanCallTells
  <2>2. CASE LookEarly(x)
    BY <1>1, <1>2, <2>2, LookEarlyDoes, LookEarlyKeeps, LookEarlyTells
  <2>3. CASE LockProject(x)
    BY <1>1, <1>2, <2>3, LockProjectDoes, LockProjectKeeps, LockProjectTells
  <2>4. CASE CheckResidue(x)
    BY <1>1, <1>2, <2>4, CheckResidueDoes, CheckResidueKeeps, CheckResidueTells
  <2>5. CASE LookBehindLock(x)
    BY <1>1, <1>2, <2>5, LookBehindLockDoes, LookBehindLockKeeps, LookBehindLockTells
  <2>6. CASE LookFails(x)
    BY <1>1, <1>2, <2>6, LookFailsDoes, LookFailsKeeps, LookFailsTells
  <2>7. CASE StageItem(x)
    BY <1>1, <1>2, <2>7, StageItemDoes, StageItemKeeps, StageItemTells
  <2>8. CASE StagingFails(x)
    BY <1>1, <1>2, <2>8, StagingFailsDoes, StagingFailsKeeps, StagingFailsTells
  <2>9. CASE WriteJournal(x)
    BY <1>1, <1>2, <2>9, WriteJournalDoes, WriteJournalKeeps, WriteJournalTells
  <2>10. CASE JournalFails(x)
    BY <1>1, <1>2, <2>10, JournalFailsDoes, JournalFailsKeeps, JournalFailsTells
  <2>11. CASE VerifyItem(x)
    BY <1>1, <1>2, <2>11, VerifyItemDoes, VerifyItemKeeps, VerifyItemTells
  <2>12. CASE BackUpItem(x)
    BY <1>1, <1>2, <2>12, BackUpItemDoes, BackUpItemKeeps, BackUpItemTells
  <2>13. CASE LinkItem(x)
    BY <1>1, <1>2, <2>13, LinkItemDoes, LinkItemKeeps, LinkItemTells
  <2>14. CASE UnlinkStage(x)
    BY <1>1, <1>2, <2>14, UnlinkStageDoes, UnlinkStageKeeps, UnlinkStageTells
  <2>15. CASE SyncItem(x)
    BY <1>1, <1>2, <2>15, SyncItemDoes, SyncItemKeeps, SyncItemTells
  <2>16. CASE DestinationChanged(x)
    BY <1>1, <1>2, <2>16, DestinationChangedDoes, DestinationChangedKeeps, DestinationChangedTells
  <2>17. CASE PromotionFails(x)
    BY <1>1, <1>2, <2>17, PromotionFailsDoes, PromotionFailsKeeps, PromotionFailsTells
  <2>18. CASE UndoItem(x)
    BY <1>1, <1>2, <2>18, UndoItemDoes, UndoItemKeeps, UndoItemTells
  <2>19. CASE RemoveItem(x)
    BY <1>1, <1>2, <2>19, RemoveItemDoes, RemoveItemKeeps, RemoveItemTells
  <2>20. CASE LookForRestore(x)
    BY <1>1, <1>2, <2>20, LookForRestoreDoes, LookForRestoreKeeps, LookForRestoreTells
  <2>21. CASE RestoreItem(x)
    BY <1>1, <1>2, <2>21, RestoreItemDoes, RestoreItemKeeps, RestoreItemTells
  <2>22. CASE RemoveStage(x)
    BY <1>1, <1>2, <2>22, RemoveStageDoes, RemoveStageKeeps, RemoveStageTells
  <2>23. CASE UndoFails(x)
    BY <1>1, <1>2, <2>23, UndoFailsDoes, UndoFailsKeeps, UndoFailsTells
  <2>24. CASE UndoJournal(x)
    BY <1>1, <1>2, <2>24, UndoJournalDoes, UndoJournalKeeps, UndoJournalTells
  <2>25. CASE EndRollback(x)
    BY <1>1, <1>2, <2>25, EndRollbackDoes, EndRollbackKeeps, EndRollbackTells
  <2>26. CASE CleanItem(x)
    BY <1>1, <1>2, <2>26, CleanItemDoes, CleanItemKeeps, CleanItemTells
  <2>27. CASE CleaningFails(x)
    BY <1>1, <1>2, <2>27, CleaningFailsDoes, CleaningFailsKeeps, CleaningFailsTells
  <2>28. CASE CleanJournal(x)
    BY <1>1, <1>2, <2>28, CleanJournalDoes, CleanJournalKeeps, CleanJournalTells
  <2>29. CASE EndPublication(x)
    BY <1>1, <1>2, <2>29, EndPublicationDoes, EndPublicationKeeps, EndPublicationTells
  <2>30. CASE JournalRemovalFails(x)
    BY <1>1, <1>2, <2>30, JournalRemovalFailsDoes, JournalRemovalFailsKeeps, JournalRemovalFailsTells
  <2>31. CASE UnlockFails(x)
    BY <1>1, <1>2, <2>31, UnlockFailsDoes, UnlockFailsKeeps, UnlockFailsTells
  <2> QED
    BY <2>1, <2>2, <2>3, <2>4, <2>5, <2>6, <2>7, <2>8, <2>9, <2>10, <2>11,
       <2>12, <2>13, <2>14, <2>15, <2>16, <2>17, <2>18, <2>19, <2>20, <2>21, <2>22,
       <2>23, <2>24, <2>25, <2>26, <2>27, <2>28, <2>29, <2>30, <2>31
    DEF CallSteps
<1> QED
  BY <1>2, <1>3

-----------------------------------------------------------------------------
(* A call while others run.                                                 *)

\* A call that does not run knows only what it planned on.
LEMMA CallIdle ==
    ASSUME TypeOK, NEW y \in Calls, CallInv(y), kind' = kind, tx'[y] = tx[y], ~Running(y)
    PROVE  CallInv(y)'
<1>1. tx[y].pc \notin {"stage", "journal", "throw", "clean", "finish"} \cup Forth \cup Back
  BY DEF Running, Ended, Forth, Back
<1>2. \A k \in 1..Last(y) : ItemTold(y, k)'
  BY <1>1 DEF ItemTold, ItemAhead, ItemInPlace, ItemToUndo, ItemUndoing, ItemUndone, ItemDone, ItemKept, Forth, Back
<1>3. Position(y)'
  BY KindStays, ItemsStay DEF CallInv, Position, NoSideFiles, NothingMoved
<1> QED
  BY <1>2, <1>3, ItemsStay DEF CallInv

\* A file of the call is as it was, or an edit of it; one just looked at is late.
Stays(y, q) ==
    \/ file'[q] = file[q]
    \/ touched'[q] # "no" /\ (q \in CallWindow(y) => q \in late')

LEMMA CallStill ==
    ASSUME TypeOK, NEW y \in Calls, CallInv(y), kind' = kind, tx'[y] = tx[y], late \subseteq late',
           \A q \in Places : touched[q] # "no" => touched'[q] # "no",
           \A q \in Items(y) : Stays(y, q)
    PROVE  CallInv(y)'
<1>1. ASSUME NEW k \in 1..Last(y) PROVE ItemTold(y, k)'
  <2> DEFINE p == Item(y, k)
  <2>1. /\ p' = p /\ p \in Items(y) /\ p \in Places /\ Here(y) = Item(y, tx[y].at) /\ Rasters' = Rasters
    BY <1>1, Among
  <2>2. ItemTold(y, k)
    BY <1>1 DEF CallInv
  <2>3. /\ AsSeenAt(y, p) => AsSeenAt(y, p)'
        /\ Absent(p) => Absent(p)'
        /\ Mine(y, p) => Mine(y, p)'
        /\ Kept(y, p) => Kept(y, p)'
    BY <2>1 DEF Stays, AsSeenAt, Absent, Mine, Kept, Excused
  <2>4. /\ SavedExactly(y, p) => SavedExactly(y, p)'
        /\ Saved(y, p) => Saved(y, p)'
        /\ (HasBackup(y, p) <=> HasBackup(y, p)') /\ (Linked(y, p) <=> Linked(y, p)')
        /\ (Forgone(y, p) <=> Forgone(y, p)')
    BY <2>1 DEF SavedExactly, Saved, HasBackup, Linked, Forgone, Excused
  <2>5. Untouched(y, p) => Untouched(y, p)'
    BY <2>1, <2>3 DEF Untouched
  <2>6. p \in CallWindow(y) => file'[p] = file[p] \/ p \in late'
    BY <2>1 DEF Stays
  <2>7. ItemAhead(y, k)'
    BY <2>1, <2>2, <2>5, <2>6 DEF ItemTold, ItemAhead, CallWindow
  <2>8. ItemInPlace(y, k)'
    BY <2>1, <2>2, <2>3, <2>4 DEF ItemTold, ItemInPlace
  <2>9. ItemToUndo(y, k)'
    BY <2>1, <2>2, <2>3, <2>4 DEF ItemTold, ItemToUndo
  <2>10. ItemUndoing(y, k)'
    BY <2>1, <2>2, <2>3, <2>4, <2>6 DEF ItemTold, ItemUndoing, CallWindow
  <2>11. ItemUndone(y, k)'
    BY <2>1, <2>2, <2>3, <2>4 DEF ItemTold, ItemUndone
  <2>12. ItemDone(y, k)'
    BY <2>1, <2>2, <2>3 DEF ItemTold, ItemDone
  <2>13. ItemKept(y, k)'
    BY <2>1, <2>2, <2>3 DEF ItemTold, ItemKept
  <2> QED
    BY <2>7, <2>8, <2>9, <2>10, <2>11, <2>12, <2>13 DEF ItemTold
<1>2. Position(y)'
  BY KindStays, ItemsStay DEF CallInv, Position, NoSideFiles, NothingMoved
<1> QED
  BY <1>1, <1>2, ItemsStay DEF CallInv

-----------------------------------------------------------------------------
(* The step of a call, and everybody else.                                  *)

\* The windows of the others: a file that changes behind a last look is late.
LEMMA Noticed ==
    ASSUME NEW P, NEW y \in P, NotesLate(P), NEW q, file'[q] # file[q],
           (y \in Calls /\ q \in CallWindow(y)) \/ (y \in Publishers /\ q \in PubWindow(y))
    PROVE  q \in late'
<1>1. q \in Windows(P)
  <2>1. CASE y \in Calls /\ q \in CallWindow(y)
    BY <2>1 DEF Windows
  <2>2. CASE y \in Publishers /\ q \in PubWindow(y)
    BY <2>2 DEF Windows
  <2> QED
    BY <2>1, <2>2
<1> QED
  BY <1>1 DEF NotesLate

LEMMA WindowsInPlaces ==
    ASSUME TypeOK, NEW P, \A x \in Calls : CallInv(x)
    PROVE  Windows(P) \subseteq Places
<1>1. \A x \in Calls : CallWindow(x) \subseteq Places
  <2> SUFFICES ASSUME NEW x \in Calls PROVE CallWindow(x) \subseteq Places
    OBVIOUS
  <2>1. CallWindow(x) # {} => tx[x].at \in 1..Last(x)
    BY DEF CallWindow, CallInv, Position, Forth, Back
  <2>2. Here(x) = Item(x, tx[x].at)
    BY DEF Here, Item
  <2> QED
    BY <2>1, <2>2, Ordered DEF CallWindow
<1>2. \A f \in Publishers : PubWindow(f) \subseteq Places
  BY TargetIs DEF PubWindow
<1> QED
  BY <1>1, <1>2 DEF Windows

\* The types depend on the kinds alone.
LEMMA StatesStay ==
    ASSUME kind' = kind
    PROVE  \A x : CallStates(x)' = CallStates(x) /\ PublisherStates(x)' = PublisherStates(x)
BY KindStays DEF CallStates, PublisherStates, Ended, PubEnded

LEMMA TypesKeep ==
    ASSUME TypeOK, kind' = kind, mishaps' \in 0..MaxMishaps,
           lock' \in Calls \cup Previews \cup {None}, file' \in [Places -> Contents],
           touched' \in [Places -> {"no", "wrote", "removed"}], late' \subseteq Places,
           DOMAIN tx' = Calls, \A x \in Calls : tx'[x] \in CallStates(x),
           DOMAIN pub' = Publishers, \A f \in Publishers : pub'[f] \in PublisherStates(f)
    PROVE  TypeOK'
BY KindStays, StatesStay DEF TypeOK, FilesTypeOK, TxTypeOK, PubTypeOK

\* Whoever works has the lock to itself, and nobody has residue.
LEMMA OthersIdle ==
    ASSUME Holds, NoResidue, NEW z \in Calls, Works(z), NEW y \in Calls, y # z
    PROVE  ~Running(y) /\ ~Residue(y)
BY DEF Holds, NoResidue, Works

LEMMA LockKeeps ==
    ASSUME TypeOK, Holds, NEW z \in Calls, TellsLock(z), tx' = [tx EXCEPT ![z] = tx'[z]], kind' = kind
    PROVE  Holds'
<1>1. \A y \in Calls : y # z => (Running(y)' <=> Running(y))
  BY CallPlace DEF Running, Ended
<1>2. \A y \in Calls : y # None
  BY CallPlace
<1>3. ASSUME NEW y \in Calls, Running(y)' PROVE lock' = y
  <2>1. CASE y = z
    BY <1>3, <2>1 DEF TellsLock, Holds
  <2>2. CASE y # z
    <3>1. lock = y /\ Running(y)
      BY <1>1, <1>3, <2>2 DEF Holds
    <3> QED
      BY <1>2, <2>2, <3>1 DEF TellsLock, Holds
  <2> QED
    BY <2>1, <2>2
<1> QED
  BY <1>3, KindStays DEF Holds

LEMMA ResidueKeeps ==
    ASSUME TypeOK, Holds, NoResidue, OneHasBackups, NEW z \in Calls, TellsWork(z),
           tx' = [tx EXCEPT ![z] = tx'[z]], kind' = kind
    PROVE  NoResidue' /\ OneHasBackups'
<1>1. \A y \in Calls : y # z => tx'[y] = tx[y]
  BY CallPlace
<1>2. Calls' = Calls /\ \A y : Items(y)' = Items(y)
  BY KindStays
<1>3. \A y \in Calls : y # z => (Works(y)' <=> Works(y)) /\ (Residue(y)' <=> Residue(y))
  BY <1>1, <1>2 DEF Works, Running, Ended, Residue
<1>4. ASSUME NEW x \in Calls, NEW y \in Calls, Works(x)', y # x PROVE ~Residue(y)'
  <2>1. CASE x = z
    <3>1. ~Residue(y)
      BY <1>4, <2>1 DEF TellsWork, NoResidue, Works
    <3> QED
      BY <1>3, <1>4, <2>1, <3>1
  <2>2. CASE x # z
    <3>1. Works(x) /\ ~Residue(y)
      BY <1>3, <1>4, <2>2 DEF NoResidue, Works
    <3>2. ~Works(z)
      BY <2>2, <3>1 DEF Holds, Works
    <3> QED
      BY <1>3, <3>1, <3>2 DEF TellsWork
  <2> QED
    BY <2>1, <2>2
<1>5. NoResidue'
  BY <1>2, <1>4 DEF NoResidue, Works
<1>6. ASSUME NEW x \in Calls, NEW y \in Calls, NEW p \in Items(x), NEW q \in Items(y),
             tx'[x].backup[p] # None, tx'[y].backup[q] # None, x # y
      PROVE  FALSE
  <2>1. ASSUME NEW v \in Calls, NEW w \in Calls, v # w, v = z,
               NEW r \in Items(v), NEW t \in Items(w), tx'[v].backup[r] # None, tx'[w].backup[t] # None
        PROVE  FALSE
    <3>1. tx[w].backup[t] # None
      BY <1>1, <2>1
    <3>2. Residue(w)
      BY <3>1, <2>1 DEF Residue
    <3>3. ~Works(z)
      BY <2>1, <3>2, OthersIdle
    <3>4. tx[v].backup[r] # None
      BY <2>1, <3>3 DEF TellsWork
    <3> QED
      BY <2>1, <3>1, <3>4 DEF OneHasBackups
  <2>2. CASE x = z
    BY <1>6, <2>1, <2>2
  <2>3. CASE y = z
    BY <1>6, <2>1, <2>3
  <2>4. CASE x # z /\ y # z
    BY <1>1, <1>6, <2>4 DEF OneHasBackups
  <2> QED
    BY <2>2, <2>3, <2>4
<1>7. OneHasBackups'
  BY <1>2, <1>6 DEF OneHasBackups
<1> QED
  BY <1>5, <1>7

\* What is half done stays covered by a journal.
LEMMA JournalKeeps ==
    ASSUME TypeOK, JournalCovers, NEW z \in Calls, Steady, TellsFile(z), tx' = [tx EXCEPT ![z] = tx'[z]],
           tx'[z] \in CallStates(z)
    PROVE  JournalCovers'
<1>1. /\ Calls' = Calls /\ Rasters' = Rasters
      /\ \A x : Items(x)' = Items(x) /\ Record(x)' = Record(x)
  BY KindStays DEF Steady
<1>2. \A y \in Calls : y # z => tx'[y] = tx[y]
  BY CallPlace
<1>3. \A p : Excused(p) => Excused(p)'
  BY DEF Steady, Excused
<1>4. \A x \in Rasters : x \in Calls /\ tx[x].forgotten \subseteq Items(x) /\ tx'[z].forgotten \subseteq Items(z)
  <2>1. \A x \in Rasters : x \in Calls
    BY DEF Rasters, Calls, Are
  <2> QED
    BY <2>1, CallPlace DEF CallStates
<1>5. ASSUME NEW x \in Calls
      PROVE  \/ \A p \in Items(x) : file'[p] = file'[Record(x)]
             \/ \E p \in Items(x) : Excused(p)' \/ \E y \in Rasters : p \in tx'[y].forgotten
             \/ \E y \in Calls : Items(y) = Items(x) /\ tx'[y].journal = "whole"
  <2>1. CASE tx'[z].journal = "whole" /\ Items(z) = Items(x)
    BY <2>1
  <2>2. CASE Items(z) # Items(x)
    <3>1. \A p \in Items(x) : p \notin Items(z) /\ p \in Places
      BY <2>2, Families, Ordered
    <3>2. \A p \in Items(x) : file'[p] = file[p]
      BY <3>1 DEF TellsFile
    <3>3. \A p \in Items(x) : \A y \in Rasters : p \in tx[y].forgotten => p \in tx'[y].forgotten
      BY <1>2, <1>4, <3>1
    <3>4. \A y \in Calls : Items(y) = Items(x) => y # z
      BY <2>2
    <3> QED
      BY <1>2, <1>3, <3>2, <3>3, <3>4, Ordered DEF JournalCovers
  <2>3. CASE tx'[z].journal # "whole" /\ Items(z) = Items(x)
    <3>1. file' = file /\ tx'[z].forgotten = tx[z].forgotten
      BY <2>3 DEF TellsFile
    <3>2. \A y \in Rasters : tx'[y].forgotten = tx[y].forgotten
      BY <1>2, <1>4, <3>1
    <3>3. CASE tx[z].journal = "whole"
      <4>1. OneWriter(z) /\ Record(z) = Record(x)
        BY <2>3, <3>3, Families DEF TellsFile
      <4> QED
        BY <1>3, <2>3, <3>1, <3>2, <4>1 DEF OneWriter
    <3>4. CASE tx[z].journal # "whole"
      BY <1>2, <1>3, <3>1, <3>2, <3>4 DEF JournalCovers
    <3> QED
      BY <3>3, <3>4
  <2> QED
    BY <2>1, <2>2, <2>3
<1> QED
  BY <1>1, <1>5 DEF JournalCovers

\* Behind a journal the old files or the new are kept.
PriorOrNewOf(x) ==
    tx[x].journal = "whole" => AllNew(x) \/ \A p \in Items(x) : Kept(x, p)

LEMMA PriorOrNewIs ==
    PriorOrNew <=> \A x \in Calls : PriorOrNewOf(x)
BY DEF PriorOrNew, OldOrNew, PriorOrNewOf, Kept

\* The call that runs is behind its own journal.
LEMMA PriorOwn ==
    ASSUME TypeOK, NEW z \in Calls, PriorOrNewOf(z), Steady, CallInv(z)', TellsRest(z)
    PROVE  PriorOrNewOf(z)'
<1>1. Items(z)' = Items(z) /\ Last(z)' = Last(z) /\ \A k : Item(z, k)' = Item(z, k)
  BY KindStays, ItemsStay DEF Steady
<1>2. \A p : Excused(p) => Excused(p)'
  BY DEF Steady, Excused
<1>3. \A p \in Items(z) : \E k \in 1..Last(z) : Item(z, k) = p
  BY Ordered
<1>4. CASE tx'[z].pc \in Forth \cup Back \cup {"throw"}
  <2>1. \A k \in 1..Last(z) : Kept(z, Item(z, k))'
    BY <1>1, <1>4 DEF CallInv, ItemTold, ItemKept
  <2>2. \A p \in Items(z) : Kept(z, p)'
    BY <1>1, <1>3, <2>1 DEF Kept, Excused
  <2> QED
    BY <1>1, <2>2 DEF PriorOrNewOf, Kept, Excused
<1>5. CASE tx'[z].pc \in {"clean", "finish"}
  <2>1. \A k \in 1..Last(z) : Mine(z, Item(z, k))'
    BY <1>1, <1>5 DEF CallInv, ItemTold, ItemDone
  <2>2. \A p \in Items(z) : Mine(z, p)'
    BY <1>1, <1>3, <2>1 DEF Mine, Excused
  <2> QED
    BY <1>1, <2>2 DEF PriorOrNewOf, AllNew, Mine, Excused
<1>6. CASE tx'[z].pc \notin Forth \cup Back \cup {"throw", "clean", "finish"} /\ tx'[z].journal = "whole"
  <2>1. /\ file' = file /\ tx'[z].seen = tx[z].seen /\ tx'[z].backup = tx[z].backup
        /\ tx[z].journal = "whole"
    BY <1>6 DEF TellsRest
  <2> QED
    BY <1>1, <1>2, <2>1 DEF PriorOrNewOf, AllNew, Kept, Excused
<1>7. CASE tx'[z].journal # "whole"
  BY <1>7 DEF PriorOrNewOf
<1> QED
  BY <1>4, <1>5, <1>6, <1>7

\* Of another call nothing changes but what somebody edits.
LEMMA PriorOther ==
    ASSUME TypeOK, NEW x \in Calls, PriorOrNewOf(x), kind' = kind, tx'[x] = tx[x], late \subseteq late',
           \A q \in Places : touched[q] # "no" => touched'[q] # "no",
           tx[x].journal = "whole" => \A q \in Items(x) : file'[q] = file[q] \/ touched'[q] # "no"
    PROVE  PriorOrNewOf(x)'
<1>1. Items(x)' = Items(x) /\ Items(x) \subseteq Places
  BY KindStays, Ordered
<1>2. \A p \in Items(x) : Excused(p) => Excused(p)'
  BY <1>1 DEF Excused
<1>3. \A p \in Items(x) : tx[x].journal = "whole" => file'[p] = file[p] \/ Excused(p)'
  BY DEF Excused
<1>4. tx[x].journal = "whole" => \A p \in Items(x) : Kept(x, p) => Kept(x, p)'
  BY <1>2, <1>3 DEF Kept
<1> QED
  BY <1>1, <1>2, <1>3, <1>4 DEF PriorOrNewOf, AllNew

LEMMA PriorKeeps ==
    ASSUME TypeOK, Holds, NoResidue, PriorOrNew, NEW z \in Calls, Steady, TellsFile(z), TellsRest(z),
           CallInv(z)', tx' = [tx EXCEPT ![z] = tx'[z]]
    PROVE  PriorOrNew'
<1>1. \A x \in Calls : PriorOrNewOf(x)
  BY PriorOrNewIs
<1>2. PriorOrNewOf(z)'
  BY <1>1, PriorOwn
<1>3. ASSUME NEW x \in Calls, x # z PROVE PriorOrNewOf(x)'
  <2>1. tx'[x] = tx[x] /\ None # "whole"
    BY <1>3, CallPlace
  <2>2. tx[x].journal = "whole" => Residue(x)
    BY <2>1 DEF Residue
  <2>3. tx[x].journal = "whole" => file' = file
    BY <1>3, <2>2, OthersIdle DEF TellsFile
  <2> QED
    BY <1>1, <1>3, <2>1, <2>3, PriorOther DEF Steady
<1>4. \A x \in Calls : PriorOrNewOf(x)'
  BY <1>2, <1>3
<1> QED
  BY <1>4, KindStays DEF Steady, PriorOrNew, OldOrNew, PriorOrNewOf, Kept

\* What a person wrote is in place, or aside.
LEMMA EditKeeps ==
    ASSUME TypeOK, EditSurvives, NEW z \in Calls, Steady, TellsFile(z), TellsEdit(z),
           tx' = [tx EXCEPT ![z] = tx'[z]], pub' = pub
    PROVE  EditSurvives'
<1>1. /\ Calls' = Calls /\ Publishers' = Publishers /\ Forced' = Forced /\ Brands' = Brands
      /\ \A x : Items(x)' = Items(x) /\ Target(x)' = Target(x)
  BY KindStays DEF Steady
<1>2. \A y \in Calls : y # z => tx'[y] = tx[y]
  BY CallPlace
<1>3. ASSUME NEW p \in Places, touched'[p] = "wrote", p \notin late'
      PROVE  \/ file'[p] = "foreign"
             \/ \E x \in Calls : p \in Items(x) /\ tx'[x].backup[p] = "foreign"
             \/ \E f \in Publishers : Target(f) = p /\ pub[f].backup = "foreign"
             \/ \E f \in Forced \cup Brands : Target(f) = p /\ pub[f].seen[p] = "foreign"
  <2>1. \/ file[p] = "foreign"
        \/ \E x \in Calls : p \in Items(x) /\ tx[x].backup[p] = "foreign"
        \/ \E f \in Publishers : Target(f) = p /\ pub[f].backup = "foreign"
        \/ \E f \in Forced \cup Brands : Target(f) = p /\ pub[f].seen[p] = "foreign"
    BY <1>3 DEF EditSurvives, InBackup, Steady
  <2>2. CASE p \notin Items(z)
    <3>1. file'[p] = file[p]
      BY <2>2 DEF TellsFile
    <3> QED
      BY <1>2, <2>1, <2>2, <3>1
  <2>3. CASE p \in Items(z)
    <3>1. p \notin late
      BY <1>3 DEF Steady
    <3> QED
      BY <1>2, <2>1, <2>3, <3>1 DEF TellsEdit
  <2> QED
    BY <2>2, <2>3
<1> QED
  BY <1>1, <1>3 DEF EditSurvives, InBackup

-----------------------------------------------------------------------------
(* Every step keeps the invariant.                                          *)

\* Where no call takes a step, the calls stay as they are told.
LEMMA CallsStay ==
    ASSUME TypeOK, CallsInv, tx' = tx, kind' = kind, late \subseteq late',
           \A q \in Places : touched[q] # "no" => touched'[q] # "no",
           \A y \in Calls : \A q \in Items(y) : Stays(y, q),
           \A y \in Calls : Running(y) => lock' = lock
    PROVE  CallsInv'
<1>1. /\ Calls' = Calls /\ Rasters' = Rasters
      /\ \A x : Items(x)' = Items(x) /\ Record(x)' = Record(x)
  BY KindStays
<1>2. \A y \in Calls : (Running(y)' <=> Running(y)) /\ (Residue(y)' <=> Residue(y))
  BY <1>1 DEF Running, Ended, Residue
<1>3. Holds' /\ NoResidue' /\ OneHasBackups'
  BY <1>1, <1>2 DEF CallsInv, Holds, NoResidue, OneHasBackups
<1>4. \A y \in Calls : CallInv(y)'
  BY CallStill DEF CallsInv
<1>5. \A y \in Calls : \A q \in Items(y) : (file'[q] = file[q] \/ Excused(q)') /\ (Excused(q) => Excused(q)')
  BY Ordered DEF Stays, Excused
<1>6. JournalCovers'
  <2> SUFFICES ASSUME NEW x \in Calls
               PROVE  \/ \A p \in Items(x) : file'[p] = file'[Record(x)]
                      \/ \E p \in Items(x) : Excused(p)' \/ \E y \in Rasters : p \in tx[y].forgotten
                      \/ \E y \in Calls : Items(y) = Items(x) /\ tx[y].journal = "whole"
    BY <1>1 DEF JournalCovers
  <2> QED
    BY <1>5, Ordered DEF CallsInv, JournalCovers
<1>7. \A x \in Calls : PriorOrNewOf(x)'
  <2> SUFFICES ASSUME NEW x \in Calls PROVE PriorOrNewOf(x)'
    BY <1>1
  <2>1. PriorOrNewOf(x)
    BY PriorOrNewIs DEF CallsInv
  <2>2. \A q \in Items(x) : file'[q] = file[q] \/ touched'[q] # "no"
    BY DEF Stays
  <2> QED
    BY <2>1, <2>2, PriorOther
<1>8. PriorOrNew'
  BY <1>1, <1>7 DEF PriorOrNew, OldOrNew, PriorOrNewOf, Kept
<1> QED
  BY <1>1, <1>3, <1>4, <1>6, <1>8 DEF CallsInv

LEMMA CallRunsKeeps ==
    ASSUME IInv, NEW z \in Calls, CallRuns(z)
    PROVE  IInv'
<1>1. /\ TypeOK /\ CallsInv /\ EditSurvives /\ \A f \in Publishers : PubInv(f)
      /\ Holds /\ NoResidue /\ OneHasBackups /\ JournalCovers /\ PriorOrNew
      /\ \A x \in Calls : CallInv(x)
  BY DEF IInv, CallsInv
<1>2. /\ CallSteps(z) /\ pub' = pub /\ NotesLate(Programs \ {z}) /\ late \subseteq late'
  BY DEF CallRuns, NotesLate
<1>3. /\ CallInv(z)' /\ CallTells(z) /\ Steady
      /\ tx' = [tx EXCEPT ![z] = tx'[z]] /\ tx'[z] \in CallStates(z) /\ mishaps' \in 0..MaxMishaps
  BY <1>1, <1>2, CallStepHolds
<1>4. /\ TellsLock(z) /\ TellsWork(z) /\ TellsFile(z) /\ TellsRest(z) /\ TellsEdit(z)
      /\ kind' = kind /\ touched' = touched
  BY <1>3 DEF CallTells, Steady
<1>5. DOMAIN tx' = Calls /\ \A y \in Calls : y # z => tx'[y] = tx[y]
  <2>1. DOMAIN tx = Calls
    BY <1>1, CallPlace
  <2> QED
    BY <1>3, <2>1
<1>6. file' = file \/ Works(z)
  BY <1>4 DEF TellsFile
<1>7. \A q \in Places : q \notin Items(z) => file'[q] = file[q]
  BY <1>4 DEF TellsFile
<1>8. TypeOK'
  <2>1. late' \subseteq Places
    BY <1>1, <1>2, WindowsInPlaces DEF NotesLate, TypeOK, FilesTypeOK
  <2>2. file' \in [Places -> Contents]
    BY <1>1, <1>4, CallPlace DEF TellsFile
  <2>3. lock' \in Calls \cup Previews \cup {None}
    BY <1>1, <1>4 DEF TellsLock, TypeOK, FilesTypeOK
  <2>4. \A y \in Calls : tx'[y] \in CallStates(y)
    BY <1>1, <1>3, <1>5, CallPlace
  <2>5. /\ touched' \in [Places -> {"no", "wrote", "removed"}]
        /\ DOMAIN pub' = Publishers /\ \A f \in Publishers : pub'[f] \in PublisherStates(f)
    BY <1>1, <1>2, <1>4 DEF TypeOK, FilesTypeOK, PubTypeOK
  <2> QED
    BY <1>1, <1>3, <1>4, <1>5, <2>1, <2>2, <2>3, <2>4, <2>5, TypesKeep
<1>9. ASSUME NEW y \in Calls, y # z PROVE CallInv(y)'
  <2>1. CASE Works(z)
    BY <1>1, <1>4, <1>5, <1>9, <2>1, OthersIdle, CallIdle
  <2>2. CASE file' = file
    <3>1. \A q \in Items(y) : Stays(y, q)
      BY <2>2 DEF Stays
    <3> QED
      BY <1>1, <1>2, <1>4, <1>5, <1>9, <3>1, CallStill
  <2> QED
    BY <1>6, <2>1, <2>2
<1>10. \A y \in Calls : CallInv(y)'
  BY <1>3, <1>9
<1>11. ASSUME NEW f \in Publishers PROVE PubInv(f)'
  <2>1. file'[Target(f)] = file[Target(f)]
    BY <1>7, TargetIs
  <2>2. Noted(f)
    BY <2>1 DEF Noted
  <2> QED
    BY <1>1, <1>2, <1>4, <2>1, <2>2, PubStill
<1>12. Holds'
  BY <1>1, <1>3, <1>4, LockKeeps
<1>13. NoResidue' /\ OneHasBackups'
  BY <1>1, <1>3, <1>4, ResidueKeeps
<1>14. JournalCovers'
  BY <1>1, <1>3, <1>4, JournalKeeps
<1>15. PriorOrNew'
  BY <1>1, <1>3, <1>4, PriorKeeps
<1>16. EditSurvives'
  BY <1>1, <1>2, <1>3, <1>4, EditKeeps
<1>17. CallsInv'
  BY <1>4, <1>10, <1>12, <1>13, <1>14, <1>15, KindStays DEF CallsInv
<1> QED
  BY <1>4, <1>8, <1>11, <1>16, <1>17, KindStays DEF IInv

\* What a person wrote is in place, aside, or was seen by a forced bundle.
LEMMA EditPublished ==
    ASSUME TypeOK, EditSurvives, NEW g \in Publishers, PubHolds(g), Alone(g), tx' = tx,
           PubTells(g), PubMoves(g)
    PROVE  EditSurvives'
<1> DEFINE p == Target(g)  s == pub[g]  t == pub'[g]
<1>1. /\ Calls' = Calls /\ Publishers' = Publishers /\ Forced' = Forced /\ Brands' = Brands
      /\ \A x : Items(x)' = Items(x) /\ Target(x)' = Target(x)
  BY KindStays DEF Alone
<1>2. p \in Places /\ \A x \in Calls : p \notin Items(x)
  BY TargetIs
<1>3. /\ \A q \in Places : q # p => file'[q] = file[q]
      /\ \A f \in Publishers : f # g => pub'[f] = pub[f]
      /\ touched' = touched /\ late \subseteq late'
  <2>1. DOMAIN file = Places
    BY PubPlace
  <2> QED
    BY <2>1 DEF PubMoves, Alone
<1>4. g \notin {None, "part", "foreign"} /\ None \notin {"part", "foreign"}
  BY PubPlace
<1>5. ASSUME s.seen[p] = "foreign" PROVE (g \in Forced \cup Brands /\ t.seen[p] = "foreign") \/ s.pc = "refused"
  BY <1>4, <1>5, Apart DEF PubHolds, PubTells
<1>6. ASSUME p \notin late', file[p] = "foreign", file'[p] # "foreign"
      PROVE  g \in Forced \cup Brands /\ t.seen[p] = "foreign"
  <2>1. s.pc \notin {"new", "refused"} /\ file[p] \in {None, g, s.seen[p]}
    BY <1>3, <1>6 DEF PubMoves
  <2> QED
    BY <1>4, <1>5, <1>6, <2>1
<1>7. ASSUME p \notin late', s.backup = "foreign"
      PROVE  g \in Forced \cup Brands /\ t.seen[p] = "foreign"
  <2>1. s.seen[p] = "foreign"
    BY <1>3, <1>4, <1>7 DEF PubHolds
  <2>2. s.pc # "refused"
    BY <1>4, <1>7 DEF PubHolds, Posted
  <2> QED
    BY <1>5, <2>1, <2>2
<1>8. s.seen[p] = "foreign" => t.seen[p] = "foreign"
  BY <1>4 DEF PubHolds, PubTells
<1> HIDE DEF p, s, t
<1>9. ASSUME NEW q \in Places, touched'[q] = "wrote", q \notin late'
      PROVE  \/ file'[q] = "foreign"
             \/ \E x \in Calls : q \in Items(x) /\ tx[x].backup[q] = "foreign"
             \/ \E f \in Publishers : Target(f) = q /\ pub'[f].backup = "foreign"
             \/ \E f \in Forced \cup Brands : Target(f) = q /\ pub'[f].seen[q] = "foreign"
  <2>0. Forced \cup Brands \subseteq Publishers
    BY DEF Forced, Brands, Publishers, Calls, Are
  <2>1. \/ file[q] = "foreign"
        \/ \E x \in Calls : q \in Items(x) /\ tx[x].backup[q] = "foreign"
        \/ \E f \in Publishers : Target(f) = q /\ pub[f].backup = "foreign"
        \/ \E f \in Forced \cup Brands : Target(f) = q /\ pub[f].seen[q] = "foreign"
    BY <1>3, <1>9 DEF EditSurvives, InBackup
  <2>2. CASE file[q] = "foreign"
    BY <1>3, <1>6, <1>9, <2>2 DEF p, s, t
  <2>3. CASE \E f \in Publishers : Target(f) = q /\ pub[f].backup = "foreign"
    <3>1. PICK f \in Publishers : Target(f) = q /\ pub[f].backup = "foreign"
      BY <2>3
    <3>2. CASE f = g
      BY <1>7, <1>9, <3>1, <3>2 DEF p, s, t
    <3> QED
      BY <1>3, <3>1, <3>2
  <2>4. CASE \E f \in Forced \cup Brands : Target(f) = q /\ pub[f].seen[q] = "foreign"
    <3>1. PICK f \in Forced \cup Brands : Target(f) = q /\ pub[f].seen[q] = "foreign"
      BY <2>4
    <3>2. CASE f = g
      BY <1>8, <3>1, <3>2 DEF p, s, t
    <3> QED
      BY <1>3, <2>0, <3>1, <3>2
  <2> QED
    BY <2>1, <2>2, <2>3, <2>4
<1> QED
  BY <1>1, <1>9 DEF EditSurvives, InBackup

\* Of what a publisher does, the others see only its target.
LEMMA PublishersKeep ==
    ASSUME IInv, NEW g \in Publishers, Alone(g), PubTells(g), PubMoves(g), PubInv(g)', tx' = tx,
           DOMAIN pub' = Publishers, pub'[g] \in PublisherStates(g), mishaps' \in 0..MaxMishaps,
           lock' \in {lock, None, g}, lock' = g => lock' = lock \/ g \in Previews,
           lock' # lock => lock \in {None, g}, late' \subseteq Places,
           \A f \in Publishers : f # g => Noted(f)
    PROVE  IInv'
<1>1. /\ TypeOK /\ CallsInv /\ EditSurvives /\ \A f \in Publishers : PubInv(f)
      /\ kind' = kind /\ touched' = touched /\ late \subseteq late'
      /\ \A f \in Publishers : f # g => pub'[f] = pub[f]
  BY DEF IInv, Alone
<1>2. /\ file \in [Places -> Contents] /\ pub[g] \in PublisherStates(g)
      /\ g \in Contents /\ None \in Contents /\ Target(g) \in Places
  BY <1>1, PubPlace
<1>3. pub[g].backup \in Contents \cup {"part"}
  BY <1>2 DEF PublisherStates
<1>4. file' \in [Places -> Contents] /\ \A q \in Places : q # Target(g) => file'[q] = file[q]
  BY <1>2, <1>3 DEF PubMoves
<1>5. TypeOK'
  <2>1. lock' \in Calls \cup Previews \cup {None}
    BY <1>1 DEF TypeOK, FilesTypeOK
  <2>2. DOMAIN tx' = Calls /\ \A x \in Calls : tx'[x] \in CallStates(x)
    BY <1>1 DEF TypeOK, TxTypeOK
  <2>3. \A f \in Publishers : pub'[f] \in PublisherStates(f)
    BY <1>1 DEF TypeOK, PubTypeOK
  <2>4. touched' \in [Places -> {"no", "wrote", "removed"}]
    BY <1>1 DEF TypeOK, FilesTypeOK
  <2> QED
    BY <1>1, <1>4, <2>1, <2>2, <2>3, <2>4, TypesKeep
<1>6. CallsInv'
  <2>1. \A y \in Calls : \A q \in Items(y) : Stays(y, q)
    BY <1>4, TargetIs, Ordered DEF Stays
  <2>2. \A y \in Calls : Running(y) => lock' = lock
    <3> SUFFICES ASSUME NEW y \in Calls, Running(y) PROVE lock' = lock
      OBVIOUS
    <3>1. lock = y
      BY <1>1 DEF CallsInv, Holds
    <3>2. y # None /\ y # g
      BY <1>1, CallPlace, TargetIs
    <3> QED
      BY <3>1, <3>2
  <2> QED
    BY <1>1, <2>1, <2>2, CallsStay
<1>7. EditSurvives'
  BY <1>1, EditPublished DEF PubInv
<1>8. \A f \in Publishers : PubInv(f)'
  BY <1>1, PubOther
<1> QED
  BY <1>1, <1>5, <1>6, <1>7, <1>8, KindStays DEF IInv

LEMMA PublisherRunsKeeps ==
    ASSUME IInv, NEW g \in Publishers, PublisherRuns(g)
    PROVE  IInv'
<1>1. TypeOK /\ PubInv(g) /\ \A x \in Calls : CallInv(x)
  BY DEF IInv, CallsInv
<1>2. PubSteps(g) /\ NotesLate(Programs \ {g}) /\ tx' = tx
  BY DEF PublisherRuns
<1>3. /\ pub' = [pub EXCEPT ![g] = pub'[g]] /\ pub'[g] \in PublisherStates(g)
      /\ kind' = kind /\ touched' = touched /\ mishaps' \in 0..MaxMishaps
      /\ lock' \in {lock, None} \/ (lock = None /\ lock' = g /\ g \in Previews)
      /\ lock' # lock => lock \in {None, g}
  BY <1>1, <1>2, PubStepTyped
<1>4. DOMAIN pub' = Publishers /\ \A f \in Publishers : f # g => pub'[f] = pub[f]
  <2>1. DOMAIN pub = Publishers
    BY <1>1, PubPlace
  <2> QED
    BY <1>3, <2>1
<1>5. Alone(g)
  BY <1>2, <1>3, <1>4 DEF Alone, NotesLate
<1>6. PubTells(g) /\ PubMoves(g) /\ PubInv(g)'
  BY <1>1, <1>2, <1>5, PubStepHolds
<1>7. late' \subseteq Places
  BY <1>1, <1>2, WindowsInPlaces DEF NotesLate, TypeOK, FilesTypeOK
<1>8. \A f \in Publishers : f # g => Noted(f)
  BY <1>2, TargetIs, Noticed DEF Noted
<1>9. lock' \in {lock, None, g} /\ (lock' = g => lock' = lock \/ g \in Previews)
  <2>1. g # None
    BY <1>1, PubPlace
  <2> QED
    BY <1>3, <2>1
<1> QED
  BY <1>2, <1>3, <1>4, <1>5, <1>6, <1>7, <1>8, <1>9, PublishersKeep

LEMMA KillPublisherKeeps ==
    ASSUME IInv, NEW g \in Publishers, KillPublisher(g), late' = late, tx' = tx
    PROVE  IInv'
<1> DEFINE s == pub[g]  t == pub'[g]
<1>1. TypeOK /\ PubInv(g) /\ Target(g)' = Target(g)
  BY KindStays DEF IInv, KillPublisher, Killed
<1>2. s \in PublisherStates(g) /\ DOMAIN pub = Publishers /\ mishaps \in 0..MaxMishaps /\ MaxMishaps \in Nat
  BY <1>1, PubPlace
<1>3. /\ Publishing(g) /\ pub' = [pub EXCEPT ![g] = [s EXCEPT !.pc = "killed"]]
      /\ kind' = kind /\ touched' = touched /\ lock' = lock /\ file' = file
      /\ mishaps' \in 0..MaxMishaps
  BY <1>2 DEF KillPublisher, Turns, Killed, Mishap
<1>4. /\ t \in PublisherStates(g) /\ DOMAIN pub' = Publishers
      /\ t.pc = "killed" /\ t.seen = s.seen /\ t.stage = s.stage
      /\ t.backup = s.backup /\ t.backedUp = s.backedUp
      /\ \A f \in Publishers : f # g => pub'[f] = pub[f]
  BY <1>2, <1>3 DEF PublisherStates
<1>5. s.pc \notin {"new", "locking", "killed"} \cup PubEnded
  BY <1>3 DEF Publishing
<1> HIDE DEF s, t
<1>6. Alone(g) /\ PubTells(g) /\ PubMoves(g)
  BY <1>3, <1>4 DEF Alone, PubTells, PubMoves, s, t
<1>7. PubHolds(g)'
  BY <1>1, <1>3, <1>4, <1>5, KindStays DEF PubInv, PubHolds, Posted, PubEnded, s, t
<1>8. PubLooked(g)' /\ PubWrote(g)'
  BY <1>1, <1>3, <1>4, <1>5, KindStays DEF PubInv, PubLooked, PubWrote, Placed, Posted, s, t
<1>9. \A f \in Publishers : f # g => Noted(f)
  BY <1>3 DEF Noted
<1>10. late' \subseteq Places
  BY <1>1 DEF TypeOK, FilesTypeOK
<1> QED
  BY <1>3, <1>4, <1>6, <1>7, <1>8, <1>9, <1>10, PublishersKeep DEF PubInv, t

LEMMA KillCallKeeps ==
    ASSUME IInv, NEW z \in Calls, KillCall(z), late' = late, pub' = pub
    PROVE  IInv'
<1> DEFINE s == tx[z]  t == tx'[z]
<1>1. /\ TypeOK /\ CallsInv /\ EditSurvives /\ \A f \in Publishers : PubInv(f)
      /\ Holds /\ NoResidue /\ OneHasBackups /\ JournalCovers /\ PriorOrNew
      /\ \A x \in Calls : CallInv(x)
  BY DEF IInv, CallsInv
<1>2. s \in CallStates(z) /\ DOMAIN tx = Calls /\ mishaps \in 0..MaxMishaps /\ MaxMishaps \in Nat
  BY <1>1, CallPlace
<1>3. /\ Running(z) /\ tx' = [tx EXCEPT ![z] = [s EXCEPT !.pc = "killed"]]
      /\ kind' = kind /\ touched' = touched /\ lock' = lock /\ file' = file
      /\ mishaps' \in 0..MaxMishaps
  BY <1>2 DEF KillCall, Becomes, Killed, Mishap
<1>4. /\ t \in CallStates(z) /\ DOMAIN tx' = Calls
      /\ t.pc = "killed" /\ t.seen = s.seen /\ t.stage = s.stage /\ t.backup = s.backup
      /\ t.journal = s.journal /\ t.forgotten = s.forgotten
      /\ \A y \in Calls : y # z => tx'[y] = tx[y]
  BY <1>2, <1>3 DEF CallStates
<1>5. s.pc # "new"
  BY <1>3 DEF Running
<1>6. /\ Calls' = Calls /\ Rasters' = Rasters /\ Forced' = Forced /\ Brands' = Brands
      /\ Publishers' = Publishers
      /\ \A x : Items(x)' = Items(x) /\ Record(x)' = Record(x) /\ Target(x)' = Target(x)
  BY <1>3, KindStays
<1> HIDE DEF s, t
<1>7. /\ ~Running(z)' /\ \A y \in Calls : Residue(y)' <=> Residue(y)
      /\ \A y \in Calls : y # z => (Running(y)' <=> Running(y))
  BY <1>4, <1>6 DEF Running, Residue, s, t
<1>8. CallInv(z)'
  <2>1. \A k \in 1..Last(z) : ItemTold(z, k)'
    BY <1>4 DEF ItemTold, ItemAhead, ItemInPlace, ItemToUndo, ItemUndoing, ItemUndone, ItemDone, ItemKept, Forth, Back, t
  <2>2. Position(z)'
    BY <1>1, <1>4, <1>5, <1>6 DEF CallInv, Position, Forth, Back, Looking,
       s, t
  <2> QED
    BY <1>3, <2>1, <2>2, ItemsStay DEF CallInv
<1>9. \A y \in Calls : y # z => CallInv(y)'
  <2> SUFFICES ASSUME NEW y \in Calls, y # z PROVE CallInv(y)'
    OBVIOUS
  <2>1. \A q \in Items(y) : Stays(y, q)
    BY <1>3 DEF Stays
  <2> QED
    BY <1>1, <1>3, <1>4, <2>1, CallStill
<1>10. Holds' /\ NoResidue' /\ OneHasBackups'
  BY <1>1, <1>3, <1>4, <1>6, <1>7 DEF Holds, NoResidue, OneHasBackups, s, t
<1>11. \A y \in Calls : /\ tx'[y].journal = tx[y].journal /\ tx'[y].forgotten = tx[y].forgotten
                        /\ tx'[y].seen = tx[y].seen /\ tx'[y].backup = tx[y].backup
  BY <1>4 DEF s, t
<1>12. JournalCovers'
  <2>1. Rasters \subseteq Calls
    BY DEF Rasters, Calls, Are
  <2> QED
    BY <1>1, <1>3, <1>6, <1>11, <2>1 DEF JournalCovers, Excused
<1>13. PriorOrNew'
  BY <1>1, <1>3, <1>6, <1>11 DEF PriorOrNew, OldOrNew, AllNew, Excused
<1>14. EditSurvives'
  BY <1>1, <1>3, <1>6, <1>11 DEF EditSurvives, InBackup
<1>15. \A f \in Publishers : PubInv(f)'
  BY <1>1, <1>3, PubStill DEF Noted
<1>16. TypeOK'
  BY <1>1, <1>3, <1>4, TypesKeep DEF TypeOK, FilesTypeOK, TxTypeOK, PubTypeOK, s, t
<1> QED
  BY <1>6, <1>8, <1>9, <1>10, <1>12, <1>13, <1>14, <1>15, <1>16 DEF IInv, CallsInv

\* Programs of the run use places of the project.
LEMMA UsedAre == Used \subseteq Places
BY DEF Used, Places

LEMMA EditOfPersonKeeps ==
    ASSUME IInv, NEW p \in Used, NEW content \in {"foreign", None}, Edit(p, content)
    PROVE  IInv'
<1>1. /\ TypeOK /\ CallsInv /\ EditSurvives /\ \A f \in Publishers : PubInv(f)
      /\ \A x \in Calls : CallInv(x)
  BY DEF IInv, CallsInv
<1>2. /\ p \in Places /\ None \in Contents /\ "foreign" \in Contents /\ None # "foreign"
      /\ mishaps \in 0..MaxMishaps /\ MaxMishaps \in Nat
      /\ file \in [Places -> Contents] /\ touched \in [Places -> {"no", "wrote", "removed"}]
  BY <1>1, UsedAre, OutputFilesAssumption DEF TypeOK, FilesTypeOK, Contents
<1>3. /\ kind' = kind /\ lock' = lock /\ tx' = tx /\ pub' = pub
      /\ NotesLate(Programs) /\ late \subseteq late' /\ mishaps' \in 0..MaxMishaps
      /\ file' = [file EXCEPT ![p] = content] /\ file[p] # content
      /\ touched' = [touched EXCEPT ![p] = IF content = None THEN "removed" ELSE "wrote"]
  BY <1>2 DEF Edit, Mishap, Put, NotesLate
<1>4. /\ file' \in [Places -> Contents] /\ touched' \in [Places -> {"no", "wrote", "removed"}]
      /\ file'[p] = content /\ touched'[p] \in {"wrote", "removed"}
      /\ touched'[p] = "wrote" => content = "foreign"
      /\ \A q \in Places : q # p => file'[q] = file[q] /\ touched'[q] = touched[q]
  BY <1>2, <1>3
<1>5. /\ \A y \in Calls : p \in CallWindow(y) => p \in late'
      /\ \A f \in Publishers : p \in PubWindow(f) => p \in late'
  BY <1>3, <1>4, Noticed, Ordered, TargetIs
<1>6. TypeOK'
  <2>1. late' \subseteq Places
    BY <1>1, <1>3, WindowsInPlaces DEF NotesLate, TypeOK, FilesTypeOK
  <2> QED
    BY <1>1, <1>3, <1>4, <2>1, TypesKeep DEF TypeOK, FilesTypeOK, TxTypeOK, PubTypeOK
<1>7. CallsInv'
  <2>1. \A y \in Calls : \A q \in Items(y) : Stays(y, q)
    BY <1>4, <1>5, Ordered DEF Stays
  <2>2. \A q \in Places : touched[q] # "no" => touched'[q] # "no"
    BY <1>4
  <2> QED
    BY <1>1, <1>3, <2>1, <2>2, CallsStay
<1>8. \A f \in Publishers : PubInv(f)'
  <2> SUFFICES ASSUME NEW f \in Publishers PROVE PubInv(f)'
    OBVIOUS
  <2>1. Noted(f) /\ Target(f) \in Places
    BY <1>4, <1>5, TargetIs DEF Noted
  <2>2. \A q \in Places : touched[q] # "no" => touched'[q] # "no"
    BY <1>4
  <2>3. \/ file'[Target(f)] = file[Target(f)]
        \/ file'[Target(f)] \in {"foreign", None} /\ touched'[Target(f)] # "no"
    BY <1>4, <2>1
  <2> QED
    BY <1>1, <1>3, <2>1, <2>2, <2>3, PubStill
<1>9. EditSurvives'
  <2>1. /\ Calls' = Calls /\ Publishers' = Publishers /\ Forced' = Forced /\ Brands' = Brands
        /\ \A x : Items(x)' = Items(x) /\ Target(x)' = Target(x)
    BY <1>3, KindStays
  <2>2. ASSUME NEW q \in Places, touched'[q] = "wrote", q \notin late'
        PROVE  file'[q] = "foreign" \/ (q # p /\ touched[q] = "wrote" /\ q \notin late)
    BY <1>3, <1>4, <2>2
  <2> QED
    BY <1>1, <1>3, <1>4, <2>1, <2>2 DEF EditSurvives, InBackup
<1> QED
  BY <1>3, <1>6, <1>7, <1>8, <1>9, KindStays DEF IInv

\* A lock is removed that no running call holds; or nothing happens.
LEMMA LockGoes ==
    ASSUME IInv, tx' = tx, pub' = pub, kind' = kind, file' = file, touched' = touched, late' = late,
           mishaps' = mishaps, lock' \in {lock, None}, \A y \in Calls : Running(y) => lock' = lock
    PROVE  IInv'
<1>1. TypeOK /\ CallsInv /\ EditSurvives /\ \A f \in Publishers : PubInv(f)
  BY DEF IInv
<1>2. CallsInv'
  BY <1>1, CallsStay DEF Stays
<1>3. \A f \in Publishers : PubInv(f)'
  BY <1>1, PubStill DEF Noted
<1>4. TypeOK'
  BY <1>1, TypesKeep DEF TypeOK, FilesTypeOK, TxTypeOK, PubTypeOK
<1>5. EditSurvives'
  <2>1. /\ Calls' = Calls /\ Publishers' = Publishers /\ Forced' = Forced /\ Brands' = Brands
        /\ \A x : Items(x)' = Items(x) /\ Target(x)' = Target(x)
    BY KindStays
  <2> QED
    BY <1>1, <2>1 DEF EditSurvives, InBackup
<1> QED
  BY <1>2, <1>3, <1>4, <1>5, KindStays DEF IInv

LEMMA StaleLockKeeps ==
    ASSUME IInv, RemoveStaleLock, late' = late, pub' = pub
    PROVE  IInv'
<1>1. PICK x \in Calls : lock = x /\ tx[x].pc \in {"killed", "failed"}
  BY DEF RemoveStaleLock
<1>2. \A y \in Calls : ~Running(y)
  BY <1>1 DEF IInv, CallsInv, Holds, Running, Ended
<1> QED
  BY <1>2, LockGoes DEF RemoveStaleLock, world

LEMMA InitHolds == Init => IInv
<1> SUFFICES ASSUME Init PROVE IInv
  OBVIOUS
<1>1. /\ kind \in [Programs -> Kinds] /\ lock = None /\ file \in [Places -> {"prior", None}]
      /\ file["guide"] = file["brandLock"] /\ file["theme"] = file["brandLock"]
      /\ file["image"] = file["receipt"] /\ mishaps = 0
      /\ touched = [p \in Places |-> "no"] /\ late = {}
  BY DEF Init, FilesInit
<1>2. tx = [x \in Calls |-> Idle(x)] /\ pub = [f \in Publishers |-> Waiting(f)]
  BY DEF Init, TxInit, PubInit
<1>3. \A x \in Calls : Record(x) \in Items(x) /\ Last(x) \in {2, 3} /\ Items(x) \subseteq Places
  BY Ordered
<1>4. TypeOK
  <2>1. \A x \in Calls : Idle(x) \in CallStates(x)
    BY <1>3 DEF Idle, NoFiles, CallStates, Contents, Last, Ended
  <2>2. \A f \in Publishers : Waiting(f) \in PublisherStates(f)
    BY DEF Waiting, PublisherStates, Contents
  <2>3. FilesTypeOK
    BY <1>1, OutputFilesAssumption DEF FilesTypeOK, Contents
  <2> QED
    BY <1>2, <2>1, <2>2, <2>3 DEF TypeOK, TxTypeOK, PubTypeOK
<1>5. \A x \in Calls : /\ tx[x].pc = "new" /\ tx[x].journal = None /\ ~tx[x].recovery /\ tx[x].staged = 0
                       /\ \A p \in Items(x) : tx[x].stage[p] = None /\ tx[x].backup[p] = None
                       /\ tx[x].promoted = {} /\ tx[x].backedUp = {} /\ tx[x].forgotten = {}
  BY <1>2 DEF Idle, NoFiles
<1>6. \A x \in Calls : CallInv(x)
  <2> SUFFICES ASSUME NEW x \in Calls PROVE CallInv(x)
    OBVIOUS
  <2>1. Position(x)
    BY <1>5 DEF Position, NoSideFiles, Forth, Back
  <2>2. \A k \in 1..Last(x) : ItemTold(x, k)
    BY <1>5 DEF ItemTold, ItemAhead, ItemInPlace, ItemToUndo, ItemUndoing, ItemUndone, ItemDone, ItemKept, Forth, Back
  <2> QED
    BY <2>1, <2>2 DEF CallInv
<1>7. Holds /\ NoResidue /\ OneHasBackups
  BY <1>5 DEF Holds, NoResidue, OneHasBackups, Running
<1>8. JournalCovers
  BY <1>1 DEF JournalCovers, Items, Record, Order
<1>9. PriorOrNew
  BY <1>5, OutputFilesAssumption DEF PriorOrNew
<1>10. EditSurvives
  BY <1>1 DEF EditSurvives
<1>11. ASSUME NEW f \in Publishers PROVE PubInv(f)
  <2>1. /\ pub[f].pc = "new" /\ pub[f].seen[Target(f)] = None /\ pub[f].stage = None
        /\ pub[f].backup = None /\ ~pub[f].backedUp /\ \A g \in Publishers : pub[g].backup = None
    BY <1>2 DEF Waiting
  <2>2. f \notin {"prior", None} /\ Target(f) \in Places /\ None # "part"
    BY OutputFilesAssumption, TargetIs
  <2>3. file[Target(f)] # f
    BY <1>1, <2>2
  <2> QED
    BY <2>1, <2>2, <2>3 DEF PubInv, PubHolds, PubLooked, PubWrote, Placed, Posted
<1> QED
  BY <1>4, <1>6, <1>7, <1>8, <1>9, <1>10, <1>11 DEF IInv, CallsInv

LEMMA StepKeeps == IInv /\ [Next]_vars => IInv'
<1> SUFFICES ASSUME IInv, [Next]_vars PROVE IInv'
  OBVIOUS
<1>1. CASE \E x \in Calls : CallRuns(x)
  BY <1>1, CallRunsKeeps
<1>2. CASE \E f \in Publishers : PublisherRuns(f)
  BY <1>2, PublisherRunsKeeps
<1>3. CASE \E x \in Programs : Dies(x)
  BY <1>3, KillCallKeeps, KillPublisherKeeps DEF Dies
<1>4. CASE \E p \in Used, content \in {"foreign", None} : Edit(p, content)
  BY <1>4, EditOfPersonKeeps
<1>5. CASE RemoveStaleLock /\ UNCHANGED <<late, pub>>
  BY <1>5, StaleLockKeeps
<1>6. CASE UNCHANGED vars
  BY <1>6, LockGoes DEF vars, world
<1> QED
  BY <1>1, <1>2, <1>3, <1>4, <1>5, <1>6 DEF Next

-----------------------------------------------------------------------------
(* What a call that goes back leaves aside, and what it has not moved.      *)

\* Of the stages only the one that was being written may stay uncounted; those
\* of the items already undone are gone, or the call asks for recovery.
SidesLeft(x) ==
    LET s == tx[x] IN
    s.pc \in Back \cup {"throw"} =>
        /\ \A k \in 1..Last(x) : k > s.staged =>
              s.stage[Item(x, k)] = None \/ (s.stage[Item(x, k)] = "part" /\ k = s.staged + 1)
        /\ \A k \in 1..Last(x) : (s.pc = "throw" \/ k > s.at) /\ k <= s.staged =>
              s.recovery \/ s.stage[Item(x, k)] = None
        /\ s.journal # None => s.staged = Last(x)
        /\ s.pc = "throw" => s.recovery \/ s.journal \in {None, "part"}

\* Without a complete journal no destination was touched.
Unmoved(x) ==
    LET s == tx[x] IN
    (s.pc \in Back \/ (s.pc = "throw" /\ s.recovery)) /\ s.journal # "whole" =>
        \A p \in Items(x) : AsSeenAt(x, p)

CallLeft(x) == SidesLeft(x) /\ Unmoved(x)
Left == \A x \in Calls : CallLeft(x)

\* A step of the rollback: from one item to the next, and to its end.
Undoes(x) ==
    LET s == tx[x]  t == tx'[x] IN
    /\ s.pc \in Back /\ t.pc \in Back \cup {"throw"}
    /\ t.staged = s.staged /\ t.seen = s.seen /\ (s.recovery => t.recovery)
    /\ \A k \in 1..Last(x) : t.stage[Item(x, k)] \in {None, s.stage[Item(x, k)]}
    /\ \A k \in 1..Last(x) : t.pc = "throw" \/ k > t.at =>
          k > s.at \/ t.recovery \/ t.stage[Item(x, k)] = None
    /\ t.journal = s.journal \/ (t.pc = "throw" /\ ~t.recovery /\ t.journal = None)
    /\ t.pc = "throw" => t.recovery \/ t.journal \in {None, "part"}
    /\ s.journal # "whole" => file' = file

\* How a call comes to its rollback, if it is there after a step.
TellsBack(x) ==
    LET s == tx[x]  t == tx'[x] IN
    \/ t.pc \notin Back \cup {"throw"}
    \/ /\ s.pc \in Forth /\ t.pc = "undo" /\ t.at = s.staged
       /\ t.staged = s.staged /\ t.journal = s.journal
    \/ StagingFailsEffect(x)
    \/ JournalFailsEffect(x)
    \/ Undoes(x)

\* Item k and the item the call is at, as the steps of the rollback need them.
LEMMA AtItem ==
    ASSUME TypeOK, NEW x \in Calls, NEW k \in 1..Last(x)
    PROVE  /\ k \in Nat /\ k > 0 /\ k <= Last(x) /\ Last(x) \in {2, 3}
           /\ tx[x].at \in 0..4 /\ tx[x].staged \in 0..3 /\ Item(x, k) \in Items(x)
           /\ tx[x].at \in 1..Last(x) => (Item(x, k) = Item(x, tx[x].at) <=> k = tx[x].at)
           /\ DOMAIN tx[x].stage = Items(x)
<1>1. Ranged(x, tx[x])
  BY CallPlace, StateOf
<1>2. Last(x) \in {2, 3} /\ Item(x, k) \in Items(x)
  BY Ordered
<1>3. tx[x].at \in 0..4 /\ tx[x].staged \in 0..3 /\ DOMAIN tx[x].stage = Items(x)
  BY <1>1, <1>2 DEF Ranged, RangedAt, RangedIn
<1>4. tx[x].at \in 1..Last(x) => (Item(x, k) = Item(x, tx[x].at) <=> k = tx[x].at)
  BY Ordered
<1> QED
  BY <1>2, <1>3, <1>4

\* The undo of an item: it stays the item, or the next one is at hand.
LEMMA UndoItemBack ==
    ASSUME TypeOK, NEW x \in Calls, CallInv(x), UndoItemEffect(x)
    PROVE  Undoes(x)
<1>1. ASSUME NEW k \in 1..Last(x), k > tx'[x].at PROVE k > tx[x].at \/ tx'[x].recovery
  BY <1>1, AtItem DEF UndoItemEffect
<1>2. tx[x].pc \in Back /\ tx'[x].pc \in Back
  BY DEF UndoItemEffect, Restoring, Back
<1>3. tx'[x].pc # "throw"
  BY <1>2 DEF Back
<1> QED
  BY <1>1, <1>2, <1>3 DEF UndoItemEffect, Undoes

\* A file is removed or brought back only behind a complete journal.
LEMMA RemoveItemBack ==
    ASSUME TypeOK, NEW x \in Calls, CallInv(x), RemoveItemEffect(x)
    PROVE  Undoes(x)
<1>1. tx[x].pc = "remove" /\ tx'[x].pc \in {"restore", "unstage"}
  BY DEF RemoveItemEffect, Restoring
<1>2. Position(x) /\ \A k \in 1..Last(x) : ItemTold(x, k)
  BY DEF CallInv
<1>3. tx[x].at \in 1..Last(x)
  BY <1>1, <1>2 DEF Position, Back
<1>4. Item(x, tx[x].at) \in tx[x].promoted
  BY <1>1, <1>2, <1>3 DEF ItemTold, ItemUndoing
<1>5. tx[x].journal = "whole"
  BY <1>1, <1>2, <1>4 DEF Position, NothingMoved, Back
<1> QED
  BY <1>1, <1>5 DEF RemoveItemEffect, Undoes, Back

LEMMA RestoreItemBack ==
    ASSUME TypeOK, NEW x \in Calls, CallInv(x), RestoreItemEffect(x)
    PROVE  Undoes(x)
<1>1. tx[x].pc = "rename" /\ tx'[x].pc = "unstage"
  BY DEF RestoreItemEffect
<1>2. Position(x) /\ \A k \in 1..Last(x) : ItemTold(x, k)
  BY DEF CallInv
<1>3. tx[x].at \in 1..Last(x)
  BY <1>1, <1>2 DEF Position, Back
<1>4. Item(x, tx[x].at) \in tx[x].backedUp
  BY <1>1, <1>2, <1>3 DEF ItemTold, ItemUndoing
<1>5. tx[x].journal = "whole"
  BY <1>1, <1>2, <1>4 DEF Position, NothingMoved, Back
<1> QED
  BY <1>1, <1>5 DEF RestoreItemEffect, Undoes, Back

LEMMA LookForRestoreBack ==
    ASSUME TypeOK, NEW x \in Calls, CallInv(x), LookForRestoreEffect(x)
    PROVE  Undoes(x)
<1>1. ASSUME NEW k \in 1..Last(x), k > tx'[x].at PROVE k > tx[x].at \/ tx'[x].recovery
  BY <1>1, AtItem DEF LookForRestoreEffect
<1>2. tx[x].pc \in Back /\ tx'[x].pc \in Back /\ tx'[x].pc # "throw"
  BY DEF LookForRestoreEffect, Back
<1> QED
  BY <1>1, <1>2 DEF LookForRestoreEffect, Undoes

LEMMA RemoveStageBack ==
    ASSUME TypeOK, NEW x \in Calls, CallInv(x), RemoveStageEffect(x)
    PROVE  Undoes(x)
<1> DEFINE s == tx[x]  t == tx'[x]
<1>1. s.pc = "unstage" /\ t.pc = "undo" /\ t.at = s.at - 1
  BY DEF RemoveStageEffect
<1>2. s.at \in 1..Last(x)
  BY <1>1 DEF CallInv, Position, Back
<1>3. ASSUME NEW k \in 1..Last(x)
      PROVE  /\ t.stage[Item(x, k)] \in {None, s.stage[Item(x, k)]}
             /\ k > t.at => k > s.at \/ t.recovery \/ t.stage[Item(x, k)] = None
  <2>1. /\ k \in Nat /\ s.at \in Nat /\ DOMAIN s.stage = Items(x) /\ Item(x, k) \in Items(x)
        /\ Item(x, k) = Item(x, s.at) <=> k = s.at
    BY <1>2, <1>3, AtItem
  <2>2. k > t.at => k > s.at \/ k = s.at
    BY <1>1, <2>1
  <2>3. CASE t.recovery /\ t.stage = s.stage
    BY <2>3
  <2>4. CASE t.stage = [s.stage EXCEPT ![Item(x, s.at)] = None]
    BY <2>1, <2>2, <2>4
  <2> QED
    BY <2>3, <2>4 DEF RemoveStageEffect
<1> QED
  BY <1>1, <1>3 DEF RemoveStageEffect, Undoes, Back

LEMMA UndoFailsBack ==
    ASSUME TypeOK, NEW x \in Calls, CallInv(x), UndoFailsEffect(x)
    PROVE  Undoes(x)
<1> DEFINE s == tx[x]  t == tx'[x]
<1>1. ASSUME NEW k \in 1..Last(x) PROVE t.stage[Item(x, k)] \in {None, s.stage[Item(x, k)]}
  <2>1. DOMAIN s.stage = Items(x) /\ Item(x, k) \in Items(x)
    BY <1>1, AtItem
  <2> QED
    BY <2>1 DEF UndoFailsEffect
<1> QED
  BY <1>1 DEF UndoFailsEffect, Undoes, Back

LEMMA UndoJournalBack ==
    ASSUME TypeOK, NEW x \in Calls, CallInv(x), UndoJournalEffect(x)
    PROVE  Undoes(x)
<1> DEFINE s == tx[x]  t == tx'[x]
<1>1. s.pc = "undo" /\ s.at = 0 /\ t.pc = "throw"
  BY DEF UndoJournalEffect
<1>2. \A k \in 1..Last(x) : k > s.at
  BY <1>1, AtItem
<1>3. t.recovery \/ t.journal \in {None, "part"}
  <2>1. s.journal \in {None, "part", "unopened", "whole"}
    BY CallPlace DEF CallStates
  <2> QED
    BY <2>1 DEF UndoJournalEffect
<1> QED
  BY <1>1, <1>2, <1>3 DEF UndoJournalEffect, Undoes, Back

LEMMA BackTold ==
    ASSUME TypeOK, NEW x \in Calls, CallInv(x), CallSteps(x)
    PROVE  TellsBack(x)
<1>p. Position(x)
  BY DEF CallInv
<1>1. CASE PlanCall(x)
  BY <1>p, <1>1, PlanCallDoes DEF PlanCallEffect, TellsBack, Forth, Back
<1>2. CASE LookEarly(x)
  BY <1>p, <1>2, LookEarlyDoes DEF LookEarlyEffect, TellsBack, Forth, Back
<1>3. CASE LockProject(x)
  BY <1>p, <1>3, LockProjectDoes DEF LockProjectEffect, TellsBack, Forth, Back
<1>4. CASE CheckResidue(x)
  BY <1>p, <1>4, CheckResidueDoes DEF CheckResidueEffect, TellsBack, Forth, Back
<1>5. CASE LookBehindLock(x)
  BY <1>p, <1>5, LookBehindLockDoes DEF LookBehindLockEffect, TellsBack, Forth, Back
<1>6. CASE LookFails(x)
  BY <1>p, <1>6, LookFailsDoes DEF LookFailsEffect, TellsBack, Forth, Back
<1>7. CASE StageItem(x)
  BY <1>p, <1>7, StageItemDoes DEF StageItemEffect, TellsBack, Forth, Back
<1>8. CASE StagingFails(x)
  BY <1>p, <1>8, StagingFailsDoes DEF TellsBack
<1>9. CASE WriteJournal(x)
  BY <1>p, <1>9, WriteJournalDoes DEF WriteJournalEffect, TellsBack, Forth, Back
<1>10. CASE JournalFails(x)
  BY <1>p, <1>10, JournalFailsDoes DEF TellsBack
<1>11. CASE VerifyItem(x)
  BY <1>p, <1>11, VerifyItemDoes DEF VerifyItemEffect, TellsBack, Forth, Back
<1>12. CASE BackUpItem(x)
  BY <1>p, <1>12, BackUpItemDoes DEF BackUpItemEffect, TellsBack, Forth, Back
<1>13. CASE LinkItem(x)
  BY <1>p, <1>13, LinkItemDoes DEF LinkItemEffect, TellsBack, Forth, Back
<1>14. CASE UnlinkStage(x)
  BY <1>p, <1>14, UnlinkStageDoes DEF UnlinkStageEffect, TellsBack, Forth, Back
<1>15. CASE SyncItem(x)
  BY <1>p, <1>15, SyncItemDoes DEF SyncItemEffect, TellsBack, Forth, Back
<1>16. CASE DestinationChanged(x)
  BY <1>p, <1>16, DestinationChangedDoes DEF DestinationChangedEffect, TellsBack, Forth, Back
<1>17. CASE PromotionFails(x)
  BY <1>p, <1>17, PromotionFailsDoes DEF PromotionFailsEffect, TellsBack, Forth, Back
<1>18. CASE UndoItem(x)
  BY <1>p, <1>18, UndoItemDoes, UndoItemBack DEF TellsBack
<1>19. CASE RemoveItem(x)
  BY <1>p, <1>19, RemoveItemDoes, RemoveItemBack DEF TellsBack
<1>20. CASE LookForRestore(x)
  BY <1>p, <1>20, LookForRestoreDoes, LookForRestoreBack DEF TellsBack
<1>21. CASE RestoreItem(x)
  BY <1>p, <1>21, RestoreItemDoes, RestoreItemBack DEF TellsBack
<1>22. CASE RemoveStage(x)
  BY <1>p, <1>22, RemoveStageDoes, RemoveStageBack DEF TellsBack
<1>23. CASE UndoFails(x)
  BY <1>p, <1>23, UndoFailsDoes, UndoFailsBack DEF TellsBack
<1>24. CASE UndoJournal(x)
  BY <1>p, <1>24, UndoJournalDoes, UndoJournalBack DEF TellsBack
<1>25. CASE EndRollback(x)
  BY <1>p, <1>25, EndRollbackDoes DEF EndRollbackEffect, TellsBack, Forth, Back
<1>26. CASE CleanItem(x)
  BY <1>p, <1>26, CleanItemDoes DEF CleanItemEffect, TellsBack, Forth, Back
<1>27. CASE CleaningFails(x)
  BY <1>p, <1>27, CleaningFailsDoes DEF CleaningFailsEffect, TellsBack, Forth, Back
<1>28. CASE CleanJournal(x)
  BY <1>p, <1>28, CleanJournalDoes DEF CleanJournalEffect, TellsBack, Forth, Back
<1>29. CASE EndPublication(x)
  BY <1>p, <1>29, EndPublicationDoes DEF EndPublicationEffect, TellsBack, Forth, Back
<1>30. CASE JournalRemovalFails(x)
  BY <1>p, <1>30, JournalRemovalFailsDoes DEF JournalRemovalFailsEffect, TellsBack, Forth, Back
<1>31. CASE UnlockFails(x)
  BY <1>p, <1>31, UnlockFailsDoes DEF UnlockFailsEffect, TellsBack, Forth, Back
<1> QED
  BY <1>1, <1>2, <1>3, <1>4, <1>5, <1>6, <1>7, <1>8, <1>9, <1>10, <1>11, <1>12, <1>13,
     <1>14, <1>15, <1>16, <1>17, <1>18, <1>19, <1>20, <1>21, <1>22, <1>23, <1>24, <1>25,
     <1>26, <1>27, <1>28, <1>29, <1>30, <1>31
     DEF CallSteps

\* The call that runs.
LEMMA OwnLeft ==
    ASSUME TypeOK, NEW x \in Calls, CallInv(x), CallLeft(x), CallSteps(x), Steady
    PROVE  CallLeft(x)'
<1> DEFINE s == tx[x]  t == tx'[x]
<1>1. /\ Last(x)' = Last(x) /\ \A k : Item(x, k)' = Item(x, k)
      /\ Items(x)' = Items(x) /\ Position(x) /\ None # "whole"
      /\ \A k \in 1..Last(x) : ItemTold(x, k)
  BY KindStays, ItemsStay, CallPlace DEF Steady, CallInv
<1>2. \A p : Excused(p) => Excused(p)'
  BY DEF Steady, Excused
<1>3. SidesLeft(x) /\ Unmoved(x)
  BY DEF CallLeft
<1>4. CASE t.pc \notin Back \cup {"throw"}
  BY <1>4 DEF CallLeft, SidesLeft, Unmoved
<1>5. CASE /\ s.pc \in Forth /\ t.pc = "undo" /\ t.at = s.staged
           /\ t.staged = s.staged /\ t.journal = s.journal
  <2>1. s.staged = Last(x) /\ s.journal = "whole"
    BY <1>1, <1>5 DEF Position
  <2>2. \A k \in 1..Last(x) : ~(k > Last(x))
    BY AtItem
  <2>3. t.pc # "throw"
    BY <1>5
  <2> QED
    BY <1>1, <1>5, <2>1, <2>2, <2>3 DEF CallLeft, SidesLeft, Unmoved
<1>6. CASE StagingFailsEffect(x)
  <2>1. /\ s.pc = "stage" /\ t.pc = "undo" /\ t.at = t.staged /\ file' = file
        /\ t.seen = s.seen /\ t.journal = s.journal
    BY <1>6 DEF StagingFailsEffect
  <2>2. s.at \in 1..Last(x) /\ s.staged = s.at - 1 /\ s.journal = None
    BY <1>1, <2>1 DEF Position
  <2>3. \A k \in 1..Last(x) : k >= s.at => s.stage[Item(x, k)] = None
    BY <1>1, <2>1 DEF ItemTold, ItemAhead
  <2>4. ASSUME NEW k \in 1..Last(x), k > t.staged
        PROVE  t.stage[Item(x, k)] = None \/ (t.stage[Item(x, k)] = "part" /\ k = t.staged + 1)
    <3>1. /\ k \in Nat /\ s.at \in Nat /\ DOMAIN s.stage = Items(x) /\ Item(x, k) \in Items(x)
          /\ Item(x, k) = Item(x, s.at) <=> k = s.at
      BY <2>2, <2>4, AtItem
    <3>2. CASE t.staged = s.staged /\ \E left \in {None, "part"} : t.stage = [s.stage EXCEPT ![Item(x, s.at)] = left]
      <4>1. k = s.at \/ k > s.at
        BY <2>2, <2>4, <3>1, <3>2
      <4>2. CASE k = s.at
        <5>1. t.stage[Item(x, k)] \in {None, "part"}
          BY <3>1, <3>2, <4>2
        <5>2. k = t.staged + 1
          BY <2>2, <3>1, <3>2, <4>2
        <5> QED
          BY <5>1, <5>2
      <4>3. CASE k > s.at
        <5>1. t.stage[Item(x, k)] = s.stage[Item(x, k)]
          BY <3>1, <3>2, <4>3
        <5> QED
          BY <2>3, <2>4, <3>1, <4>3, <5>1
      <4> QED
        BY <4>1, <4>2, <4>3
    <3>3. CASE t.staged = s.staged + 1 /\ t.stage = [s.stage EXCEPT ![Item(x, s.at)] = "whole"]
      <4>1. k > s.at
        BY <2>2, <2>4, <3>1, <3>3
      <4>2. t.stage[Item(x, k)] = s.stage[Item(x, k)]
        BY <3>1, <3>3, <4>1
      <4> QED
        BY <2>3, <2>4, <3>1, <4>1, <4>2
    <3> QED
      BY <1>6, <3>2, <3>3 DEF StagingFailsEffect
  <2>5. \A k \in 1..Last(x) : k > t.at => ~(k <= t.staged)
    <3>1. t.staged \in Nat
      BY <1>6, <2>2, Ordered DEF StagingFailsEffect
    <3> QED
      BY <2>1, <3>1, AtItem
  <2>6. SidesLeft(x)'
    BY <1>1, <2>1, <2>2, <2>4, <2>5 DEF SidesLeft
  <2>7. \A k \in 1..Last(x) : AsSeenAt(x, Item(x, k))
    BY <1>1, <2>1 DEF ItemTold, ItemAhead, Untouched
  <2>8. \A p \in Items(x) : AsSeenAt(x, p)
    BY <2>7, Ordered
  <2>9. \A p \in Items(x) : AsSeenAt(x, p)'
    BY <1>2, <2>1, <2>8 DEF AsSeenAt
  <2> QED
    BY <1>1, <2>6, <2>9 DEF CallLeft, Unmoved
<1>7. CASE JournalFailsEffect(x)
  <2>1. /\ s.pc = "journal" /\ t.pc = "undo" /\ t.at = s.staged /\ t.staged = s.staged /\ file' = file
        /\ t.seen = s.seen
    BY <1>7 DEF JournalFailsEffect
  <2>2. s.staged = Last(x) /\ \A k \in 1..Last(x) : ~(k > Last(x))
    BY <1>1, <2>1, AtItem DEF Position
  <2>3. SidesLeft(x)'
    BY <1>1, <2>1, <2>2 DEF SidesLeft
  <2>4. \A k \in 1..Last(x) : AsSeenAt(x, Item(x, k))
    BY <1>1, <2>1 DEF ItemTold, ItemAhead, Untouched
  <2>5. \A p \in Items(x) : AsSeenAt(x, p)
    BY <2>4, Ordered
  <2>6. \A p \in Items(x) : AsSeenAt(x, p)'
    BY <1>2, <2>1, <2>5 DEF AsSeenAt
  <2> QED
    BY <1>1, <2>3, <2>6 DEF CallLeft, Unmoved
<1>8. CASE Undoes(x)
  <2>1. /\ s.pc \in Back /\ s.pc # "throw" /\ t.pc \in Back \cup {"throw"}
        /\ t.staged = s.staged /\ t.seen = s.seen /\ (s.recovery => t.recovery)
        /\ t.journal = s.journal \/ (t.pc = "throw" /\ ~t.recovery /\ t.journal = None)
        /\ t.pc = "throw" => t.recovery \/ t.journal \in {None, "part"}
        /\ s.journal # "whole" => file' = file
    BY <1>8 DEF Undoes, Back
  <2>2. ASSUME NEW k \in 1..Last(x), k > t.staged
        PROVE  t.stage[Item(x, k)] = None \/ (t.stage[Item(x, k)] = "part" /\ k = t.staged + 1)
    <3>1. s.stage[Item(x, k)] = None \/ (s.stage[Item(x, k)] = "part" /\ k = s.staged + 1)
      BY <1>3, <2>1, <2>2 DEF SidesLeft
    <3>2. t.stage[Item(x, k)] \in {None, s.stage[Item(x, k)]}
      BY <1>8, <2>2 DEF Undoes
    <3> QED
      BY <2>1, <3>1, <3>2
  <2>3. ASSUME NEW k \in 1..Last(x), t.pc = "throw" \/ k > t.at, k <= t.staged
        PROVE  t.recovery \/ t.stage[Item(x, k)] = None
    <3>1. k > s.at \/ t.recovery \/ t.stage[Item(x, k)] = None
      BY <1>8, <2>3 DEF Undoes
    <3>2. k > s.at => s.recovery \/ s.stage[Item(x, k)] = None
      BY <1>3, <2>1, <2>3 DEF SidesLeft
    <3>3. t.stage[Item(x, k)] \in {None, s.stage[Item(x, k)]}
      BY <1>8, <2>3 DEF Undoes
    <3> QED
      BY <2>1, <3>1, <3>2, <3>3
  <2>4. t.journal # None => t.staged = Last(x)
    BY <1>3, <2>1 DEF SidesLeft
  <2>5. SidesLeft(x)'
    BY <1>1, <2>1, <2>2, <2>3, <2>4 DEF SidesLeft
  <2>6. Unmoved(x)'
    <3> SUFFICES ASSUME t.pc \in Back \/ (t.pc = "throw" /\ t.recovery), t.journal # "whole"
                 PROVE  \A p \in Items(x) : AsSeenAt(x, p)'
      BY <1>1 DEF Unmoved
    <3>1. t.journal = s.journal
      BY <2>1 DEF Back
    <3>2. file' = file /\ \A p \in Items(x) : AsSeenAt(x, p)
      BY <1>3, <2>1, <3>1 DEF Unmoved
    <3> QED
      BY <1>2, <2>1, <3>2 DEF AsSeenAt
  <2> QED
    BY <2>5, <2>6 DEF CallLeft
<1> QED
  BY <1>4, <1>5, <1>6, <1>7, <1>8, BackTold DEF TellsBack

\* A call that another one, a publisher or a person runs beside.
LEMMA LeftStays ==
    ASSUME TypeOK, NEW y \in Calls, CallLeft(y), kind' = kind, tx'[y] = tx[y], late \subseteq late',
           \A q \in Places : touched[q] # "no" => touched'[q] # "no",
           ~Running(y) \/ \A q \in Items(y) : file'[q] = file[q] \/ touched'[q] # "no"
    PROVE  CallLeft(y)'
<1>1. /\ Last(y)' = Last(y) /\ \A k : Item(y, k)' = Item(y, k)
      /\ Items(y)' = Items(y) /\ Items(y) \subseteq Places
  BY KindStays, ItemsStay, Ordered
<1>2. SidesLeft(y)'
  BY <1>1 DEF CallLeft, SidesLeft
<1>3. Unmoved(y)'
  <2>1. CASE ~Running(y)
    <3>1. tx[y].pc \notin Back \cup {"throw"}
      BY <2>1 DEF Running, Ended, Back
    <3> QED
      BY <3>1 DEF Unmoved
  <2>2. CASE \A q \in Items(y) : file'[q] = file[q] \/ touched'[q] # "no"
    <3>1. \A q \in Items(y) : AsSeenAt(y, q) => AsSeenAt(y, q)'
      BY <1>1, <2>2 DEF AsSeenAt, Excused
    <3> QED
      BY <1>1, <3>1 DEF CallLeft, Unmoved
  <2> QED
    BY <2>1, <2>2
<1> QED
  BY <1>2, <1>3 DEF CallLeft

\* A publisher writes no file of a call.
LEMMA PublisherAside ==
    ASSUME IInv, NEW g \in Publishers, PublisherRuns(g)
    PROVE  tx' = tx /\ Steady /\ \A y \in Calls : \A q \in Items(y) : file'[q] = file[q]
<1>1. TypeOK /\ PubInv(g) /\ PubSteps(g) /\ NotesLate(Programs \ {g}) /\ tx' = tx
  BY DEF IInv, PublisherRuns
<1>2. kind' = kind /\ touched' = touched /\ pub' = [pub EXCEPT ![g] = pub'[g]]
  BY <1>1, PubStepTyped
<1>3. \A f \in Publishers : f # g => pub'[f] = pub[f]
  BY <1>1, <1>2, PubPlace
<1>4. Steady
  BY <1>1, <1>2 DEF Steady, NotesLate
<1>5. PubMoves(g)
  <2>1. Alone(g)
    BY <1>2, <1>3, <1>4 DEF Alone, Steady
  <2> QED
    BY <1>1, <2>1, PubStepHolds
<1>6. \A q \in Places : q # Target(g) => file'[q] = file[q]
  BY <1>1, <1>5, PubPlace DEF PubMoves
<1> QED
  BY <1>1, <1>4, <1>6, TargetIs, Ordered

LEMMA LeftInit == Init => Left
<1> SUFFICES ASSUME Init, NEW x \in Calls PROVE CallLeft(x)
  BY DEF Left
<1>1. tx[x].pc = "new"
  BY DEF Init, TxInit, Idle
<1> QED
  BY <1>1 DEF CallLeft, SidesLeft, Unmoved, Back

LEMMA LeftKeeps == IInv /\ Left /\ [Next]_vars => Left'
<1> SUFFICES ASSUME IInv, Left, [Next]_vars PROVE Left'
  OBVIOUS
<1>1. /\ TypeOK /\ Holds /\ NoResidue /\ DOMAIN tx = Calls
      /\ \A x \in Calls : CallInv(x) /\ CallLeft(x)
  BY DEF IInv, CallsInv, Left, TypeOK, TxTypeOK
<1> SUFFICES kind' = kind /\ \A y \in Calls : CallLeft(y)'
  BY KindStays DEF Left
<1>2. ASSUME NEW z \in Calls, CallRuns(z)
      PROVE  kind' = kind /\ \A y \in Calls : CallLeft(y)'
  <2>1. CallSteps(z) /\ late \subseteq late'
    BY <1>2 DEF CallRuns, NotesLate
  <2>2. CallTells(z) /\ Steady /\ tx' = [tx EXCEPT ![z] = tx'[z]]
    BY <1>1, <2>1, CallStepHolds
  <2>3. /\ kind' = kind /\ touched' = touched /\ (file' = file \/ Works(z))
        /\ \A y \in Calls : y # z => tx'[y] = tx[y]
    BY <1>1, <2>2 DEF CallTells, TellsFile, Steady
  <2>4. CallLeft(z)'
    BY <1>1, <2>1, <2>2, OwnLeft
  <2>5. ASSUME NEW y \in Calls, y # z PROVE CallLeft(y)'
    <3>1. ~Running(y) \/ file' = file
      BY <1>1, <2>3, <2>5, OthersIdle
    <3> QED
      BY <1>1, <2>1, <2>3, <2>5, <3>1, LeftStays
  <2> QED
    BY <2>3, <2>4, <2>5
<1>3. ASSUME NEW g \in Publishers, PublisherRuns(g)
      PROVE  kind' = kind /\ \A y \in Calls : CallLeft(y)'
  <2>1. tx' = tx /\ Steady /\ \A y \in Calls : \A q \in Items(y) : file'[q] = file[q]
    BY <1>3, PublisherAside
  <2> QED
    BY <1>1, <2>1, LeftStays DEF Steady
<1>4. ASSUME NEW z \in Calls, KillCall(z), late' = late
      PROVE  kind' = kind /\ \A y \in Calls : CallLeft(y)'
  <2>1. /\ tx' = [tx EXCEPT ![z] = [tx[z] EXCEPT !.pc = "killed"]]
        /\ kind' = kind /\ touched' = touched /\ file' = file
    BY <1>4 DEF KillCall, Becomes, Killed
  <2>2. tx'[z].pc = "killed" /\ \A y \in Calls : y # z => tx'[y] = tx[y]
    BY <1>1, <2>1, CallPlace DEF CallStates
  <2>3. CallLeft(z)'
    BY <2>2 DEF CallLeft, SidesLeft, Unmoved, Back
  <2>4. \A y \in Calls : y # z => CallLeft(y)'
    BY <1>1, <1>4, <2>1, <2>2, LeftStays
  <2> QED
    BY <2>1, <2>3, <2>4
<1>5. ASSUME NEW p \in Used, NEW content \in {"foreign", None}, Edit(p, content)
      PROVE  kind' = kind /\ \A y \in Calls : CallLeft(y)'
  <2>1. /\ kind' = kind /\ tx' = tx /\ late \subseteq late'
        /\ file' = [file EXCEPT ![p] = content]
        /\ touched' = [touched EXCEPT ![p] = IF content = None THEN "removed" ELSE "wrote"]
    BY <1>5 DEF Edit, Put, NotesLate
  <2>2. file \in [Places -> Contents] /\ touched \in [Places -> {"no", "wrote", "removed"}]
    BY <1>1 DEF TypeOK, FilesTypeOK
  <2>3. \A q \in Places : /\ file'[q] = file[q] \/ touched'[q] # "no"
                          /\ touched[q] # "no" => touched'[q] # "no"
    BY <2>1, <2>2
  <2> QED
    BY <1>1, <2>1, <2>3, LeftStays, Ordered
<1>6. CASE RemoveStaleLock /\ UNCHANGED <<late, pub>>
  BY <1>1, <1>6, LeftStays DEF RemoveStaleLock, world
<1>7. CASE UNCHANGED vars
  BY <1>1, <1>7, LeftStays DEF vars, world
<1>8. ASSUME NEW g \in Publishers, KillPublisher(g), late' = late, tx' = tx
      PROVE  kind' = kind /\ \A y \in Calls : CallLeft(y)'
  <2>1. kind' = kind /\ touched' = touched /\ file' = file
    BY <1>8 DEF KillPublisher, Killed
  <2> QED
    BY <1>1, <1>8, <2>1, LeftStays
<1> QED
  BY <1>2, <1>3, <1>4, <1>5, <1>6, <1>7, <1>8 DEF Next, Dies

-----------------------------------------------------------------------------
(* What a program reports when it ends.                                     *)

\* A call reports a publication or a rollback in one place each.
LEMMA CallReports ==
    ASSUME TypeOK, NEW x \in Calls, Position(x), CallSteps(x),
           tx'[x].pc \in {"rolledBack", "published", "recoveryRequired"}
    PROVE  EndRollbackEffect(x) \/ EndPublicationEffect(x)
<1>1. CASE PlanCall(x)
  BY <1>1, PlanCallDoes DEF PlanCallEffect
<1>2. CASE LookEarly(x)
  BY <1>2, LookEarlyDoes DEF LookEarlyEffect
<1>3. CASE LockProject(x)
  BY <1>3, LockProjectDoes DEF LockProjectEffect
<1>4. CASE CheckResidue(x)
  BY <1>4, CheckResidueDoes DEF CheckResidueEffect
<1>5. CASE LookBehindLock(x)
  BY <1>5, LookBehindLockDoes DEF LookBehindLockEffect
<1>6. CASE LookFails(x)
  BY <1>6, LookFailsDoes DEF LookFailsEffect
<1>7. CASE StageItem(x)
  BY <1>7, StageItemDoes DEF StageItemEffect
<1>8. CASE StagingFails(x)
  BY <1>8, StagingFailsDoes DEF StagingFailsEffect
<1>9. CASE WriteJournal(x)
  BY <1>9, WriteJournalDoes DEF WriteJournalEffect
<1>10. CASE JournalFails(x)
  BY <1>10, JournalFailsDoes DEF JournalFailsEffect
<1>11. CASE VerifyItem(x)
  BY <1>11, VerifyItemDoes DEF VerifyItemEffect
<1>12. CASE BackUpItem(x)
  BY <1>12, BackUpItemDoes DEF BackUpItemEffect
<1>13. CASE LinkItem(x)
  BY <1>13, LinkItemDoes DEF LinkItemEffect
<1>14. CASE UnlinkStage(x)
  BY <1>14, UnlinkStageDoes DEF UnlinkStageEffect
<1>15. CASE SyncItem(x)
  BY <1>15, SyncItemDoes DEF SyncItemEffect
<1>16. CASE DestinationChanged(x)
  BY <1>16, DestinationChangedDoes DEF DestinationChangedEffect
<1>17. CASE PromotionFails(x)
  BY <1>17, PromotionFailsDoes DEF PromotionFailsEffect
<1>18. CASE UndoItem(x)
  BY <1>18, UndoItemDoes DEF UndoItemEffect, Restoring
<1>19. CASE RemoveItem(x)
  BY <1>19, RemoveItemDoes DEF RemoveItemEffect, Restoring
<1>20. CASE LookForRestore(x)
  BY <1>20, LookForRestoreDoes DEF LookForRestoreEffect
<1>21. CASE RestoreItem(x)
  BY <1>21, RestoreItemDoes DEF RestoreItemEffect
<1>22. CASE RemoveStage(x)
  BY <1>22, RemoveStageDoes DEF RemoveStageEffect
<1>23. CASE UndoFails(x)
  BY <1>23, UndoFailsDoes DEF UndoFailsEffect
<1>24. CASE UndoJournal(x)
  BY <1>24, UndoJournalDoes DEF UndoJournalEffect
<1>25. CASE EndRollback(x)
  BY <1>25, EndRollbackDoes
<1>26. CASE CleanItem(x)
  BY <1>26, CleanItemDoes DEF CleanItemEffect
<1>27. CASE CleaningFails(x)
  BY <1>27, CleaningFailsDoes DEF CleaningFailsEffect
<1>28. CASE CleanJournal(x)
  BY <1>28, CleanJournalDoes DEF CleanJournalEffect
<1>29. CASE EndPublication(x)
  BY <1>29, EndPublicationDoes
<1>30. CASE JournalRemovalFails(x)
  BY <1>30, JournalRemovalFailsDoes DEF JournalRemovalFailsEffect
<1>31. CASE UnlockFails(x)
  BY <1>31, UnlockFailsDoes DEF UnlockFailsEffect
<1> QED
  BY <1>1, <1>2, <1>3, <1>4, <1>5, <1>6, <1>7, <1>8, <1>9, <1>10, <1>11, <1>12, <1>13,
     <1>14, <1>15, <1>16, <1>17, <1>18, <1>19, <1>20, <1>21, <1>22, <1>23, <1>24, <1>25,
     <1>26, <1>27, <1>28, <1>29, <1>30, <1>31
     DEF CallSteps

\* What it reports is so.
LEMMA CallEndsWell ==
    ASSUME TypeOK, NEW x \in Calls, CallInv(x), CallInv(x)', CallLeft(x), PriorOrNewOf(x)',
           CallSteps(x), Steady
    PROVE  CallEnds(x)
<1> DEFINE s == tx[x]  t == tx'[x]
<1>1. /\ Items(x)' = Items(x) /\ Rasters' = Rasters /\ touched' = touched /\ late \subseteq late'
      /\ \A p : Excused(p) => Excused(p)'
  BY KindStays DEF Steady, Excused
<1>2. Position(x) /\ \A k \in 1..Last(x) : ItemTold(x, k)
  BY DEF CallInv
<1>3. t.pc \in {"rolledBack", "published", "recoveryRequired"} => EndRollbackEffect(x) \/ EndPublicationEffect(x)
  BY <1>2, CallReports
<1>4. ASSUME t.pc = "rolledBack"
      PROVE  Undone(x)' /\ OnlyUncounted(x)'
  <2>1. /\ s.pc = "throw" /\ ~s.recovery /\ file' = file
        /\ t.seen = s.seen /\ t.stage = s.stage /\ t.backup = s.backup /\ t.forgotten = s.forgotten
        /\ t.staged = s.staged /\ t.journal = s.journal
    BY <1>3, <1>4 DEF EndRollbackEffect, EndPublicationEffect
  <2>2. \A k \in 1..Last(x) : /\ s.backup[Item(x, k)] = None
                              /\ AsSeenAt(x, Item(x, k)) \/ Forgone(x, Item(x, k))
    BY <1>2, <2>1 DEF ItemTold, ItemUndone
  <2>3. \A p \in Items(x) : s.backup[p] = None /\ (AsSeenAt(x, p) \/ Forgone(x, p))
    BY <2>2, Ordered
  <2>4. Undone(x)'
    BY <1>1, <2>1, <2>3 DEF Undone, AsSeenAt, Forgone
  <2>5. /\ \A k \in 1..Last(x) : s.stage[Item(x, k)] # None =>
              s.stage[Item(x, k)] = "part" /\ k = s.staged + 1
        /\ s.journal # None => s.journal = "part" /\ s.staged = Last(x)
    <3>1. SidesLeft(x)
      BY DEF CallLeft
    <3>2. \A k \in 1..Last(x) : k > s.staged \/ k <= s.staged
      BY AtItem
    <3> QED
      BY <2>1, <3>1, <3>2 DEF SidesLeft
  <2>6. ASSUME NEW p \in Items(x), s.stage[p] # None
        PROVE  s.stage[p] = "part" /\ s.staged < Last(x) /\ p = Item(x, s.staged + 1)
    <3>1. PICK k \in 1..Last(x) : Item(x, k) = p
      BY <2>6, Ordered
    <3>2. s.stage[p] = "part" /\ k = s.staged + 1
      BY <2>5, <2>6, <3>1
    <3>3. s.staged < Last(x)
      BY <3>2, AtItem
    <3> QED
      BY <3>1, <3>2, <3>3
  <2>7. OnlyUncounted(x)'
    <3>1. Order(x)' = Order(x)
      BY KindStays DEF Steady
    <3> QED
      BY <1>1, <2>1, <2>5, <2>6, <3>1 DEF OnlyUncounted, Last, Item
  <2> QED
    BY <2>4, <2>7
<1>5. ASSUME t.pc = "published"
      PROVE  AllNew(x)' /\ ~Residue(x)'
  <2>1. s.pc = "finish" /\ ~s.recovery /\ file' = file
        /\ t.stage = s.stage /\ t.backup = s.backup /\ t.journal = s.journal
    BY <1>3, <1>5 DEF EndRollbackEffect, EndPublicationEffect
  <2>2. \A k \in 1..Last(x) : /\ Mine(x, Item(x, k)) /\ s.stage[Item(x, k)] = None
                              /\ s.backup[Item(x, k)] = None
    BY <1>2, <2>1 DEF ItemTold, ItemDone
  <2>3. \A p \in Items(x) : Mine(x, p) /\ s.stage[p] = None /\ s.backup[p] = None
    BY <2>2, Ordered
  <2>4. s.journal = None
    BY <1>2, <2>1 DEF Position
  <2> QED
    BY <1>1, <2>1, <2>3, <2>4 DEF AllNew, Residue, Mine
<1>6. t.pc \in {"refused", "unchanged"} => ~Residue(x)'
  <2>1. Position(x)'
    BY DEF CallInv
  <2>2. t.pc \in {"refused", "unchanged"} => NoSideFiles(x)'
    BY <2>1 DEF Position
  <2> QED
    BY <1>1, <2>2 DEF NoSideFiles, Residue
<1>7. ASSUME t.pc = "recoveryRequired"
      PROVE  (t.journal = "whole" /\ OldOrNew(x)') \/ Undone(x)'
  <2>1. /\ s.recovery /\ t.backup = s.backup /\ t.journal = s.journal /\ s.pc \in {"throw", "finish"}
        /\ file' = file /\ t.seen = s.seen
    BY <1>3, <1>7 DEF EndRollbackEffect, EndPublicationEffect
  <2>2. CASE t.journal = "whole"
    <3>1. OldOrNew(x)'
      BY <2>2 DEF PriorOrNewOf, OldOrNew, Kept
    <3> QED
      BY <2>2, <3>1
  <2>3. CASE t.journal # "whole"
    <3>1. s.pc = "throw" /\ NothingMoved(x)
      BY <1>2, <2>1, <2>3 DEF Position
    <3>2. \A p \in Items(x) : AsSeenAt(x, p)
      BY <2>1, <2>3, <3>1 DEF CallLeft, Unmoved
    <3> QED
      BY <1>1, <2>1, <3>1, <3>2 DEF NothingMoved, Undone, AsSeenAt
  <2> QED
    BY <2>2, <2>3
<1> QED
  BY <1>1, <1>4, <1>5, <1>6, <1>7 DEF CallEnds

\* Success leaves nothing aside, a failed rollback leaves the backup.
LEMMA PubReports ==
    ASSUME TypeOK, NEW g \in Publishers, PubHolds(g), PubSteps(g)
    PROVE  /\ pub'[g].pc = "published" => pub'[g].stage = None /\ pub'[g].backup = None
           /\ pub'[g].pc = "failed" => ~pub'[g].backedUp
           /\ pub'[g].pc = "rollbackFailed" => pub'[g].backedUp
<1>p. /\ pub[g] \in PublisherStates(g) /\ DOMAIN pub = Publishers
  BY PubPlace
<1>1. CASE PlanTarget(g)
  BY <1>p, <1>1, Apart DEF PlanTarget, Turns, PubHolds, PublisherStates, Posted
<1>2. CASE LockPreview(g)
  BY <1>p, <1>2, Apart DEF LockPreview, Turns, Goes, PubHolds, PublisherStates, Posted
<1>3. CASE LookAgain(g)
  BY <1>p, <1>3, Apart DEF LookAgain, Turns, Goes, Closes, PubHolds, PublisherStates, Posted
<1>4. CASE StageTarget(g)
  BY <1>p, <1>4, Apart DEF StageTarget, Turns, PubHolds, PublisherStates, Posted
<1>5. CASE Recheck(g)
  BY <1>p, <1>5, Apart DEF Recheck, Turns, Goes, Placing, PubHolds, PublisherStates, Posted
<1>6. CASE LinkTarget(g)
  BY <1>p, <1>6, Apart DEF LinkTarget, Turns, PubHolds, PublisherStates, Posted
<1>7. CASE BackUpTarget(g)
  BY <1>p, <1>7, Apart DEF BackUpTarget, Turns, Placing, PubHolds, PublisherStates, Posted
<1>8. CASE ReserveTarget(g)
  BY <1>p, <1>8, Apart DEF ReserveTarget, Turns, Goes, PubHolds, PublisherStates, Posted
<1>9. CASE RenameTarget(g)
  BY <1>p, <1>9, Apart DEF RenameTarget, Turns, PubHolds, PublisherStates, Posted
<1>10. CASE TargetChanged(g)
  BY <1>p, <1>10, Apart DEF TargetChanged, Turns, PubHolds, PublisherStates, Posted
<1>11. CASE SyncTarget(g)
  BY <1>p, <1>11, Apart DEF SyncTarget, Turns, Goes, Closes, PubHolds, PublisherStates, Posted
<1>12. CASE DropStage(g)
  BY <1>p, <1>12, Apart DEF DropStage, Turns, PubHolds, PublisherStates, Posted
<1>13. CASE RemoveBackup(g)
  BY <1>p, <1>13, Apart DEF RemoveBackup, Turns, PubHolds, PublisherStates, Posted
<1>14. CASE SyncAgain(g)
  BY <1>p, <1>14, Apart DEF SyncAgain, Turns, Closes, PubHolds, PublisherStates, Posted
<1>15. CASE LookAgainFails(g)
  BY <1>p, <1>15, Apart DEF LookAgainFails, Turns, Closes, PubHolds, PublisherStates, Posted
<1>16. CASE PublishFails(g)
  BY <1>p, <1>16, Apart DEF PublishFails, Turns, PubHolds, PublisherStates, Posted
<1>17. CASE FinishFails(g)
  BY <1>p, <1>17, Apart DEF FinishFails, Turns, PubHolds, PublisherStates, Posted
<1>18. CASE UndoTarget(g)
  <2>1. CASE g \in Brands /\ pub[g].backedUp
    <3>1. Goes(g, "undo", IF file[Target(g)] = None THEN "bringBack" ELSE "rollbackFailed")
      BY <1>18, <2>1 DEF UndoTarget
    <3> QED
      BY <1>p, <2>1, <3>1 DEF Turns, Goes, PublisherStates
  <2>2. CASE ~(g \in Brands /\ pub[g].backedUp)
    <3>1. \/ Goes(g, "undo", "unstage")
          \/ Turns(g, [pub[g] EXCEPT !.backup = None, !.backedUp = FALSE, !.pc = "unstage"])
      BY <1>18, <2>2 DEF UndoTarget
    <3> QED
      BY <1>p, <3>1 DEF Turns, Goes, PublisherStates
  <2> QED
    BY <2>1, <2>2
<1>19. CASE BringBack(g)
  BY <1>p, <1>19, Apart DEF BringBack, Turns, PubHolds, PublisherStates, Posted
<1>20. CASE DropAgain(g)
  BY <1>p, <1>20, Apart DEF DropAgain, Turns, PubHolds, PublisherStates, Posted
<1>21. CASE Unpublish(g)
  BY <1>p, <1>21, Apart DEF Unpublish, Turns, Goes, PubHolds, PublisherStates, Posted
<1>22. CASE UnpublishFails(g)
  BY <1>p, <1>22, Apart DEF UnpublishFails, Turns, PubHolds, PublisherStates, Posted
<1>23. CASE UndoTargetFails(g)
  BY <1>p, <1>23, Apart DEF UndoTargetFails, Turns, Goes, PubHolds, PublisherStates, Posted
<1>24. CASE DiscardStage(g)
  BY <1>p, <1>24, Apart DEF DiscardStage, Turns, PubHolds, PublisherStates, Posted
<1>25. CASE DiscardStageFails(g)
  BY <1>p, <1>25, Apart DEF DiscardStageFails, Turns, Closes, PubHolds, PublisherStates, Posted
<1> QED
  BY <1>1, <1>2, <1>3, <1>4, <1>5, <1>6, <1>7, <1>8, <1>9, <1>10, <1>11, <1>12, <1>13,
     <1>14, <1>15, <1>16, <1>17, <1>18, <1>19, <1>20, <1>21, <1>22, <1>23, <1>24, <1>25
     DEF PubSteps

\* What a publisher reports is so.
LEMMA PubEndsWell ==
    ASSUME TypeOK, NEW g \in Publishers, PubSteps(g), PubHolds(g), kind' = kind,
           \A f \in Publishers : PubInv(f)'
    PROVE  PublisherEnds(g)
<1> DEFINE t == pub'[g]  p == Target(g)
<1>1. /\ Publishers' = Publishers /\ \A f : Target(f)' = Target(f)
  BY KindStays
<1>2. /\ t.pc = "published" => t.stage = None /\ t.backup = None
      /\ t.pc = "failed" => ~t.backedUp
      /\ t.pc = "rollbackFailed" => t.backedUp
  BY PubReports
<1>3. PubHolds(g)' /\ PubWrote(g)' /\ g # None
  BY PubPlace DEF PubInv
<1>4. t.pc \in Posted => Stands(g)'
  BY <1>3 DEF PubWrote, Placed
<1>5. t.pc \in {"failed", "refused"} => ~t.backedUp /\ t.backup = None
  BY <1>2, <1>3 DEF PubHolds, Posted
<1>6. t.pc = "rollbackFailed" => t.backup \notin {None, "part"}
  BY <1>2, <1>3 DEF PubHolds, Posted
<1>7. ASSUME t.pc \in {"failed", "refused"}
      PROVE  \/ file'[Target(g)] = pub'[g].seen[Target(g)] \/ Excused(Target(g))'
             \/ \E f \in Publishers \ {g} :
                   /\ Target(f) = Target(g) /\ pub'[f].pc # "new"
                   /\ file'[Target(g)] = g => pub'[f].seen[Target(g)] = g
  <2>1. file'[p] = t.seen[p] \/ Excused(p)' \/ Met(g)'
    BY <1>1, <1>3, <1>5, <1>7 DEF PubWrote, Placed, Posted
  <2>2. file'[p] = g => Excused(p)' \/ Saw(g)'
    BY <1>1, <1>3, <1>5, <1>7 DEF PubWrote, Placed, Posted
  <2>3. CASE Saw(g)'
    <3>1. PICK f \in Publishers \ {g} : Target(f) = p /\ pub'[f].seen[p] = g
      BY <1>1, <2>3 DEF Saw
    <3>2. pub'[f].pc # "new"
      BY <1>1, <1>3, <3>1 DEF PubInv, PubHolds
    <3> QED
      BY <3>1, <3>2
  <2>4. CASE Met(g)' /\ file'[p] # g
    BY <1>1, <2>4 DEF Met
  <2> QED
    BY <2>1, <2>2, <2>3, <2>4
<1>8. t.pc = "published" => Stands(g)' /\ t.stage = None /\ t.backup = None
  BY <1>2, <1>4 DEF Posted
<1>9. t.pc \in {"publishedWithError", "failedPublished"} => Stands(g)'
  BY <1>4 DEF Posted
<1>10. pub'[g].pc \in {"failed", "refused"} =>
          /\ pub'[g].backup = None
          /\ \/ file'[Target(g)] = pub'[g].seen[Target(g)] \/ Excused(Target(g))'
             \/ \E f \in Publishers \ {g} :
                   /\ Target(f) = Target(g) /\ pub'[f].pc # "new"
                   /\ file'[Target(g)] = g => pub'[f].seen[Target(g)] = g
  BY <1>5, <1>7, Zenon
<1> QED
  BY <1>6, <1>8, <1>9, <1>10, Zenon DEF PublisherEnds

Reported ==
    /\ \A x \in Calls : tx'[x].pc # tx[x].pc => CallEnds(x)
    /\ \A f \in Publishers : pub'[f].pc # pub[f].pc => PublisherEnds(f)

LEMMA StepReports == IInv /\ IInv' /\ Left /\ [Next]_vars => [Reported]_vars
<1> SUFFICES ASSUME IInv, IInv', Left, Next PROVE Reported
  BY DEF vars
<1>1. /\ TypeOK /\ \A x \in Calls : CallInv(x)
      /\ \A f \in Publishers : PubHolds(f)
      /\ DOMAIN tx = Calls /\ DOMAIN pub = Publishers
  BY DEF IInv, CallsInv, PubInv, TypeOK, TxTypeOK, PubTypeOK
<1>2. CASE \E x \in Calls : CallRuns(x)
  <2>1. PICK x \in Calls : CallRuns(x)
    BY <1>2
  <2>2. CallSteps(x) /\ pub' = pub /\ late \subseteq late'
    BY <2>1 DEF CallRuns, NotesLate
  <2>3. CallInv(x)' /\ Steady /\ tx' = [tx EXCEPT ![x] = tx'[x]]
    BY <1>1, <2>2, CallStepHolds
  <2>4. \A y \in Calls : y # x => tx'[y] = tx[y]
    BY <1>1, <2>3
  <2>5. PriorOrNewOf(x)'
    <3>1. PriorOrNew' /\ Calls' = Calls /\ Items(x)' = Items(x)
      BY <2>3, KindStays DEF IInv, CallsInv, Steady
    <3> QED
      BY <3>1 DEF PriorOrNew, PriorOrNewOf, OldOrNew, Kept
  <2>6. CallEnds(x)
    BY <1>1, <2>2, <2>3, <2>5, CallEndsWell DEF Left
  <2> QED
    BY <2>2, <2>4, <2>6 DEF Reported
<1>3. CASE \E f \in Publishers : PublisherRuns(f)
  <2>1. PICK g \in Publishers : PublisherRuns(g)
    BY <1>3
  <2>2. PubSteps(g) /\ tx' = tx
    BY <2>1 DEF PublisherRuns
  <2>3. kind' = kind /\ pub' = [pub EXCEPT ![g] = pub'[g]]
    BY <1>1, <2>2, PubStepTyped DEF IInv
  <2>4. \A f \in Publishers : f # g => pub'[f] = pub[f]
    BY <1>1, <2>3
  <2>5. \A f \in Publishers : PubInv(f)'
    BY <2>3, KindStays DEF IInv
  <2>6. PublisherEnds(g)
    BY <1>1, <2>2, <2>3, <2>5, PubEndsWell
  <2> QED
    BY <2>2, <2>4, <2>6 DEF Reported
<1>4. CASE \E x \in Programs : Dies(x)
  <2>1. PICK x \in Programs : Dies(x)
    BY <1>4
  <2>2. CASE x \in Calls /\ KillCall(x) /\ UNCHANGED <<late, pub>>
    <3>1. /\ tx'[x].pc = "killed" /\ \A y \in Calls : y # x => tx'[y] = tx[y]
      BY <1>1, <2>2, CallPlace DEF KillCall, Becomes, CallStates
    <3> QED
      BY <2>2, <3>1 DEF Reported, CallEnds
  <2>3. CASE x \in Publishers /\ KillPublisher(x) /\ UNCHANGED <<late, tx>>
    <3>1. /\ pub'[x].pc = "killed" /\ \A f \in Publishers : f # x => pub'[f] = pub[f]
      BY <1>1, <2>3, PubPlace DEF KillPublisher, Turns, PublisherStates
    <3> QED
      BY <2>3, <3>1 DEF Reported, PublisherEnds
  <2> QED
    BY <2>1, <2>2, <2>3 DEF Dies
<1>5. CASE \E p \in Used, content \in {"foreign", None} : Edit(p, content)
  BY <1>5 DEF Edit, Reported
<1>6. CASE RemoveStaleLock /\ UNCHANGED <<late, pub>>
  BY <1>6 DEF RemoveStaleLock, Reported
<1> QED
  BY <1>2, <1>3, <1>4, <1>5, <1>6 DEF Next

-----------------------------------------------------------------------------
(* The theorems.                                                            *)

\* The inductive invariant holds in every reachable state: whatever each
\* program runs of executeOutputs, executeRasterExportPlan and the publishers,
\* whatever fails or dies and whatever people write in between.
THEOREM OutputsInvariance == Spec => []IInv
BY InitHolds, StepKeeps, PTL DEF Spec

\* The lock, the files and the state of each program are well-typed.
THEOREM OutputsTyped == Spec => []TypeOK
<1>1. IInv => TypeOK
  BY DEF IInv
<1> QED
  BY <1>1, OutputsInvariance, PTL

\* Whatever fails and whoever dies, a complete journal names what is half done
\* of an installation or an export, and behind it the old files are all there,
\* in place or in their backups, or the new ones are.
THEOREM ResidueIsRecoverable == Spec => []Recoverable
<1>1. IInv => Recoverable
  BY DEF IInv, CallsInv, Recoverable
<1> QED
  BY <1>1, OutputsInvariance, PTL

\* The backups in a project are always those of one call: nobody who holds the
\* lock starts over the residue that another left (findRecoveryResidue).
THEOREM RecoveriesAreOne == Spec => []OneRecovery
<1>1. IInv => OneRecovery
  <2> SUFFICES ASSUME IInv PROVE OneRecovery
    OBVIOUS
  <2> DEFINE S == {x \in Calls : \E p \in Items(x) : tx[x].backup[p] # None}
  <2>1. \A x, y \in S : x = y
    BY DEF IInv, CallsInv, OneHasBackups
  <2>2. CASE S = {}
    BY <2>2, FS_EmptySet DEF OneRecovery
  <2>3. CASE S # {}
    <3>1. PICK x : S = {x}
      BY <2>1, <2>3
    <3>2. Cardinality(S) = 1
      BY <3>1, FS_Singleton
    <3> QED
      BY <3>2 DEF OneRecovery
  <2> QED
    BY <2>2, <2>3
<1> QED
  BY <1>1, OutputsInvariance, PTL

\* What a person wrote is in place or in a backup, or was seen by a bundle
\* planned with force, unless it came behind a program's last look.
THEOREM EditsOutlive == Spec => []EditSurvives
<1>1. IInv => EditSurvives
  BY DEF IInv
<1> QED
  BY <1>1, OutputsInvariance, PTL

\* What was published with success stays until somebody who saw it replaces it:
\* a link never overwrites, and a rename follows a look.
THEOREM PublishedAreKept == Spec => []PublishedStays
<1>1. IInv => PublishedStays
  BY DEF IInv, PubInv, PubWrote, PublishedStays, Placed, Posted
<1> QED
  BY <1>1, OutputsInvariance, PTL

\* What a call or a publisher reports when it ends is what it did.  A call that
\* rolled back left the files as planned, no backup, and aside at most the one
\* file it had not counted yet; published is all of it and nothing aside; and
\* an end that asks for recovery has left a complete journal and behind it the
\* old files or the new, or has changed no file.
THEOREM ReportsAreHonest == Spec => ReportsHonest
<1>1. Spec => []Left
  BY LeftInit, LeftKeeps, OutputsInvariance, PTL DEF Spec
<1>2. Spec => [][Reported]_vars
  BY <1>1, OutputsInvariance, StepReports, PTL DEF Spec
<1> QED
  BY <1>2, PTL DEF ReportsHonest, Reported
=============================================================================
