-------------------------------- MODULE MCSources --------------------------------
(***************************************************************************)
(* A project, the source its assets come from, the assets derived from     *)
(* them, the archive its brand leaves in, and another project that         *)
(* installs from such archives.  The snapshot says that what a plan was    *)
(* made from is still there when it is carried out, and the rounds of      *)
(* reconciliation, of derivation and of packaging take a plan and its      *)
(* execution as one step because of it.  A behaviour moves one side;       *)
(* derivation and archive share the assets, and nothing else is shared.    *)
(***************************************************************************)
EXTENDS Reconciliation, DirectorySnapshot, BrandArchive, ConsumerOwnership

VARIABLE side

EveryItem == {"schema1", "schema2", "directory"} \X {"asset", "companion"}
ADirectoryAsset == {<<"directory", "asset">>}

(* Two derived assets in a chain, side by side, and one of them without its *)
(* recipe while the other's got another id.                                 *)
Drawn == "drawn"
Chain == ("first" :> Recipe("r1", Drawn, "ink")) @@ ("second" :> Recipe("r2", "first", "plain"))
Fork == ("first" :> Recipe("r1", Drawn, "ink")) @@ ("second" :> Recipe("r2", Drawn, "plain"))
Leaf == "second" :> Recipe("r3", "first", "plain")
SomeRecipeFiles == {Chain, Fork, Leaf}

(* Two packages in two releases.  p/base puts a second file below a path    *)
(* that is the parent of q's, when the theme is dark, and its second        *)
(* release offers a file that q's first one offers too; q/kit composes the  *)
(* other package's profile; the project adds a profile of its own, or one   *)
(* under the id of a producer's.                                            *)
Rule(from, to, required, when) == [source |-> from, to |-> to, required |-> required, when |-> when]
Offer(digest, id, package, composes, parameters, outputs) ==
    [digest |-> digest, id |-> id, package |-> package, versions |-> {1, 2},
     composes |-> composes, parameters |-> parameters, outputs |-> outputs]
Base == {Rule("mark", "mark", TRUE, {}), Rule("night", "kit", TRUE, {<<"theme", "dark">>})}
Guide == Rule("guide", "guide", FALSE, {})
Kit == Rule("kit", "kit/logo", TRUE, {})
Themed == "theme" :> {"light", "dark"}
SomeProfiles ==
    {Offer("base1", "p/base", "p", {}, Themed, Base),
     Offer("base2", "p/base", "p", {}, Themed, Base \cup {Guide}),
     Offer("kit", "q/kit", "q", {"p/base"}, <<>>, {Kit, Guide}),
     Offer("solo", "q/solo", "q", {}, <<>>, {Kit, Guide}),
     Offer("solo2", "q/solo", "q", {}, <<>>, {Kit}),
     Offer("mine", "p/mine", "p", {"p/base"}, <<>>, {Guide}),
     Offer("clash", "q/solo", "q", {}, <<>>, {Rule("kit", "mark", TRUE, {})})}
SomeReleases ==
    {[digest |-> "p1", package |-> "p", version |-> 1, profiles |-> {"base1"},
      payload |-> "mark" :> "b1" @@ "night" :> "b2"],
     [digest |-> "p2", package |-> "p", version |-> 2, profiles |-> {"base2"},
      payload |-> "mark" :> "b2" @@ "night" :> "b2" @@ "guide" :> "b1"],
     [digest |-> "q1", package |-> "q", version |-> 1, profiles |-> {"kit", "solo"},
      payload |-> "kit" :> "b1" @@ "guide" :> "b2"],
     [digest |-> "q2", package |-> "q", version |-> 2, profiles |-> {"solo2"}, payload |-> "kit" :> "b2"]}
SomeProjects == {<<>>, "mark" :> "b1", "guide" :> "b1"}
KitInKit == {<<"kit", "kit/logo">>}
Light == "p/base" :> ("theme" :> "light")
Dark == "p/base" :> ("theme" :> "dark")
SomeSelections ==
    {[profiles |-> s[1], parameters |-> s[2]] :
       s \in {<<{"p/base"}, Light>>, <<{"p/base"}, Dark>>, <<{"p/mine"}, Light>>,
              <<{"q/kit"}, Light>>, <<{"q/solo"}, <<>>>>, <<{"p/base", "q/solo"}, Light>>}}

(* Three drawings, the last of which is not fit for recipes.                *)
Sheet(name) == [drawing |-> name, done |-> <<>>]
SomeDrawings == {Sheet("one"), Sheet("two"), Sheet("odd")}
OddDrawings == {Sheet("odd")}

Fit == CHOOSE c \in Drawings \ Unfit : TRUE

(* A side that rests is in one initial state.                               *)
Rests(s) ==
    CASE s = "rounds" -> /\ item = <<"directory", "asset">>
                         /\ source = (CHOOSE d \in Digests : TRUE) /\ sourceMap = (CHOOSE m \in Maps : TRUE)
      [] s = "snapshot" -> \A d \in Dirs : tree[d].file.what = Nothing
      [] s = "derivation" -> /\ recipes = Leaf
                             /\ \A a \in Assets : content[a] \in {Gone, Fit}
      [] s = "archive" -> brand.package.required /\ Bound(brand.bindings) = {Drawn}
      [] s = "consumer" -> installs = <<>>

(* Slots, texts, tokens and drawings that are fit are interchangeable: the  *)
(* project begins with one of each, or with a drawing that is not fit.      *)
(* When the import is planned only the file in the subdirectory may be      *)
(* absent or other than the rest; edits remove and change the others.       *)
Begins ==
    /\ DOMAIN brand.bindings = {CHOOSE slot \in Slots : TRUE}
    /\ brand.beside = (CHOOSE text \in Texts : TRUE)
    /\ tokens = (CHOOSE t \in TokenFiles : TRUE)
    /\ content[Drawn] \in Unfit \cup {Fit}
    /\ side = "snapshot" => tree["s2"].file.what = tree["root"].file.what /\ tree["root"].file.what # Nothing

Sides == {"rounds", "snapshot", "derivation", "archive", "consumer"}

MCInit ==
    /\ RInit /\ SInit /\ AInit /\ CInit
    /\ side \in Sides /\ Begins
    /\ \A s \in Sides \ {side} : Rests(s)

(* Nothing is derived from the asset at the end, so it does not matter what *)
(* is drawn there.                                                          *)
DrawnAnyhow == content'["second"] \in Drawings => content'["second"] = Fit

MCNext ==
    \/ side = "rounds" /\ RNext /\ UNCHANGED <<svars, dvars, avars, cvars, side>>
    \/ side = "snapshot" /\ SNext /\ UNCHANGED <<rvars, dvars, avars, cvars, side>>
    \/ side = "derivation" /\ DNext /\ DrawnAnyhow /\ UNCHANGED <<rvars, svars, avars, cvars, side>>
    \/ side = "archive" /\ ANext /\ UNCHANGED <<rvars, svars, cvars, side>>
    \/ side = "consumer" /\ CNext /\ UNCHANGED <<rvars, svars, dvars, avars, side>>

MCSpec == MCInit /\ [][MCNext]_<<rvars, svars, dvars, avars, cvars, side>>

(* Of the snapshot's constants, where the states are.                       *)
Symmetry == Permutations(Contents) \cup Permutations(SourceMaps) \cup Permutations(Executes)
=============================================================================
