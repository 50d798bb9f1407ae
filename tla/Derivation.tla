------------------------------- MODULE Derivation -------------------------------
(***************************************************************************)
(* Assets derived from other assets by recipes: inspectDerivedAuthority    *)
(* and planBrandDerivation of src/brand/derive.ts over buildRecipeGraph of *)
(* src/brand/recipes.ts.  Each recipe makes one target from one source     *)
(* asset, which may be a target itself.  A derived target carries a        *)
(* receipt that says what it was made from; the inspection compares it     *)
(* with what the recipes would make now, and derive, build, install and    *)
(* bundle ask the inspection first.                                        *)
(* A plan and its execution are one step: the transaction refuses a plan   *)
(* whose tree changed since (see CanonicalTransaction).  The operations of *)
(* a recipe are one name; bytes, model and SVG of an asset are one         *)
(* content: a drawing, and what was done to it.  Assets that do not parse, bindings in brand.toml that claim a *)
(* target, and the limits on counts and bytes are left out.                *)
(***************************************************************************)
EXTENDS Sequences

CONSTANTS
    Assets,
    RecipeFiles,    \* what brand-recipes.toml may say: [targets -> recipes]
    TokenFiles,     \* what brand-tokens.toml may say
    Drawings,       \* what people draw
    Unfit,          \* the drawings no recipe can be applied to
    Gone,           \* no asset, no receipt
    Corrupt         \* a receipt that does not parse

(* A recipe: its id, the asset it starts from and what it does; only the    *)
(* operations "ink" use a token.  Nothing derives from itself.              *)
Recipe(id, from, does) == [id |-> id, from |-> from, does |-> does]

(* What files may hold, and what receipts say.                              *)
Artwork == [drawing : STRING, done : Seq([does : STRING, ink : TokenFiles \cup {Gone}])]
Receipts == [id : STRING, recipes : RecipeFiles, tokens : TokenFiles,
             chain : Seq(Assets \X (Artwork \cup {Gone})), content : Artwork]

(* No recipe derives from what is derived from its target.                  *)
Acyclic(file) ==
    \A part \in SUBSET Assets \ {{}} : \E a \in part : a \in DOMAIN file => file[a].from \notin part

AboveIn(file) ==
    LET above[a \in Assets] == IF a \in DOMAIN file THEN {a} \cup above[file[a].from] ELSE {}
    IN above

ASSUME DerivationAssumption ==
    /\ Unfit \subseteq Drawings /\ Drawings \subseteq Artwork /\ \A d \in Drawings : d.done = <<>>
    /\ Gone \notin Artwork /\ {Gone, Corrupt} \cap Receipts = {} /\ Gone # Corrupt
    /\ \A file \in RecipeFiles :
          /\ DOMAIN file \subseteq Assets /\ Acyclic(file)
          /\ \A a \in DOMAIN file : file[a] \in [id : STRING, from : Assets, does : STRING]

VARIABLES
    recipes, tokens,    \* the two authority files
    content,            \* of each asset
    receipt,            \* of each asset, in .tfsb/derived
    drawn               \* ghost: the assets whose content a person drew

dvars == <<recipes, tokens, content, receipt, drawn>>

Targets == DOMAIN recipes
Source(a) == recipes[a].from
Receipted(a) == receipt[a] \notin {Gone, Corrupt}

-----------------------------------------------------------------------------
(* applyRecipeOperations and the receipt of what it made.                   *)

Applicable(c) == c \notin Unfit \cup {Gone}

Apply(a, c) ==
    [c EXCEPT !.done = Append(@, [does |-> recipes[a].does, ink |-> IF recipes[a].does = "ink" THEN tokens ELSE Gone])]

(* What an asset is made to hold, and from which assets, the nearest first. *)
Made(c, chain) == [content |-> c, chain |-> chain]
Derived(a, from) == Made(Apply(a, from.content), <<<<Source(a), from.content>>>> \o from.chain)

createBrandDerivedReceipt(a, made) ==
    [id |-> recipes[a].id, recipes |-> recipes, tokens |-> tokens,
     chain |-> made.chain, content |-> made.content]

-----------------------------------------------------------------------------
(* inspectDerivedAuthority.                                                 *)

(* What the inspection expects of an asset: what its recipe makes of what   *)
(* it expects of the source; anything it cannot judge is as found.          *)
Judged(a) == content[a] # Gone /\ Receipted(a) /\ receipt[a].id = recipes[a].id

Expected[a \in Assets] ==
    IF a \in Targets /\ Judged(a) /\ Applicable(Expected[Source(a)].content)
    THEN Derived(a, Expected[Source(a)])
    ELSE Made(content[a], <<>>)

(* Mutant: the files are compared and what was derived from is not.         *)
SameAuthority_Files(r, expected) == r.recipes = expected.recipes /\ r.tokens = expected.tokens

SameAuthority(r, expected) == r = expected

(* Mutant: an edited source is not a change of authority.                   *)
AuthorityChanged_Files(r, expected) == r.recipes # expected.recipes \/ r.tokens # expected.tokens

AuthorityChanged(r, expected) ==
    r.recipes # expected.recipes \/ r.tokens # expected.tokens \/ r.chain # expected.chain

(* A target whose file and receipt are there and whose recipe can be        *)
(* applied.                                                                 *)
Compared(a) ==
    LET expected == createBrandDerivedReceipt(a, Expected[a])
    IN IF content[a] # receipt[a].content
       THEN IF content[a] = expected.content THEN "invalid-receipt" ELSE "target-drift"
       ELSE IF SameAuthority(receipt[a], expected) THEN "unchanged"
       ELSE IF AuthorityChanged(receipt[a], expected) THEN "stale-authority" ELSE "invalid-receipt"

StateOf(a) ==
    IF content[a] = Gone THEN "missing-target"
    ELSE IF receipt[a] = Gone THEN "human-owned"
    ELSE IF ~Judged(a) THEN "invalid-receipt"
    ELSE IF Expected[Source(a)].content = Gone THEN "ownership-conflict"
    ELSE IF ~Applicable(Expected[Source(a)].content) THEN "invalid-receipt"
    ELSE Compared(a)

(* A receipt no recipe is for is an ownership conflict.                     *)
Orphan(a) == a \notin Targets /\ receipt[a] # Gone

(* What check, build and install ask for.                                   *)
AllUnchanged == \A a \in Assets : ~Orphan(a) /\ (a \in Targets => StateOf(a) = "unchanged")

-----------------------------------------------------------------------------
(* planBrandDerivation.                                                     *)

(* The selected targets, what they derive from and what derives from them.  *)
Above == AboveIn(recipes)
Affected(selected) == {b \in Targets : \E a \in selected : b \in Above[a] \/ a \in Above[b]}

(* Mutant: only those that were named.                                      *)
Inspected_Named(selected) == selected

(* The targets whose states the planner looks at.                           *)
Inspected(selected) == Affected(selected)

(* Mutant: every recipe reads its source from the snapshot.                 *)
Planned_FromSnapshot(selected) ==
    LET found[a \in Assets] == Made(content[a], IF Receipted(a) THEN receipt[a].chain ELSE <<>>)
    IN [a \in Assets |-> IF a \in Affected(selected) /\ Applicable(found[Source(a)].content)
                         THEN Derived(a, found[Source(a)]) ELSE found[a]]

(* A derived target stands in for its file from then on; the receipt of an  *)
(* asset that is not derived now still gives the chain.  A recipe that      *)
(* cannot be applied ends the plan.                                         *)
Planned(selected) ==
    LET planned[a \in Assets] ==
            IF a \in Affected(selected) /\ Applicable(planned[Source(a)].content)
            THEN Derived(a, planned[Source(a)])
            ELSE Made(content[a], IF Receipted(a) THEN receipt[a].chain ELSE <<>>)
    IN planned

(* The receipts that are new or other than the asset's own.                 *)
NewReceipts(selected) ==
    LET plan == Planned(selected)
        made == [a \in Affected(selected) |-> createBrandDerivedReceipt(a, plan[a])]
    IN [a \in {b \in DOMAIN made : made[b] # receipt[b]} |-> made[a]]

Derivable(a) == \/ StateOf(a) \in {"unchanged", "stale-authority"}
                \/ StateOf(a) = "missing-target" /\ receipt[a] = Gone

(* tfsb derive --all and --recipe.                                          *)
Derive(selected) ==
    LET made == NewReceipts(selected)
        plan == Planned(selected)
    IN /\ selected # {}
       /\ UNCHANGED <<recipes, tokens>>
       /\ \A a \in Assets : receipt[a] # Corrupt
       /\ \A a \in Inspected(selected) : Derivable(a)
       /\ \A a \in Affected(selected) : Applicable(plan[Source(a)].content)
       /\ receipt' = [a \in Assets |-> IF a \in DOMAIN made THEN made[a] ELSE receipt[a]]
       /\ content' = [a \in Assets |-> IF a \in DOMAIN made THEN made[a].content ELSE content[a]]
       /\ drawn' = drawn \ DOMAIN made

-----------------------------------------------------------------------------
DInit ==
    /\ recipes \in RecipeFiles /\ tokens \in TokenFiles
    /\ content \in [Assets -> Drawings \cup {Gone}]
    /\ \A a \in Assets : (content[a] = Gone) = (a \in DOMAIN recipes)
    /\ receipt = [a \in Assets |-> Gone]
    /\ drawn = {a \in Assets : content[a] # Gone}

(* Somebody draws an asset, deletes it or puts back what derive made.       *)
Draw(a, c) ==
    /\ c # content[a]
    /\ c \in Drawings \cup {Gone} \/ (Receipted(a) /\ c = receipt[a].content)
    /\ content' = [content EXCEPT ![a] = c]
    /\ drawn' = IF c \in Drawings THEN drawn \cup {a} ELSE drawn \ {a}
    /\ UNCHANGED <<recipes, tokens, receipt>>

(* A receipt is deleted or damaged.                                         *)
SpoilReceipt(a, r) ==
    /\ receipt[a] # Gone /\ r \in {Gone, Corrupt} /\ r # receipt[a]
    /\ receipt' = [receipt EXCEPT ![a] = r]
    /\ UNCHANGED <<recipes, tokens, content, drawn>>

EditRecipes(file) ==
    file # recipes /\ recipes' = file /\ UNCHANGED <<tokens, content, receipt, drawn>>

EditTokens(t) ==
    t # tokens /\ tokens' = t /\ UNCHANGED <<recipes, content, receipt, drawn>>

DNext ==
    \/ \E selected \in SUBSET Targets : Derive(selected)
    \/ \E a \in Assets : \E c \in Drawings \cup {Gone, IF Receipted(a) THEN receipt[a].content ELSE Gone} : Draw(a, c)
    \/ \E a \in Assets, r \in {Gone, Corrupt} : SpoilReceipt(a, r)
    \/ \E file \in RecipeFiles : EditRecipes(file)
    \/ \E t \in TokenFiles : EditTokens(t)

DSpec == DInit /\ [][DNext]_dvars

-----------------------------------------------------------------------------
(* When check, build and install find nothing to object to, every target is *)
(* what its recipe makes of the source there is now, along every chain of   *)
(* recipes.                                                                 *)
GateIsSound ==
    AllUnchanged => \A a \in Targets : content[a] = Apply(a, content[Source(a)])

(* A derive that writes something.                                          *)
Rewrites(selected) == receipt' # receipt /\ Derive(selected)

(* What a person drew is never overwritten by a derive, neither where it is *)
(* told to derive nor above or below.                                       *)
DrawingsKept ==
    [][\A selected \in SUBSET Targets : Rewrites(selected) => \A a \in drawn : content'[a] = content[a]]_dvars

(* A derive leaves every target it covers unchanged to the inspection (but  *)
(* below an orphan's receipt, whose chain the planner uses and the          *)
(* inspection does not), and the same derive again writes nothing.          *)
OrphanAbove(a) == \E b \in Above[a] : Orphan(Source(b))
DeriveSettles ==
    [][\A selected \in SUBSET Targets : Rewrites(selected) =>
          /\ NewReceipts(selected)' = <<>>
          /\ \A a \in Affected(selected) : OrphanAbove(a) \/ StateOf(a)' = "unchanged"]_dvars

(* Only people stand in the way of a derive: a target whose file and        *)
(* receipt are as the last derive left them, whose recipe kept its id, is   *)
(* unchanged or stale as long as there is something to apply the recipe to, *)
(* whatever happened to sources, tokens and other recipes.                  *)
OnlyHandsBlock ==
    \A a \in Targets :
        /\ Receipted(a) /\ content[a] = receipt[a].content /\ receipt[a].id = recipes[a].id
        /\ Applicable(Expected[Source(a)].content)
        => StateOf(a) \in {"unchanged", "stale-authority"}

(* The inspection passes nothing that is out of date, and refuses nothing   *)
(* that only derive has written.                                            *)
InspectionIsRight == GateIsSound /\ OnlyHandsBlock
=============================================================================
