------------------------------ MODULE BrandArchive ------------------------------
(***************************************************************************)
(* A brand package on its way from one project to another: planBrandBundle *)
(* of src/brand/brand-bundle.ts writes an archive with two manifests, and  *)
(* brand-import.ts checks every relation between its files before it makes *)
(* a project of it.  The project is the one of Derivation, with the brand  *)
(* files around the assets: bindings, exports, one QA baseline, the        *)
(* package with its inventory and one companion document.                  *)
(* A digest is what it digests.  The ZIP container, parsing and printing,  *)
(* families, roles and requirements of brand.toml, consumer profiles, names*)
(* and versions, and limits are left out; tokens, recipes and the package  *)
(* are always enabled.  How the archive reaches its path and the imported  *)
(* tree its root is in Outputs and in CanonicalTransaction.                *)
(***************************************************************************)
EXTENDS Derivation, Integers, TLC

CONSTANTS
    Slots,          \* what brand.toml may bind: a family, role and variant
    Texts,          \* what the companion document says
    MaxEdits        \* bound: edits of the project and of the archive

VARIABLES
    brand,          \* the files around the assets
    archive, copy,  \* what was bundled, and imported, or Gone
    altered,        \* somebody edited the archive
    edits

avars == <<brand, archive, copy, altered, edits>>

(* brand.toml, brand-exports.toml (the asset it names) and brand-qa.toml    *)
(* (its one baseline case) with its PNG, brand-package.toml, the companion  *)
(* beside .tfsb and inside it, and the digest that the provenance has for   *)
(* it.  Gone is a file that is not there; brand.toml enables the domains of *)
(* the files that are.                                                      *)
Project == brand @@ [recipes |-> recipes, tokens |-> tokens, content |-> content, receipt |-> receipt]

(* The derived assets of any project.                                       *)
Inside(t) == INSTANCE Derivation
    WITH recipes <- t.recipes, tokens <- t.tokens, content <- t.content, receipt <- t.receipt, drawn <- {}

Enabled(t) == {d \in {"tokens", "recipes", "package", "qa", "exports"} : t[d] # Gone}
BrandToml(t) == [bindings |-> t.bindings, enabled |-> Enabled(t)]
Bound(bindings) == {bindings[s].asset : s \in DOMAIN bindings}
BoundAs(bindings, authority) == {bindings[s].asset : s \in {r \in DOMAIN bindings : bindings[r].authority = authority}}

(* validateBrandSemantics: a bound asset is there or has a recipe, and only *)
(* the target of a recipe is bound as derived; complete if every one is     *)
(* there and no target is bound as a source.                                *)
Sensible(t) ==
    /\ \A a \in Bound(t.bindings) : t.content[a] # Gone \/ a \in DOMAIN t.recipes
    /\ BoundAs(t.bindings, "derived") \subseteq DOMAIN t.recipes
Unclaimed(t) == BoundAs(t.bindings, "source") \cap DOMAIN t.recipes = {}
Complete(t) == Unclaimed(t) /\ \A a \in Bound(t.bindings) : t.content[a] # Gone

ExportsResolve(t) == t.exports # Gone => t.content[t.exports] # Gone

computeBrandSystemDigest(t) ==
    <<t.bindings, t.tokens, t.recipes, t.qa, t.exports,
      [a \in {b \in Bound(t.bindings) : t.content[b] # Gone} |-> t.content[a]]>>

(* What loading a project requires of these files.                          *)
Loads(t) ==
    /\ Sensible(t) /\ ExportsResolve(t)
    /\ t.exports # Gone => t.package.exports = t.exports
    /\ t.baseline # Gone => t.qa # Gone

DerivedUnchanged(t) == Unclaimed(t) /\ Inside(t)!AllUnchanged

-----------------------------------------------------------------------------
(* planBrandBundle.                                                         *)

(* The companion comes from its source file or, without one, from .tfsb if  *)
(* an import recorded it; an optional one may be missing.                   *)
IsRecorded(t) == t.kept # Gone /\ t.recorded = t.package.digest

resolveCompanion(t) == IF t.beside # Gone THEN t.beside ELSE IF IsRecorded(t) THEN t.kept ELSE Gone

CompanionResolves(t) ==
    /\ resolveCompanion(t) \in {t.package.digest, Gone}
    /\ t.beside # Gone => t.kept \in {t.package.digest, Gone}
    /\ resolveCompanion(t) = Gone => ~t.package.required

Carried(package) == Bound(package.inventory)

(* The baseline still belongs to the asset as it is.                        *)
BaselineHolds(t) ==
    t.qa # Gone => /\ t.baseline # Gone /\ t.baseline = t.qa.digest
                   /\ t.content[t.qa.asset] # Gone /\ t.content[t.qa.asset] = t.qa.input

Bundles(t) ==
    /\ Loads(t)
    /\ t.package.system = computeBrandSystemDigest(t)
    /\ DerivedUnchanged(t)
    /\ \A s \in DOMAIN t.package.inventory : LET item == t.package.inventory[s] IN
          item.asset \in Bound(t.bindings) /\ item.digest = t.content[item.asset]
    /\ BaselineHolds(t)
    /\ CompanionResolves(t)

(* The files of the archive, each named by its directory and its stem.      *)
Carries(t) ==
    ({"assets"} \X Carried(t.package))
    \cup ({"derived"} \X (Carried(t.package) \cap DOMAIN t.recipes))
    \cup ({"brand"} \X (Enabled(t) \cup {"brand"}))
    \cup (IF t.qa = Gone THEN {} ELSE {<<"baselines", "case">>})
    \cup (IF resolveCompanion(t) = Gone THEN {} ELSE {<<"companions", "text">>})

BrandFile(t, d) == IF d = "brand" THEN BrandToml(t) ELSE t[d]

FileOf(t, f) ==
    CASE f[1] = "assets" -> t.content[f[2]]
      [] f[1] = "derived" -> t.receipt[f[2]]
      [] f[1] = "brand" -> BrandFile(t, f[2])
      [] f[1] = "baselines" -> t.baseline
      [] f[1] = "companions" -> resolveCompanion(t)

(* Mutant: the receipts of derived assets stay behind.                      *)
Payload_NoReceipts(t) == [f \in {g \in Carries(t) : g[1] # "derived"} |-> FileOf(t, f)]

Payload(t) == [f \in Carries(t) |-> FileOf(t, f)]

(* The stems of one directory of an archive.                                *)
Has(payload, dir) == {f[2] : f \in {g \in DOMAIN payload : g[1] = dir}}
In(payload, dir) == [stem \in Has(payload, dir) |-> payload[<<dir, stem>>]]

(* tfsb-manifest.json lists the files; tfsb-brand-manifest.json what they   *)
(* are to each other.                                                       *)
BrandManifest(payload, generic) ==
    LET files == In(payload, "brand") IN
    [generic |-> generic, domains |-> files, system |-> files.package.system,
     inventory |-> files.package.inventory,
     receipts |-> In(payload, "derived"),
     baselines |-> In(payload, "baselines"), companions |-> In(payload, "companions")]

planBrandBundle(t) ==
    LET payload == Payload(t)
    IN [payload |-> payload, generic |-> payload, manifest |-> BrandManifest(payload, payload)]

-----------------------------------------------------------------------------
(* inspectBrandImportCandidate.                                             *)

(* The archive holds what its manifests list, byte for byte.                *)
PayloadIntact(z) == z.payload = z.generic /\ z.manifest.generic = z.generic

(* Each brand file is the one the brand manifest names, and every enabled   *)
(* domain has its file.                                                     *)
DomainsAgree(z) ==
    LET files == In(z.payload, "brand")
        named == z.manifest.domains
    IN /\ {"brand", "package"} \subseteq DOMAIN files
       /\ \A d \in {"brand", "package"} : named[d] = files[d]
       /\ \A d \in {"tokens", "recipes"} \cap DOMAIN files : d \in DOMAIN named => named[d] = files[d]
       /\ \A d \in {"qa", "exports"} \cap DOMAIN files : d \in DOMAIN named /\ named[d] = files[d]
       /\ "exports" \in DOMAIN files => files.package.exports = files.exports
       /\ "exports" \notin DOMAIN files => "exports" \notin DOMAIN named
       /\ files.brand.enabled \subseteq DOMAIN files

(* Mutant: whatever was packed is taken, also what nobody asked for.        *)
Claimed_All(z) == DOMAIN z.generic

(* The files that the models account for.                                   *)
Claimed(z) ==
    ({"assets"} \X Carried(z.manifest)) \cup {f \in DOMAIN z.payload : f[1] = "brand"}
    \cup ({"derived"} \X DOMAIN z.manifest.receipts) \cup ({"baselines"} \X DOMAIN z.manifest.baselines)
    \cup ({"companions"} \X DOMAIN z.manifest.companions)

(* The project that an archive describes: the assets of the inventory, and  *)
(* no other.                                                                *)
Opened(z) ==
    LET files == In(z.payload, "brand")
        Brand(d) == IF d \in DOMAIN files THEN files[d] ELSE Gone
        Only(dir, stem) == IF <<dir, stem>> \in DOMAIN z.payload THEN z.payload[<<dir, stem>>] ELSE Gone
        derived == BoundAs(files.brand.bindings, "derived")
    IN [bindings |-> files.brand.bindings, package |-> files.package, qa |-> Brand("qa"), exports |-> Brand("exports"),
        recipes |-> Brand("recipes"), tokens |-> Brand("tokens"),
        content |-> [a \in Assets |-> IF a \in Carried(z.manifest) THEN Only("assets", a) ELSE Gone],
        receipt |-> [a \in Assets |-> IF a \in derived THEN Only("derived", a) ELSE Gone],
        baseline |-> Only("baselines", "case"), beside |-> Gone,
        kept |-> Only("companions", "text"), recorded |-> Only("companions", "text")]

(* Inventory, package and bindings name the same assets, which are as the   *)
(* inventory says.                                                          *)
InventoryAgrees(z, t) ==
    /\ \A a \in Carried(z.manifest) : t.content[a] # Gone
    /\ \A s \in DOMAIN z.manifest.inventory :
          z.manifest.inventory[s].digest = t.content[z.manifest.inventory[s].asset]
    /\ DOMAIN t.package.inventory = DOMAIN t.bindings
    /\ \A s \in DOMAIN t.bindings : t.package.inventory[s].asset = t.bindings[s].asset
    /\ z.manifest.inventory = t.package.inventory

SystemAgrees(z, t) ==
    /\ Sensible(t) /\ Complete(t) /\ ExportsResolve(t)
    /\ t.package.system = computeBrandSystemDigest(t)
    /\ z.manifest.system = t.package.system

ReceiptsAgree(z, t) ==
    /\ DOMAIN z.manifest.receipts = BoundAs(t.bindings, "derived")
    /\ \A a \in DOMAIN z.manifest.receipts :
          LET r == t.receipt[a] IN
          /\ a \in DOMAIN t.recipes /\ r \notin {Gone, Corrupt} /\ r = z.manifest.receipts[a]
          /\ r.id = t.recipes[a].id /\ r.content = t.content[a]

BaselineAgrees(z, t) ==
    /\ (z.manifest.baselines # <<>>) = (t.qa # Gone)
    /\ t.qa # Gone => t.baseline = z.manifest.baselines["case"]
    /\ BaselineHolds(t)

CompanionAgrees(z, t) ==
    IF z.manifest.companions = <<>> THEN ~t.package.required
    ELSE t.kept = z.manifest.companions["text"] /\ t.kept = t.package.digest

(* validateStagedBrandTree asks the inspection of derived assets last.      *)
Imports(z) ==
    /\ PayloadIntact(z) /\ DomainsAgree(z)
    /\ LET t == Opened(z) IN
          /\ InventoryAgrees(z, t) /\ SystemAgrees(z, t) /\ ReceiptsAgree(z, t)
          /\ BaselineAgrees(z, t) /\ CompanionAgrees(z, t)
          /\ DOMAIN z.generic = Claimed(z)
          /\ t.recipes # Gone => DerivedUnchanged(t)

-----------------------------------------------------------------------------
Bind(asset, authority) == [asset |-> asset, authority |-> authority]
Bindings == {Bind(a, w) : a \in Assets, w \in {"source", "derived"}}

AInit ==
    /\ DInit
    /\ \E s \in Slots, a \in Assets \ Targets, text \in Texts, required \in BOOLEAN :
          brand = [bindings |-> s :> Bind(a, "source"), exports |-> Gone, qa |-> Gone, baseline |-> Gone,
                   package |-> [inventory |-> <<>>, system |-> Gone, exports |-> Gone,
                                digest |-> text, required |-> required],
                   beside |-> text, kept |-> Gone, recorded |-> Gone]
    /\ archive = Gone /\ copy = Gone /\ altered = FALSE /\ edits = 0

Editing == archive = Gone /\ UNCHANGED <<archive, copy, altered>>
Rewritten(file, value) == brand' = [brand EXCEPT ![file] = value] /\ brand' # brand
Another == edits < MaxEdits /\ edits' = edits + 1

(* People edit the files, and derive.                                       *)
EditBrand ==
    /\ Editing /\ Another /\ UNCHANGED dvars
    /\ \/ \E slot \in Slots, b \in Bindings : Rewritten("bindings", (slot :> b) @@ brand.bindings)
       \/ \E slot \in Slots : Rewritten("bindings", [s \in DOMAIN brand.bindings \ {slot} |-> brand.bindings[s]])
       \/ \E a \in Assets \cup {Gone} : Rewritten("exports", a)
       \/ \E text \in Texts \cup {Gone}, place \in {"beside", "kept"} : Rewritten(place, text)
       \/ Rewritten("baseline", Gone)
       \/ brand' = [brand EXCEPT !.qa = Gone, !.baseline = Gone] /\ brand' # brand

EditAssets ==
    \/ Editing /\ Another /\ DNext /\ UNCHANGED brand
    \/ Editing /\ Derive(Targets) /\ UNCHANGED <<brand, edits>>

(* Somebody writes brand-package.toml for the project as it is, over all or *)
(* some of the bindings and with a companion there is, or was.              *)
WritePackage(slots, text) ==
    /\ Editing /\ UNCHANGED <<dvars, edits>>
    /\ text \in {brand.beside, brand.kept, brand.package.digest}
    /\ slots # {} /\ slots \subseteq DOMAIN brand.bindings
    /\ LET Item(asset) == [asset |-> asset, digest |-> content[asset]]
       IN Rewritten("package", [brand.package EXCEPT
              !.inventory = [s \in slots |-> Item(brand.bindings[s].asset)], !.exports = brand.exports,
              !.system = computeBrandSystemDigest(Project), !.digest = text])

(* planBrandQaBaselineUpdate, creating the case or rebaselining it: the PNG *)
(* and its record follow the asset, the package does not.                   *)
UpdateBaseline(a) ==
    /\ Editing /\ UNCHANGED <<dvars, edits>>
    /\ Loads(Project)
    /\ brand.qa # Gone => a = brand.qa.asset /\ brand.baseline # Gone
    /\ \A b \in {a} \cup Bound(brand.bindings) : content[b] # Gone
    /\ brand' = [brand EXCEPT !.qa = [asset |-> a, input |-> content[a], digest |-> content[a]],
                              !.baseline = content[a]]
    /\ brand' # brand

PlanBrandBundle ==
    /\ archive = Gone /\ Bundles(Project)
    /\ archive' = planBrandBundle(Project)
    /\ UNCHANGED <<dvars, brand, copy, altered, edits>>

(* What may stand in a file of the archive instead.  brand.toml stays as it *)
(* is: an importer takes the file of a domain that brand.toml disables, and *)
(* no project loads with one.                                               *)
Instead(f) ==
    CASE f[1] = "assets" -> Drawings
      [] f[1] = "derived" -> {Corrupt}
      [] f[1] = "baselines" -> Drawings
      [] f[1] = "companions" -> Texts
      [] f = <<"brand", "tokens">> -> TokenFiles
      [] f = <<"brand", "recipes">> -> RecipeFiles
      [] f = <<"brand", "package">> /\ <<"brand", "brand">> \in DOMAIN archive.payload
           -> LET package == archive.payload[f] IN
              {[package EXCEPT !.required = ~@], [package EXCEPT !.system = computeBrandSystemDigest(Opened(archive))]}
      [] OTHER -> {}

Altered(z) ==
    /\ copy = Gone /\ z # archive
    /\ archive' = z
    /\ altered' = TRUE
    /\ UNCHANGED <<dvars, brand, copy>>

(* Somebody changes, drops or adds a file of the archive, and writes one of *)
(* the manifests to fit.                                                    *)
ChangeFile(f) == \E v \in Instead(f) : Altered([archive EXCEPT !.payload[f] = v]) /\ Another
DropFile(f) == Altered([archive EXCEPT !.payload = [g \in DOMAIN @ \ {f} |-> @[g]]]) /\ Another
AddFile(a, c) == Altered([archive EXCEPT !.payload = @ @@ (<<"assets", a>> :> c)]) /\ Another
Relist == Altered([archive EXCEPT !.generic = archive.payload]) /\ UNCHANGED edits
Resign ==
    /\ <<"brand", "package">> \in DOMAIN archive.payload
    /\ Altered([archive EXCEPT !.manifest = BrandManifest(archive.payload, archive.generic)])
    /\ UNCHANGED edits

AlterArchive ==
    /\ archive # Gone
    /\ \/ \E f \in DOMAIN archive.payload : ChangeFile(f) \/ DropFile(f)
       \/ \E a \in Assets, c \in Drawings : AddFile(a, c)
       \/ Relist
       \/ Resign

ImportBrand ==
    /\ archive # Gone /\ copy = Gone
    /\ Imports(archive)
    /\ copy' = Opened(archive)
    /\ UNCHANGED <<dvars, brand, archive, altered, edits>>

ANext ==
    \/ EditBrand
    \/ EditAssets
    \/ \E slots \in SUBSET Slots, text \in Texts : WritePackage(slots, text)
    \/ \E a \in Assets : UpdateBaseline(a)
    \/ PlanBrandBundle
    \/ AlterArchive
    \/ ImportBrand

-----------------------------------------------------------------------------
(* The package lists all that brand.toml binds, and what recipes, exports   *)
(* and QA name is among it.                                                 *)
SelfContained(t) ==
    LET packed == Carried(t.package) IN
    /\ \A s \in DOMAIN t.bindings : s \in DOMAIN t.package.inventory /\ t.package.inventory[s].asset = t.bindings[s].asset
    /\ DOMAIN t.package.inventory = DOMAIN t.bindings
    /\ DOMAIN t.recipes \subseteq packed /\ \A a \in DOMAIN t.recipes : t.recipes[a].from \in packed
    /\ t.exports \in packed \cup {Gone} /\ (t.qa # Gone => t.qa.asset \in packed)

(* Every archive of a project that is packed whole can be imported: what    *)
(* the bundler lets pass, the importer, which checks it by other means,     *)
(* lets pass too.                                                           *)
BundlesImport == archive # Gone /\ ~altered /\ SelfContained(Project) => Imports(archive)

(* Whatever is imported is a project that bundles to that very archive,     *)
(* file by file, whoever edited the archive before: nothing got in that the *)
(* models do not account for, and nothing was lost on the way.              *)
ImportsBundle == copy # Gone => Bundles(copy) /\ planBrandBundle(copy) = archive

(* Bundler and importer accept the same: what one makes the other takes,    *)
(* and what that one takes is what the first would make.                    *)
BundlerMeetsImporter == BundlesImport /\ ImportsBundle
=============================================================================
