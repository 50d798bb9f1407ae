------------------------------- MODULE OutputFiles -------------------------------
(* The files that programs beside the canonical transaction write into a    *)
(* project: the outputs and the lock of a consumer installation, the images *)
(* and receipts of a raster export, preview galleries, and single files     *)
(* published by path.  A file or gallery is named by who wrote it; the code *)
(* compares bytes and identity.                                             *)
EXTENDS Naturals, Sequences, FiniteSets

CONSTANTS
    Programs,       \* the programs that run
    Kinds,          \* what they may be
    None,           \* no file
    MaxMishaps      \* bound on failing calls, killed programs and edits by others

AllKinds == {"installation", "export", "scene", "shard", "bundle", "forcedBundle",
             "brandBundle", "preview", "workspacePreview"}

(* A consumer installation writes two files and the lock that records them, *)
(* an export an image and the receipt that records it.                      *)
Places == {"guide", "theme", "brandLock", "image", "receipt", "file", "gallery", "workspaceGallery"}
Canonical == {"brandLock", "receipt"}
Contents == Programs \cup {"prior", "foreign", None}

ASSUME OutputFilesAssumption ==
    /\ Kinds \subseteq AllKinds
    /\ None \notin Programs \cup {"prior", "foreign", "part", "whole", "linked", "unopened"}
    /\ Programs \cap {"prior", "foreign", "part"} = {}
    /\ MaxMishaps \in Nat

VARIABLES
    kind,           \* what each program is
    lock,           \* whose .tfsb.lock there is
    file,           \* the files of the project
    mishaps,        \* the failures, deaths and edits so far
    touched,        \* what others did last to each file: "no", "wrote" or "removed"
    late            \* the files that changed between a program's last look and its act

world == <<kind, mishaps, touched>>

Are(kinds) == {x \in Programs : kind[x] \in kinds}
Consumers == Are({"installation"})          \* calls of executeOutputs
Rasters == Are({"export"})                  \* calls of executeRasterExportPlan
Calls == Are({"installation", "export"})
Scenes == Are({"scene"})                    \* calls of publishSceneBytes
Shards == Are({"shard"})                    \* calls of publishShardManifest
Forced == Are({"forcedBundle"})             \* calls of executeBundle, planned with force
Brands == Are({"brandBundle"})              \* calls of executeBrandBundle, planned with force
Bundles == Are({"bundle", "forcedBundle", "brandBundle"})
Previews == Are({"preview"})                \* calls of executePreviewPlan
Workspaces == Are({"workspacePreview"})     \* calls of previewWorkspace
Publishers == Programs \ Calls

\* The files that the programs of this run have to do with.
Used == UNION {CASE kind[x] = "installation"     -> {"guide", "theme", "brandLock", "receipt"}
                 [] kind[x] = "export"           -> {"image", "receipt", "brandLock"}
                 [] kind[x] \in {"scene", "shard"} -> {"file"}
                 [] x \in Bundles                -> {"file", "brandLock"}
                 [] kind[x] = "preview"          -> {"gallery", "brandLock"}
                 [] OTHER                        -> {"workspaceGallery"} : x \in Programs}

FilesInit ==
    /\ kind \in [Programs -> Kinds]
    /\ lock = None
    /\ file \in [Places -> {"prior", None}]
    /\ file["guide"] = file["brandLock"] /\ file["theme"] = file["brandLock"]
    /\ file["image"] = file["receipt"]
    /\ \A p \in {"file", "gallery", "workspaceGallery"} \ Used : file[p] = None
    /\ Consumers = {} => file["brandLock"] = None
    /\ Rasters = {} => file["receipt"] = None
    /\ mishaps = 0
    /\ touched = [p \in Places |-> "no"] /\ late = {}

Mishap == mishaps < MaxMishaps /\ mishaps' = mishaps + 1
\* A call that throws; whatever else it does is the action's own.
Fault == Mishap /\ UNCHANGED <<kind, touched>>
Killed == Mishap /\ UNCHANGED <<kind, touched>>

Put(p, content) == file' = [file EXCEPT ![p] = content]

FilesTypeOK ==
    /\ lock \in Calls \cup Previews \cup {None}
    /\ file \in [Places -> Contents]
    /\ kind \in [Programs -> Kinds]
    /\ mishaps \in 0..MaxMishaps
    /\ touched \in [Places -> {"no", "wrote", "removed"}]
    /\ late \subseteq Places
=============================================================================
