-------------------------------- MODULE MCOutputs --------------------------------
(* Any two of the programs, of the same kind or of two kinds that meet.     *)
EXTENDS Outputs, TLC

Symmetry == Permutations(Programs)

(* The kinds that have the lock or a file in common.  Programs of two kinds *)
(* that have neither cannot tell whether the other runs.  A bundle and a    *)
(* call meet at the brand lock and the receipt alone, which every bundle    *)
(* reads in the same way: one kind of bundle beside each call is enough.    *)
Bundling == {"bundle", "forcedBundle", "brandBundle"}
AtTheLock == {"installation", "export", "preview", "bundle"}
Meeting == {{"workspacePreview"}, {"export", "brandBundle"}} \cup SUBSET AtTheLock
           \cup SUBSET (Bundling \cup {"preview"}) \cup SUBSET (Bundling \cup {"scene", "shard"})

MCInit == Init /\ {kind[x] : x \in Programs} \in Meeting
MCSpec == MCInit /\ [][Next]_vars
=============================================================================
