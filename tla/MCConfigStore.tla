--------------------------- MODULE MCConfigStore ---------------------------
(* Instances of ConfigStore for TLC: which calls meet on one file.          *)
EXTENDS ConfigStore, TLC

CONSTANTS a, b, c1, c2, c3, c4, p1, p2

AllItems     == {a, b}
AllProcesses == {p1, p2}
StoredB      == {b}

\* Two updates and a reader in one process, an update in a second one.
UpdaterKind == (c1 :> "update") @@ (c2 :> "update") @@ (c3 :> "update") @@ (c4 :> "read")
UpdaterEdit == (c1 :> "add") @@ (c2 :> "remove") @@ (c3 :> "keep") @@ (c4 :> "keep")
UpdaterItem == (c1 :> a) @@ (c2 :> b) @@ (c3 :> a) @@ (c4 :> a)
UpdaterProc == (c1 :> p1) @@ (c2 :> p2) @@ (c3 :> p1) @@ (c4 :> p1)

\* One call of each kind.
MixedKind == (c1 :> "update") @@ (c2 :> "rewrite") @@ (c3 :> "read")
MixedEdit == (c1 :> "add") @@ (c2 :> "add") @@ (c3 :> "keep")
MixedItem == (c1 :> a) @@ (c2 :> b) @@ (c3 :> a)
MixedProc == (c1 :> p1) @@ (c2 :> p1) @@ (c3 :> p2)
=============================================================================
