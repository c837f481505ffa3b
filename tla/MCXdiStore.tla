----------------------------- MODULE MCXdiStore -----------------------------
(***************************************************************************)
(* XdiStore with two projects, the folder beside each, a third folder to   *)
(* choose and two lists of metadata folders.                               *)
(***************************************************************************)
EXTENDS XdiStore, TLC

CONSTANTS p1, p2, f1, f2, g, r1, r2

MCProjects == {p1, p2}
MCFolders == {f1, f2, g}
MCRoots == {r1, r2}
MCDefaultFolder == (p1 :> f1) @@ (p2 :> f2)
MCDefaultRoots == [p \in MCProjects |-> r1]
\* The folder g lies inside the metadata folders r2.
MCWithin == {<<g, r2>>}
\* The workspace holds the metadata r1 and every folder.
MCWatched == MCFolders \cup {r1}
MCWorkspaceInit == {MCProjects}
\* An earlier session chose the folder g for p1 and the metadata r2 for p2.
MCKvpInit == {[picked |-> (p1 :> None) @@ (p2 :> r2), folders |-> (p1 :> g) @@ (p2 :> None)]}
\* The folder g holds a migration that keeps to the metadata r2.
MCDiskInit == {[f \in MCFolders |-> [rev |-> 0, meta |-> IF f = g THEN r2 ELSE None]]}

Plan3(kinds) == [kinds |-> kinds, left |-> 3]
\* Projects, the files and the metadata they are read with.
ShownPlans == {Plan3({"add", "remove", "import", "activate", "look", "files", "meta", "queue"})}
\* Reads while another project or folder is chosen, and writes while the
\* project is read again.
ServedPlans == {Plan3({"activate", "files", "state", "folder"}),
                Plan3({"reload", "files", "pick", "queue"})}
SwitchPlans == {Plan3({"activate", "queue"})}
FolderPlans == {[kinds |-> {"folder", "queue"}, left |-> 2]}
=============================================================================
