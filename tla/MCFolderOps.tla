---------------------------- MODULE MCFolderOps -----------------------------
(* Instances of FolderOps for TLC: folders a, b and c, and the files n, x, y *)
(* and z in them.                                                            *)
EXTENDS FolderOps

CONSTANTS r1, r2, r3

InA == {<<"a", f>> : f \in {"n", "x", "y"}}
InB == {<<"b", f>> : f \in {"n", "x", "y", "z"}}
InC == {<<"c", f>> : f \in {"n", "x", "y", "z"}}
FlatKeys == InA \cup InB \cup InC

Rank == [n \in {"a", "b", "c", "n", "x", "y", "z"} |->
    CASE n = "a" -> 0 [] n = "b" -> 4 [] n = "c" -> 8
      [] n = "n" -> 0 [] n = "x" -> 1 [] n = "y" -> 2 [] n = "z" -> 3]
FlatPosition == [k \in FlatKeys |-> Rank[k[1]] + Rank[k[2]]]
FlatInitial == [k \in FlatKeys |->
    CASE k = <<"a", "x">> -> "x1" [] k = <<"a", "y">> -> "y1" [] k = <<"b", "z">> -> "z1"
      [] OTHER -> Absent]

FolderJob(op, source, target) ==
    [op |-> op, source |-> source, target |-> target, content |-> Absent]
Upload(key, content) ==
    [op |-> "put", source |-> << >>, target |-> key, content |-> content]

Three(a, b, c) == [r \in {r1, r2, r3} |-> CASE r = r1 -> a [] r = r2 -> b [] r = r3 -> c]

\* A renaming that is tried again while a file is uploaded to the folder; one
\* whose target is copied while a file is renamed; one that an upload to a file
\* of the folder races with; a deletion among others.
ThreeWorkloads == {
    Three(FolderJob("rename_folder", <<"a">>, <<"b">>),
          FolderJob("rename_folder", <<"a">>, <<"b">>),
          Upload(<<"a", "n">>, "n1")),
    Three(FolderJob("rename_folder", <<"a">>, <<"b">>),
          FolderJob("copy_folder", <<"b">>, <<"c">>),
          FolderJob("rename_file", <<"a", "x">>, <<"c", "n">>)),
    Three(FolderJob("rename_folder", <<"a">>, <<"b">>),
          Upload(<<"a", "x">>, "n1"),
          FolderJob("rename_file", <<"b", "z">>, <<"c", "z">>)),
    Three(FolderJob("delete_folder", <<"a">>, << >>),
          FolderJob("copy_file", <<"a", "x">>, <<"b", "x">>),
          FolderJob("delete_file", <<"a", "y">>, << >>))}

\* NothingLost is checked where it is proved to hold.
ASSUME ThreeApart == Workloads = ThreeWorkloads => \A w \in Workloads : Apart(w)

\* A folder that is renamed to a folder inside it, which holds a file of the
\* same name: a/x and a/b/x.
NestedKeys == {<<"a", "x">>, <<"a", "b", "x">>, <<"a", "b", "b", "x">>}
NestedPosition == [k \in NestedKeys |-> 3 - Len(k) + 1]
NestedInitial == [k \in NestedKeys |->
    CASE k = <<"a", "x">> -> "x1" [] k = <<"a", "b", "x">> -> "y1" [] OTHER -> Absent]
NestedWorkloads ==
    {[r \in {r1} |-> FolderJob("rename_folder", <<"a">>, <<"a", "b">>)]}

DeleteWorkloads == {[r \in {r1} |-> FolderJob("delete_folder", <<"a">>, << >>)]}
=============================================================================
