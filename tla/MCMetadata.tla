------------------------------ MODULE MCMetadata ------------------------------
(***************************************************************************)
(* The users' folders, copies, shares and listings, and the reconciliation *)
(* of the metadata with the storage, for TLC, side by side.  A behaviour   *)
(* plays one scene and leaves the variables of the other components alone. *)
(***************************************************************************)
EXTENDS FolderTree, FileCopy, Shares, FileReads, Reconciliation, TLC

CONSTANTS na, nb, t1, t2,       \* names and requests of the folder tree
          i1, f1, f2, v1, v2,   \* a shared folder, its files, visitors
          s1, s2                \* scan workers

\* /a/a with a file in it, and /b.
MCStartFolders ==
    [d \in 1..3 |-> CASE d = 1 -> [parent |-> 0, name |-> na]
                      [] d = 2 -> [parent |-> 1, name |-> na]
                      [] d = 3 -> [parent |-> 0, name |-> nb]]
MCStartFiles == [f \in {1} |-> [folder |-> 2, name |-> na]]

\* A copy of a file together with a folder that holds it and a folder below,
\* and a copy of another file.
MCInFolder  == [x1 |-> {"a"}, x2 |-> {"a"}]
MCBelow     == [x1 |-> {"x2"}, x2 |-> {}]
MCSizeOf    == [a |-> 1, e |-> 2]
MCContentOf == [a |-> "k1", e |-> "k2"]
MCAsked     == [c1 |-> [files |-> {"a"}, folders |-> {"x1", "x2"}],
                c2 |-> [files |-> {"a", "e"}, folders |-> {}]]

\* A shared folder with two files.
MCFilesOf == [i \in Items |-> {f1, f2}]

\* Rows that agree in the name, in the name and the type, and in the id.
MCRows == {[name |-> 1, type |-> 1, id |-> 1], [name |-> 1, type |-> 2, id |-> 1],
           [name |-> 1, type |-> 1, id |-> 2], [name |-> 2, type |-> 1, id |-> 3],
           [name |-> 2, type |-> 2, id |-> 3]}

VARIABLE scene
metadataVars == <<scene, treeVars, copyVars, shareVars, readVars, rcVars>>

MetadataInit ==
    /\ scene \in {"tree", "copy", "share", "list", "walk", "download", "scan"}
    /\ TreeInit /\ CopyInit /\ ShareInit /\ ReadsInit /\ RcInit
    /\ scene # "scan" => rcScope = "users"

TreeScene ==
    /\ scene = "tree" /\ TreeNext
    /\ UNCHANGED <<scene, copyVars, shareVars, readVars, rcVars>>
CopyScene ==
    /\ scene = "copy" /\ CopyNext
    /\ UNCHANGED <<scene, treeVars, shareVars, readVars, rcVars>>
ShareScene ==
    /\ scene = "share" /\ ShareNext
    /\ UNCHANGED <<scene, treeVars, copyVars, readVars, rcVars>>
ReadScene ==
    /\ \/ scene = "list" /\ ListNext
       \/ scene = "walk" /\ NextPage
       \/ scene = "download" /\ DownloadNext
    /\ UNCHANGED <<scene, treeVars, copyVars, shareVars, rcVars>>
ScanScene ==
    /\ scene = "scan" /\ RcNext
    /\ UNCHANGED <<scene, treeVars, copyVars, shareVars, readVars>>

MetadataNext == TreeScene \/ CopyScene \/ ShareScene \/ ReadScene \/ ScanScene

MetadataSpec == MetadataInit /\ [][MetadataNext]_metadataVars

===============================================================================
