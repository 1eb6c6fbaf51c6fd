------------------------------ MODULE FileTree ------------------------------
(***************************************************************************)
(* The files below the installation directory, as far as the file browser  *)
(* sees them: a function from paths to "dir" or to the content of a file.  *)
(* A path is a sequence of names; <<>> is the installation directory.      *)
(***************************************************************************)
EXTENDS Naturals, Sequences, SequencesExt

Below(tree, p) == {q \in DOMAIN tree : IsPrefix(p, q)}
Without(tree, ps) == [q \in DOMAIN tree \ ps |-> tree[q]]
With(tree, p, content) == [q \in DOMAIN tree \cup {p} |-> IF q = p THEN content ELSE tree[q]]

IsDir(tree, p)  == p = <<>> \/ (p \in DOMAIN tree /\ tree[p] = "dir")
IsFile(tree, p) == p \in DOMAIN tree /\ tree[p] # "dir"

(* listPanelDirectory: no entries if there is no such directory.           *)
List(tree, dir) ==
  IF IsDir(tree, dir) THEN {q \in DOMAIN tree : Len(q) = Len(dir) + 1 /\ IsPrefix(dir, q)}
  ELSE {}

(* What fs does for FilesService: each is the trees it may leave, the old  *)
(* one where it fails.                                                     *)
Parents(p) == {SubSeq(p, 1, n) : n \in 1..Len(p)}

MakeDirectories(tree, p) ==
  IF \E q \in Parents(p) : IsFile(tree, q) THEN tree
  ELSE [q \in DOMAIN tree \cup Parents(p) |-> IF q \in DOMAIN tree THEN tree[q] ELSE "dir"]

(* writeFile: temporary file beside it, renamed.                           *)
WriteFile(tree, p, content) ==
  IF IsDir(tree, Front(p)) /\ ~IsDir(tree, p) THEN With(tree, p, content) ELSE tree

(* Upload of bytes: the directories are made; nothing is no body.          *)
WriteRaw(tree, p, content) ==
  IF content = "" THEN tree ELSE WriteFile(MakeDirectories(tree, Front(p)), p, content)

DeleteEntry(tree, p) == Without(tree, Below(tree, p))

(* renameEntry, in the directory the entry is in.                          *)
RenameEntry(tree, p, name) ==
  LET to == Append(Front(p), name)
      moved(q) == to \o SubSeq(q, Len(p) + 1, Len(q))
      rest == Without(tree, Below(tree, p) \cup {to})
  IN IF \/ p \notin DOMAIN tree \/ to = p
        \/ to \in DOMAIN tree /\ tree[to] # tree[p] /\ (IsDir(tree, to) \/ IsDir(tree, p))
        \/ IsDir(tree, to) /\ List(tree, to) # {}
     THEN tree
     ELSE [q \in DOMAIN rest \cup {moved(r) : r \in Below(tree, p)} |->
             IF q \in DOMAIN rest THEN rest[q]
             ELSE tree[CHOOSE r \in Below(tree, p) : moved(r) = q]]
=============================================================================
