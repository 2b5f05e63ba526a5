------------------------------ MODULE FileBrowser ------------------------------
(***************************************************************************)
(* Choosing the firmware image: SelectUpgradedFileActivity, from the list  *)
(* of /mnt to the path handed to OTAActivity.  All of it runs on the UI    *)
(* thread; the file system (external) changes under it, when a card is     *)
(* mounted, taken out or written to, and the list does not follow.         *)
(*                                                                         *)
(* Rows are paths: their order, and the text of a row, are left out.       *)
(***************************************************************************)
EXTENDS Naturals, FiniteSets

CONSTANTS
  Paths,       \* the paths that may exist; Mnt and what is above it do
  Mnt,         \* the path "/mnt"
  Parent,      \* the path each is in, of Mnt as well
  Images,      \* the paths whose name contains ".img"
  NoPath,
  MaxChanges   \* bound: changes of the file system

ASSUME PathsAssumption == Parent \in [Paths -> Paths] /\ Mnt \in Paths /\ NoPath \notin Paths
ASSUME ChangesAssumption == MaxChanges \in Nat

Kinds == {"none", "dir", "file"}

VARIABLES
  fs,              \* what is at each path (external)
  currentDir,      \* the directory on the screen
  fls,             \* the paths of the rows
  state, chosen,   \* "open", or how the activity finished, and the result
  changes,         \* auxiliary: changes so far
  stale            \* auxiliary: one came since the list was made

browserVars == <<fs, currentDir, fls, state, chosen, changes, stale>>

BrowserTypeOK ==
  /\ fs \in [Paths -> Kinds] /\ currentDir \in Paths /\ fls \subseteq Paths
  /\ state \in {"open", "ok", "canceled"} /\ chosen \in {NoPath} \cup Paths
  /\ state = "ok" <=> chosen # NoPath
  /\ changes \in 0 .. MaxChanges /\ stale \in BOOLEAN

\* Whether q is at p or below: whoever goes up from q comes by p.
Upward       == {S \in SUBSET Paths : \A r \in S : Parent[r] \in S}
Within(q, p) == \A S \in Upward : q \in S => p \in S

\* Mutants: the parent is always a row; every file is.
RowsWithParent(dir, files) ==
  {Parent[dir]} \cup
  {q \in DOMAIN files : /\ q # dir /\ Parent[q] = dir
                        /\ files[q] = "dir" \/ (files[q] = "file" /\ q \in Images)}
RowsUnfiltered(dir, files) ==
  (IF dir = Mnt THEN {} ELSE {Parent[dir]}) \cup
  {q \in DOMAIN files : q # dir /\ Parent[q] = dir /\ files[q] # "none"}

\* searchBinFiles(): "..", the directories and the images.  A directory that cannot
\* be listed has no rows but "..".
Rows(dir, files) ==
  (IF dir = Mnt THEN {} ELSE {Parent[dir]}) \cup
  {q \in DOMAIN files : /\ q # dir /\ Parent[q] = dir
                        /\ files[q] = "dir" \/ (files[q] = "file" /\ q \in Images)}

BrowserInit ==
  /\ fs \in [Paths -> Kinds]
  /\ \A q \in Paths : Within(Mnt, q) => fs[q] = "dir"
  /\ \A q \in Paths : fs[q] # "none" => fs[Parent[q]] = "dir"
  /\ currentDir = Mnt /\ fls = Rows(Mnt, fs)
  /\ state = "open" /\ chosen = NoPath
  /\ changes = 0 /\ stale = FALSE

\* onListItemClick() and onFileClick(): what is no directory, or no more, is the result.
Tap(q) ==
  /\ state = "open" /\ q \in fls
  /\ IF fs[q] = "dir"
       THEN /\ currentDir' = q
            /\ \/ fls' = Rows(q, fs)
               \/ fls' = Rows(q, <<>>)     \* listFiles() gives null
            /\ stale' = FALSE
            /\ UNCHANGED <<state, chosen>>
       ELSE /\ state' = "ok" /\ chosen' = q
            /\ UNCHANGED <<currentDir, fls, stale>>
  /\ UNCHANGED <<fs, changes>>

OnBackPressed ==
  /\ state = "open" /\ state' = "canceled"
  /\ UNCHANGED <<fs, currentDir, fls, chosen, changes, stale>>

\* Something comes to a path, or goes with all below it.
FsChange(q) ==
  /\ state = "open" /\ changes < MaxChanges /\ ~ Within(Mnt, q)
  /\ \/ /\ fs[q] = "none" /\ fs[Parent[q]] = "dir"
        /\ \E kind \in {"dir", "file"} : fs' = [fs EXCEPT ![q] = kind]
     \/ /\ fs[q] # "none"
        /\ fs' = [p \in Paths |-> IF Within(p, q) THEN "none" ELSE fs[p]]
  /\ changes' = changes + 1 /\ stale' = TRUE
  /\ UNCHANGED <<currentDir, fls, state, chosen>>

BrowserNext == OnBackPressed \/ \E q \in Paths : Tap(q) \/ FsChange(q)
BrowserSpec == BrowserInit /\ [][BrowserNext]_browserVars
-----------------------------------------------------------------------------
\* The user stays in /mnt, through all changes of what is there.
StaysInside == Within(currentDir, Mnt) /\ \A q \in fls : Within(q, Mnt)

\* The path handed to OTAActivity is an image that is there, unless the file system
\* changed since the list was made: then it may be anything that was a row.
ChosenIsImage == (state = "ok" /\ ~ stale) => (chosen \in Images /\ fs[chosen] = "file")
=============================================================================
