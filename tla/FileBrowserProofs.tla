--------------------------- MODULE FileBrowserProofs ---------------------------
(***************************************************************************)
(* Theorems about FileBrowser, for any tree of paths and any number of     *)
(* changes to the file system.                                             *)
(***************************************************************************)
EXTENDS FileBrowser, TLAPS

\* A directory is within itself, and so is what is in it.
LEMMA Below ==
  ASSUME NEW p \in Paths
  PROVE  /\ Within(p, p)
         /\ \A q \in Paths : Within(Parent[q], p) => Within(q, p)
  BY DEF Within, Upward

\* From a place below a directory one does not leave it by one step up.
LEMMA OneUp ==
  ASSUME NEW p \in Paths, NEW q \in Paths, Within(q, p), q # p
  PROVE  Within(Parent[q], p)
<1> SUFFICES ASSUME NEW S \in Upward, Parent[q] \in S PROVE p \in S
  BY DEF Within
<1>1. S \cup {q} \in Upward
  BY PathsAssumption DEF Upward
<1> QED
  BY <1>1 DEF Within

LEMMA RowsAre ==
  ASSUME NEW dir \in Paths, NEW files, DOMAIN files \subseteq Paths
  PROVE  /\ Rows(dir, files) \subseteq Paths
         /\ Within(dir, Mnt) => \A q \in Rows(dir, files) : Within(q, Mnt)
<1>1. Rows(dir, files) \subseteq Paths
  BY PathsAssumption DEF Rows
<1>2. ASSUME Within(dir, Mnt), NEW q \in Rows(dir, files) PROVE Within(q, Mnt)
  <2>1. CASE q = Parent[dir] /\ dir # Mnt
    BY <1>2, <2>1, OneUp, PathsAssumption
  <2>2. CASE q \in DOMAIN files /\ Parent[q] = dir
    BY <1>2, <2>2, Below, PathsAssumption
  <2> QED
    BY <1>2, <2>1, <2>2 DEF Rows
<1> QED
  BY <1>1, <1>2

(***************************************************************************)
(* The directory on the screen                                             *)
(***************************************************************************)
LEMMA StayInit == BrowserInit => BrowserTypeOK /\ StaysInside
<1> SUFFICES ASSUME BrowserInit PROVE BrowserTypeOK /\ StaysInside
  OBVIOUS
<1>1. DOMAIN fs = Paths /\ currentDir = Mnt /\ fls = Rows(Mnt, fs)
  BY DEF BrowserInit
<1>2. fls \subseteq Paths /\ StaysInside
  BY <1>1, Below, RowsAre, PathsAssumption DEF StaysInside
<1>3. /\ currentDir \in Paths /\ state = "open" /\ chosen = NoPath /\ changes = 0
      /\ fs \in [Paths -> Kinds] /\ stale = FALSE
  BY PathsAssumption DEF BrowserInit
<1>4. changes \in 0 .. MaxChanges
  BY <1>3, ChangesAssumption
<1>5. state \in {"open", "ok", "canceled"} /\ (state = "ok" <=> chosen # NoPath)
  BY <1>3
<1> QED
  BY <1>2, <1>3, <1>4, <1>5, Zenon DEF BrowserTypeOK

LEMMA StayStep ==
  BrowserTypeOK /\ StaysInside /\ [BrowserNext]_browserVars => (BrowserTypeOK /\ StaysInside)'
<1> SUFFICES ASSUME BrowserTypeOK, StaysInside, [BrowserNext]_browserVars PROVE (BrowserTypeOK /\ StaysInside)'
  OBVIOUS
<1>1. ASSUME NEW q \in Paths, Tap(q) PROVE (BrowserTypeOK /\ StaysInside)'
  <2>1. CASE fs[q] = "dir"
    <3>1. /\ state = "open" /\ q \in fls /\ currentDir' = q /\ stale' = FALSE
          /\ fls' = Rows(q, fs) \/ fls' = Rows(q, <<>>)
          /\ UNCHANGED <<fs, state, chosen, changes>>
      BY <1>1, <2>1 DEF Tap
    <3>2. Within(q, Mnt) /\ DOMAIN fs \subseteq Paths /\ DOMAIN <<>> \subseteq Paths
      BY <3>1 DEF StaysInside, BrowserTypeOK
    <3>3. fls' \subseteq Paths /\ \A p \in fls' : Within(p, Mnt)
      BY <1>1, <3>1, <3>2, RowsAre
    <3> QED
      BY <1>1, <3>1, <3>2, <3>3 DEF BrowserTypeOK, StaysInside
  <2>2. CASE fs[q] # "dir"
    BY <1>1, <2>2, PathsAssumption DEF Tap, BrowserTypeOK, StaysInside
  <2> QED
    BY <2>1, <2>2
<1>2. CASE OnBackPressed
  BY <1>2 DEF OnBackPressed, BrowserTypeOK, StaysInside
<1>3. ASSUME NEW q \in Paths, FsChange(q) PROVE (BrowserTypeOK /\ StaysInside)'
  <2>1. /\ state = "open" /\ changes < MaxChanges /\ changes' = changes + 1 /\ stale' = TRUE
        /\ UNCHANGED <<currentDir, fls, state, chosen>>
    BY <1>3 DEF FsChange
  <2>2. fs' \in [Paths -> Kinds]
    BY <1>3 DEF FsChange, BrowserTypeOK, Kinds
  <2>3. changes' \in 0 .. MaxChanges
    BY <2>1, ChangesAssumption DEF BrowserTypeOK
  <2> QED
    BY <2>1, <2>2, <2>3 DEF BrowserTypeOK, StaysInside
<1>4. CASE UNCHANGED browserVars
  BY <1>4 DEF browserVars, BrowserTypeOK, StaysInside
<1> QED
  BY <1>1, <1>2, <1>3, <1>4 DEF BrowserNext

\* Whatever is tapped, and whatever becomes of the file system meanwhile, the types
\* hold; a result is there exactly when the activity ends with one.
THEOREM TypeCorrect == BrowserSpec => []BrowserTypeOK
<1>1. BrowserSpec => [](BrowserTypeOK /\ StaysInside)
  BY StayInit, StayStep, PTL DEF BrowserSpec
<1> QED
  BY <1>1, PTL

\* No sequence of taps leads out of /mnt: the list of /mnt itself has no row "..",
\* and no other row is outside.
THEOREM InsideMnt == BrowserSpec => []StaysInside
<1>1. BrowserSpec => [](BrowserTypeOK /\ StaysInside)
  BY StayInit, StayStep, PTL DEF BrowserSpec
<1> QED
  BY <1>1, PTL

(***************************************************************************)
(* The result                                                              *)
(***************************************************************************)

\* What exists is in a directory that exists; the rows, as long as nothing has
\* changed, are directories and images.
Existing == \A q \in Paths : fs[q] # "none" => fs[Parent[q]] = "dir"
Listed   == ~ stale => /\ fs[currentDir] = "dir"
                       /\ \A q \in fls : fs[q] = "dir" \/ (q \in Images /\ fs[q] = "file")
ImageInv == Existing /\ Listed /\ ChosenIsImage

LEMMA RowsExist ==
  ASSUME BrowserTypeOK, Existing, NEW dir \in Paths, fs[dir] = "dir",
         NEW q \in Rows(dir, fs) \cup Rows(dir, <<>>)
  PROVE  fs[q] = "dir" \/ (q \in Images /\ fs[q] = "file")
<1>1. CASE q = Parent[dir]
  BY <1>1 DEF Existing
<1>2. CASE q # Parent[dir]
  BY <1>2 DEF Rows
<1> QED
  BY <1>1, <1>2

LEMMA ImageInit == BrowserInit => ImageInv
<1> SUFFICES ASSUME BrowserInit PROVE ImageInv
  OBVIOUS
<1>1. BrowserTypeOK /\ Existing
  BY StayInit DEF BrowserInit, Existing
<1>2. fs[Mnt] = "dir"
  BY Below, PathsAssumption DEF BrowserInit
<1>3. Listed
  BY <1>1, <1>2, RowsExist, PathsAssumption DEF BrowserInit, Listed
<1>4. ChosenIsImage
  BY DEF BrowserInit, ChosenIsImage
<1> QED
  BY <1>1, <1>3, <1>4 DEF ImageInv

LEMMA ImageStep ==
  BrowserTypeOK /\ ImageInv /\ [BrowserNext]_browserVars => ImageInv'
<1> SUFFICES ASSUME BrowserTypeOK, ImageInv, [BrowserNext]_browserVars PROVE ImageInv'
  OBVIOUS
<1>i. Existing /\ Listed /\ ChosenIsImage
  BY DEF ImageInv
<1>1. ASSUME NEW q \in Paths, Tap(q) PROVE ImageInv'
  <2>1. CASE fs[q] = "dir"
    <3>1. /\ state = "open" /\ q \in fls /\ currentDir' = q /\ stale' = FALSE
          /\ fls' = Rows(q, fs) \/ fls' = Rows(q, <<>>)
          /\ UNCHANGED <<fs, state, chosen>>
      BY <1>1, <2>1 DEF Tap
    <3>2. \A p \in fls' : fs[p] = "dir" \/ (p \in Images /\ fs[p] = "file")
      BY <1>1, <1>i, <2>1, <3>1, RowsExist
    <3> QED
      BY <1>i, <2>1, <3>1, <3>2 DEF ImageInv, Existing, Listed, ChosenIsImage
  <2>2. CASE fs[q] # "dir"
    <3>1. q \in fls /\ chosen' = q /\ UNCHANGED <<fs, currentDir, fls, stale>>
      BY <1>1, <2>2 DEF Tap
    <3>2. ~ stale => q \in Images /\ fs[q] = "file"
      BY <1>i, <2>2, <3>1 DEF Listed
    <3> QED
      BY <1>i, <3>1, <3>2 DEF ImageInv, Existing, Listed, ChosenIsImage
  <2> QED
    BY <2>1, <2>2
<1>2. CASE OnBackPressed
  BY <1>i, <1>2 DEF OnBackPressed, ImageInv, Existing, Listed, ChosenIsImage
<1>3. ASSUME NEW q \in Paths, FsChange(q) PROVE ImageInv'
  <2>1. stale' = TRUE
    BY <1>3 DEF FsChange
  <2>2. ASSUME fs[q] = "none", fs[Parent[q]] = "dir",
               NEW kind \in {"dir", "file"}, fs' = [fs EXCEPT ![q] = kind]
        PROVE  Existing'
    <3> SUFFICES ASSUME NEW p \in Paths, fs'[p] # "none" PROVE fs'[Parent[p]] = "dir"
      BY DEF Existing
    <3>1. Parent[p] # q /\ fs[Parent[p]] = "dir"
      BY <1>3, <1>i, <2>2, PathsAssumption DEF Existing, BrowserTypeOK
    <3> QED
      BY <2>2, <3>1, PathsAssumption DEF BrowserTypeOK
  <2>3. ASSUME fs' = [p \in Paths |-> IF Within(p, q) THEN "none" ELSE fs[p]]
        PROVE  Existing'
    <3> SUFFICES ASSUME NEW p \in Paths, fs'[p] # "none" PROVE fs'[Parent[p]] = "dir"
      BY DEF Existing
    <3>1. ~ Within(p, q) /\ fs[p] # "none"
      BY <2>3
    <3>2. Parent[p] \in Paths /\ ~ Within(Parent[p], q) /\ fs[Parent[p]] = "dir"
      BY <1>3, <1>i, <3>1, Below, PathsAssumption DEF Existing
    <3> QED
      BY <2>3, <3>2
  <2>4. Existing'
    BY <1>3, <2>2, <2>3 DEF FsChange
  <2> QED
    BY <2>1, <2>4 DEF ImageInv, Listed, ChosenIsImage
<1>4. CASE UNCHANGED browserVars
  BY <1>i, <1>4 DEF browserVars, ImageInv, Existing, Listed, ChosenIsImage
<1> QED
  BY <1>1, <1>2, <1>3, <1>4 DEF BrowserNext

\* As long as the list shows what is there, what the browser returns is an image
\* file that exists: directories are entered, and nothing else is a row.
THEOREM ImageChosen == BrowserSpec => []ChosenIsImage
<1>1. BrowserSpec => [](BrowserTypeOK /\ StaysInside)
  BY StayInit, StayStep, PTL DEF BrowserSpec
<1>2. BrowserInit => ImageInv
  BY ImageInit
<1>3. BrowserTypeOK /\ StaysInside /\ ImageInv /\ [BrowserNext]_browserVars => ImageInv'
  BY ImageStep
<1>4. ImageInv => ChosenIsImage
  BY DEF ImageInv
<1> QED
  BY <1>1, <1>2, <1>3, <1>4, PTL DEF BrowserSpec
================================================================================
