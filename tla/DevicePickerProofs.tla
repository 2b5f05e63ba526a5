-------------------------- MODULE DevicePickerProofs --------------------------
(***************************************************************************)
(* Theorems about DevicePicker, for any set of devices and any number of   *)
(* pickers: what the modal dialog protects, though no lock does.           *)
(***************************************************************************)
EXTENDS DevicePicker, FiniteSetTheorems, TLAPS

(***************************************************************************)
(* Type correctness, however scans overlap                                 *)
(***************************************************************************)

\* The list has no more entries than the scans have added.
Added == {p \in Pickers \X (1 .. Cardinality(Devices)) :
            pc[p[1]] \in {"names", "notify", "done"} \/ (pc[p[1]] = "add" /\ p[2] < at[p[1]])}
Bound ==
  /\ Len(btDevices) <= Cardinality(Added)
  /\ \A s \in Pickers : /\ s > picker => pc[s] = "none"
                        /\ pc[s] = "add" => at[s] <= Len(addrs[s]) + 1
                        /\ pc[s] = "names" /\ ~ stale[s] => at[s] <= Len(btDevices) + 1

LEMMA CardDevices == Cardinality(Devices) \in Nat
  BY DevicesAssumption, FS_CardinalityType

\* What an inquiry finds is a sequence of devices, no longer than there are.
LEMMA FoundType ==
  /\ <<>> \in Found
  /\ \A l \in Found : l \in Seq(Devices) /\ Len(l) \in 0 .. Cardinality(Devices)
<1>1. ASSUME NEW l \in Found PROVE l \in Seq(Devices) /\ Len(l) \in 0 .. Cardinality(Devices)
  <2>1. PICK n \in 0 .. Cardinality(Devices) : l \in Injection(1 .. n, Devices)
    BY DEF Found
  <2>2. l \in [1 .. n -> Devices] /\ n \in Nat
    BY <2>1, CardDevices DEF Injection
  <2>3. l \in Seq(Devices) /\ Len(l) = n
    BY <2>2
  <2> QED
    BY <2>1, <2>3
<1>2. <<>> \in Found
  <2>1. <<>> \in [1 .. 0 -> Devices] /\ 0 \in 0 .. Cardinality(Devices)
    BY CardDevices
  <2>2. IsInjective(<<>>)
    BY DEF IsInjective
  <2>3. <<>> \in Injection(1 .. 0, Devices)
    BY <2>1, <2>2, Zenon DEF Injection
  <2> QED
    BY <2>1, <2>3, Zenon DEF Found
<1> QED
  BY <1>1, <1>2

\* There is room for every device in every scan.
LEMMA PairsFinite ==
  ASSUME NEW A \in SUBSET (Pickers \X (1 .. Cardinality(Devices)))
  PROVE  IsFiniteSet(A) /\ Cardinality(A) \in 0 .. MaxPickers * Cardinality(Devices)
<1> DEFINE C == Cardinality(Devices)
<1>1. C \in Nat /\ MaxPickers \in Nat
  BY CardDevices, PickersAssumption
<1>2. A \in SUBSET (Pickers \X (1 .. C))
  OBVIOUS
<1> HIDE DEF C
<1>3. IsFiniteSet(Pickers) /\ Cardinality(Pickers) = MaxPickers
  BY <1>1, PickersAssumption, FS_Interval DEF Pickers
<1>4. IsFiniteSet(1 .. C) /\ Cardinality(1 .. C) = C
  BY <1>1, FS_Interval
<1>5. IsFiniteSet(Pickers \X (1 .. C)) /\ Cardinality(Pickers \X (1 .. C)) = MaxPickers * C
  BY <1>3, <1>4, FS_Product
<1>6. IsFiniteSet(A) /\ Cardinality(A) <= MaxPickers * C
  BY <1>2, <1>5, FS_Subset
<1>7. Cardinality(A) \in Nat
  BY <1>6, FS_CardinalityType
<1>8. MaxPickers * C \in Nat
  BY <1>1
<1> QED
  BY <1>6, <1>7, <1>8 DEF C

LEMMA AddedFinite ==
  /\ Added \in SUBSET (Pickers \X (1 .. Cardinality(Devices)))
  /\ Cardinality(Added) \in 0 .. MaxPickers * Cardinality(Devices)
<1>1. Added \in SUBSET (Pickers \X (1 .. Cardinality(Devices)))
  BY DEF Added
<1> QED
  BY <1>1, PairsFinite

\* What has been added stays so, and a device that is added is one more.
LEMMA PairsGrow ==
  ASSUME NEW A \in SUBSET (Pickers \X (1 .. Cardinality(Devices))),
         NEW B \in SUBSET (Pickers \X (1 .. Cardinality(Devices))), A \subseteq B
  PROVE  /\ Cardinality(A) <= Cardinality(B)
         /\ \A x \in B : x \notin A => Cardinality(A) + 1 <= Cardinality(B)
<1>1. IsFiniteSet(A) /\ IsFiniteSet(B) /\ Cardinality(A) \in Nat /\ Cardinality(B) \in Nat
  BY PairsFinite
<1>2. Cardinality(A) <= Cardinality(B) /\ (Cardinality(B) = Cardinality(A) => B = A)
  BY <1>1, FS_Subset
<1> QED
  BY <1>1, <1>2

LEMMA TypeInit == Init => TypeOK /\ Bound
<1> SUFFICES ASSUME Init PROVE TypeOK /\ Bound
  OBVIOUS
<1>1. picker \in 0 .. MaxPickers /\ \A s \in Pickers : pc[s] = "none"
  <2>1. picker = 0 /\ pc = [s \in Pickers |-> "none"]
    BY Zenon DEF Init
  <2> QED
    BY <2>1, PickersAssumption
<1>2. open \in BOOLEAN /\ dialog \in BOOLEAN /\ crashed \in BOOLEAN /\ calm \in BOOLEAN
      /\ stale \in [Pickers -> BOOLEAN]
  BY Zenon DEF Init
<1>3. rows \in Seq(Devices) /\ btDevices \in Seq(Devices) /\ Len(btDevices) = 0
  <2>1. rows = <<>> /\ btDevices = <<>>
    BY Zenon DEF Init
  <2> QED
    BY <2>1
<1>4. deviceMac \in Devices \cup {NoDevice} /\ tapped \in Devices \cup {NoDevice}
  BY Zenon DEF Init
<1>5. msgs \in Seq([picker : Pickers, what : {"show", "dismiss", "update"}])
  <2>1. msgs = <<>> /\ \A S : <<>> \in Seq(S)
    <3>1. msgs = <<>>
      BY Zenon DEF Init
    <3> QED
      BY <3>1
  <2> QED
    BY <2>1, Zenon
<1>6. btDeviceAddresses \in Found /\ addrs \in [Pickers -> Found]
  BY FoundType, Zenon DEF Init
<1>7. pc \in [Pickers -> Pcs]
  <2>1. pc = [s \in Pickers |-> "none"]
    BY Zenon DEF Init
  <2> QED
    BY <2>1 DEF Pcs
<1>8. at \in [Pickers -> 1 .. MaxPickers * Cardinality(Devices) + 1]
  <2>1. at = [s \in Pickers |-> 1]
    BY Zenon DEF Init
  <2> DEFINE B == MaxPickers * Cardinality(Devices)
  <2>2. B \in Nat
    BY CardDevices, PickersAssumption
  <2> HIDE DEF B
  <2>3. 1 \in 1 .. B + 1
    BY <2>2
  <2> QED
    BY <2>1, <2>3 DEF B
<1>9. TypeOK
  BY <1>1, <1>2, <1>3, <1>4, <1>5, <1>6, <1>7, <1>8, Zenon DEF TypeOK
<1>10. Bound
  <2>1. Cardinality(Added) >= 0
    BY AddedFinite, CardDevices, PickersAssumption
  <2> QED
    BY <1>1, <1>3, <2>1 DEF Bound
<1> QED
  BY <1>9, <1>10

LEMMA SeqTypes ==
  ASSUME NEW S, NEW q \in Seq(S)
  PROVE  /\ \A e \in S : Append(q, e) \in Seq(S) /\ Len(Append(q, e)) = Len(q) + 1
         /\ q # <<>> => Tail(q) \in Seq(S) /\ Head(q) \in S
         /\ \A i \in 1 .. Len(q) : q[i] \in S
         /\ Len(q) \in Nat
  OBVIOUS

LEMMA TypeStep == TypeOK /\ Bound /\ [Next]_vars => TypeOK' /\ Bound'
<1> SUFFICES ASSUME TypeOK, Bound, [Next]_vars PROVE TypeOK' /\ Bound'
  OBVIOUS
<1> DEFINE Message == [picker : Pickers, what : {"show", "dismiss", "update"}]
           Room    == 1 .. MaxPickers * Cardinality(Devices) + 1
           Flags   == /\ open \in BOOLEAN /\ dialog \in BOOLEAN
                      /\ crashed \in BOOLEAN /\ calm \in BOOLEAN
           Screen  == /\ rows \in Seq(Devices)
                      /\ deviceMac \in Devices \cup {NoDevice} /\ tapped \in Devices \cup {NoDevice}
           Talk    == msgs \in Seq(Message)
           Scans   == /\ picker \in 0 .. MaxPickers /\ pc \in [Pickers -> Pcs]
                      /\ at \in [Pickers -> Room]
                      /\ btDevices \in Seq(Devices)
                      /\ Bound
           Lists   == /\ btDeviceAddresses \in Found /\ addrs \in [Pickers -> Found]
                      /\ stale \in [Pickers -> BOOLEAN]
<1>t. Flags /\ Screen /\ Talk /\ Scans /\ Lists
  BY DEF TypeOK
<1>g. Flags' /\ Screen' /\ Talk' /\ Scans' /\ Lists' => TypeOK' /\ Bound'
  BY DEF TypeOK
<1>f. UNCHANGED <<open, dialog, crashed, calm>> => Flags'
  BY <1>t
<1>s. UNCHANGED <<rows, deviceMac, tapped>> => Screen'
  BY <1>t
<1>m. UNCHANGED msgs => Talk'
  BY <1>t
<1>c. UNCHANGED <<picker, pc, at, btDevices, addrs, stale>> => Scans'
  BY <1>t DEF Bound, Added
<1>l. UNCHANGED <<btDeviceAddresses, addrs, stale>> => Lists'
  BY <1>t
<1>a. Added \in SUBSET (Pickers \X (1 .. Cardinality(Devices)))
      /\ Added' \in SUBSET (Pickers \X (1 .. Cardinality(Devices)))
  BY DEF Added
<1>b. Cardinality(Added) \in Nat /\ Cardinality(Added') \in Nat
      /\ Cardinality(Added') <= MaxPickers * Cardinality(Devices)
      /\ MaxPickers * Cardinality(Devices) \in Nat /\ Cardinality(Devices) \in Nat
  <2>1. MaxPickers * Cardinality(Devices) \in Nat /\ Cardinality(Devices) \in Nat
    BY CardDevices, PickersAssumption
  <2>2. /\ Cardinality(Added) \in 0 .. MaxPickers * Cardinality(Devices)
        /\ Cardinality(Added') \in 0 .. MaxPickers * Cardinality(Devices)
    BY <1>a, PairsFinite
  <2> QED
    BY <2>1, <2>2
<1>e. ASSUME NEW s \in Pickers, NEW w \in {"show", "dismiss", "update"}, Send(s, w) PROVE Talk'
  <2>1. [picker |-> s, what |-> w] \in Message
    BY <1>e
  <2> HIDE DEF Message
  <2>2. Append(msgs, [picker |-> s, what |-> w]) \in Seq(Message)
    BY <1>t, <2>1, SeqTypes
  <2> QED
    BY <1>e, <2>2 DEF Send
<1> HIDE DEF Message, Flags, Screen, Talk, Lists
<1>1. CASE PickDevice \/ Recreate
  <2>1. /\ picker < MaxPickers /\ picker' = picker + 1
        /\ pc' = [pc EXCEPT ![picker'] = "begin"] \/ pc' = [pc EXCEPT ![picker'] = "done"]
    BY <1>1, Zenon DEF PickDevice, Recreate, OnCreate
  <2>2. /\ rows' = btDevices /\ UNCHANGED <<deviceMac, tapped>> /\ UNCHANGED msgs
        /\ UNCHANGED <<btDeviceAddresses, addrs, stale>> /\ UNCHANGED <<at, btDevices>>
    BY <1>1, Zenon DEF PickDevice, Recreate, OnCreate, lists
  <2>3. Flags'
    BY <1>1, <1>t, Zenon DEF PickDevice, Recreate, OnCreate, Flags
  <2>4. Screen'
    BY <1>t, <2>2 DEF Screen
  <2>5. Scans'
    <3>1. picker' \in Pickers /\ picker' > picker /\ picker' \in 0 .. MaxPickers
      BY <1>t, <2>1, PickersAssumption DEF Pickers
    <3>2. pc[picker'] = "none"
      BY <1>t, <3>1 DEF Bound
    <3>3. /\ pc' \in [Pickers -> Pcs] /\ \A s \in Pickers : s # picker' => pc'[s] = pc[s]
          /\ pc'[picker'] \in {"begin", "done"}
      BY <1>t, <2>1, <3>1 DEF Pcs
    <3>4. Added \subseteq Added'
      BY <2>2, <3>2, <3>3 DEF Added
    <3>5. Cardinality(Added) <= Cardinality(Added')
      BY <1>a, <3>4, PairsGrow
    <3>6. Len(btDevices') <= Cardinality(Added')
      BY <1>b, <1>t, <2>2, <3>5, SeqTypes DEF Bound
    <3>7. \A s \in Pickers : s > picker' => pc'[s] = "none"
      BY <1>t, <2>1, <3>3, PickersAssumption DEF Bound, Pickers
    <3>8. \A s \in Pickers : /\ pc'[s] = "add" => at'[s] <= Len(addrs'[s]) + 1
                             /\ pc'[s] = "names" /\ ~ stale'[s] => at'[s] <= Len(btDevices') + 1
      BY <1>t, <2>2, <3>3 DEF Bound
    <3> QED
      BY <1>t, <2>2, <3>1, <3>3, <3>6, <3>7, <3>8 DEF Bound
  <2> QED
    BY <1>g, <1>m, <1>l, <2>2, <2>3, <2>4, <2>5
<1>2. CASE OnBackPressed \/ \E pos \in 1 .. Len(rows) : OnListItemClick(pos)
  <2>1. /\ UNCHANGED msgs /\ UNCHANGED <<btDeviceAddresses, addrs, stale>>
        /\ UNCHANGED <<picker, pc, at, btDevices, addrs, stale>> /\ rows' = rows
    BY <1>2, Zenon DEF OnBackPressed, OnListItemClick, CloseWith, lists, scanVars
  <2>2. Flags'
    BY <1>2, <1>t, Zenon DEF OnBackPressed, OnListItemClick, CloseWith, Flags
  <2>3. deviceMac' \in Devices \cup {NoDevice} /\ tapped' \in Devices \cup {NoDevice}
    <3>1. CASE OnBackPressed
      <4>1. deviceMac' = NoDevice /\ tapped' = tapped
        BY <3>1, Zenon DEF OnBackPressed, CloseWith
      <4> QED
        BY <1>t, <4>1 DEF Screen
    <3>2. ASSUME NEW pos \in 1 .. Len(rows), OnListItemClick(pos)
          PROVE  deviceMac' \in Devices /\ tapped' \in Devices
      <4>1. pos <= Len(btDevices) /\ tapped' = rows[pos] /\ deviceMac' = btDevices[pos]
        BY <3>2, Zenon DEF OnListItemClick, CloseWith
      <4>2. rows \in Seq(Devices) /\ btDevices \in Seq(Devices)
        BY <1>t DEF Screen
      <4> QED
        BY <4>1, <4>2
    <3> QED
      BY <1>2, <3>1, <3>2
  <2>4. Screen'
    BY <1>t, <2>1, <2>3 DEF Screen
  <2> QED
    BY <1>g, <1>m, <1>c, <1>l, <2>1, <2>2, <2>4
<1>3. CASE HandleMessage
  <2>1. /\ msgs # <<>> /\ msgs' = Tail(msgs) /\ UNCHANGED <<deviceMac, tapped>>
        /\ rows' = btDevices \/ rows' = rows
        /\ UNCHANGED <<picker, pc, at, btDevices, addrs, stale>> /\ UNCHANGED <<btDeviceAddresses, addrs, stale>>
    BY <1>3, Zenon DEF HandleMessage, HandleWith, lists, scanVars, auxVars
  <2>2. Flags'
    <3>1. UNCHANGED <<open, calm>>
      BY <1>3, Zenon DEF HandleMessage, HandleWith, auxVars
    <3>2. dialog' \in {dialog, TRUE, FALSE} /\ crashed' \in {crashed, TRUE, FALSE}
      BY <1>3 DEF HandleMessage, HandleWith
    <3> QED
      BY <1>t, <3>1, <3>2 DEF Flags
  <2>3. Screen'
    BY <1>t, <2>1 DEF Screen
  <2>4. Talk'
    BY <1>t, <2>1, SeqTypes DEF Talk
  <2> QED
    BY <1>g, <1>c, <1>l, <2>1, <2>2, <2>3, <2>4
\* Scan s moves on, and leaves the list alone.
<1>h. ASSUME NEW s \in Pickers, NEW to \in Pcs \ {"none", "add"}, pc' \in [Pickers -> Pcs], pc'[s] = to,
             pc[s] # "none", pc[s] \in {"add", "names", "notify", "done"} => to \in {"names", "notify", "done"},
             at' \in [Pickers -> Room], to = "names" /\ ~ stale'[s] => at'[s] <= Len(btDevices) + 1,
             UNCHANGED <<picker, btDevices>>,
             \A u \in Pickers \ {s} : /\ pc'[u] = pc[u] /\ at'[u] = at[u]
                                      /\ addrs'[u] = addrs[u] /\ stale'[u] = stale[u]
      PROVE  Scans'
  <2>1. Added \subseteq Added'
    BY <1>h DEF Added
  <2>2. Len(btDevices') <= Cardinality(Added')
    <3>1. Cardinality(Added) <= Cardinality(Added')
      BY <1>a, <2>1, PairsGrow
    <3> QED
      BY <1>b, <1>t, <1>h, <3>1, SeqTypes DEF Bound
  <2>3. \A u \in Pickers : u > picker' => pc'[u] = "none"
    BY <1>t, <1>h DEF Bound
  <2>4. \A u \in Pickers : /\ pc'[u] = "add" => at'[u] <= Len(addrs'[u]) + 1
                           /\ pc'[u] = "names" /\ ~ stale'[u] => at'[u] <= Len(btDevices') + 1
    BY <1>t, <1>h DEF Bound
  <2> QED
    BY <1>t, <1>h, <2>2, <2>3, <2>4 DEF Bound
<1>4. ASSUME NEW s \in Pickers, BeginScan(s) \/ InquiryDone(s) \/ InquiryFails(s) \/ NotifyUpdate(s)
      PROVE  TypeOK' /\ Bound'
  <2>1. /\ pc[s] \in {"begin", "inquiry", "refused", "notify"}
        /\ \E to \in {"inquiry", "refused", "clear", "done"} :
             pc' = [pc EXCEPT ![s] = to] /\ (pc[s] = "notify" => to = "done")
        /\ btDeviceAddresses' \in Found \/ btDeviceAddresses' = btDeviceAddresses
        /\ UNCHANGED <<picker, at, addrs, stale, btDevices>> /\ UNCHANGED <<rows, deviceMac, tapped>>
    BY <1>4 DEF BeginScan, InquiryDone, InquiryFails, NotifyUpdate, Goto, uiVars, lists, auxVars
  <2>2. UNCHANGED <<open, dialog, crashed, calm>>
    BY <1>4, Zenon DEF BeginScan, InquiryDone, InquiryFails, NotifyUpdate, uiVars, auxVars
  <2>3. Talk'
    BY <1>4, <1>e, <1>m, Zenon DEF BeginScan, InquiryDone, InquiryFails, NotifyUpdate
  <2>4. Scans'
    <3>1. /\ pc'[s] \in {"inquiry", "refused", "clear", "done"} /\ pc[s] = "notify" => pc'[s] = "done"
          /\ pc' \in [Pickers -> Pcs] /\ \A u \in Pickers \ {s} : pc'[u] = pc[u]
      BY <1>t, <2>1 DEF Pcs
    <3>2. at' \in [Pickers -> Room]
      BY <1>t, <2>1
    <3> HIDE DEF Room, Scans
    <3> QED
      BY <1>h, <2>1, <3>1, <3>2 DEF Pcs
  <2>5. Lists'
    BY <1>t, <2>1 DEF Lists
  <2> QED
    BY <1>g, <1>f, <1>s, <2>1, <2>2, <2>3, <2>4, <2>5
<1>5. ASSUME NEW s \in Pickers, BeginNames(s) \/ EndNames(s) PROVE TypeOK' /\ Bound'
  <2>1. /\ \/ pc[s] = "add" /\ pc' = [pc EXCEPT ![s] = "names"] /\ addrs' = [addrs EXCEPT ![s] = <<>>]
           \/ pc[s] = "names" /\ pc' = [pc EXCEPT ![s] = "notify"] /\ addrs' = addrs
        /\ at' = [at EXCEPT ![s] = 1] /\ stale' = [stale EXCEPT ![s] = FALSE]
        /\ UNCHANGED <<picker, btDeviceAddresses, btDevices>> /\ UNCHANGED <<rows, deviceMac, tapped>>
    BY <1>5, Zenon DEF BeginNames, EndNames, Goto, uiVars, lists, auxVars
  <2>2. UNCHANGED <<open, dialog, crashed, calm>>
    BY <1>5, Zenon DEF BeginNames, EndNames, uiVars, auxVars
  <2>3. Talk'
    BY <1>5, <1>e, <1>m, Zenon DEF BeginNames, EndNames
  <2>4. Lists'
    BY <1>t, <2>1, FoundType DEF Lists
  <2>5. Scans'
    <3>1. /\ pc'[s] \in {"names", "notify"} /\ pc' \in [Pickers -> Pcs] /\ at' \in [Pickers -> Room] /\ at'[s] = 1
          /\ pc[s] \in {"add", "names"}
      <4>1. pc \in [Pickers -> Pcs] /\ at \in [Pickers -> Room]
        BY <1>t
      <4>2. 1 \in Room
        BY <1>b
      <4> HIDE DEF Room
      <4>3. at' \in [Pickers -> Room] /\ at'[s] = 1
        BY <2>1, <4>1, <4>2
      <4>4. (pc[s] = "add" /\ pc' = [pc EXCEPT ![s] = "names"]) \/ (pc[s] = "names" /\ pc' = [pc EXCEPT ![s] = "notify"])
        BY <2>1
      <4> QED
        BY <4>1, <4>3, <4>4 DEF Pcs
    <3>2. \A u \in Pickers \ {s} : /\ pc'[u] = pc[u] /\ at'[u] = at[u]
                                   /\ addrs'[u] = addrs[u] /\ stale'[u] = stale[u]
      BY <1>t, <2>1 DEF Lists
    <3>3. at'[s] <= Len(btDevices) + 1
      BY <1>t, <3>1, SeqTypes
    <3> HIDE DEF Room, Scans
    <3> QED
      BY <1>h, <2>1, <3>1, <3>2, <3>3 DEF Pcs
  <2> QED
    BY <1>g, <1>f, <1>s, <2>1, <2>2, <2>3, <2>4, <2>5
<1>6. ASSUME NEW s \in Pickers, NextName(s) PROVE TypeOK' /\ Bound'
  <2>1. /\ pc[s] = "names" /\ at[s] # Len(btDevices) + 1
        /\ at' = at \/ (~ stale[s] /\ at' = [at EXCEPT ![s] = at[s] + 1])
        /\ UNCHANGED <<picker, pc, btDevices>> /\ UNCHANGED <<rows, deviceMac, tapped>> /\ UNCHANGED msgs
        /\ UNCHANGED <<btDeviceAddresses, addrs, stale>>
    BY <1>6, Zenon DEF NextName, uiVars, lists, auxVars
  <2>2. Flags'
    BY <1>6, <1>t, Zenon DEF NextName, uiVars, auxVars, Flags
  <2>3. Scans'
    <3>1. CASE at' = at
      BY <1>c, <2>1, <3>1
    <3>2. CASE ~ stale[s] /\ at' = [at EXCEPT ![s] = at[s] + 1]
      <4>1. at[s] <= Len(btDevices) + 1 /\ Len(btDevices) \in Nat /\ Len(btDevices) <= Cardinality(Added)
        BY <1>t, <2>1, <3>2, SeqTypes DEF Bound
      <4>2. Added' \subseteq Added
        BY <2>1, <3>2 DEF Added
      <4>3. Cardinality(Added) <= MaxPickers * Cardinality(Devices)
        BY AddedFinite, <1>b
      <4>4. at[s] \in Nat /\ at[s] >= 1
        BY <1>t
      <4>5. at[s] + 1 \in Room /\ at[s] + 1 <= Len(btDevices) + 1
        BY <1>b, <2>1, <4>1, <4>3, <4>4
      <4>6. at' \in [Pickers -> Room] /\ at'[s] = at[s] + 1 /\ \A u \in Pickers \ {s} : at'[u] = at[u]
        BY <1>t, <3>2, <4>5
      <4>7. pc' \in [Pickers -> Pcs]
        BY <1>t, <2>1
      <4> HIDE DEF Room, Scans
      <4> QED
        BY <1>h, <2>1, <4>5, <4>6, <4>7 DEF Pcs
    <3> QED
      BY <2>1, <3>1, <3>2
  <2> QED
    BY <1>g, <1>s, <1>m, <1>l, <2>1, <2>2, <2>3
<1>7. ASSUME NEW s \in Pickers, ClearList(s) PROVE TypeOK' /\ Bound'
  <2>1. /\ pc[s] = "clear" /\ pc' = [pc EXCEPT ![s] = "loop"] /\ btDevices' = <<>>
        /\ UNCHANGED <<picker, at>> /\ UNCHANGED <<rows, deviceMac, tapped>> /\ UNCHANGED msgs
        /\ UNCHANGED <<btDeviceAddresses, addrs>>
    BY <1>7, Zenon DEF ClearList, ClearTo, ChangeList, Goto, uiVars, auxVars
  <2>2. stale' = [t \in Pickers |-> stale[t] \/ (pc[t] = "names" /\ t # s)]
    BY <1>7, Zenon DEF ClearList, ClearTo, ChangeList
  <2>3. UNCHANGED <<open, dialog, crashed, calm>>
    BY <1>7, Zenon DEF ClearList, ClearTo, uiVars, auxVars
  <2>4. Lists'
    BY <1>t, <2>1, <2>2 DEF Lists
  <2>5. Scans'
    <3>1. /\ pc' \in [Pickers -> Pcs] /\ pc'[s] = "loop" /\ \A u \in Pickers \ {s} : pc'[u] = pc[u]
      BY <1>t, <2>1 DEF Pcs
    <3>2. btDevices' \in Seq(Devices) /\ Len(btDevices') = 0
      BY <2>1
    <3>3. \A u \in Pickers : /\ u > picker' => pc'[u] = "none"
                             /\ pc'[u] = "add" => at'[u] <= Len(addrs'[u]) + 1
      BY <1>t, <2>1, <3>1 DEF Bound
    <3>4. \A u \in Pickers : pc'[u] = "names" => stale'[u]
      BY <2>2, <3>1
    <3> QED
      BY <1>t, <1>b, <2>1, <3>1, <3>2, <3>3, <3>4 DEF Bound
  <2> QED
    BY <1>g, <1>f, <1>s, <1>m, <2>1, <2>3, <2>4, <2>5
<1>8. ASSUME NEW s \in Pickers, LoadAddresses(s) PROVE TypeOK' /\ Bound'
  <2>1. /\ pc[s] = "loop" /\ pc' = [pc EXCEPT ![s] = "add"] /\ addrs' = [addrs EXCEPT ![s] = btDeviceAddresses]
        /\ at' = [at EXCEPT ![s] = 1]
        /\ UNCHANGED <<picker, btDevices, btDeviceAddresses>> /\ UNCHANGED <<rows, deviceMac, tapped>> /\ UNCHANGED msgs
    BY <1>8, Zenon DEF LoadAddresses, Goto, uiVars, lists, auxVars
  <2>2. UNCHANGED <<open, dialog, crashed, calm>> /\ stale' = stale
    BY <1>8, Zenon DEF LoadAddresses, uiVars, auxVars
  <2>3. Lists'
    BY <1>t, <2>1, <2>2 DEF Lists
  <2>4. Scans'
    <3>1. /\ pc' \in [Pickers -> Pcs] /\ pc'[s] = "add" /\ \A u \in Pickers \ {s} : pc'[u] = pc[u]
          /\ at' \in [Pickers -> Room] /\ at'[s] = 1 /\ \A u \in Pickers \ {s} : at'[u] = at[u]
      BY <1>t, <1>b, <2>1 DEF Pcs
    <3>2. addrs'[s] = btDeviceAddresses /\ \A u \in Pickers \ {s} : addrs'[u] = addrs[u]
      BY <1>t, <2>1 DEF Lists
    <3>3. Len(btDeviceAddresses) \in Nat
      BY <1>t, FoundType, SeqTypes DEF Lists
    <3>4. Added \subseteq Added'
      BY <2>1, <3>1 DEF Added
    <3>5. Len(btDevices') <= Cardinality(Added')
      <4>1. Cardinality(Added) <= Cardinality(Added')
        BY <1>a, <3>4, PairsGrow
      <4> QED
        BY <1>b, <1>t, <2>1, <4>1, SeqTypes DEF Bound
    <3>6. \A u \in Pickers : /\ u > picker' => pc'[u] = "none"
                             /\ pc'[u] = "add" => at'[u] <= Len(addrs'[u]) + 1
      BY <1>t, <2>1, <3>1, <3>2, <3>3 DEF Bound
    <3>7. \A u \in Pickers : pc'[u] = "names" /\ ~ stale'[u] => at'[u] <= Len(btDevices') + 1
      BY <1>t, <2>1, <2>2, <3>1 DEF Bound
    <3> QED
      BY <1>t, <2>1, <3>1, <3>5, <3>6, <3>7 DEF Bound
  <2> QED
    BY <1>g, <1>f, <1>s, <1>m, <2>1, <2>2, <2>3, <2>4
<1>9. ASSUME NEW s \in Pickers, AddDevice(s) PROVE TypeOK' /\ Bound'
  <2>1. /\ pc[s] = "add" /\ at[s] <= Len(addrs[s]) /\ btDevices' = Append(btDevices, addrs[s][at[s]])
        /\ at' = [at EXCEPT ![s] = at[s] + 1]
        /\ UNCHANGED <<picker, pc, btDeviceAddresses, addrs>> /\ UNCHANGED <<rows, deviceMac, tapped>>
        /\ UNCHANGED msgs
    BY <1>9, Zenon DEF AddDevice, ChangeList, uiVars, auxVars
  <2>2. stale' = [t \in Pickers |-> stale[t] \/ (pc[t] = "names" /\ t # s)]
    BY <1>9, Zenon DEF AddDevice, ChangeList
  <2>3. UNCHANGED <<open, dialog, crashed, calm>>
    BY <1>9, Zenon DEF AddDevice, uiVars, auxVars
  <2>4. Lists'
    BY <1>t, <2>1, <2>2 DEF Lists
  <2>5. Scans'
    <3>1. addrs[s] \in Seq(Devices) /\ Len(addrs[s]) \in 0 .. Cardinality(Devices)
      BY <1>t, FoundType DEF Lists
    <3>2. at[s] \in 1 .. Len(addrs[s]) /\ at[s] \in 1 .. Cardinality(Devices) /\ addrs[s][at[s]] \in Devices
      BY <1>t, <1>b, <2>1, <3>1
    <3>3. btDevices' \in Seq(Devices) /\ Len(btDevices') = Len(btDevices) + 1 /\ Len(btDevices) \in Nat
      BY <1>t, <2>1, <3>2, SeqTypes
    <3>4. at[s] + 1 \in Room
      <4>1. MaxPickers * Cardinality(Devices) >= Cardinality(Devices)
        BY <1>b, PickersAssumption
      <4> QED
        BY <1>b, <3>2, <4>1
    <3>5. at' \in [Pickers -> Room] /\ at'[s] = at[s] + 1 /\ \A u \in Pickers \ {s} : at'[u] = at[u]
      BY <1>t, <2>1, <3>4
    <3>6. Len(btDevices') <= Cardinality(Added')
      <4>1. Added \subseteq Added'
        BY <1>t, <2>1, <3>5 DEF Added
      <4>2. <<s, at[s]>> \in Added' /\ <<s, at[s]>> \notin Added
        BY <1>t, <2>1, <3>2, <3>5 DEF Added
      <4>3. Cardinality(Added) + 1 <= Cardinality(Added')
        BY <1>a, <4>1, <4>2, PairsGrow
      <4> QED
        BY <1>b, <1>t, <3>3, <4>3 DEF Bound
    <3>7. \A u \in Pickers : /\ u > picker' => pc'[u] = "none"
                             /\ pc'[u] = "add" => at'[u] <= Len(addrs'[u]) + 1
      BY <1>t, <2>1, <3>1, <3>2, <3>5 DEF Bound
    <3>8. \A u \in Pickers : pc'[u] = "names" => stale'[u]
      BY <2>1, <2>2
    <3> QED
      BY <1>t, <2>1, <3>3, <3>5, <3>6, <3>7, <3>8 DEF Bound
  <2> QED
    BY <1>g, <1>f, <1>s, <1>m, <2>1, <2>3, <2>4, <2>5
<1>10. CASE UNCHANGED vars
  BY <1>10, <1>g, <1>f, <1>s, <1>m, <1>c, <1>l, Zenon DEF vars, uiVars, lists, scanVars, auxVars
<1> QED
  BY <1>1, <1>2, <1>3, <1>4, <1>5, <1>6, <1>7, <1>8, <1>9, <1>10 DEF Next, User, Scan

\* The list never holds more devices than the scans can have added, however they
\* overlap on it, and every position in it stays in range.
THEOREM TypeCorrect == Spec => []TypeOK
<1>1. Spec => [](TypeOK /\ Bound)
  BY TypeInit, TypeStep, PTL DEF Spec
<1> QED
  BY <1>1, PTL

(***************************************************************************)
(* A user who is not ahead of the screen                                   *)
(***************************************************************************)

\* What a scan sends, in this order, and how many of it where it is.
Script == <<"show", "dismiss", "update">>
Busy   == {"inquiry", "refused", "clear", "loop", "add", "names"}
Sent(label) == CASE label = "begin"  -> {0}
                 [] label \in Busy   -> {1}
                 [] label = "notify" -> {2}
                 [] label = "done"   -> {0, 2, 3}

\* Of the n messages the scan has sent k are handled: the dialog is up between
\* the first and the second.
Talk(n, k) ==
  /\ Len(msgs) = n - k
  /\ \A i \in 1 .. n - k : msgs[i] = [picker |-> picker, what |-> Script[k + i]]
  /\ dialog <=> k = 1

\* The rows are the list until the scan changes it, and when they are laid out.
Fresh(n, k) ==
  pc[picker] \in {"begin", "inquiry", "refused"} \/ (pc[picker] = "done" /\ (n = 3 => k = 3))
    => rows = btDevices

\* Every scan but the last is over, so that only one changes the list ...
Alone ==
  /\ picker # 0 => pc[picker] # "none"
  /\ \A s \in Pickers : /\ s < picker => pc[s] = "done"
                        /\ s > picker => pc[s] = "none"
                        /\ stale[s] = FALSE

\* ... from one inquiry to the next.
Listed ==
  /\ (picker = 0 \/ pc[picker] \in {"begin", "inquiry", "refused", "names", "notify", "done"})
       => btDevices = btDeviceAddresses
  /\ picker # 0 /\ pc[picker] = "loop" => btDevices = <<>>
  /\ picker # 0 /\ pc[picker] = "add" =>
       /\ addrs[picker] = btDeviceAddresses
       /\ at[picker] = Len(btDevices) + 1 /\ Len(btDevices) <= Len(btDeviceAddresses)
       /\ \A i \in 1 .. Len(btDevices) : btDevices[i] = btDeviceAddresses[i]

Quiet ==
  /\ crashed = FALSE /\ deviceMac \in {NoDevice, tapped}
  /\ Alone /\ Listed
  /\ open => picker # 0 /\ \E n \in Sent(pc[picker]) : \E k \in 0 .. n : Talk(n, k) /\ Fresh(n, k)
  /\ ~ open => msgs = <<>> /\ (picker # 0 => pc[picker] = "done")
CalmInv == calm => Quiet

LEMMA QuietInit == Init => CalmInv
<1> SUFFICES ASSUME Init PROVE Quiet
  BY DEF CalmInv
<1>1. crashed = FALSE /\ deviceMac = NoDevice /\ msgs = <<>> /\ ~ open
  BY Zenon DEF Init
<1>2. picker = 0 /\ pc = [s \in Pickers |-> "none"] /\ stale = [s \in Pickers |-> FALSE]
      /\ btDevices = btDeviceAddresses
  BY Zenon DEF Init
<1>3. Alone /\ Listed
  BY <1>2, PickersAssumption DEF Alone, Listed, Pickers
<1> QED
  BY <1>1, <1>2, <1>3 DEF Quiet

LEMMA SentOf ==
  /\ Sent("begin") = {0} /\ Sent("notify") = {2} /\ Sent("done") = {0, 2, 3}
  /\ \A l \in Busy : Sent(l) = {1}
<1>1. Sent("begin") = {0} /\ Sent("notify") = {2} /\ Sent("done") = {0, 2, 3}
  BY DEF Sent, Busy
<1>2. \A l \in Busy : Sent(l) = {1}
  BY DEF Sent, Busy
<1> QED
  BY <1>1, <1>2

\* The next message of the scan goes behind those that wait ...
LEMMA TalkSend ==
  ASSUME TypeOK, picker \in Pickers, NEW n \in 0 .. 2, NEW k \in 0 .. n, Talk(n, k),
         Send(picker, Script[n + 1]), picker' = picker, dialog' = dialog
  PROVE  Talk(n + 1, k)'
<1> DEFINE M == [picker : Pickers, what : {"show", "dismiss", "update"}]
           m == [picker |-> picker, what |-> Script[n + 1]]
<1>1. msgs \in Seq(M) /\ m \in M
  BY DEF TypeOK, Script
<1>2. msgs' = Append(msgs, m) /\ Len(msgs) = n - k
  BY DEF Send, Talk
<1> HIDE DEF M, m
<1>3. /\ Len(msgs') = n + 1 - k
      /\ msgs'[n + 1 - k] = m
      /\ \A i \in 1 .. n - k : msgs'[i] = msgs[i]
  BY <1>1, <1>2
<1>4. \A i \in 1 .. n + 1 - k : i = n + 1 - k \/ i \in 1 .. n - k
  OBVIOUS
<1>5. k + (n + 1 - k) = n + 1
  OBVIOUS
<1>6. \A i \in 1 .. n + 1 - k : msgs'[i] = [picker |-> picker, what |-> Script[k + i]]
  BY <1>3, <1>4, <1>5 DEF Talk, m
<1> QED
  BY <1>3, <1>6 DEF Talk

\* ... and the first of them is handled.
LEMMA TalkHandle ==
  ASSUME TypeOK, NEW n \in 0 .. 3, NEW k \in 0 .. n, Talk(n, k),
         msgs # <<>>, msgs' = Tail(msgs), picker' = picker
  PROVE  /\ k + 1 \in 1 .. n /\ Head(msgs).picker = picker /\ Head(msgs).what = Script[k + 1]
         /\ (dialog' <=> k + 1 = 1) => Talk(n, k + 1)'
<1> DEFINE M == [picker : Pickers, what : {"show", "dismiss", "update"}]
<1>1. msgs \in Seq(M) /\ Len(msgs) = n - k
  BY DEF TypeOK, Talk
<1> HIDE DEF M
<1>2. /\ Len(msgs) # 0 /\ Head(msgs) = msgs[1] /\ Len(msgs') = n - (k + 1)
      /\ \A i \in 1 .. n - (k + 1) : msgs'[i] = msgs[i + 1]
  BY <1>1
<1>3. k + 1 \in 1 .. n /\ 1 \in 1 .. n - k
  BY <1>1, <1>2
<1>4. msgs[1] = [picker |-> picker, what |-> Script[k + 1]]
  BY <1>3 DEF Talk
<1>5. \A i \in 1 .. n - (k + 1) : i + 1 \in 1 .. n - k /\ k + (i + 1) = (k + 1) + i
  OBVIOUS
<1>6. \A i \in 1 .. n - (k + 1) : msgs'[i] = [picker |-> picker, what |-> Script[(k + 1) + i]]
  BY <1>2, <1>5 DEF Talk
<1> QED
  BY <1>2, <1>3, <1>4, <1>6 DEF Talk

LEMMA QuietStep == TypeOK /\ Bound /\ CalmInv /\ [Next]_vars => CalmInv'
<1> SUFFICES ASSUME TypeOK, Bound, CalmInv, [Next]_vars, calm' PROVE Quiet'
  BY DEF CalmInv
<1>t. /\ picker \in 0 .. MaxPickers /\ pc \in [Pickers -> Pcs] /\ addrs \in [Pickers -> Found]
      /\ at \in [Pickers -> Nat] /\ btDevices \in Seq(Devices)
      /\ btDeviceAddresses \in Seq(Devices)
  <2>1. at \in [Pickers -> Nat]
    <3>1. at \in [Pickers -> 1 .. MaxPickers * Cardinality(Devices) + 1]
      BY DEF TypeOK
    <3>2. 1 .. MaxPickers * Cardinality(Devices) + 1 \subseteq Nat
      BY CardDevices, PickersAssumption
    <3> QED
      BY <3>1, <3>2
  <2> QED
    BY <2>1, FoundType DEF TypeOK
<1>p. picker # 0 => picker \in Pickers
  BY <1>t, PickersAssumption DEF Pickers
<1>c. calm
  BY Zenon DEF Next, User, Scan, PickDevice, Recreate, OnBackPressed, OnListItemClick, CloseWith, HandleMessage,
     HandleWith, BeginScan, InquiryDone, InquiryFails, ClearList, ClearTo, LoadAddresses, AddDevice, BeginNames,
     NextName, EndNames, NotifyUpdate, auxVars, vars
<1>q. Quiet
  BY <1>c DEF CalmInv
<1>o. /\ crashed = FALSE /\ deviceMac \in {NoDevice, tapped} /\ Alone /\ Listed
      /\ open => picker # 0 /\ \E n \in Sent(pc[picker]) : \E k \in 0 .. n : Talk(n, k) /\ Fresh(n, k)
      /\ ~ open => msgs = <<>> /\ (picker # 0 => pc[picker] = "done")
  BY <1>q DEF Quiet
<1>b. Sent("begin") \subseteq 0 .. 3 /\ Sent("notify") \subseteq 0 .. 3 /\ Sent("done") \subseteq 0 .. 3
      /\ \A l \in Busy : Sent(l) \subseteq 0 .. 3
  BY SentOf
\* A picker is opened.
<1>1. CASE PickDevice
  <2>1. /\ ~ open /\ picker < MaxPickers /\ picker' = picker + 1 /\ dialog' = FALSE /\ rows' = btDevices
        /\ pc' = [pc EXCEPT ![picker'] = "begin"] \/ pc' = [pc EXCEPT ![picker'] = "done"]
        /\ UNCHANGED <<deviceMac, msgs, addrs, at, stale, crashed, tapped, btDevices, btDeviceAddresses>>
    BY <1>1, Zenon DEF PickDevice, OnCreate, lists
  <2>2. open'
    BY <1>1, Zenon DEF PickDevice, OnCreate
  <2>3. msgs = <<>> /\ (picker # 0 => pc[picker] = "done")
    BY <1>o, <2>1
  <2>4. picker' \in Pickers /\ picker' > picker
    BY <1>t, <2>1, PickersAssumption DEF Pickers
  <2>5. pc'[picker'] \in {"begin", "done"} /\ \A s \in Pickers : s # picker' => pc'[s] = pc[s]
    BY <1>t, <2>1, <2>4
  <2>6. Alone'
    <3>1. \A s \in Pickers : s < picker' => s < picker \/ s = picker
      BY <1>t, <2>1 DEF Pickers
    <3>2. \A s \in Pickers : s > picker' => s > picker
      BY <1>t, <2>1 DEF Pickers
    <3> QED
      BY <1>o, <1>p, <2>1, <2>3, <2>4, <2>5, <3>1, <3>2 DEF Alone, Pickers
  <2>7. Listed'
    <3>1. btDevices = btDeviceAddresses
      BY <1>o, <2>3 DEF Listed
    <3> QED
      BY <2>1, <2>5, <3>1 DEF Listed
  <2>8. Talk(0, 0)' /\ Fresh(0, 0)'
    <3>1. ~ dialog' /\ Len(msgs') = 0 /\ rows' = btDevices'
      BY <2>1, <2>3
    <3> QED
      BY <3>1 DEF Talk, Fresh
  <2>9. 0 \in Sent(pc'[picker'])
    BY <2>5, SentOf
  <2>10. picker' # 0 /\ \E n \in Sent(pc'[picker']) : \E k \in 0 .. n : Talk(n, k)' /\ Fresh(n, k)'
    <3>1. 0 \in 0 .. 0 /\ picker' # 0
      BY <2>4 DEF Pickers
    <3> QED
      BY <2>8, <2>9, <3>1
  <2>11. crashed' = FALSE /\ deviceMac' \in {NoDevice, tapped'}
    BY <1>o, <2>1
  <2> QED
    BY <2>2, <2>6, <2>7, <2>10, <2>11 DEF Quiet
\* The picker is closed, with the scan over and its messages handled.
<1>2. CASE OnBackPressed \/ \E pos \in 1 .. Len(rows) : OnListItemClick(pos)
  <2>1. /\ UNCHANGED <<picker, msgs, pc, addrs, at, stale, btDevices, btDeviceAddresses, crashed>>
    BY <1>2, Zenon DEF OnBackPressed, OnListItemClick, CloseWith, lists, scanVars
  <2>2. open /\ ~ dialog /\ ~ open' /\ Settled
    BY <1>2, Zenon DEF OnBackPressed, OnListItemClick, CloseWith
  <2>3. picker # 0 /\ picker \in Pickers
    BY <1>o, <1>p, <2>2
  <2>n. PICK n \in Sent(pc[picker]) : \E k \in 0 .. n : Talk(n, k) /\ Fresh(n, k)
    BY <1>o, <2>2
  <2>4. PICK k \in 0 .. n : Talk(n, k) /\ Fresh(n, k)
    BY <2>n
  <2>5. msgs = <<>> /\ pc[picker] \notin {"begin", "notify"} /\ pc[picker] \in Pcs /\ pc[picker] # "none"
    BY <1>t, <1>o, <2>2, <2>3 DEF Settled, Alone
  <2>6. dialog = FALSE
    BY <2>2 DEF TypeOK
  <2>7. n \in 0 .. 3
    BY <1>b, <2>4, <2>5 DEF Pcs, Busy
  <2>8. n = k /\ k # 1
    <3>1. Len(msgs) = n - k /\ (dialog <=> k = 1) /\ Len(msgs) = 0
      BY <2>4, <2>5 DEF Talk
    <3>2. n = k
      BY <2>7, <3>1
    <3>3. k # 1
      BY <2>6, <3>1
    <3> QED
      BY <3>2, <3>3
  <2>9. pc[picker] = "done"
    <3>1. pc[picker] \notin Busy
      BY <2>4, <2>8, SentOf
    <3> QED
      BY <2>5, <3>1 DEF Pcs, Busy
  <2>10. rows = btDevices
    BY <2>4, <2>8, <2>9 DEF Fresh
  <2>11. deviceMac' \in {NoDevice, tapped'}
    <3>1. CASE OnBackPressed
      BY <3>1, Zenon DEF OnBackPressed, CloseWith
    <3>2. ASSUME NEW pos \in 1 .. Len(rows), OnListItemClick(pos) PROVE deviceMac' = tapped'
      <4>1. tapped' = rows[pos] /\ deviceMac' = btDevices[pos]
        BY <3>2, Zenon DEF OnListItemClick, CloseWith
      <4> QED
        BY <2>10, <4>1
    <3> QED
      BY <1>2, <3>1, <3>2
  <2>12. Alone' /\ Listed'
    BY <1>o, <2>1 DEF Alone, Listed
  <2> QED
    BY <1>o, <2>1, <2>2, <2>5, <2>9, <2>11, <2>12 DEF Quiet
<1>3. CASE HandleMessage
  <2>1. /\ UNCHANGED <<picker, deviceMac, tapped, pc, addrs, at, stale, btDevices, btDeviceAddresses>>
        /\ msgs # <<>> /\ msgs' = Tail(msgs)
    BY <1>3, Zenon DEF HandleMessage, HandleWith, lists, scanVars, auxVars
  <2>2. open' = open
    BY <1>3, Zenon DEF HandleMessage, HandleWith
  <2>3. open /\ picker \in Pickers
    BY <1>o, <1>p, <2>1
  <2>n. PICK n \in Sent(pc[picker]) : \E k \in 0 .. n : Talk(n, k) /\ Fresh(n, k)
    BY <1>o, <2>3
  <2>4. PICK k \in 0 .. n : Talk(n, k) /\ Fresh(n, k)
    BY <2>n
  <2>5. n \in 0 .. 3
    <3>1. pc[picker] \in Pcs /\ pc[picker] # "none"
      BY <1>t, <1>o, <2>3 DEF Alone, Pickers
    <3> QED
      BY <1>b, <2>4, <3>1 DEF Pcs, Busy
  <2>6. /\ k + 1 \in 1 .. n /\ Head(msgs).picker = picker /\ Head(msgs).what = Script[k + 1]
        /\ (dialog' <=> k + 1 = 1) => Talk(n, k + 1)'
    BY <2>1, <2>4, <2>5, TalkHandle
  <2>7. Shows(Head(msgs).picker)
    BY <2>3, <2>6, Zenon DEF Shows
  <2>8. \/ Head(msgs).what \in {"show", "dismiss"} /\ (dialog' <=> Head(msgs).what = "show") /\ rows' = rows
        \/ Head(msgs).what = "update" /\ rows' = btDevices /\ dialog' = dialog
    BY <1>3, <2>7, Zenon DEF HandleMessage, HandleWith
  <2>9. crashed' = crashed
    BY <1>3, <2>7, Zenon DEF HandleMessage, HandleWith
  <2>10. dialog <=> k = 1
    BY <2>4 DEF Talk
  <2>11. (dialog' <=> k + 1 = 1) /\ (k # 2 => rows' = rows) /\ (k = 2 => rows' = btDevices)
    <3>1. CASE k = 0
      <4>1. Head(msgs).what = "show"
        BY <2>6, <3>1 DEF Script
      <4> QED
        BY <2>8, <3>1, <4>1
    <3>2. CASE k = 1
      <4>1. Head(msgs).what = "dismiss"
        BY <2>6, <3>2 DEF Script
      <4> QED
        BY <2>8, <3>2, <4>1
    <3>3. CASE k = 2
      <4>1. Head(msgs).what = "update"
        BY <2>6, <3>3 DEF Script
      <4>2. dialog' = dialog /\ rows' = btDevices
        BY <2>8, <4>1
      <4>3. ~ dialog
        BY <2>10, <3>3
      <4> QED
        BY <3>3, <4>2, <4>3
    <3> QED
      BY <2>5, <2>6, <3>1, <3>2, <3>3
  <2>12. Talk(n, k + 1)'
    BY <2>6, <2>11
  <2>13. Fresh(n, k + 1)'
    <3>1. pc' = pc /\ picker' = picker /\ btDevices' = btDevices
      BY <2>1
    <3>2. pc[picker] \in {"begin", "inquiry", "refused"} => n \in {0, 1}
      BY <2>4, SentOf DEF Busy
    <3>3. pc[picker] = "done" => n \in {0, 2, 3}
      BY <2>4, SentOf
    <3>4. SUFFICES ASSUME pc[picker] \in {"begin", "inquiry", "refused"} \/ (pc[picker] = "done" /\ (n = 3 => k + 1 = 3))
                   PROVE  rows' = btDevices
      BY <3>1 DEF Fresh
    <3>5. CASE k = 2
      BY <2>11, <3>5
    <3>6. CASE k # 2
      <4>1. n # 3
        BY <2>5, <3>2, <3>4, <3>6
      <4>2. rows = btDevices
        BY <2>4, <3>4, <4>1 DEF Fresh
      <4> QED
        BY <2>11, <3>6, <4>2
    <3> QED
      BY <3>5, <3>6
  <2>14. picker' # 0 /\ \E i \in Sent(pc'[picker']) : \E j \in 0 .. i : Talk(i, j)' /\ Fresh(i, j)'
    <3>1. n \in Sent(pc'[picker']) /\ k + 1 \in 0 .. n /\ picker' # 0
      BY <1>o, <2>1, <2>3, <2>4, <2>5, <2>6
    <3> QED
      BY <2>12, <2>13, <3>1
  <2>15. Alone' /\ Listed' /\ crashed' = FALSE /\ deviceMac' \in {NoDevice, tapped'}
    BY <1>o, <2>1, <2>9 DEF Alone, Listed
  <2> QED
    BY <2>2, <2>3, <2>14, <2>15 DEF Quiet
\* The only scan moves on.
<1>4. ASSUME NEW s \in Pickers, Scan(s) PROVE Quiet'
  <2>1. pc[s] \notin {"none", "done"}
    BY <1>4 DEF Scan, BeginScan, InquiryDone, InquiryFails, ClearList, ClearTo, LoadAddresses, AddDevice,
       BeginNames, NextName, EndNames, NotifyUpdate
  <2>2. s = picker /\ picker \in Pickers /\ picker # 0 /\ open
    <3>1. s = picker
      BY <1>t, <1>o, <2>1 DEF Alone, Pickers
    <3>2. picker # 0
      BY <3>1, PickersAssumption DEF Pickers
    <3> QED
      BY <1>o, <2>1, <3>1, <3>2
  <2>n. PICK n \in Sent(pc[picker]) : \E k \in 0 .. n : Talk(n, k) /\ Fresh(n, k)
    BY <1>o, <2>2
  <2>4. PICK k \in 0 .. n : Talk(n, k) /\ Fresh(n, k)
    BY <2>n
  <2>5. \A u \in Pickers : stale[u] = FALSE /\ (u # s => pc[u] \in {"none", "done"})
    BY <1>t, <1>o, <2>2 DEF Alone, Pickers
  <2>6. ASSUME NEW to \in Pcs \ {"none"}, pc' = [pc EXCEPT ![s] = to],
               UNCHANGED <<picker, open, deviceMac, tapped, crashed>>,
               \A u \in Pickers : stale'[u] = FALSE, Listed',
               NEW m \in Sent(to), NEW j \in 0 .. m, Talk(m, j)', Fresh(m, j)'
        PROVE  Quiet'
    <3>1. pc'[s] = to /\ \A u \in Pickers : u # s => pc'[u] = pc[u]
      BY <1>t, <2>6
    <3>2. Alone'
      BY <1>o, <2>2, <2>6, <3>1 DEF Alone, Pickers
    <3>3. m \in Sent(pc'[picker']) /\ j \in 0 .. m
      BY <2>2, <2>6, <3>1
    <3>4. open' => picker' # 0 /\ \E i \in Sent(pc'[picker']) : \E l \in 0 .. i : Talk(i, l)' /\ Fresh(i, l)'
      BY <2>2, <2>6, <3>3
    <3>5. open' /\ crashed' = FALSE /\ deviceMac' \in {NoDevice, tapped'}
      BY <1>o, <2>2, <2>6
    <3> QED
      BY <2>6, <3>2, <3>4, <3>5 DEF Quiet
  <2>7. UNCHANGED <<picker, msgs, dialog>> => Talk(n, k)'
    BY <2>4 DEF Talk
  <2>8. ASSUME NEW m, NEW j, NEW to \in {"clear", "loop", "add", "names", "notify"}, pc' = [pc EXCEPT ![s] = to],
               picker' = picker
        PROVE  Fresh(m, j)'
    BY <1>t, <2>2, <2>8 DEF Fresh
  <2>9. ASSUME stale' = [u \in Pickers |-> stale[u] \/ (pc[u] = "names" /\ u # s)]
        PROVE  \A u \in Pickers : stale'[u] = FALSE
    BY <2>5, <2>9
  <2>10. CASE BeginScan(s)
    <3>1. /\ pc[picker] = "begin" /\ UNCHANGED <<picker, open, deviceMac, tapped, crashed, dialog>>
          /\ UNCHANGED <<rows, btDevices, btDeviceAddresses, addrs, at, stale>>
          /\ Send(picker, "show")
      BY <2>2, <2>10, Zenon DEF BeginScan, uiVars, lists, auxVars
    <3>2. PICK to \in {"inquiry", "refused"} : pc' = [pc EXCEPT ![s] = to]
      BY <2>10, Zenon DEF BeginScan, Goto
    <3>3. n = 0 /\ k = 0
      BY <2>4, <3>1, SentOf
    <3>4. Talk(1, 0)'
      <4>1. Talk(0, 0) /\ Send(picker, Script[0 + 1])
        BY <2>4, <3>1, <3>3 DEF Script
      <4>2. Talk(0 + 1, 0)'
        BY <2>2, <3>1, <4>1, TalkSend
      <4> QED
        BY <4>2
    <3>5. Fresh(1, 0)'
      <4>1. rows = btDevices
        BY <2>4, <3>1 DEF Fresh
      <4> QED
        BY <3>1, <4>1 DEF Fresh
    <3>6. Listed'
      <4>1. btDevices = btDeviceAddresses /\ pc'[picker'] \in {"inquiry", "refused"}
        BY <1>t, <1>o, <2>2, <3>1, <3>2 DEF Listed
      <4> QED
        BY <3>1, <4>1 DEF Listed
    <3>7. to \in Pcs \ {"none"} /\ 1 \in Sent(to) /\ 0 \in 0 .. 1
      BY SentOf DEF Pcs, Busy
    <3>8. \A u \in Pickers : stale'[u] = FALSE
      BY <2>5, <3>1
    <3> QED
      BY <2>6, <3>1, <3>2, <3>4, <3>5, <3>6, <3>7, <3>8
  <2>11. CASE InquiryDone(s)
    <3>1. /\ pc[picker] = "inquiry" /\ pc' = [pc EXCEPT ![s] = "clear"]
          /\ UNCHANGED <<picker, open, deviceMac, tapped, crashed, dialog, msgs, stale>>
      BY <2>2, <2>11, Zenon DEF InquiryDone, Goto, uiVars, auxVars
    <3>2. n \in Sent("clear") /\ "clear" \in Pcs \ {"none"} /\ k \in 0 .. n
      BY <2>4, <3>1, SentOf DEF Busy, Pcs
    <3>3. Talk(n, k)' /\ Fresh(n, k)'
      BY <2>7, <2>8, <3>1
    <3>4. Listed'
      BY <1>t, <2>2, <3>1 DEF Listed
    <3>5. \A u \in Pickers : stale'[u] = FALSE
      BY <2>5, <3>1
    <3> QED
      BY <2>6, <3>1, <3>2, <3>3, <3>4, <3>5
  <2>12. CASE InquiryFails(s)
    <3>1. /\ pc[picker] \in {"inquiry", "refused"} /\ pc' = [pc EXCEPT ![s] = "done"]
          /\ UNCHANGED <<picker, open, deviceMac, tapped, crashed, dialog>>
          /\ UNCHANGED <<rows, btDevices, btDeviceAddresses, addrs, at, stale>>
          /\ Send(picker, "dismiss")
      BY <2>2, <2>12, Zenon DEF InquiryFails, Goto, uiVars, lists, auxVars
    <3>2. n = 1 /\ k \in 0 .. 1
      BY <2>4, <3>1, SentOf DEF Busy
    <3>3. Talk(2, k)'
      <4>1. Talk(1, k) /\ Send(picker, Script[1 + 1])
        BY <2>4, <3>1, <3>2 DEF Script
      <4>2. Talk(1 + 1, k)'
        BY <2>2, <3>1, <3>2, <4>1, TalkSend
      <4> QED
        BY <4>2
    <3>4. rows = btDevices /\ btDevices = btDeviceAddresses
      BY <1>o, <2>4, <3>1 DEF Fresh, Listed
    <3>5. Fresh(2, k)'
      BY <3>1, <3>4 DEF Fresh
    <3>6. Listed'
      <4>1. pc'[picker'] = "done"
        BY <1>t, <2>2, <3>1
      <4> QED
        BY <3>1, <3>4, <4>1 DEF Listed
    <3>7. "done" \in Pcs \ {"none"} /\ 2 \in Sent("done") /\ k \in 0 .. 2
      BY <3>2, SentOf DEF Pcs
    <3>8. \A u \in Pickers : stale'[u] = FALSE
      BY <2>5, <3>1
    <3> QED
      BY <2>6, <3>1, <3>3, <3>5, <3>6, <3>7, <3>8
  <2>13. CASE ClearList(s)
    <3>1. /\ pc[picker] = "clear" /\ pc' = [pc EXCEPT ![s] = "loop"] /\ btDevices' = <<>>
          /\ UNCHANGED <<picker, open, deviceMac, tapped, crashed, dialog, msgs>>
          /\ stale' = [u \in Pickers |-> stale[u] \/ (pc[u] = "names" /\ u # s)]
      BY <2>2, <2>13, Zenon DEF ClearList, ClearTo, ChangeList, Goto, uiVars, auxVars
    <3>2. n \in Sent("loop") /\ "loop" \in Pcs \ {"none"} /\ k \in 0 .. n
      BY <2>4, <3>1, SentOf DEF Busy, Pcs
    <3>3. Talk(n, k)' /\ Fresh(n, k)'
      BY <2>7, <2>8, <3>1
    <3>4. Listed'
      BY <1>t, <2>2, <3>1 DEF Listed
    <3>5. \A u \in Pickers : stale'[u] = FALSE
      BY <2>9, <3>1
    <3> QED
      BY <2>6, <3>1, <3>2, <3>3, <3>4, <3>5
  <2>14. CASE LoadAddresses(s)
    <3>1. /\ pc[picker] = "loop" /\ pc' = [pc EXCEPT ![s] = "add"]
          /\ addrs' = [addrs EXCEPT ![s] = btDeviceAddresses] /\ at' = [at EXCEPT ![s] = 1]
          /\ UNCHANGED <<picker, open, deviceMac, tapped, crashed, dialog, msgs, stale>>
          /\ UNCHANGED <<btDevices, btDeviceAddresses>>
      BY <2>2, <2>14, Zenon DEF LoadAddresses, Goto, uiVars, lists, auxVars
    <3>2. n \in Sent("add") /\ "add" \in Pcs \ {"none"} /\ k \in 0 .. n
      BY <2>4, <3>1, SentOf DEF Busy, Pcs
    <3>3. Talk(n, k)' /\ Fresh(n, k)'
      BY <2>7, <2>8, <3>1
    <3>4. Listed'
      <4>1. btDevices = <<>>
        BY <1>o, <2>2, <3>1 DEF Listed
      <4>2. Len(btDevices') = 0 /\ Len(btDeviceAddresses') \in Nat
        BY <1>t, <3>1, <4>1
      <4>3. pc'[picker'] = "add" /\ addrs'[picker'] = btDeviceAddresses' /\ at'[picker'] = 1
        BY <1>t, <2>2, <3>1
      <4> QED
        BY <2>2, <3>1, <4>2, <4>3 DEF Listed
    <3>5. \A u \in Pickers : stale'[u] = FALSE
      BY <2>5, <3>1
    <3> QED
      BY <2>6, <3>1, <3>2, <3>3, <3>4, <3>5
  <2>15. CASE AddDevice(s)
    <3>1. /\ pc[picker] = "add" /\ at[picker] <= Len(addrs[picker]) /\ pc' = pc
          /\ btDevices' = Append(btDevices, addrs[picker][at[picker]])
          /\ at' = [at EXCEPT ![picker] = @ + 1]
          /\ UNCHANGED <<picker, open, deviceMac, tapped, crashed, dialog, msgs, addrs, btDeviceAddresses>>
          /\ stale' = [u \in Pickers |-> stale[u] \/ (pc[u] = "names" /\ u # s)]
      BY <2>2, <2>15, Zenon DEF AddDevice, ChangeList, uiVars, auxVars
    <3>2. n \in Sent("add") /\ "add" \in Pcs \ {"none"} /\ k \in 0 .. n /\ pc' = [pc EXCEPT ![s] = "add"]
      BY <1>t, <2>2, <2>4, <3>1, SentOf DEF Busy, Pcs
    <3>3. Talk(n, k)' /\ Fresh(n, k)'
      BY <2>7, <2>8, <3>1, <3>2
    <3>4. Listed'
      <4>1. /\ addrs[picker] = btDeviceAddresses /\ at[picker] = Len(btDevices) + 1
            /\ Len(btDevices) <= Len(btDeviceAddresses)
            /\ \A i \in 1 .. Len(btDevices) : btDevices[i] = btDeviceAddresses[i]
        BY <1>o, <2>2, <3>1 DEF Listed
      <4>2. Len(btDevices) \in Nat /\ Len(btDeviceAddresses) \in Nat
        BY <1>t
      <4>3. Len(btDevices) + 1 <= Len(btDeviceAddresses)
        BY <3>1, <4>1
      <4>4. btDeviceAddresses[Len(btDevices) + 1] \in Devices
        BY <1>t, <4>2, <4>3
      <4>5. btDevices' = Append(btDevices, btDeviceAddresses[Len(btDevices) + 1])
        BY <3>1, <4>1
      <4>6. /\ Len(btDevices') = Len(btDevices) + 1
            /\ btDevices'[Len(btDevices) + 1] = btDeviceAddresses[Len(btDevices) + 1]
            /\ \A i \in 1 .. Len(btDevices) : btDevices'[i] = btDevices[i]
        BY <1>t, <4>4, <4>5
      <4>7. \A i \in 1 .. Len(btDevices') : btDevices'[i] = btDeviceAddresses'[i]
        <5>1. \A i \in 1 .. Len(btDevices) + 1 : i = Len(btDevices) + 1 \/ i \in 1 .. Len(btDevices)
          BY <4>2
        <5> QED
          BY <3>1, <4>1, <4>6, <5>1
      <4>8. at'[picker'] = Len(btDevices') + 1
        BY <1>t, <2>2, <3>1, <4>1, <4>6
      <4>9. picker' # 0 /\ pc'[picker'] = "add" /\ addrs'[picker'] = btDeviceAddresses' /\ Len(btDevices') <= Len(btDeviceAddresses')
        BY <2>2, <3>1, <4>1, <4>3, <4>6
      <4> QED
        BY <4>7, <4>8, <4>9 DEF Listed
    <3>5. \A u \in Pickers : stale'[u] = FALSE
      BY <2>9, <3>1
    <3> QED
      BY <2>6, <3>1, <3>2, <3>3, <3>4, <3>5
  <2>16. CASE BeginNames(s)
    <3>1. /\ pc[picker] = "add" /\ at[picker] > Len(addrs[picker]) /\ pc' = [pc EXCEPT ![s] = "names"]
          /\ stale' = [stale EXCEPT ![s] = FALSE]
          /\ UNCHANGED <<picker, open, deviceMac, tapped, crashed, dialog, msgs>>
          /\ UNCHANGED <<btDevices, btDeviceAddresses>>
      BY <2>2, <2>16, Zenon DEF BeginNames, Goto, uiVars, lists, auxVars
    <3>2. n \in Sent("names") /\ "names" \in Pcs \ {"none"} /\ k \in 0 .. n
      BY <2>4, <3>1, SentOf DEF Busy, Pcs
    <3>3. Talk(n, k)' /\ Fresh(n, k)'
      BY <2>7, <2>8, <3>1
    <3>4. Listed'
      <4>1. /\ addrs[picker] = btDeviceAddresses /\ at[picker] = Len(btDevices) + 1
            /\ Len(btDevices) <= Len(btDeviceAddresses)
            /\ \A i \in 1 .. Len(btDevices) : btDevices[i] = btDeviceAddresses[i]
        BY <1>o, <2>2, <3>1 DEF Listed
      <4>2. Len(btDevices) = Len(btDeviceAddresses)
        <5>1. Len(btDevices) \in Nat /\ Len(btDeviceAddresses) \in Nat
          BY <1>t
        <5>2. Len(btDevices) + 1 > Len(btDeviceAddresses) /\ Len(btDevices) <= Len(btDeviceAddresses)
          BY <3>1, <4>1
        <5> QED
          BY <5>1, <5>2
      <4>3. btDevices = btDeviceAddresses
        BY <1>t, <4>1, <4>2
      <4>4. pc'[picker'] = "names"
        BY <1>t, <2>2, <3>1
      <4> QED
        BY <3>1, <4>3, <4>4 DEF Listed
    <3>5. \A u \in Pickers : stale'[u] = FALSE
      <4>1. stale \in [Pickers -> BOOLEAN]
        BY DEF TypeOK
      <4> QED
        BY <2>5, <3>1, <4>1
    <3> QED
      BY <2>6, <3>1, <3>2, <3>3, <3>4, <3>5
  <2>17. CASE NextName(s)
    <3>1. /\ pc[picker] = "names" /\ pc' = pc
          /\ IF stale[s] THEN crashed' = TRUE ELSE crashed' = crashed
          /\ UNCHANGED <<picker, open, deviceMac, tapped, dialog, msgs, stale>>
          /\ UNCHANGED <<btDevices, btDeviceAddresses>>
      BY <2>2, <2>17, Zenon DEF NextName, uiVars, lists, auxVars
    <3>2. crashed' = crashed
      BY <2>5, <3>1
    <3>3. n \in Sent("names") /\ "names" \in Pcs \ {"none"} /\ k \in 0 .. n /\ pc' = [pc EXCEPT ![s] = "names"]
      BY <1>t, <2>2, <2>4, <3>1, SentOf DEF Busy, Pcs
    <3>4. Talk(n, k)' /\ Fresh(n, k)'
      BY <2>7, <2>8, <3>1, <3>3
    <3>5. Listed'
      <4>1. btDevices = btDeviceAddresses
        BY <1>o, <3>1 DEF Listed
      <4> QED
        BY <3>1, <4>1 DEF Listed
    <3>6. \A u \in Pickers : stale'[u] = FALSE
      BY <2>5, <3>1
    <3> QED
      BY <2>6, <3>1, <3>2, <3>3, <3>4, <3>5, <3>6
  <2>18. CASE EndNames(s)
    <3>1. /\ pc[picker] = "names" /\ pc' = [pc EXCEPT ![s] = "notify"]
          /\ stale' = [stale EXCEPT ![s] = FALSE]
          /\ UNCHANGED <<picker, open, deviceMac, tapped, crashed, dialog>>
          /\ UNCHANGED <<btDevices, btDeviceAddresses>>
          /\ Send(picker, "dismiss")
      BY <2>2, <2>18, Zenon DEF EndNames, Goto, uiVars, lists, auxVars
    <3>2. n = 1 /\ k \in 0 .. 1
      BY <2>4, <3>1, SentOf DEF Busy
    <3>3. Talk(2, k)'
      <4>1. Talk(1, k) /\ Send(picker, Script[1 + 1])
        BY <2>4, <3>1, <3>2 DEF Script
      <4>2. Talk(1 + 1, k)'
        BY <2>2, <3>1, <3>2, <4>1, TalkSend
      <4> QED
        BY <4>2
    <3>4. Fresh(2, k)'
      BY <2>8, <3>1
    <3>5. Listed'
      <4>1. btDevices = btDeviceAddresses /\ pc'[picker'] = "notify"
        BY <1>t, <1>o, <2>2, <3>1 DEF Listed
      <4> QED
        BY <3>1, <4>1 DEF Listed
    <3>6. "notify" \in Pcs \ {"none"} /\ 2 \in Sent("notify") /\ k \in 0 .. 2
      BY <3>2, SentOf DEF Pcs
    <3>7. \A u \in Pickers : stale'[u] = FALSE
      <4>1. stale \in [Pickers -> BOOLEAN]
        BY DEF TypeOK
      <4> QED
        BY <2>5, <3>1, <4>1
    <3> QED
      BY <2>6, <3>1, <3>3, <3>4, <3>5, <3>6, <3>7
  <2>19. CASE NotifyUpdate(s)
    <3>1. /\ pc[picker] = "notify" /\ pc' = [pc EXCEPT ![s] = "done"]
          /\ UNCHANGED <<picker, open, deviceMac, tapped, crashed, dialog>>
          /\ UNCHANGED <<btDevices, btDeviceAddresses, stale>>
          /\ Send(picker, "update")
      BY <2>2, <2>19, Zenon DEF NotifyUpdate, Goto, uiVars, lists, auxVars
    <3>2. n = 2 /\ k \in 0 .. 2
      BY <2>4, <3>1, SentOf
    <3>3. Talk(3, k)'
      <4>1. Talk(2, k) /\ Send(picker, Script[2 + 1])
        BY <2>4, <3>1, <3>2 DEF Script
      <4>2. Talk(2 + 1, k)'
        BY <2>2, <3>1, <3>2, <4>1, TalkSend
      <4> QED
        BY <4>2
    <3>4. pc'[picker'] = "done"
      BY <1>t, <2>2, <3>1
    <3>5. Fresh(3, k)'
      BY <3>2, <3>4 DEF Fresh
    <3>6. Listed'
      <4>1. btDevices = btDeviceAddresses
        BY <1>o, <3>1 DEF Listed
      <4> QED
        BY <3>1, <3>4, <4>1 DEF Listed
    <3>7. "done" \in Pcs \ {"none"} /\ 3 \in Sent("done") /\ k \in 0 .. 3
      BY <3>2, SentOf DEF Pcs
    <3>8. \A u \in Pickers : stale'[u] = FALSE
      BY <2>5, <3>1
    <3> QED
      BY <2>6, <3>1, <3>3, <3>5, <3>6, <3>7, <3>8
  <2> QED
    BY <1>4, <2>10, <2>11, <2>12, <2>13, <2>14, <2>15, <2>16, <2>17, <2>18, <2>19 DEF Scan
\* From here on the user is ahead of the screen.
<1>5. CASE Recreate
  BY <1>5, Zenon DEF Recreate
<1>6. CASE UNCHANGED vars
  BY <1>6, <1>q DEF vars, uiVars, lists, scanVars, auxVars, Quiet, Alone, Listed, Talk, Fresh
<1> QED
  BY <1>1, <1>2, <1>3, <1>4, <1>5, <1>6 DEF Next, User

LEMMA Invariance == Spec => [](TypeOK /\ CalmInv)
<1>1. Spec => [](TypeOK /\ Bound /\ CalmInv)
  BY TypeInit, TypeStep, QuietInit, QuietStep, PTL DEF Spec
<1> QED
  BY <1>1, PTL

\* A user who is not ahead of the screen connects to the device in the row that
\* was tapped, whatever the scan did to the list behind the rows.
THEOREM PickedCorrect == Spec => []PickedIsShown
<1>1. CalmInv => PickedIsShown
  BY DEF CalmInv, Quiet, PickedIsShown
<1> QED
  BY <1>1, Invariance, PTL

\* A scan never dies of a list another one changes, nor the UI thread of a dialog
\* whose picker is gone.
THEOREM ScanCorrect == Spec => []ScanUndisturbed
<1>1. CalmInv => ScanUndisturbed
  BY DEF CalmInv, Quiet, ScanUndisturbed
<1> QED
  BY <1>1, Invariance, PTL

\* When the scans are over, the rows are what the last inquiry found.
THEOREM ListCorrect == Spec => []ListAsFound
<1>1. TypeOK /\ CalmInv => ListAsFound
  <2> SUFFICES ASSUME TypeOK, CalmInv, calm, open, ~ Scanning, msgs = <<>> PROVE rows = btDeviceAddresses
    BY DEF ListAsFound
  <2>1. Quiet
    BY DEF CalmInv
  <2>2. picker # 0 /\ picker \in Pickers
    <3>1. picker # 0 /\ picker \in 0 .. MaxPickers
      BY <2>1 DEF Quiet, TypeOK
    <3> QED
      BY <3>1, PickersAssumption DEF Pickers
  <2>3. pc[picker] = "done"
    BY <2>1, <2>2 DEF Scanning, Quiet, Alone
  <2>n. PICK n \in Sent(pc[picker]) : \E k \in 0 .. n : Talk(n, k) /\ Fresh(n, k)
    BY <2>1 DEF Quiet
  <2>4. PICK k \in 0 .. n : Talk(n, k) /\ Fresh(n, k)
    BY <2>n
  <2>5. n \in {0, 2, 3} /\ Len(msgs) = n - k /\ Len(msgs) = 0
    BY <2>3, <2>4, SentOf DEF Talk
  <2>6. n = k
    BY <2>5
  <2>7. rows = btDevices
    BY <2>3, <2>4, <2>6 DEF Fresh
  <2>8. btDevices = btDeviceAddresses
    BY <2>1, <2>3 DEF Quiet, Listed
  <2> QED
    BY <2>7, <2>8
<1> QED
  BY <1>1, Invariance, PTL

(***************************************************************************)
(* The dialog and its end, however far ahead of the screen the user is     *)
(***************************************************************************)

\* The places in which a scan has put its dialog up and not yet taken it down.
Active == {"inquiry", "refused", "clear", "loop", "add", "names"}

\* Behind place i of the queue the end of a dialog of picker s is still to come.
Owed(s, i) ==
  \/ pc[s] \in Active
  \/ \E j \in DOMAIN msgs : j > i /\ msgs[j] = [picker |-> s, what |-> "dismiss"]

\* The dialog is one of the open picker, and every dialog, shown or on its way, has
\* an end to come after it.
Ends ==
  /\ dialog => open /\ picker \in Pickers /\ Owed(picker, 0)
  /\ \A i \in DOMAIN msgs : msgs[i].what = "show" => Owed(msgs[i].picker, i)

LEMMA EndsInit == Init => Ends
<1> SUFFICES ASSUME Init PROVE Ends
  OBVIOUS
<1>1. dialog = FALSE /\ msgs = <<>>
  BY Zenon DEF Init
<1> QED
  BY <1>1 DEF Ends

\* What a scan does leaves every end to come: it sends the one it owes when it
\* leaves the places that owe one.
LEMMA EndsScan ==
  ASSUME TypeOK, Ends, UNCHANGED <<dialog, open, picker>>,
         NEW s \in Pickers, NEW w \in {"show", "dismiss", "update"}, UNCHANGED msgs \/ Send(s, w),
         w = "show" => pc'[s] \in Active,
         \A u \in Pickers : pc[u] \in Active => pc'[u] \in Active \/ (u = s /\ w = "dismiss" /\ Send(s, w))
  PROVE  Ends'
<1> DEFINE Message == [picker : Pickers, what : {"show", "dismiss", "update"}]
           m == [picker |-> s, what |-> w]
<1>1. msgs \in Seq(Message) /\ m \in Message /\ m.picker = s /\ m.what = w
      /\ (w = "dismiss" => m = [picker |-> s, what |-> "dismiss"])
  BY DEF TypeOK
<1>2. \A i \in DOMAIN msgs : msgs[i].picker \in Pickers
  <2>1. \A x \in Message : x.picker \in Pickers
    OBVIOUS
  <2> HIDE DEF Message, m
  <2>2. \A i \in DOMAIN msgs : msgs[i] \in Message
    <3>1. msgs \in Seq(Message)
      BY <1>1
    <3> QED
      BY <3>1
  <2> QED
    BY <2>1, <2>2
<1> HIDE DEF Message, m
<1>3. UNCHANGED msgs \/ msgs' = Append(msgs, m)
  BY DEF Send, m
<1>t. msgs \in Seq(Message) /\ m \in Message
  BY <1>1
<1>4. DOMAIN msgs = 1 .. Len(msgs) /\ Len(msgs) \in Nat
  BY <1>1
<1>5. \A i \in DOMAIN msgs : i \in DOMAIN msgs' /\ msgs'[i] = msgs[i]
  <2>1. CASE msgs' = Append(msgs, m)
    <3>1. DOMAIN msgs' = 1 .. Len(msgs) + 1 /\ \A i \in 1 .. Len(msgs) : msgs'[i] = msgs[i]
      BY <1>t, <2>1
    <3> QED
      BY <1>4, <3>1
  <2> QED
    BY <1>3, <2>1
<1>6. ASSUME NEW u \in Pickers, NEW i \in 0 .. Len(msgs), Owed(u, i) PROVE Owed(u, i)'
  <2>1. CASE pc[u] \in Active /\ pc'[u] \in Active
    BY <2>1 DEF Owed
  <2>2. CASE u = s /\ w = "dismiss" /\ Send(s, w)
    <3>1. msgs' = Append(msgs, m)
      BY <2>2 DEF Send, m
    <3>2. Len(msgs) + 1 \in DOMAIN msgs' /\ msgs'[Len(msgs) + 1] = m /\ Len(msgs) + 1 > i
      <4>1. Len(Append(msgs, m)) = Len(msgs) + 1 /\ Append(msgs, m)[Len(msgs) + 1] = m
        BY <1>t
      <4>2. DOMAIN Append(msgs, m) = 1 .. Len(Append(msgs, m))
        BY <1>t
      <4>3. Len(msgs) + 1 \in 1 .. Len(msgs) + 1 /\ Len(msgs) + 1 > i
        BY <1>4
      <4> QED
        BY <3>1, <4>1, <4>2, <4>3, Zenon
    <3>3. msgs'[Len(msgs) + 1] = [picker |-> u, what |-> "dismiss"]
      BY <2>2, <3>2 DEF m
    <3>4. \E j \in DOMAIN msgs' : j > i /\ msgs'[j] = [picker |-> u, what |-> "dismiss"]
      BY <3>2, <3>3, Zenon
    <3> QED
      BY <3>4 DEF Owed
  <2>3. CASE pc[u] \notin Active
    <3>1. PICK j \in DOMAIN msgs : j > i /\ msgs[j] = [picker |-> u, what |-> "dismiss"]
      BY <1>6, <2>3 DEF Owed
    <3>2. j \in DOMAIN msgs' /\ msgs'[j] = [picker |-> u, what |-> "dismiss"]
      BY <1>5, <3>1
    <3> QED
      BY <3>1, <3>2 DEF Owed
  <2> QED
    BY <2>1, <2>2, <2>3
<1>7. dialog' => open' /\ picker' \in Pickers /\ Owed(picker, 0)'
  <2> SUFFICES ASSUME dialog' PROVE open' /\ picker' \in Pickers /\ Owed(picker, 0)'
    OBVIOUS
  <2>1. open /\ Owed(picker, 0) /\ picker \in Pickers
    BY DEF Ends
  <2>2. open' /\ picker' = picker /\ 0 \in 0 .. Len(msgs)
    BY <1>4, <2>1
  <2>4. \A v \in Pickers : Owed(v, 0) => Owed(v, 0)'
    BY <1>6, <2>2
  <2> QED
    BY <2>1, <2>2, <2>4 DEF Owed
<1>8. ASSUME NEW i \in DOMAIN msgs', msgs'[i].what = "show" PROVE Owed(msgs[i].picker, i)'
  <2>1. CASE i \in DOMAIN msgs
    <3>1. msgs'[i] = msgs[i] /\ msgs[i].picker \in Pickers /\ i \in 0 .. Len(msgs)
      BY <1>2, <1>4, <1>5, <2>1
    <3>2. Owed(msgs[i].picker, i)
      BY <1>8, <2>1, <3>1 DEF Ends
    <3>3. \A v \in Pickers : Owed(v, i) => Owed(v, i)'
      BY <1>6, <3>1
    <3> QED
      BY <3>1, <3>2, <3>3 DEF Owed
  <2>2. CASE i \notin DOMAIN msgs
    <3>1. msgs' = Append(msgs, m) /\ msgs'[i] = m
      BY <1>t, <1>3, <1>4, <1>8, <2>2
    <3>2. pc'[s] \in Active /\ msgs'[i].picker = s
      BY <1>1, <1>8, <3>1
    <3> QED
      BY <3>2 DEF Owed
  <2> QED
    BY <2>1, <2>2
<1> QED
  BY <1>7, <1>8 DEF Ends

LEMMA EndsStep == TypeOK /\ Bound /\ Ends /\ [Next]_vars => Ends'
<1> SUFFICES ASSUME TypeOK, Bound, Ends, [Next]_vars PROVE Ends'
  OBVIOUS
<1> DEFINE Message == [picker : Pickers, what : {"show", "dismiss", "update"}]
<1>t. pc \in [Pickers -> Pcs] /\ msgs \in Seq(Message) /\ dialog \in BOOLEAN
  BY DEF TypeOK
<1>m. \A x \in Message : x.picker \in Pickers
  OBVIOUS
<1> HIDE DEF Message
\* A picker that is made has no dialog yet, and one that is closed has none.
<1>u. ASSUME dialog' = FALSE, UNCHANGED msgs, \A s \in Pickers : pc[s] \in Active => pc'[s] = pc[s]
      PROVE  Ends'
  <2>1. ASSUME NEW i \in DOMAIN msgs, msgs[i].what = "show" PROVE Owed(msgs[i].picker, i)'
    <3>1. msgs[i].picker \in Pickers
      BY <1>t, <1>m
    <3>2. Owed(msgs[i].picker, i)
      BY <2>1 DEF Ends
    <3>3. CASE pc[msgs[i].picker] \in Active
      BY <1>u, <3>1, <3>3 DEF Owed
    <3>4. CASE pc[msgs[i].picker] \notin Active
      BY <1>u, <3>2, <3>4 DEF Owed
    <3> QED
      BY <3>3, <3>4
  <2> QED
    BY <1>u, <2>1 DEF Ends
<1>1. CASE PickDevice \/ Recreate
  <2>1. /\ dialog' = FALSE /\ UNCHANGED msgs
        /\ pc' = [pc EXCEPT ![picker'] = "begin"] \/ pc' = [pc EXCEPT ![picker'] = "done"]
        /\ picker < MaxPickers /\ picker' = picker + 1
    BY <1>1, Zenon DEF PickDevice, Recreate, OnCreate
  <2>2. pc[picker'] \notin Active
    <3>1. picker' \in Pickers /\ picker' > picker
      BY <2>1, PickersAssumption DEF TypeOK, Pickers
    <3> QED
      BY <3>1 DEF Bound, Active
  <2> QED
    BY <1>t, <1>u, <2>1, <2>2
<1>2. CASE OnBackPressed \/ \E pos \in 1 .. Len(rows) : OnListItemClick(pos)
  <2>1. dialog' = FALSE /\ UNCHANGED msgs /\ UNCHANGED pc
    BY <1>2, <1>t, Zenon DEF OnBackPressed, OnListItemClick, CloseWith, scanVars
  <2> QED
    BY <1>u, <2>1
\* The end that is owed is behind the message that is taken, or is that message.
<1>3. CASE HandleMessage
  <2>1. msgs # <<>> /\ msgs' = Tail(msgs) /\ UNCHANGED <<picker, open, pc>>
    BY <1>3, Zenon DEF HandleMessage, HandleWith, scanVars
  <2>2. /\ Len(msgs) \in Nat /\ DOMAIN msgs = 1 .. Len(msgs) /\ DOMAIN msgs' = 1 .. Len(msgs) - 1
        /\ \A i \in 1 .. Len(msgs) - 1 : msgs'[i] = msgs[i + 1]
        /\ 1 \in DOMAIN msgs /\ Head(msgs) = msgs[1]
    BY <1>t, <2>1
  <2>3. ASSUME NEW s, NEW i \in 1 .. Len(msgs), Owed(s, i) PROVE Owed(s, i - 1)'
    <3>1. CASE pc[s] \in Active
      BY <2>1, <3>1 DEF Owed
    <3>2. CASE pc[s] \notin Active
      <4>1. PICK j \in DOMAIN msgs : j > i /\ msgs[j] = [picker |-> s, what |-> "dismiss"]
        BY <2>3, <3>2 DEF Owed
      <4>2. j - 1 \in 1 .. Len(msgs) - 1 /\ j - 1 > i - 1 /\ (j - 1) + 1 = j
        BY <2>2, <4>1
      <4>3. j - 1 \in DOMAIN msgs' /\ msgs'[j - 1] = [picker |-> s, what |-> "dismiss"]
        BY <2>2, <4>1, <4>2
      <4> QED
        BY <4>2, <4>3 DEF Owed
    <3> QED
      BY <3>1, <3>2
  <2>4. ASSUME NEW i \in DOMAIN msgs', msgs'[i].what = "show" PROVE Owed(msgs[i].picker, i)'
    <3>1. i + 1 \in 1 .. Len(msgs) /\ (i + 1) - 1 = i /\ msgs'[i] = msgs[i + 1] /\ i + 1 \in DOMAIN msgs
      BY <2>2
    <3>2. Owed(msgs[i + 1].picker, i + 1)
      BY <2>4, <3>1 DEF Ends
    <3>3. \A s : Owed(s, i + 1) => Owed(s, i)'
      BY <2>3, <3>1
    <3> QED
      BY <3>1, <3>2, <3>3 DEF Owed
  <2>5. dialog' => open' /\ picker' \in Pickers /\ Owed(picker, 0)'
    <3> SUFFICES ASSUME dialog' PROVE open' /\ picker' \in Pickers /\ Owed(picker, 0)'
      OBVIOUS
    <3> DEFINE m == Head(msgs)
    <3>1. \/ Shows(m.picker) /\ m.what = "show"
          \/ dialog /\ ~ (Shows(m.picker) /\ m.what = "dismiss")
      BY <1>3, <1>t DEF HandleMessage, HandleWith
    <3>2. m = msgs[1] /\ m.picker \in Pickers
      BY <1>t, <1>m, <2>2
    <3> HIDE DEF m
    <3>3. CASE Shows(m.picker) /\ m.what = "show"
      <4>1. open /\ picker = m.picker
        BY <3>3 DEF Shows
      <4>2. Owed(m.picker, 1)
        <5>1. 1 \in DOMAIN msgs /\ msgs[1].what = "show" /\ m.picker = msgs[1].picker
          BY <2>2, <3>2, <3>3
        <5>2. Owed(msgs[1].picker, 1)
          BY <5>1, Zenon DEF Ends
        <5> QED
          BY <5>1, <5>2, Zenon
      <4>3. \A s : Owed(s, 1) => Owed(s, 0)'
        BY <2>2, <2>3
      <4> QED
        BY <2>1, <3>2, <4>1, <4>2, <4>3 DEF Owed
    <3>4. CASE dialog /\ ~ (Shows(m.picker) /\ m.what = "dismiss")
      <4>1. open /\ picker \in Pickers /\ Owed(picker, 0)
        BY <3>4 DEF Ends
      <4>2. m # [picker |-> picker, what |-> "dismiss"]
        BY <3>4, <4>1 DEF Shows
      <4>3. Owed(picker, 1)
        BY <2>2, <3>2, <4>1, <4>2 DEF Owed
      <4>4. \A s : Owed(s, 1) => Owed(s, 0)'
        BY <2>2, <2>3
      <4> QED
        BY <2>1, <4>1, <4>3, <4>4 DEF Owed
    <3> QED
      BY <3>1, <3>3, <3>4
  <2> QED
    BY <2>4, <2>5 DEF Ends
<1>4. ASSUME NEW s \in Pickers, Scan(s) PROVE Ends'
  <2>1. UNCHANGED <<dialog, open, picker>>
    BY <1>4, Zenon DEF Scan, BeginScan, InquiryDone, InquiryFails, ClearList, ClearTo, LoadAddresses,
         AddDevice, BeginNames, NextName, EndNames, NotifyUpdate, uiVars
  <2>2. CASE BeginScan(s)
    <3>1. /\ Send(s, "show")
          /\ pc' = [pc EXCEPT ![s] = "refused"] \/ pc' = [pc EXCEPT ![s] = "inquiry"]
      BY <2>2, Zenon DEF BeginScan, Goto
    <3>2. pc'[s] \in Active /\ \A u \in Pickers : pc[u] \in Active => pc'[u] \in Active
      BY <1>t, <3>1 DEF Active
    <3> QED
      BY <2>1, <3>1, <3>2, EndsScan
  <2>3. CASE InquiryDone(s) \/ ClearList(s) \/ LoadAddresses(s) \/ BeginNames(s)
    <3>1. /\ UNCHANGED msgs
          /\ \E to \in {"clear", "loop", "add", "names"} : pc' = [pc EXCEPT ![s] = to]
      BY <2>3, Zenon DEF InquiryDone, ClearList, ClearTo, LoadAddresses, BeginNames, Goto
    <3>2. \A u \in Pickers : pc[u] \in Active => pc'[u] \in Active
      BY <1>t, <3>1 DEF Active
    <3> QED
      BY <2>1, <3>1, <3>2, EndsScan
  <2>4. CASE AddDevice(s) \/ NextName(s)
    <3>1. UNCHANGED msgs /\ UNCHANGED pc
      BY <2>4, Zenon DEF AddDevice, NextName
    <3> QED
      BY <2>1, <3>1, EndsScan
  <2>5. CASE InquiryFails(s) \/ EndNames(s)
    <3>1. /\ Send(s, "dismiss")
          /\ pc' = [pc EXCEPT ![s] = "done"] \/ pc' = [pc EXCEPT ![s] = "notify"]
      BY <2>5, Zenon DEF InquiryFails, EndNames, Goto
    <3>2. \A u \in Pickers : pc[u] \in Active => pc'[u] \in Active \/ u = s
      BY <1>t, <3>1
    <3> QED
      BY <2>1, <3>1, <3>2, EndsScan
  <2>6. CASE NotifyUpdate(s)
    <3>1. Send(s, "update") /\ pc[s] = "notify" /\ pc' = [pc EXCEPT ![s] = "done"]
      BY <2>6, Zenon DEF NotifyUpdate, Goto
    <3>2. \A u \in Pickers : pc[u] \in Active => pc'[u] \in Active
      BY <1>t, <3>1 DEF Active
    <3> QED
      BY <2>1, <3>1, <3>2, EndsScan
  <2> QED
    BY <1>4, <2>2, <2>3, <2>4, <2>5, <2>6 DEF Scan
<1>5. CASE UNCHANGED vars
  BY <1>5 DEF vars, uiVars, scanVars, Ends, Owed
<1> QED
  BY <1>1, <1>2, <1>3, <1>4, <1>5 DEF Next, User

\* A picker can always be left again: whatever overlaps with what, the dialog that
\* cannot be cancelled has a scan that will dismiss it, or the message is there.
THEOREM DialogIsDismissed == Spec => []DialogIsScan
<1>1. Ends => DialogIsScan
  BY DEF Ends, Owed, Active, DialogIsScan
<1> QED
  BY <1>1, TypeInit, TypeStep, EndsInit, EndsStep, PTL DEF Spec
=============================================================================
