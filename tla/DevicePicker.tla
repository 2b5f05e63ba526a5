---------------------------- MODULE DevicePicker ----------------------------
(***************************************************************************)
(* The device picker (BtDevicePicker.java) and the result it gives to the  *)
(* main screen.                                                            *)
(*                                                                         *)
(* Every picker that is made starts a scan thread, which asks the adapter  *)
(* for the devices around (btDeviceScan()), writes them into the static    *)
(* list btDevices and then goes through the list for their names.  The UI  *)
(* thread shows the same list.  Only a dialog that cannot be cancelled     *)
(* keeps the user from it, and the dialog is opened and closed by messages *)
(* of the scan thread.                                                     *)
(***************************************************************************)
EXTENDS Naturals, Sequences, FiniteSets, Functions

CONSTANTS
  Devices,     \* the devices that may be around
  NoDevice,    \* deviceMac is ""
  MaxPickers   \* bound: pickers made in this process

ASSUME DevicesAssumption == IsFiniteSet(Devices) /\ NoDevice \notin Devices
ASSUME PickersAssumption == MaxPickers \in Nat \ {0}

Pickers == 1 .. MaxPickers
\* What an inquiry may find; each device answers once.
Found   == UNION {Injection(1 .. n, Devices) : n \in 0 .. Cardinality(Devices)}

VARIABLES
  \* UI thread: the last picker made, whether it is open and its dialog shown, the
  \* list as it was laid out last, the result, the messages of the scan handlers
  picker, open, dialog, rows, deviceMac, msgs,
  \* the two static fields all scans share
  btDeviceAddresses, btDevices,
  \* per picker: its scan thread, the array its first loop goes through and the
  \* position in its two loops, and whether the list was changed by another
  \* thread since its second loop began (modCount)
  pc, addrs, at, stale,
  \* whether the process died of an exception
  crashed,
  \* auxiliary: the device in the row that was tapped, and whether the user was
  \* never ahead of the screen
  tapped, calm

uiVars   == <<picker, open, dialog, rows, deviceMac>>
scanVars == <<pc, addrs, at, stale>>
lists    == <<btDeviceAddresses, btDevices>>
auxVars  == <<tapped, calm>>
vars     == <<uiVars, msgs, lists, scanVars, crashed, auxVars>>

Pcs == {"none", "begin", "inquiry", "refused", "clear", "loop", "add", "names", "notify", "done"}

TypeOK ==
  /\ picker \in 0 .. MaxPickers /\ open \in BOOLEAN /\ dialog \in BOOLEAN
  /\ rows \in Seq(Devices)
  /\ deviceMac \in Devices \cup {NoDevice} /\ tapped \in Devices \cup {NoDevice}
  /\ msgs \in Seq([picker : Pickers, what : {"show", "dismiss", "update"}])
  /\ btDeviceAddresses \in Found /\ btDevices \in Seq(Devices)
  /\ pc \in [Pickers -> Pcs] /\ addrs \in [Pickers -> Found]
  /\ at \in [Pickers -> 1 .. MaxPickers * Cardinality(Devices) + 1]
  /\ stale \in [Pickers -> BOOLEAN]
  /\ crashed \in BOOLEAN /\ calm \in BOOLEAN

Init ==
  /\ picker = 0 /\ open = FALSE /\ dialog = FALSE /\ rows = <<>>
  /\ deviceMac = NoDevice /\ msgs = <<>>
  /\ btDeviceAddresses = <<>> /\ btDevices = <<>>
  /\ pc = [s \in Pickers |-> "none"] /\ addrs = [s \in Pickers |-> <<>>]
  /\ at = [s \in Pickers |-> 1] /\ stale = [s \in Pickers |-> FALSE]
  /\ crashed = FALSE /\ tapped = NoDevice /\ calm = TRUE

-----------------------------------------------------------------------------
(***************************************************************************)
(* The UI thread                                                           *)
(***************************************************************************)

\* onCreate(): the list is shown as it is, and a scan started if Bluetooth is on.
OnCreate ==
  /\ picker < MaxPickers
  /\ picker' = picker + 1 /\ open' = TRUE /\ dialog' = FALSE
  /\ rows' = btDevices
  /\ \E enabled \in BOOLEAN :
       pc' = [pc EXCEPT ![picker'] = IF enabled THEN "begin" ELSE "done"]
  /\ UNCHANGED <<deviceMac, msgs, lists, addrs, at, stale, crashed, tapped>>

PickDevice == ~ open /\ OnCreate /\ UNCHANGED calm

\* The picker is made anew after a rotation: that line is commented out.  The
\* dialog goes with the old picker, its scan does not.
Recreate == open /\ OnCreate /\ calm' = FALSE

\* The user's input is ahead of the screen before the dialog is up and before the
\* rows are laid out again.
Settled == msgs = <<>> /\ pc[picker] \notin {"begin", "notify"}

\* The picker closes and leaves its result to the main screen.
CloseWith(mac) ==
  /\ open' = FALSE
  /\ deviceMac' = mac
  /\ calm' = (calm /\ Settled)
  /\ UNCHANGED <<picker, dialog, rows, msgs, lists, scanVars, crashed>>

\* onListItemClick(): the row gives the position, the list the device.
OnListItemClick(pos) ==
  /\ open /\ ~ dialog
  /\ pos <= Len(rows) /\ pos <= Len(btDevices)
  /\ tapped' = rows[pos]
  /\ CloseWith(btDevices[pos])

\* Mutant: the dialog can be cancelled, and a second Back closes the picker.
BackThroughDialog == open /\ CloseWith(NoDevice) /\ UNCHANGED tapped

OnBackPressed == open /\ ~ dialog /\ CloseWith(NoDevice) /\ UNCHANGED tapped

Shows(p) == open /\ picker = p

\* The messages 1, 0 and 2, the last of which lays out list.  A dialog of a picker
\* that is gone cannot be shown, and dismissing it may throw; its list is on no
\* screen.
HandleWith(list) ==
  /\ msgs # <<>>
  /\ msgs' = Tail(msgs)
  /\ LET m == Head(msgs)
     IN  \/ /\ Shows(m.picker) /\ m.what \in {"show", "dismiss"}
            /\ dialog' = (m.what = "show")
            /\ UNCHANGED <<rows, crashed>>
         \/ /\ Shows(m.picker) /\ m.what = "update"
            /\ rows' = list
            /\ UNCHANGED <<dialog, crashed>>
         \/ /\ ~ Shows(m.picker)
            /\ crashed' \in {FALSE, m.what # "update"}
            /\ UNCHANGED <<dialog, rows>>
  /\ UNCHANGED <<picker, open, deviceMac, lists, scanVars, auxVars>>

\* Mutant: message 2 does not tell the adapter.
HandleNoUpdate == HandleWith(rows)

HandleMessage == HandleWith(btDevices)

-----------------------------------------------------------------------------
(***************************************************************************)
(* The scan thread of picker s                                             *)
(***************************************************************************)

Send(s, what) == msgs' = Append(msgs, [picker |-> s, what |-> what])
Goto(s, to)   == pc' = [pc EXCEPT ![s] = to]

\* The adapter refuses an inquiry while another one is active.
BeginScan(s) ==
  /\ pc[s] = "begin"
  /\ Goto(s, IF \E t \in Pickers : pc[t] = "inquiry" THEN "refused" ELSE "inquiry")
  /\ Send(s, "show")
  /\ UNCHANGED <<uiVars, lists, addrs, at, stale, crashed, auxVars>>

InquiryDone(s) ==
  /\ pc[s] = "inquiry" /\ Goto(s, "clear")
  /\ btDeviceAddresses' \in Found
  /\ UNCHANGED <<uiVars, msgs, btDevices, addrs, at, stale, crashed, auxVars>>

\* Mutant: the catch block only returns.
FailsSilently(s) ==
  /\ pc[s] \in {"inquiry", "refused"} /\ Goto(s, "done")
  /\ UNCHANGED <<uiVars, msgs, lists, addrs, at, stale, crashed, auxVars>>

\* "inquiry already active"
InquiryFails(s) ==
  /\ pc[s] \in {"inquiry", "refused"} /\ Goto(s, "done")
  /\ Send(s, "dismiss")
  /\ UNCHANGED <<uiVars, lists, addrs, at, stale, crashed, auxVars>>

\* A change of the list invalidates the iterators of the other threads.
ChangeList(s, list) ==
  /\ btDevices' = list
  /\ stale' = [t \in Pickers |-> stale[t] \/ (pc[t] = "names" /\ t # s)]

ClearTo(s, list) ==
  /\ pc[s] = "clear" /\ Goto(s, "loop")
  /\ ChangeList(s, list)
  /\ UNCHANGED <<uiVars, msgs, btDeviceAddresses, addrs, at, crashed, auxVars>>

\* Mutant: the list is not cleared.
ClearNot(s) == ClearTo(s, btDevices)

ClearList(s) == ClearTo(s, <<>>)

\* for (... : btDeviceAddresses) reads the field once.
LoadAddresses(s) ==
  /\ pc[s] = "loop" /\ Goto(s, "add")
  /\ addrs' = [addrs EXCEPT ![s] = btDeviceAddresses]
  /\ at' = [at EXCEPT ![s] = 1]
  /\ UNCHANGED <<uiVars, msgs, lists, stale, crashed, auxVars>>

AddDevice(s) ==
  /\ pc[s] = "add" /\ at[s] <= Len(addrs[s])
  /\ ChangeList(s, Append(btDevices, addrs[s][at[s]]))
  /\ at' = [at EXCEPT ![s] = @ + 1]
  /\ UNCHANGED <<uiVars, msgs, btDeviceAddresses, pc, addrs, crashed, auxVars>>

\* for (... : btDevices) makes an iterator.
BeginNames(s) ==
  /\ pc[s] = "add" /\ at[s] > Len(addrs[s])
  /\ Goto(s, "names")
  /\ addrs' = [addrs EXCEPT ![s] = <<>>] /\ at' = [at EXCEPT ![s] = 1]
  /\ stale' = [stale EXCEPT ![s] = FALSE]
  /\ UNCHANGED <<uiVars, msgs, lists, crashed, auxVars>>

\* Mutant: the end of the list is not looked for.
NextPastEnd(s) ==
  /\ pc[s] = "names" /\ ~ stale[s]
  /\ at' = [at EXCEPT ![s] = @ + 1]
  /\ UNCHANGED <<uiVars, msgs, lists, pc, addrs, stale, crashed, auxVars>>

\* next() throws ConcurrentModificationException on a list another thread changed;
\* nothing catches it.  btDeviceGetName() changes only the device.
NextName(s) ==
  /\ pc[s] = "names" /\ at[s] # Len(btDevices) + 1
  /\ IF stale[s] THEN crashed' = TRUE /\ UNCHANGED at
                 ELSE at' = [at EXCEPT ![s] = @ + 1] /\ UNCHANGED crashed
  /\ UNCHANGED <<uiVars, msgs, lists, pc, addrs, stale, auxVars>>

EndNames(s) ==
  /\ pc[s] = "names" /\ at[s] = Len(btDevices) + 1 /\ Goto(s, "notify")
  /\ Send(s, "dismiss")
  /\ at' = [at EXCEPT ![s] = 1] /\ stale' = [stale EXCEPT ![s] = FALSE]
  /\ UNCHANGED <<uiVars, lists, addrs, crashed, auxVars>>

NotifyUpdate(s) ==
  /\ pc[s] = "notify" /\ Goto(s, "done")
  /\ Send(s, "update")
  /\ UNCHANGED <<uiVars, lists, addrs, at, stale, crashed, auxVars>>

-----------------------------------------------------------------------------
User    == PickDevice \/ OnBackPressed
             \/ \E pos \in 1 .. Len(rows) : OnListItemClick(pos)
Scan(s) == BeginScan(s) \/ InquiryDone(s) \/ InquiryFails(s) \/ ClearList(s)
             \/ LoadAddresses(s) \/ AddDevice(s) \/ BeginNames(s) \/ NextName(s)
             \/ EndNames(s) \/ NotifyUpdate(s)

\* After an uncaught exception nothing happens any more.
Next == ~ crashed /\ (User \/ Recreate \/ HandleMessage \/ \E s \in Pickers : Scan(s))
Spec == Init /\ [][Next]_vars

\* The UI thread handles its messages, the scan threads run, and an inquiry ends.
FairSpec ==
  /\ Spec
  /\ WF_vars(~ crashed /\ HandleMessage)
  /\ \A s \in Pickers : WF_vars(~ crashed /\ Scan(s))
-----------------------------------------------------------------------------
Scanning == \E s \in Pickers : pc[s] \notin {"none", "done"}

\* The device taken over for the connection is the one in the row that was
\* tapped, though onListItemClick() looks it up in a list the scan thread fills:
\* a user who is not ahead of the screen never meets a list that differs.
PickedIsShown == calm => deviceMac \in {NoDevice, tapped}

\* "Clear all bt devices than add new found", BtDevicePicker.java:138: after any
\* number of scans the rows are what the last inquiry found, in that order and
\* nothing twice.
ListAsFound == calm /\ open /\ ~ Scanning /\ msgs = <<>> => rows = btDeviceAddresses

\* The scan thread never dies in its loop over the names, nor the UI thread on the
\* dialog of a closed picker: the modal dialog keeps a second scan away.
ScanUndisturbed == calm => ~ crashed

\* The user is never locked in by a dialog that nobody will dismiss, however scans,
\* rotations and refusals overlap: the scan of this picker has its last message to
\* send, or has sent it and it waits for the UI thread.
DialogIsScan ==
  dialog => \/ pc[picker] \in {"inquiry", "refused", "clear", "loop", "add", "names"}
            \/ \E i \in DOMAIN msgs : msgs[i] = [picker |-> picker, what |-> "dismiss"]

\* The dialog, which the user cannot cancel, goes away in the end, whether the
\* inquiry finds something or is refused, and however scans overlap.
DialogGoes == dialog ~> (~ dialog \/ crashed)
=============================================================================
