----------------------------- MODULE StopAndWait -----------------------------
(***************************************************************************)
(* What the retry logic of ota_update() and hidRead() promises: a          *)
(* stop-and-wait transfer.  Command cur is on the wire, put there copies   *)
(* times; the next one follows only when the device has accepted it; after *)
(* three copies the transfer is given up; success is reported only after   *)
(* the device has concluded the update.                                    *)
(***************************************************************************)
EXTENDS Naturals

CONSTANT Last      \* the number of commands
VARIABLES cur, copies, acked, concluded, result

vars == <<cur, copies, acked, concluded, result>>

Init ==
  /\ cur = 0 /\ copies = 0
  /\ acked = {} /\ concluded = {}
  /\ result = "none"

Transmit ==
  /\ result = "none" /\ cur < Last
  /\ cur = 0 \/ cur \in acked
  /\ cur' = cur + 1 /\ copies' = 1
  /\ UNCHANGED <<acked, concluded, result>>

Retransmit ==
  /\ result = "none" /\ copies \in {1, 2}
  /\ copies' = copies + 1
  /\ UNCHANGED <<cur, acked, concluded, result>>

\* The device answers the command on the wire, and no other.
Answer ==
  /\ cur > 0
  /\ acked' \in {acked, acked \cup {cur}}
  /\ concluded' \in {concluded, concluded \cup {cur}}
  /\ UNCHANGED <<cur, copies, result>>

Succeed ==
  /\ result = "none" /\ cur \in concluded
  /\ result' = "success"
  /\ UNCHANGED <<cur, copies, acked, concluded>>

Fail ==
  /\ result = "none"
  /\ result' = "fail"
  /\ UNCHANGED <<cur, copies, acked, concluded>>

Next == Transmit \/ Retransmit \/ Answer \/ Succeed \/ Fail
Spec == Init /\ [][Next]_vars
=============================================================================
