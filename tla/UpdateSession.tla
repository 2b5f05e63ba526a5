---------------------------- MODULE UpdateSession ----------------------------
(***************************************************************************)
(* What the main screen promises while nothing unexpected happens.         *)
(* Updates come one after the other, and Start and Back work only between  *)
(* them.  Each comes to a verdict; the screen is told that verdict, once,  *)
(* before Start and Back work again, and shows what it is told in order.   *)
(* There is no log here, and no thread.                                    *)
(***************************************************************************)
EXTENDS Naturals, Sequences

VARIABLES
  screen, open,    \* the instance of the screen, and whether it is in front
  phase, verdict,  \* of the last update
  posted, text     \* what screens were told and have yet to show; what is shown

vars == <<screen, open, phase, verdict, posted, text>>

Init ==
  /\ screen = 1 /\ open = TRUE
  /\ phase = "idle" /\ verdict = ""
  /\ posted = <<>> /\ text = ""

Begin ==
  /\ open /\ phase = "idle"
  /\ phase' = "running" /\ verdict' = "" /\ text' = ""
  /\ UNCHANGED <<screen, open, posted>>

Conclude ==
  /\ phase = "running"
  /\ phase' = "ended" /\ verdict' \in {"Fail", "Success"}
  /\ UNCHANGED <<screen, open, posted, text>>

Tell ==
  /\ phase = "ended" /\ phase' = "told"
  /\ posted' = Append(posted, [screen |-> screen, text |-> verdict])
  /\ UNCHANGED <<screen, open, verdict, text>>

Release ==
  /\ phase = "told" /\ phase' = "idle"
  /\ UNCHANGED <<screen, open, verdict, posted, text>>

\* What an earlier instance was told is not shown by a later one.
Show ==
  /\ posted # <<>> /\ posted' = Tail(posted)
  /\ text' = IF Head(posted).screen = screen THEN Head(posted).text ELSE text
  /\ UNCHANGED <<screen, open, phase, verdict>>

Wipe ==
  /\ open /\ text' = ""
  /\ UNCHANGED <<screen, open, phase, verdict, posted>>

Leave ==
  /\ open /\ phase = "idle" /\ open' = FALSE
  /\ UNCHANGED <<screen, phase, verdict, posted, text>>

Return ==
  /\ ~ open /\ open' = TRUE
  /\ screen' = screen + 1 /\ text' = ""
  /\ UNCHANGED <<phase, verdict, posted>>

Next == Begin \/ Conclude \/ Tell \/ Release \/ Show \/ Wipe \/ Leave \/ Return
Spec == Init /\ [][Next]_vars
=============================================================================
