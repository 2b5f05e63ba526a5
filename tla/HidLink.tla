------------------------------- MODULE HidLink -------------------------------
(***************************************************************************)
(* Connecting to and disconnecting from the remote control: the native     *)
(* calls connectToHost() and deconnectClient() (jni/androhid.c) with       *)
(* reconnect(), do_connect(), l2cap_connect() and quit_serv()              *)
(* (jni/hidserv.c), and the descriptor table of the process they work on.  *)
(*                                                                         *)
(* Every click on Connect makes a new Java thread that calls               *)
(* connectToHost(); Disconnect calls deconnectClient() on the UI thread,   *)
(* and an update ends with the same quit_serv().  The calls share the      *)
(* globals ctrl, intr and connection_status without a lock, and the        *)
(* descriptor numbers with every other open() of the process.              *)
(***************************************************************************)
EXTENDS Integers, Sequences, FiniteSetsExt

CONSTANTS
  Threads,     \* the threads that enter the library
  MaxFd,       \* bound, per use: the descriptor numbers are 0 .. MaxFd[use]
  MaxCalls,    \* bound: calls of connectToHost()
  Uses,        \* how the buttons are used, see Clicks
  None         \* the call a descriptor of other code belongs to

ASSUME ThreadsAssumption == Threads # {}
ASSUME UsesAssumption    == Uses \subseteq {"connects", "orderly", "again"}
ASSUME BoundsAssumption  == MaxFd \in [Uses -> Nat] /\ MaxCalls \in Nat
ASSUME NoneAssumption    == None \notin Nat

Fds     == 0 .. Max({MaxFd[u] : u \in Uses})
Calls   == 1 .. MaxCalls
BtKinds == {"hidp", "ctrl", "intr"}   \* HIDP control socket, the two channels
Free    == [kind |-> "free", call |-> None]
File    == [kind |-> "file", call |-> None]
Objects == {Free, File} \cup [kind : BtKinds, call : Calls]
IsBt(o) == o.kind \in BtKinds

VARIABLES
  table,                          \* what each descriptor number stands for
  ctrl, intr, connection_status,  \* globals of hidserv.c
  pc, call, ctl, csk, isk,        \* per thread: do_connect() and its sockets
  closing,                        \* per thread: the close() calls to come
  use,                            \* auxiliary: one of Uses; calls of
  calls, made, up, ending         \* connectToHost() so far, those that connected,
                                  \* the one connected now, and per thread the one
                                  \* its quit_serv() is to end

locals  == <<call, ctl, csk, isk>>
globals == <<ctrl, intr, connection_status>>
aux     == <<use, calls, made, up, ending>>
vars    == <<table, globals, pc, locals, closing, aux>>

\* The listening sockets of the disabled server: globals nobody assigns.
csg == 0
isg == 0

Pcs == {"idle", "csk_socket", "csk_connect", "isk_socket", "isk_connect",
        "ctrl_set", "intr_set", "status", "undo",
        "stopped", "quit_ctrl", "quit_intr", "quit_csg", "quit_isg"}

TypeOK ==
  /\ table \in [Fds -> Objects]
  /\ ctrl \in Fds /\ intr \in Fds /\ connection_status \in {0, 1}
  /\ pc \in [Threads -> Pcs]
  /\ call \in [Threads -> {None} \cup Calls]
  /\ ctl \in [Threads -> Fds] /\ csk \in [Threads -> Fds] /\ isk \in [Threads -> Fds]
  /\ closing \in [Threads -> Seq(Fds)]
  /\ use \in Uses /\ calls \in 0 .. MaxCalls /\ made \subseteq Calls
  /\ up \in {None} \cup Calls /\ ending \in [Threads -> {None} \cup Calls]

\* Descriptor 0 is open in every process the zygote forks.
Init ==
  /\ table = [f \in Fds |-> IF f = 0 THEN File ELSE Free]
  /\ ctrl = 0 /\ intr = 0 /\ connection_status = 0
  /\ pc = [t \in Threads |-> "idle"]
  /\ call = [t \in Threads |-> None]
  /\ ctl = [t \in Threads |-> 0] /\ csk = ctl /\ isk = ctl
  /\ closing = [t \in Threads |-> <<>>]
  /\ use \in Uses /\ calls = 0 /\ made = {} /\ up = None
  /\ ending = [t \in Threads |-> None]

-----------------------------------------------------------------------------
\* open() and socket() give the lowest free number, close() of a number that is
\* not open does nothing.
FreeFds    == {f \in 0 .. MaxFd[use] : table[f] = Free}
Lowest     == Min(FreeFds)
Opens(o)   == FreeFds # {} /\ table' = [table EXCEPT ![Lowest] = o]
Closes(fd) == table' = [table EXCEPT ![fd] = Free]

Goto(t, label) == pc' = [pc EXCEPT ![t] = label]

\* The return from connectToHost(), with 0 in any case: the locals are gone.
Return(t) ==
  /\ Goto(t, "idle")
  /\ call' = [call EXCEPT ![t] = None]
  /\ ctl' = [ctl EXCEPT ![t] = 0] /\ csk' = [csk EXCEPT ![t] = 0]
  /\ isk' = [isk EXCEPT ![t] = 0]

\* reconnect(): the HIDP control socket.  It returns 0 when there is none.
Reconnect(t) ==
  /\ pc[t] = "idle" /\ calls < MaxCalls
  /\ calls' = calls + 1
  /\ \/ /\ Opens([kind |-> "hidp", call |-> calls'])
        /\ ctl' = [ctl EXCEPT ![t] = Lowest]
        /\ call' = [call EXCEPT ![t] = calls']
        /\ Goto(t, "csk_socket")
     \/ UNCHANGED <<table, ctl, call, pc>>
  /\ UNCHANGED <<globals, csk, isk, closing, use, made, up, ending>>

\* Mutants of ToUndo: csk is forgotten; do_connect() closes it once more.
KeepCsk(t) ==
  CASE pc[t] = "csk_connect" -> <<csk[t], ctl[t]>>
    [] pc[t] = "isk_connect" -> <<isk[t], ctl[t]>>
    [] OTHER -> <<ctl[t]>>
CloseCskTwice(t) ==
  CASE pc[t] = "csk_connect" -> <<csk[t], csk[t], ctl[t]>>
    [] pc[t] = "isk_connect" -> <<isk[t], csk[t], ctl[t]>>
    [] OTHER -> <<ctl[t]>>

\* What is closed when l2cap_connect() fails, by itself and by do_connect().
ToUndo(t) ==
  CASE pc[t] = "csk_socket"  -> <<ctl[t]>>
    [] pc[t] = "csk_connect" -> <<csk[t], ctl[t]>>
    [] pc[t] = "isk_socket"  -> <<csk[t], ctl[t]>>
    [] pc[t] = "isk_connect" -> <<isk[t], csk[t], ctl[t]>>

ConnectFails(t) ==
  /\ pc[t] \in {"csk_socket", "csk_connect", "isk_socket", "isk_connect"}
  /\ closing' = [closing EXCEPT ![t] = ToUndo(t)]
  /\ Goto(t, "undo")
  /\ UNCHANGED <<table, globals, locals, aux>>

\* socket() and bind() of l2cap_connect() ...
CtrlSocket(t) ==
  /\ pc[t] = "csk_socket"
  /\ Opens([kind |-> "ctrl", call |-> call[t]])
  /\ csk' = [csk EXCEPT ![t] = Lowest]
  /\ Goto(t, "csk_connect")
  /\ UNCHANGED <<globals, call, ctl, isk, closing, aux>>

IntrSocket(t) ==
  /\ pc[t] = "isk_socket"
  /\ Opens([kind |-> "intr", call |-> call[t]])
  /\ isk' = [isk EXCEPT ![t] = Lowest]
  /\ Goto(t, "isk_connect")
  /\ UNCHANGED <<globals, call, ctl, csk, closing, aux>>

\* ... and its connect(), which takes seconds.
Connected(t) ==
  /\ \/ pc[t] = "csk_connect" /\ Goto(t, "isk_socket")
     \/ pc[t] = "isk_connect" /\ Goto(t, "ctrl_set")
  /\ UNCHANGED <<table, globals, locals, closing, aux>>

\* The end of do_connect(): ctrl, intr and connection_status, one by one.
SetCtrlTo(t, fd) ==
  /\ pc[t] = "ctrl_set" /\ Goto(t, "intr_set")
  /\ ctrl' = fd
  /\ UNCHANGED <<table, intr, connection_status, locals, closing, aux>>
SetIntrTo(t, fd) ==
  /\ pc[t] = "intr_set" /\ Goto(t, "status")
  /\ intr' = fd
  /\ UNCHANGED <<table, ctrl, connection_status, locals, closing, aux>>

\* Mutants: the wrong local; the error code of an l2cap_connect().
SetCtrlToCtl(t)   == SetCtrlTo(t, ctl[t])
SetCtrlToError(t) == SetCtrlTo(t, -1)
SetIntrToCsk(t)   == SetIntrTo(t, csk[t])

SetCtrl(t) == SetCtrlTo(t, csk[t])
SetIntr(t) == SetIntrTo(t, isk[t])

SetStatus(t) ==
  /\ pc[t] = "status" /\ Return(t)
  /\ connection_status' = 1
  /\ made' = made \cup {call[t]} /\ up' = call[t]
  /\ UNCHANGED <<table, ctrl, intr, closing, use, calls, ending>>

\* One close() of a call that failed; the last one is followed by return 0.
Undo(t) ==
  /\ pc[t] = "undo"
  /\ Closes(Head(closing[t]))
  /\ closing' = [closing EXCEPT ![t] = Tail(@)]
  /\ IF closing'[t] = <<>>
       THEN Return(t)
       ELSE UNCHANGED <<pc, locals>>
  /\ UNCHANGED <<globals, aux>>

\* deconnectClient() begins with quit_serv(); ota_update() has logged "OTA STOP"
\* when it comes to the same call.
EndsBy(t, label) ==
  /\ pc[t] = "idle" /\ Goto(t, label)
  /\ up' = None /\ ending' = [ending EXCEPT ![t] = up]
  /\ UNCHANGED <<table, globals, locals, closing, use, calls, made>>
Disconnect(t) == EndsBy(t, "quit_ctrl")
UpdateEnds(t) == EndsBy(t, "stopped")

CallQuit(t) ==
  /\ pc[t] = "stopped" /\ Goto(t, "quit_ctrl")
  /\ UNCHANGED <<table, globals, locals, closing, aux>>

\* quit_serv() closes what the four globals say and leaves the globals as they are.
QuitClose(t, from, fd, to) ==
  /\ pc[t] = from /\ Goto(t, to)
  /\ Closes(fd)
  /\ ending' = IF to = "idle" THEN [ending EXCEPT ![t] = None] ELSE ending
  /\ UNCHANGED <<globals, locals, closing, use, calls, made, up>>

Quit(t) ==
  \/ QuitClose(t, "quit_ctrl", ctrl, "quit_intr")
  \/ QuitClose(t, "quit_intr", intr, "quit_csg")
  \/ QuitClose(t, "quit_csg", csg, "quit_isg")
  \/ QuitClose(t, "quit_isg", isg, "idle")

\* Other code of the process opens and closes descriptors of its own (external).
\* Nobody closes 0.
OtherCode ==
  /\ \/ Opens(File)
     \/ \E f \in Fds \ {0} : table[f] = File /\ Closes(f)
  /\ UNCHANGED <<globals, pc, locals, closing, aux>>

-----------------------------------------------------------------------------
Connecting(t) == CtrlSocket(t) \/ IntrSocket(t) \/ Connected(t) \/ ConnectFails(t)
                   \/ SetCtrl(t) \/ SetIntr(t) \/ SetStatus(t) \/ Undo(t)

Alone(t) == \A u \in Threads \ {t} :
              pc[u] \in {"idle"} \cup (IF use = "again" THEN {"stopped"} ELSE {})

\* A call begins.  "connects": Connect again and again, by any thread at any time;
\* "orderly": one call at a time, Connect when nothing is connected and one
\* Disconnect, or one end of an update, for each connection; "again": Disconnect
\* at any time between calls, and Connect when an update has logged its end.
Clicks(t) ==
  \/ /\ use = "connects" \/ (Alone(t) /\ up = None)
     /\ Reconnect(t)
  \/ /\ use # "connects" /\ Alone(t) /\ (use = "orderly" => up # None)
     /\ Disconnect(t) \/ UpdateEnds(t)

Next == OtherCode \/ \E t \in Threads : Clicks(t) \/ Connecting(t)
                                          \/ CallQuit(t) \/ Quit(t)
Spec == Init /\ [][Next]_vars
-----------------------------------------------------------------------------
\* However connects overlap and fail, the globals ota_update() and hidRead() use
\* stay what they are for: a failing connect closes no channel of another one,
\* and no number is handed on after it was closed.
GlobalsLive ==
  use = "connects" => /\ ctrl # 0 => table[ctrl].kind = "ctrl"
                      /\ intr # 0 => table[intr].kind = "intr"

\* A connect that failed leaves no socket behind: every Bluetooth socket belongs
\* to a call under way or to one that connected.
FailureLeavesNothing ==
  use = "connects" => \A f \in Fds : IsBt(table[f]) =>
    \/ table[f].call \in made
    \/ \E t \in Threads : pc[t] # "idle" /\ call[t] = table[f].call

\* Between an orderly connect and its disconnect, ctrl and intr are the two
\* channels of the same connection, in every later session as in the first, when
\* quit_serv() has closed descriptor 0 and its number has been given out again.
SessionIntact ==
  (use = "orderly" /\ up # None) => /\ table[ctrl] = [kind |-> "ctrl", call |-> up]
                                    /\ table[intr] = [kind |-> "intr", call |-> up]

\* In orderly use the library closes no descriptor of other code but number 0.
ForeignKept ==
  [][(use = "orderly" /\ ~ OtherCode) =>
       \A f \in Fds \ {0} : table[f] = File => table'[f] = File]_vars

\* "Finish bt sockets", androhid.c:59: quit_serv() closes sockets of the connection
\* that was up when it was called, and nothing else.  (0 is left aside)
QuitClosesOwn ==
  [][\A t \in Threads, f \in Fds \ {0} :
       (Quit(t) /\ table'[f] # table[f]) =>
         IsBt(table[f]) /\ table[f].call = ending[t]]_vars
=============================================================================
