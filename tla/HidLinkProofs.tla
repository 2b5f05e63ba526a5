---------------------------- MODULE HidLinkProofs ----------------------------
(***************************************************************************)
(* Theorems about HidLink, for any number of threads, descriptors and      *)
(* calls, and any mixture of uses: what the calls own in the descriptor    *)
(* table while they overlap, fail and follow one another.                  *)
(***************************************************************************)
EXTENDS HidLink, WellFoundedInduction, TLAPS

\* The labels of do_connect() at which it has the HIDP socket, the control and
\* the interrupt channel.
HasCtl == {"csk_socket", "csk_connect", "isk_socket", "isk_connect", "ctrl_set", "intr_set", "status"}
HasCsk == HasCtl \ {"csk_socket"}
HasIsk == {"isk_connect", "ctrl_set", "intr_set", "status"}
Quits  == {"stopped", "quit_ctrl", "quit_intr", "quit_csg", "quit_isg"}

\* A thread has a call of connectToHost() exactly while it is in one.
Phases ==
  \A t \in Threads : /\ call[t] # None <=> pc[t] \in HasCtl \cup {"undo"}
                     /\ pc[t] = "undo" => closing[t] # <<>>

\* Every call has its own number, which its sockets bear.
Numbers ==
  /\ \A t \in Threads : call[t] # None => call[t] <= calls /\ call[t] \notin made
  /\ \A t, u \in Threads : call[t] # None /\ call[t] = call[u] => t = u
  /\ \A f \in Fds : IsBt(table[f]) => table[f].call <= calls
  /\ \A n \in made : n <= calls

\* A call under way has the sockets its locals, or its close() calls to come, name ...
Owns(t) ==
  /\ pc[t] \in HasCtl => table[ctl[t]] = [kind |-> "hidp", call |-> call[t]]
  /\ pc[t] \in HasCsk => table[csk[t]] = [kind |-> "ctrl", call |-> call[t]]
  /\ pc[t] \in HasIsk => table[isk[t]] = [kind |-> "intr", call |-> call[t]]
  /\ pc[t] = "undo" =>
       /\ \A i \in 1 .. Len(closing[t]) : /\ IsBt(table[closing[t][i]])
                                          /\ table[closing[t][i]].call = call[t]
       /\ \A i, j \in 1 .. Len(closing[t]) : closing[t][i] = closing[t][j] => i = j
Owned == \A t \in Threads : Owns(t)

\* ... and no other.
Named(t) == {f \in Fds : \/ pc[t] \in HasCtl /\ f = ctl[t]
                         \/ pc[t] \in HasCsk /\ f = csk[t]
                         \/ pc[t] \in HasIsk /\ f = isk[t]
                         \/ pc[t] = "undo" /\ \E i \in 1 .. Len(closing[t]) : f = closing[t][i]}
NoOther ==
  \A f \in Fds : IsBt(table[f]) =>
    \/ table[f].call \in made
    \/ \E t \in Threads : call[t] = table[f].call /\ f \in Named(t)

\* Connects only: nobody quits, and the globals belong to a call that connected
\* or is about to.
Settled(n, labels) == n \in made \/ \E t \in Threads : pc[t] \in labels /\ call[t] = n
Connects ==
  use = "connects" =>
    /\ \A t \in Threads : pc[t] \notin Quits
    /\ ctrl # 0 => table[ctrl].kind = "ctrl" /\ Settled(table[ctrl].call, {"intr_set", "status"})
    /\ intr # 0 => table[intr].kind = "intr" /\ Settled(table[intr].call, {"status"})

\* Orderly use: one call at a time, whose channels the globals name.
Session(n) == /\ table[ctrl] = [kind |-> "ctrl", call |-> n]
              /\ table[intr] = [kind |-> "intr", call |-> n]
Orderly ==
  use = "orderly" =>
    /\ \A t, u \in Threads : pc[t] # "idle" /\ pc[u] # "idle" => t = u
    /\ up # None => Session(up) /\ \A t \in Threads : pc[t] = "idle"
    /\ \A t \in Threads :
         /\ pc[t] \in {"intr_set", "status"} => ctrl = csk[t]
         /\ pc[t] = "status" => intr = isk[t]
         /\ pc[t] \in {"stopped", "quit_ctrl"} => Session(ending[t])
         /\ pc[t] = "quit_intr" => table[intr] = [kind |-> "intr", call |-> ending[t]]

Ownership == use # "again" => Numbers /\ Owned /\ NoOther /\ Connects /\ Orderly
HidInv    == TypeOK /\ Phases /\ Ownership

(***************************************************************************)
(* Descriptor numbers                                                      *)
(***************************************************************************)

\* open() has a number to give while one is free: a set of numbers has a least.
LEMMA MinOfNaturals ==
  ASSUME NEW S \in SUBSET Nat, S # {}
  PROVE  Min(S) \in S
<1> DEFINE R == OpToRel(<, Nat)
<1>1. \E x \in S : \A y \in S : ~ (<<y, x>> \in R)
  <2>1. IsWellFoundedOn(R, Nat)
    BY NatLessThanWellFounded
  <2> HIDE DEF R
  <2> QED
    BY <2>1, WFMin
<1>2. \A x, y \in Nat : ~ (<<y, x>> \in R) => x <= y
  BY DEF OpToRel
<1> HIDE DEF R
<1>3. \E x \in S : \A y \in S : x <= y
  BY <1>1, <1>2
<1> QED
  BY <1>3 DEF Min

\* The largest of the bounds bounds them all: there are three uses at most.
LEMMA FdsBound ==
  ASSUME NEW u \in Uses
  PROVE  0 .. MaxFd[u] \subseteq Fds /\ 0 \in Fds /\ Fds \subseteq Nat
<1> DEFINE B == {MaxFd[v] : v \in Uses}
<1>1. \A v \in Uses : MaxFd[v] \in Nat
  BY BoundsAssumption
<1>2. \E w \in Uses : \A v \in Uses : MaxFd[w] >= MaxFd[v]
  <2> DEFINE Tops(T) == \E w \in Uses \cap T : \A v \in Uses \cap T : MaxFd[w] >= MaxFd[v]
  <2>1. \A T : \A x \in Uses : Tops(T) => Tops(T \cup {x})
    <3> SUFFICES ASSUME NEW T, NEW x \in Uses, Tops(T) PROVE Tops(T \cup {x})
      OBVIOUS
    <3>1. PICK w \in Uses \cap T : \A v \in Uses \cap T : MaxFd[w] >= MaxFd[v]
      OBVIOUS
    <3>2. CASE MaxFd[w] >= MaxFd[x]
      BY <3>1, <3>2
    <3>3. CASE ~ (MaxFd[w] >= MaxFd[x])
      <4>1. \A v \in Uses \cap (T \cup {x}) : MaxFd[x] >= MaxFd[v]
        BY <1>1, <3>1, <3>3
      <4> QED
        BY <4>1
    <3> QED
      BY <3>2, <3>3
  <2>2. Tops({u})
    BY <1>1
  <2> HIDE DEF Tops
  <2>3. \A T, x : Tops(T) /\ x \notin Uses => Tops(T \cup {x})
    BY DEF Tops
  <2>4. Tops({u} \cup {"connects"} \cup {"orderly"} \cup {"again"})
    BY <2>1, <2>2, <2>3
  <2>5. Uses \cap ({u} \cup {"connects"} \cup {"orderly"} \cup {"again"}) = Uses
    BY UsesAssumption
  <2> QED
    BY <2>4, <2>5 DEF Tops
<1>3. \E m \in B : \A b \in B : m >= b
  BY <1>2
<1>4. Max(B) \in B /\ \A b \in B : Max(B) >= b
  BY <1>3 DEF Max
<1>5. MaxFd[u] \in B /\ B \subseteq Nat
  BY <1>1
<1>6. Fds = 0 .. Max(B)
  BY DEF Fds
<1> HIDE DEF B
<1>7. MaxFd[u] \in Nat /\ Max(B) \in Nat /\ MaxFd[u] <= Max(B)
  BY <1>1, <1>4, <1>5
<1> QED
  BY <1>6, <1>7

LEMMA LowestIsFree ==
  ASSUME TypeOK, FreeFds # {}
  PROVE  Lowest \in Fds /\ table[Lowest] = Free
<1>1. use \in Uses
  BY DEF TypeOK
<1>2. FreeFds \subseteq Fds /\ FreeFds \subseteq Nat
  BY <1>1, FdsBound DEF FreeFds
<1>3. Lowest \in FreeFds
  BY <1>2, MinOfNaturals DEF Lowest
<1> QED
  BY <1>2, <1>3 DEF FreeFds

(***************************************************************************)
(* Type correctness, for every use                                         *)
(***************************************************************************)

LEMMA ZeroInFds == TypeOK => 0 \in Fds
  BY FdsBound DEF TypeOK

LEMMA TypeInit == Init => TypeOK /\ Phases
<1> SUFFICES ASSUME Init PROVE TypeOK /\ Phases
  OBVIOUS
<1>1. 0 \in Fds
  BY FdsBound DEF Init
<1>2. File \in Objects /\ Free \in Objects
  BY DEF Objects
<1>3. table \in [Fds -> Objects]
  BY <1>2 DEF Init
<1>4. closing \in [Threads -> Seq(Fds)]
  BY DEF Init
<1>5. calls \in 0 .. MaxCalls
  BY BoundsAssumption DEF Init
<1> QED
  BY <1>1, <1>3, <1>4, <1>5 DEF Init, TypeOK, Phases, Pcs, HasCtl

\* What open() and close() do to the table.
LEMMA OpensType ==
  ASSUME TypeOK, NEW o \in Objects, Opens(o)
  PROVE  table' \in [Fds -> Objects] /\ Lowest \in Fds /\ table[Lowest] = Free
         /\ table' = [table EXCEPT ![Lowest] = o]
  BY LowestIsFree DEF Opens, TypeOK

LEMMA ClosesType ==
  ASSUME TypeOK, NEW f \in Fds, Closes(f)
  PROVE  table' \in [Fds -> Objects]
<1>1. Free \in Objects
  BY DEF Objects
<1> QED
  BY <1>1 DEF Closes, TypeOK

\* The close() calls of a connect that fails.
LEMMA UndoType ==
  ASSUME TypeOK, NEW t \in Threads,
         pc[t] \in {"csk_socket", "csk_connect", "isk_socket", "isk_connect"}
  PROVE  ToUndo(t) \in Seq(Fds) /\ ToUndo(t) # <<>>
<1>1. ctl[t] \in Fds /\ csk[t] \in Fds /\ isk[t] \in Fds
  BY DEF TypeOK
<1>2. CASE pc[t] = "csk_socket"
  BY <1>1, <1>2 DEF ToUndo
<1>3. CASE pc[t] = "csk_connect"
  BY <1>1, <1>3 DEF ToUndo
<1>4. CASE pc[t] = "isk_socket"
  BY <1>1, <1>4 DEF ToUndo
<1>5. CASE pc[t] = "isk_connect"
  BY <1>1, <1>5 DEF ToUndo
<1> QED
  BY <1>2, <1>3, <1>4, <1>5

LEMMA TypeStep == TypeOK /\ Phases /\ [Next]_vars => TypeOK' /\ Phases'
<1> SUFFICES ASSUME TypeOK, Phases, [Next]_vars PROVE TypeOK' /\ Phases'
  OBVIOUS
<1>z. 0 \in Fds /\ None \notin Calls
  BY ZeroInFds, NoneAssumption DEF Calls
<1> DEFINE Globals == /\ ctrl \in Fds /\ intr \in Fds /\ connection_status \in {0, 1}
           Locals  == /\ call \in [Threads -> {None} \cup Calls]
                      /\ ctl \in [Threads -> Fds] /\ csk \in [Threads -> Fds] /\ isk \in [Threads -> Fds]
           Aux     == /\ use \in Uses /\ calls \in 0 .. MaxCalls /\ made \subseteq Calls
                      /\ up \in {None} \cup Calls /\ ending \in [Threads -> {None} \cup Calls]
<1>d. /\ table \in [Fds -> Objects] /\ pc \in [Threads -> Pcs] /\ closing \in [Threads -> Seq(Fds)]
      /\ Globals /\ Locals /\ Aux
  BY DEF TypeOK
<1>g. /\ table' \in [Fds -> Objects] /\ pc' \in [Threads -> Pcs] /\ closing' \in [Threads -> Seq(Fds)]
      /\ Globals' /\ Locals' /\ Aux'
      => TypeOK'
  BY DEF TypeOK
<1> USE DEF Goto
<1>1. CASE OtherCode
  <2>1. table' \in [Fds -> Objects]
    <3>1. File \in Objects
      BY DEF Objects
    <3> QED
      BY <1>1, <3>1, OpensType, ClosesType DEF OtherCode
  <2> QED
    BY <1>1, <1>d, <1>g, <2>1 DEF OtherCode, globals, locals, aux, Phases
<1>2. ASSUME NEW t \in Threads, Reconnect(t) PROVE TypeOK' /\ Phases'
  <2>1. calls' \in Calls /\ calls' = calls + 1 /\ pc[t] = "idle" /\ calls' \in 0 .. MaxCalls
    BY <1>2, <1>d, BoundsAssumption DEF Reconnect, Calls
  <2>2. CASE UNCHANGED <<table, ctl, call, pc>>
    BY <1>2, <1>d, <1>g, <2>1, <2>2 DEF Reconnect, globals, Phases
  <2>3. CASE /\ Opens([kind |-> "hidp", call |-> calls'])
             /\ ctl' = [ctl EXCEPT ![t] = Lowest] /\ call' = [call EXCEPT ![t] = calls']
             /\ pc' = [pc EXCEPT ![t] = "csk_socket"]
    <3>1. [kind |-> "hidp", call |-> calls'] \in Objects
      BY <2>1 DEF Objects, BtKinds
    <3>2. table' \in [Fds -> Objects] /\ Lowest \in Fds
      BY <2>3, <3>1, OpensType
    <3> QED
      BY <1>2, <1>d, <1>g, <1>z, <2>1, <2>3, <3>2 DEF Reconnect, globals, Phases, Pcs, HasCtl
  <2> QED
    BY <1>2, <2>2, <2>3 DEF Reconnect
<1>3. ASSUME NEW t \in Threads, CtrlSocket(t) PROVE TypeOK' /\ Phases'
  <2>1. [kind |-> "ctrl", call |-> call[t]] \in Objects
    BY <1>3, <1>d DEF CtrlSocket, Phases, HasCtl, Objects, BtKinds
  <2>2. table' \in [Fds -> Objects] /\ Lowest \in Fds
    BY <1>3, <2>1, OpensType DEF CtrlSocket
  <2> QED
    BY <1>3, <1>d, <1>g, <2>2 DEF CtrlSocket, globals, aux, Phases, Pcs, HasCtl
<1>4. ASSUME NEW t \in Threads, IntrSocket(t) PROVE TypeOK' /\ Phases'
  <2>1. [kind |-> "intr", call |-> call[t]] \in Objects
    BY <1>4, <1>d DEF IntrSocket, Phases, HasCtl, Objects, BtKinds
  <2>2. table' \in [Fds -> Objects] /\ Lowest \in Fds
    BY <1>4, <2>1, OpensType DEF IntrSocket
  <2> QED
    BY <1>4, <1>d, <1>g, <2>2 DEF IntrSocket, globals, aux, Phases, Pcs, HasCtl
<1>5. ASSUME NEW t \in Threads, Connected(t) PROVE TypeOK' /\ Phases'
  BY <1>5, <1>d, <1>g DEF Connected, globals, locals, aux, Phases, Pcs, HasCtl
<1>6. ASSUME NEW t \in Threads, ConnectFails(t) PROVE TypeOK' /\ Phases'
  <2>1. ToUndo(t) \in Seq(Fds) /\ ToUndo(t) # <<>>
    BY <1>6, UndoType DEF ConnectFails
  <2> QED
    BY <1>6, <1>d, <1>g, <2>1 DEF ConnectFails, globals, locals, aux, Phases, Pcs, HasCtl
<1>7. ASSUME NEW t \in Threads, SetCtrl(t) \/ SetIntr(t) PROVE TypeOK' /\ Phases'
  BY <1>7, <1>d, <1>g DEF SetCtrl, SetIntr, SetCtrlTo, SetIntrTo, locals, aux, Phases, Pcs, HasCtl
<1>r. ASSUME NEW t \in Threads, Return(t), closing' \in [Threads -> Seq(Fds)],
             \A u \in Threads \ {t} : closing'[u] = closing[u]
      PROVE  Locals' /\ pc' \in [Threads -> Pcs] /\ Phases'
  BY <1>r, <1>d, <1>z DEF Return, Phases, Pcs, HasCtl
<1>8. ASSUME NEW t \in Threads, SetStatus(t) PROVE TypeOK' /\ Phases'
  <2>1. call[t] \in Calls
    BY <1>8, <1>d DEF SetStatus, Phases, HasCtl
  <2> QED
    BY <1>8, <1>d, <1>g, <1>r, <2>1 DEF SetStatus
<1>9. ASSUME NEW t \in Threads, Undo(t) PROVE TypeOK' /\ Phases'
  <2>1. Head(closing[t]) \in Fds /\ Tail(closing[t]) \in Seq(Fds)
    BY <1>9, <1>d DEF Undo, Phases
  <2>2. table' \in [Fds -> Objects]
    BY <1>9, <2>1, ClosesType DEF Undo
  <2>3. closing' \in [Threads -> Seq(Fds)] /\ \A u \in Threads \ {t} : closing'[u] = closing[u]
    BY <1>9, <1>d, <2>1 DEF Undo
  <2>4. Globals' /\ Aux'
    BY <1>9, <1>d DEF Undo, globals, aux
  <2>5. CASE Return(t)
    BY <1>d, <1>g, <1>r, <2>2, <2>3, <2>4, <2>5
  <2>6. CASE closing'[t] # <<>> /\ UNCHANGED <<pc, locals>>
    BY <1>d, <1>g, <2>2, <2>3, <2>4, <2>6 DEF locals, Phases
  <2> QED
    BY <1>9, <2>5, <2>6 DEF Undo
<1>10. ASSUME NEW t \in Threads, Disconnect(t) \/ UpdateEnds(t) PROVE TypeOK' /\ Phases'
  BY <1>10, <1>d, <1>g DEF Disconnect, UpdateEnds, EndsBy, globals, locals, Phases, Pcs, HasCtl
<1>11. ASSUME NEW t \in Threads, CallQuit(t) PROVE TypeOK' /\ Phases'
  BY <1>11, <1>d, <1>g DEF CallQuit, globals, locals, aux, Phases, Pcs, HasCtl
<1>12. ASSUME NEW t \in Threads, NEW from \in Quits, NEW fd \in Fds, NEW to \in Quits \cup {"idle"},
              QuitClose(t, from, fd, to)
       PROVE  TypeOK' /\ Phases'
  <2>1. table' \in [Fds -> Objects]
    BY <1>12, ClosesType DEF QuitClose
  <2>2. Aux'
    BY <1>12, <1>d DEF QuitClose
  <2> QED
    BY <1>12, <1>d, <1>g, <2>1, <2>2 DEF QuitClose, globals, locals, Phases, Pcs, HasCtl, Quits
<1>13. ASSUME NEW t \in Threads, Quit(t) PROVE TypeOK' /\ Phases'
  BY <1>12, <1>13, <1>d, <1>z DEF Quit, csg, isg, Quits
<1>14. CASE UNCHANGED vars
  BY <1>14, <1>d, <1>g DEF vars, globals, locals, aux, Phases
<1> QED
  BY <1>1, <1>2, <1>3, <1>4, <1>5, <1>6, <1>7, <1>8, <1>9, <1>10, <1>11, <1>13, <1>14
  DEF Next, Clicks, Connecting

\* The descriptor numbers, the labels of the threads and the sequences of close()
\* calls to come keep their ranges, however the calls overlap: open() always has
\* the number it promises, and no close() calls run out before their end.
THEOREM TypeCorrect == Spec => []TypeOK
<1>1. Spec => [](TypeOK /\ Phases)
  BY TypeInit, TypeStep, PTL DEF Spec
<1> QED
  BY <1>1, PTL

(***************************************************************************)
(* What a step does to the sockets in the table                            *)
(***************************************************************************)

LEMMA NotBt == ~ IsBt(Free) /\ ~ IsBt(File)
  BY DEF IsBt, Free, File, BtKinds

LEMMA IsBtOf ==
  ASSUME NEW k \in BtKinds, NEW n
  PROVE  IsBt([kind |-> k, call |-> n]) /\ [kind |-> k, call |-> n].kind = k
         /\ [kind |-> k, call |-> n].call = n
  BY DEF IsBt

\* open() and socket() replace no socket.
LEMMA OpensKeeps ==
  ASSUME TypeOK, NEW o, Opens(o)
  PROVE  /\ Lowest \in Fds /\ table[Lowest] = Free /\ table'[Lowest] = o
         /\ \A f \in Fds : f # Lowest => table'[f] = table[f]
         /\ \A f \in Fds : IsBt(table[f]) => table'[f] = table[f]
  BY LowestIsFree, NotBt DEF Opens, TypeOK

LEMMA ClosesOnly ==
  ASSUME TypeOK, NEW fd \in Fds, Closes(fd)
  PROVE  table'[fd] = Free /\ \A f \in Fds : f # fd => table'[f] = table[f]
  BY DEF Closes, TypeOK

\* Other code neither makes nor closes a Bluetooth socket.
LEMMA OtherCodeKeeps ==
  ASSUME TypeOK, OtherCode
  PROVE  \A f \in Fds : IsBt(table[f]) \/ IsBt(table'[f]) => table'[f] = table[f]
<1>1. CASE Opens(File)
  BY <1>1, OpensKeeps, NotBt
<1>2. ASSUME NEW f \in Fds \ {0}, table[f] = File, Closes(f)
      PROVE  \A g \in Fds : IsBt(table[g]) \/ IsBt(table'[g]) => table'[g] = table[g]
  BY <1>2, ClosesOnly, NotBt
<1> QED
  BY <1>1, <1>2 DEF OtherCode

\* A thread keeps its sockets while it does nothing and they are left alone.
Same(u) == /\ pc'[u] = pc[u] /\ call'[u] = call[u] /\ closing'[u] = closing[u]
           /\ ctl'[u] = ctl[u] /\ csk'[u] = csk[u] /\ isk'[u] = isk[u]
Untouched(n) == \A f \in Fds : IsBt(table[f]) /\ table[f].call = n => table'[f] = table[f]

LEMMA OwnsKept ==
  ASSUME TypeOK, NEW u \in Threads, Owns(u), Same(u), Untouched(call[u])
  PROVE  Owns(u)'
<1>1. /\ ctl[u] \in Fds /\ csk[u] \in Fds /\ isk[u] \in Fds
      /\ \A i \in 1 .. Len(closing[u]) : closing[u][i] \in Fds
  BY DEF TypeOK
<1>2. {"hidp", "ctrl", "intr"} \subseteq BtKinds
  BY DEF BtKinds
<1> QED
  BY <1>1, <1>2, IsBtOf DEF Owns, Same, Untouched

LEMMA NamedKept ==
  ASSUME NEW u \in Threads, Same(u)
  PROVE  Named(u)' = Named(u)
  BY DEF Named, Same

\* A step of thread t leaves the other threads as they are.
LEMMA OthersSame ==
  ASSUME TypeOK, NEW t \in Threads, NEW u \in Threads, u # t,
         \/ Clicks(t) \/ Connecting(t) \/ CallQuit(t) \/ Quit(t)
  PROVE  Same(u)
<1> USE DEF Same, Goto, TypeOK
<1>1. CASE Clicks(t)
  <2>1. CASE Reconnect(t)
    BY <2>1 DEF Reconnect
  <2>2. CASE Disconnect(t) \/ UpdateEnds(t)
    BY <2>2 DEF Disconnect, UpdateEnds, EndsBy, locals
  <2> QED
    BY <1>1, <2>1, <2>2 DEF Clicks
<1>2. CASE CtrlSocket(t) \/ IntrSocket(t) \/ Connected(t) \/ ConnectFails(t)
  BY <1>2 DEF CtrlSocket, IntrSocket, Connected, ConnectFails, locals
<1>3. CASE SetCtrl(t) \/ SetIntr(t) \/ SetStatus(t)
  BY <1>3 DEF SetCtrl, SetIntr, SetCtrlTo, SetIntrTo, SetStatus, Return, locals
<1>4. CASE Undo(t)
  BY <1>4 DEF Undo, Return, locals
<1>5. CASE CallQuit(t) \/ Quit(t)
  BY <1>5 DEF CallQuit, Quit, QuitClose, locals
<1> QED
  BY <1>1, <1>2, <1>3, <1>4, <1>5 DEF Connecting

\* Apart from quit_serv(), a thread closes only sockets of its own call that failed.
LEMMA OnlyUndoCloses ==
  ASSUME TypeOK, Phases, NEW t \in Threads, Owns(t),
         Clicks(t) \/ Connecting(t) \/ CallQuit(t)
  PROVE  \A f \in Fds : IsBt(table[f]) /\ table'[f] # table[f] =>
           Undo(t) /\ f = Head(closing[t]) /\ table[f].call = call[t]
<1>1. CASE Reconnect(t)
  <2>1. CASE UNCHANGED table
    BY <2>1
  <2>2. CASE Opens([kind |-> "hidp", call |-> calls'])
    BY <2>2, OpensKeeps
  <2> QED
    BY <1>1, <2>1, <2>2 DEF Reconnect
<1>2. CASE CtrlSocket(t) \/ IntrSocket(t)
  BY <1>2, OpensKeeps DEF CtrlSocket, IntrSocket
<1>3. CASE Undo(t)
  <2>1. /\ pc[t] = "undo" /\ closing[t] # <<>> /\ closing[t] \in Seq(Fds)
        /\ Closes(Head(closing[t]))
    BY <1>3 DEF Undo, Phases, TypeOK
  <2>2. /\ Head(closing[t]) = closing[t][1] /\ 1 \in 1 .. Len(closing[t])
        /\ Head(closing[t]) \in Fds
    BY <2>1
  <2> QED
    BY <1>3, <2>1, <2>2, ClosesOnly DEF Owns
<1>4. CASE UNCHANGED table
  BY <1>4
<1> QED
  BY <1>1, <1>2, <1>3, <1>4 DEF Clicks, Disconnect, UpdateEnds, EndsBy, Connecting, Connected,
     ConnectFails, SetCtrl, SetIntr, SetCtrlTo, SetIntrTo, SetStatus, CallQuit

\* Only the orderly quit closes anything else, and it is alone.
LEMMA QuitAlone ==
  ASSUME Connects, Orderly, use # "again", TypeOK, NEW t \in Threads, CallQuit(t) \/ Quit(t)
  PROVE  use = "orderly" /\ pc[t] \in Quits /\ \A u \in Threads : u # t => pc[u] = "idle"
<1>1. pc[t] \in Quits /\ pc[t] # "idle"
  BY DEF CallQuit, Quit, QuitClose, Quits
<1>2. use \in {"connects", "orderly", "again"}
  BY UsesAssumption DEF TypeOK
<1> QED
  BY <1>1, <1>2 DEF Connects, Orderly

LEMMA BtCall ==
  ASSUME TypeOK, NEW f \in Fds, IsBt(table[f])
  PROVE  table[f].call \in Calls /\ table[f].call \in Nat /\ table[f].call # None
<1>1. table[f] \in Objects /\ table[f] # Free /\ table[f] # File
  BY NotBt DEF TypeOK
<1>2. table[f] \in [kind : BtKinds, call : Calls]
  BY <1>1 DEF Objects
<1> QED
  BY <1>2, NoneAssumption, BoundsAssumption DEF Calls

(***************************************************************************)
(* The numbers of the calls                                                *)
(***************************************************************************)

LEMMA NumbersStep == TypeOK /\ Phases /\ Numbers /\ [Next]_vars => Numbers'
<1> SUFFICES ASSUME TypeOK, Phases, Numbers, [Next]_vars PROVE Numbers'
  OBVIOUS
<1>t. /\ calls \in Nat /\ made \subseteq Nat /\ call \in [Threads -> {None} \cup Calls]
      /\ Calls \subseteq Nat /\ None \notin Nat
  BY NoneAssumption, BoundsAssumption DEF TypeOK, Calls
<1>n. /\ \A u \in Threads : call[u] # None => call[u] \in Nat
      /\ \A f \in Fds : IsBt(table[f]) => table[f].call \in Nat
  BY <1>t, BtCall
<1>m. calls' = calls + 1 =>
        /\ \A u \in Threads : call[u] # None => call[u] <= calls' /\ call[u] # calls'
        /\ \A f \in Fds : IsBt(table[f]) => table[f].call <= calls'
        /\ \A n \in made : n <= calls' /\ n # calls'
  BY <1>t, <1>n DEF Numbers
\* The numbers stay, and so do the sockets but for some that are closed.
<1>s. ASSUME UNCHANGED <<calls, made>>, \A u \in Threads : call'[u] \in {call[u], None},
             \A f \in Fds : IsBt(table'[f]) => table'[f] = table[f]
      PROVE  Numbers'
  BY <1>s, <1>t DEF Numbers
<1>1. CASE OtherCode
  BY <1>1, <1>s, OtherCodeKeeps DEF OtherCode, locals, aux
<1>2. ASSUME NEW t \in Threads, Reconnect(t) PROVE Numbers'
  <2>1. calls' = calls + 1 /\ made' = made /\ call[t] = None
    BY <1>2, <1>t DEF Reconnect, Phases, HasCtl
  <2>2. CASE UNCHANGED <<table, call>>
    BY <1>m, <2>1, <2>2 DEF Numbers
  <2>3. CASE Opens([kind |-> "hidp", call |-> calls']) /\ call' = [call EXCEPT ![t] = calls']
    <3>1. \A f \in Fds : IsBt(table'[f]) => table'[f].call <= calls'
      <4>1. \A f \in Fds : table'[f] = table[f] \/ table'[f].call = calls'
        BY <2>3, OpensKeeps
      <4> QED
        BY <1>m, <1>t, <2>1, <4>1
    <3>2. \A u \in Threads : u # t => call'[u] = call[u]
      BY <1>t, <2>3
    <3>3. call'[t] = calls + 1
      BY <1>t, <2>1, <2>3
    <3>4. \A u \in Threads : call'[u] # None => call'[u] <= calls' /\ call'[u] \notin made'
      BY <1>m, <1>t, <2>1, <3>2, <3>3 DEF Numbers
    <3>5. \A u, v \in Threads : call'[u] # None /\ call'[u] = call'[v] => u = v
      BY <1>m, <2>1, <3>2, <3>3 DEF Numbers
    <3> QED
      BY <1>m, <2>1, <3>1, <3>4, <3>5 DEF Numbers
  <2> QED
    BY <1>2, <2>2, <2>3 DEF Reconnect
<1>3. ASSUME NEW t \in Threads, CtrlSocket(t) \/ IntrSocket(t) PROVE Numbers'
  <2>1. call[t] # None /\ UNCHANGED <<calls, made, call>>
    BY <1>3 DEF CtrlSocket, IntrSocket, Phases, HasCtl, aux
  <2>2. \A f \in Fds : table'[f] = table[f] \/ table'[f].call = call[t]
    BY <1>3, OpensKeeps DEF CtrlSocket, IntrSocket
  <2> QED
    BY <1>t, <2>1, <2>2 DEF Numbers
<1>4. ASSUME NEW t \in Threads, SetStatus(t) PROVE Numbers'
  <2>1. call[t] \in Calls /\ call[t] <= calls
    BY <1>4, <1>t DEF SetStatus, Phases, HasCtl, Numbers
  <2>2. /\ UNCHANGED <<table, calls>> /\ made' = made \cup {call[t]} /\ call' = [call EXCEPT ![t] = None]
    BY <1>4 DEF SetStatus, Return
  <2> QED
    BY <1>t, <2>1, <2>2 DEF Numbers
<1>5. ASSUME NEW t \in Threads, Undo(t) PROVE Numbers'
  <2>1. Head(closing[t]) \in Fds /\ Closes(Head(closing[t]))
    BY <1>5 DEF Undo, Phases, TypeOK
  <2>2. \A f \in Fds : IsBt(table'[f]) => table'[f] = table[f]
    BY <2>1, ClosesOnly, NotBt
  <2>3. \A u \in Threads : call'[u] \in {call[u], None}
    BY <1>5, <1>t DEF Undo, Return, locals
  <2> QED
    BY <1>5, <1>s, <2>2, <2>3 DEF Undo, aux
<1>6. ASSUME NEW t \in Threads, Quit(t) PROVE Numbers'
  <2>1. PICK fd \in Fds : Closes(fd)
    BY <1>6, ZeroInFds DEF Quit, QuitClose, TypeOK, csg, isg
  <2>2. \A f \in Fds : IsBt(table'[f]) => table'[f] = table[f]
    BY <2>1, ClosesOnly, NotBt
  <2> QED
    BY <1>6, <1>s, <2>2 DEF Quit, QuitClose, locals
<1>7. ASSUME NEW t \in Threads,
             Connected(t) \/ ConnectFails(t) \/ SetCtrl(t) \/ SetIntr(t) \/ Disconnect(t) \/ UpdateEnds(t)
               \/ CallQuit(t)
      PROVE  Numbers'
  BY <1>7, <1>s DEF Connected, ConnectFails, SetCtrl, SetIntr, SetCtrlTo, SetIntrTo, Disconnect,
     UpdateEnds, EndsBy, CallQuit, locals, aux
<1>8. CASE UNCHANGED vars
  BY <1>8, <1>s DEF vars, locals, aux
<1> QED
  BY <1>1, <1>2, <1>3, <1>4, <1>5, <1>6, <1>7, <1>8 DEF Next, Clicks, Connecting

(***************************************************************************)
(* The sockets of the calls under way                                      *)
(***************************************************************************)

\* A connect that fails will close its own sockets, each of them once.
LEMMA UndoOwns ==
  ASSUME TypeOK, NEW t \in Threads, Owns(t), ConnectFails(t)
  PROVE  /\ Owns(t)'
         /\ Named(t)' = Named(t)
<1>p. pc[t] \in {"csk_socket", "csk_connect", "isk_socket", "isk_connect"}
  BY DEF ConnectFails
<1>1. /\ pc'[t] = "undo" /\ closing'[t] = ToUndo(t) /\ table' = table /\ call'[t] = call[t]
      /\ ctl[t] \in Fds /\ csk[t] \in Fds /\ isk[t] \in Fds
  BY DEF ConnectFails, Goto, locals, TypeOK
<1>2. ASSUME pc[t] \in HasCtl PROVE IsBt(table[ctl[t]]) /\ table[ctl[t]].call = call[t] /\ table[ctl[t]].kind = "hidp"
  BY <1>2, IsBtOf DEF Owns, BtKinds
<1>3. ASSUME pc[t] \in HasCsk PROVE IsBt(table[csk[t]]) /\ table[csk[t]].call = call[t] /\ table[csk[t]].kind = "ctrl"
  BY <1>3, IsBtOf DEF Owns, BtKinds
<1>4. ASSUME pc[t] \in HasIsk PROVE IsBt(table[isk[t]]) /\ table[isk[t]].call = call[t] /\ table[isk[t]].kind = "intr"
  BY <1>4, IsBtOf DEF Owns, BtKinds
<1> DEFINE Good == /\ \A i \in 1 .. Len(ToUndo(t)) : /\ IsBt(table[ToUndo(t)[i]])
                                                     /\ table[ToUndo(t)[i]].call = call[t]
                   /\ \A i, j \in 1 .. Len(ToUndo(t)) : ToUndo(t)[i] = ToUndo(t)[j] => i = j
           Covers == \A f \in Fds : (\E i \in 1 .. Len(ToUndo(t)) : f = ToUndo(t)[i]) <=> f \in Named(t)
<1>5. ASSUME pc[t] = "csk_socket" PROVE Good /\ Covers
  <2>1. ToUndo(t) = <<ctl[t]>>
    BY <1>5 DEF ToUndo
  <2>2. Good
    BY <1>2, <1>5, <2>1 DEF HasCtl
  <2>3. Covers
    BY <1>5, <2>1 DEF Named, HasCtl, HasCsk, HasIsk
  <2> QED
    BY <2>2, <2>3
<1>6. ASSUME pc[t] = "csk_connect" \/ pc[t] = "isk_socket" PROVE Good /\ Covers
  <2>1. ToUndo(t) = <<csk[t], ctl[t]>>
    BY <1>6 DEF ToUndo
  <2>2. Good
    BY <1>2, <1>3, <1>6, <2>1 DEF HasCtl, HasCsk
  <2>3. Covers
    BY <1>6, <2>1 DEF Named, HasCtl, HasCsk, HasIsk
  <2> QED
    BY <2>2, <2>3
<1>7. ASSUME pc[t] = "isk_connect" PROVE Good /\ Covers
  <2>1. ToUndo(t) = <<isk[t], csk[t], ctl[t]>>
    BY <1>7 DEF ToUndo
  <2>2. Good
    BY <1>2, <1>3, <1>4, <1>7, <2>1 DEF HasCtl, HasCsk, HasIsk
  <2>3. Covers
    BY <1>7, <2>1 DEF Named, HasCtl, HasCsk, HasIsk
  <2> QED
    BY <2>2, <2>3
<1>8. Good /\ Covers
  BY <1>p, <1>5, <1>6, <1>7
<1>9. Owns(t)'
  BY <1>1, <1>8 DEF Owns, HasCtl, HasCsk, HasIsk
<1>10. Named(t)' = Named(t)
  <2>1. Named(t)' = {f \in Fds : \E i \in 1 .. Len(ToUndo(t)) : f = ToUndo(t)[i]}
    BY <1>1 DEF Named, HasCtl, HasCsk, HasIsk
  <2> QED
    BY <1>8, <2>1 DEF Named
<1> QED
  BY <1>9, <1>10

\* The sockets of a call are not touched by another thread.
LEMMA OthersUntouched ==
  ASSUME TypeOK, Phases, Numbers, Owned, NEW t \in Threads, NEW u \in Threads, u # t,
         Clicks(t) \/ Connecting(t)
  PROVE  Untouched(call[u])
<1> SUFFICES ASSUME NEW f \in Fds, IsBt(table[f]), table[f].call = call[u], table'[f] # table[f]
             PROVE  FALSE
  BY DEF Untouched
<1>1. table[f].call = call[t] /\ call[u] # None
  BY OnlyUndoCloses, BtCall DEF Owned
<1> QED
  BY <1>1 DEF Numbers

LEMMA OwnedStep ==
  TypeOK /\ Phases /\ use # "again" /\ Numbers /\ Owned /\ Connects /\ Orderly /\ [Next]_vars => Owned'
<1> SUFFICES ASSUME TypeOK, Phases, use # "again", Numbers, Owned, Connects, Orderly, [Next]_vars,
                    NEW u \in Threads
             PROVE  Owns(u)'
  BY DEF Owned
<1>u. Owns(u) /\ u \in DOMAIN pc /\ pc[u] \in Pcs
  BY DEF Owned, TypeOK
<1>l. ASSUME pc'[u] \in Quits \cup {"idle"} PROVE Owns(u)'
  BY <1>l DEF Owns, Quits, HasCtl, HasCsk, HasIsk
<1>1. CASE OtherCode
  <2>1. Same(u) /\ Untouched(call[u])
    BY <1>1, OtherCodeKeeps DEF OtherCode, Same, Untouched, locals
  <2> QED
    BY <1>u, <2>1, OwnsKept
<1>2. ASSUME NEW t \in Threads, t # u, Clicks(t) \/ Connecting(t) PROVE Owns(u)'
  BY <1>2, <1>u, OthersSame, OthersUntouched, OwnsKept
<1>3. ASSUME NEW t \in Threads, CallQuit(t) \/ Quit(t) PROVE Owns(u)'
  <2>1. t # u => pc'[u] = "idle"
    BY <1>3, QuitAlone, OthersSame DEF Same
  <2>2. t = u => pc'[u] \in Quits \cup {"idle"}
    BY <1>3 DEF CallQuit, Quit, QuitClose, Goto, Quits, TypeOK
  <2> QED
    BY <1>l, <2>1, <2>2
<1>4. CASE Reconnect(u)
  <2>1. CASE UNCHANGED <<table, ctl, call, pc>>
    BY <1>4, <1>u, <2>1 DEF Reconnect, Owns
  <2>2. CASE /\ Opens([kind |-> "hidp", call |-> calls'])
             /\ ctl' = [ctl EXCEPT ![u] = Lowest] /\ call' = [call EXCEPT ![u] = calls']
             /\ Goto(u, "csk_socket")
    <3>1. /\ table'[Lowest] = [kind |-> "hidp", call |-> calls']
          /\ ctl'[u] = Lowest /\ call'[u] = calls' /\ pc'[u] = "csk_socket"
      BY <2>2, OpensKeeps DEF Goto, TypeOK
    <3> QED
      BY <3>1 DEF Owns, HasCtl, HasCsk, HasIsk
  <2> QED
    BY <1>4, <2>1, <2>2 DEF Reconnect
<1>5. CASE CtrlSocket(u)
  <2>1. /\ table'[Lowest] = [kind |-> "ctrl", call |-> call[u]] /\ csk'[u] = Lowest
        /\ UNCHANGED <<ctl, call>> /\ pc'[u] = "csk_connect" /\ pc[u] = "csk_socket"
    BY <1>5, OpensKeeps DEF CtrlSocket, Goto, TypeOK
  <2>2. table'[ctl[u]] = [kind |-> "hidp", call |-> call[u]]
    BY <1>5, <1>u, <2>1, OpensKeeps, IsBtOf DEF CtrlSocket, Owns, HasCtl, TypeOK, BtKinds
  <2> QED
    BY <2>1, <2>2 DEF Owns, HasCtl, HasCsk, HasIsk
<1>6. CASE IntrSocket(u)
  <2>1. /\ table'[Lowest] = [kind |-> "intr", call |-> call[u]] /\ isk'[u] = Lowest
        /\ UNCHANGED <<ctl, csk, call>> /\ pc'[u] = "isk_connect" /\ pc[u] = "isk_socket"
    BY <1>6, OpensKeeps DEF IntrSocket, Goto, TypeOK
  <2>2. /\ table'[ctl[u]] = [kind |-> "hidp", call |-> call[u]]
        /\ table'[csk[u]] = [kind |-> "ctrl", call |-> call[u]]
    BY <1>6, <1>u, <2>1, OpensKeeps, IsBtOf DEF IntrSocket, Owns, HasCtl, HasCsk, TypeOK, BtKinds
  <2> QED
    BY <2>1, <2>2 DEF Owns, HasCtl, HasCsk, HasIsk
<1>7. CASE Connected(u) \/ SetCtrl(u) \/ SetIntr(u)
  <2>1. /\ UNCHANGED <<table, ctl, csk, isk, call>> /\ pc'[u] \in HasCtl
        /\ pc[u] \in HasCtl /\ (pc'[u] \in HasCsk <=> pc[u] \in HasCsk) /\ (pc'[u] \in HasIsk <=> pc[u] \in HasIsk)
    BY <1>7 DEF Connected, SetCtrl, SetIntr, SetCtrlTo, SetIntrTo, Goto, locals, TypeOK, HasCtl, HasCsk, HasIsk
  <2> QED
    BY <1>u, <2>1 DEF Owns, HasCtl
<1>8. CASE ConnectFails(u)
  BY <1>8, <1>u, UndoOwns
<1>9. CASE SetStatus(u) \/ Disconnect(u) \/ UpdateEnds(u)
  BY <1>9, <1>l DEF SetStatus, Return, Disconnect, UpdateEnds, EndsBy, Goto, Quits, TypeOK
<1>10. CASE Undo(u)
  <2>1. CASE Return(u)
    BY <1>l, <2>1 DEF Return, Goto, TypeOK
  <2>2. CASE UNCHANGED <<pc, locals>>
    <3>1. /\ pc[u] = "undo" /\ pc'[u] = "undo" /\ call' = call /\ closing[u] # <<>>
          /\ closing[u] \in Seq(Fds) /\ closing'[u] = Tail(closing[u]) /\ Closes(Head(closing[u]))
      BY <1>10, <2>2 DEF Undo, Phases, locals, TypeOK
    <3>2. /\ Head(closing[u]) = closing[u][1] /\ Len(closing[u]) \in Nat \ {0}
          /\ Len(closing'[u]) = Len(closing[u]) - 1
          /\ \A i \in 1 .. Len(closing'[u]) : closing'[u][i] = closing[u][i + 1]
          /\ \A i \in 1 .. Len(closing[u]) : closing[u][i] \in Fds
      BY <3>1
    <3>3. \A i \in 1 .. Len(closing'[u]) :
             /\ i + 1 \in 1 .. Len(closing[u]) /\ i + 1 # 1 /\ 1 \in 1 .. Len(closing[u])
      BY <3>2
    <3>4. \A i \in 1 .. Len(closing'[u]) : closing'[u][i] # Head(closing[u])
      BY <1>u, <3>1, <3>2, <3>3 DEF Owns
    <3>5. \A i \in 1 .. Len(closing'[u]) : table'[closing'[u][i]] = table[closing[u][i + 1]]
      BY <3>1, <3>2, <3>3, <3>4, ClosesOnly
    <3>6. \A i \in 1 .. Len(closing'[u]) : /\ IsBt(table'[closing'[u][i]])
                                           /\ table'[closing'[u][i]].call = call'[u]
      BY <1>u, <3>1, <3>3, <3>5 DEF Owns
    <3>7. \A i, j \in 1 .. Len(closing'[u]) : closing'[u][i] = closing'[u][j] => i = j
      <4> TAKE i, j \in 1 .. Len(closing'[u])
      <4> HAVE closing'[u][i] = closing'[u][j]
      <4>1. closing[u][i + 1] = closing[u][j + 1]
        BY <3>2
      <4>2. i + 1 = j + 1
        BY <1>u, <3>1, <3>3, <4>1 DEF Owns
      <4> QED
        BY <4>2
    <3> QED
      BY <3>1, <3>6, <3>7 DEF Owns, HasCtl, HasCsk, HasIsk
  <2> QED
    BY <1>10, <2>1, <2>2 DEF Undo
<1>11. CASE UNCHANGED vars
  BY <1>u, <1>11 DEF vars, locals, Owns
<1> QED
  BY <1>1, <1>2, <1>3, <1>4, <1>5, <1>6, <1>7, <1>8, <1>9, <1>10, <1>11 DEF Next, Clicks, Connecting

LEMMA NoOtherStep ==
  TypeOK /\ Phases /\ use # "again" /\ Owned /\ NoOther /\ Connects /\ Orderly /\ [Next]_vars => NoOther'
<1> SUFFICES ASSUME TypeOK, Phases, use # "again", Owned, NoOther, Connects, Orderly, [Next]_vars
             PROVE  NoOther'
  OBVIOUS
\* A step of thread t keeps what is named for it or hands it over to made.
<1>s. ASSUME NEW t \in Threads, made \subseteq made', \A u \in Threads : u # t => Same(u),
             \A f \in Fds : IsBt(table'[f]) /\ table'[f] # table[f] =>
               call'[t] = table'[f].call /\ f \in Named(t)',
             \A f \in Fds : IsBt(table[f]) /\ table'[f] = table[f] /\ call[t] = table[f].call /\ f \in Named(t)
               => call[t] \in made' \/ (call'[t] = call[t] /\ f \in Named(t)')
      PROVE  NoOther'
  <2> SUFFICES ASSUME NEW f \in Fds, IsBt(table'[f])
               PROVE  \/ table'[f].call \in made'
                      \/ \E u \in Threads : call'[u] = table'[f].call /\ f \in Named(u)'
    BY DEF NoOther
  <2>1. CASE table'[f] # table[f]
    BY <1>s, <2>1
  <2>2. CASE table'[f] = table[f] /\ table[f].call \in made
    BY <1>s, <2>2
  <2>3. CASE table'[f] = table[f] /\ table[f].call \notin made
    <3>1. PICK u \in Threads : call[u] = table[f].call /\ f \in Named(u)
      BY <2>3 DEF NoOther
    <3>2. CASE u = t
      BY <1>s, <2>3, <3>1, <3>2
    <3>3. CASE u # t
      BY <1>s, <2>3, <3>1, <3>3, NamedKept DEF Same
    <3> QED
      BY <3>2, <3>3
  <2> QED
    BY <2>1, <2>2, <2>3
<1>1. CASE OtherCode
  <2>1. \A u \in Threads : Same(u)
    BY <1>1 DEF OtherCode, Same, locals
  <2>2. \A f \in Fds : IsBt(table'[f]) => table'[f] = table[f]
    BY <1>1, OtherCodeKeeps
  <2>3. made' = made
    BY <1>1 DEF OtherCode, aux
  <2> QED
    BY <2>1, <2>2, <2>3, NamedKept DEF NoOther, Same
<1>2. ASSUME NEW t \in Threads, Reconnect(t) PROVE NoOther'
  <2>0. \A u \in Threads : u # t => Same(u)
    BY <1>2 DEF Reconnect, Same, Goto, TypeOK
  <2>1. call[t] = None /\ made' = made
    BY <1>2 DEF Reconnect, Phases, HasCtl
  <2>2. CASE UNCHANGED <<table, ctl, call, pc>>
    BY <1>s, <2>0, <2>1, <2>2, BtCall
  <2>3. CASE /\ Opens([kind |-> "hidp", call |-> calls'])
             /\ ctl' = [ctl EXCEPT ![t] = Lowest] /\ call' = [call EXCEPT ![t] = calls']
             /\ Goto(t, "csk_socket")
    <3>1. /\ Lowest \in Fds /\ table'[Lowest].call = calls' /\ ctl'[t] = Lowest /\ call'[t] = calls'
          /\ pc'[t] = "csk_socket"
          /\ \A f \in Fds : f # Lowest => table'[f] = table[f]
      BY <2>3, OpensKeeps DEF Goto, TypeOK
    <3>2. Lowest \in Named(t)'
      BY <3>1 DEF Named, HasCtl
    <3> QED
      BY <1>s, <2>0, <2>1, <3>1, <3>2, BtCall
  <2> QED
    BY <1>2, <2>2, <2>3 DEF Reconnect
<1>3. ASSUME NEW t \in Threads, CtrlSocket(t) PROVE NoOther'
  <2>1. \A u \in Threads : u # t => Same(u)
    BY <1>3 DEF CtrlSocket, Same, Goto, TypeOK
  <2>2. /\ Lowest \in Fds /\ table'[Lowest] = [kind |-> "ctrl", call |-> call[t]] /\ call' = call
        /\ csk'[t] = Lowest /\ ctl' = ctl /\ pc'[t] = "csk_connect" /\ pc[t] = "csk_socket" /\ made' = made
        /\ \A f \in Fds : f # Lowest => table'[f] = table[f]
    BY <1>3, OpensKeeps DEF CtrlSocket, Goto, TypeOK, aux
  <2>3. Lowest \in Named(t)' /\ Named(t) \subseteq Named(t)'
    BY <2>2 DEF Named, HasCtl, HasCsk, HasIsk
  <2> QED
    BY <1>s, <2>1, <2>2, <2>3
<1>4. ASSUME NEW t \in Threads, IntrSocket(t) PROVE NoOther'
  <2>1. \A u \in Threads : u # t => Same(u)
    BY <1>4 DEF IntrSocket, Same, Goto, TypeOK
  <2>2. /\ Lowest \in Fds /\ table'[Lowest] = [kind |-> "intr", call |-> call[t]] /\ call' = call
        /\ isk'[t] = Lowest /\ ctl' = ctl /\ csk' = csk /\ pc'[t] = "isk_connect" /\ pc[t] = "isk_socket"
        /\ made' = made
        /\ \A f \in Fds : f # Lowest => table'[f] = table[f]
    BY <1>4, OpensKeeps DEF IntrSocket, Goto, TypeOK, aux
  <2>3. Lowest \in Named(t)' /\ Named(t) \subseteq Named(t)'
    BY <2>2 DEF Named, HasCtl, HasCsk, HasIsk
  <2> QED
    BY <1>s, <2>1, <2>2, <2>3
<1>5. ASSUME NEW t \in Threads, Connected(t) \/ SetCtrl(t) \/ SetIntr(t) PROVE NoOther'
  <2>1. /\ UNCHANGED <<table, ctl, csk, isk, call, made>> /\ pc'[t] \in HasCtl /\ pc[t] \in HasCtl
        /\ (pc'[t] \in HasCsk <=> pc[t] \in HasCsk) /\ (pc'[t] \in HasIsk <=> pc[t] \in HasIsk)
    BY <1>5 DEF Connected, SetCtrl, SetIntr, SetCtrlTo, SetIntrTo, Goto, locals, aux, TypeOK, HasCtl, HasCsk, HasIsk
  <2>2. \A u \in Threads : u # t => Same(u)
    BY <1>5, OthersSame DEF Connecting
  <2>3. Named(t) \subseteq Named(t)'
    BY <2>1 DEF Named, HasCtl
  <2> QED
    BY <1>s, <2>1, <2>2, <2>3
<1>6. ASSUME NEW t \in Threads, ConnectFails(t) PROVE NoOther'
  <2>1. UNCHANGED <<table, call, made>> /\ Named(t)' = Named(t)
    BY <1>6, UndoOwns DEF ConnectFails, locals, aux, Owned
  <2>2. \A u \in Threads : u # t => Same(u)
    BY <1>6, OthersSame DEF Connecting
  <2> QED
    BY <1>s, <2>1, <2>2
<1>7. ASSUME NEW t \in Threads, SetStatus(t) PROVE NoOther'
  <2>1. \A u \in Threads : u # t => Same(u)
    BY <1>7, OthersSame DEF Connecting
  <2> QED
    BY <1>7, <1>s, <2>1 DEF SetStatus
<1>8. ASSUME NEW t \in Threads, Undo(t) PROVE NoOther'
  <2>1. \A u \in Threads : u # t => Same(u)
    BY <1>8, OthersSame DEF Connecting
  <2>2. /\ pc[t] = "undo" /\ closing[t] \in Seq(Fds) /\ closing[t] # <<>>
        /\ closing'[t] = Tail(closing[t]) /\ Closes(Head(closing[t])) /\ made' = made
    BY <1>8 DEF Undo, Phases, TypeOK, aux
  <2>3. /\ Head(closing[t]) = closing[t][1] /\ Head(closing[t]) \in Fds /\ Len(closing[t]) \in Nat \ {0}
        /\ Len(closing'[t]) = Len(closing[t]) - 1
        /\ \A i \in 1 .. Len(closing'[t]) : closing'[t][i] = closing[t][i + 1]
    BY <2>2
  <2>4. table'[Head(closing[t])] = Free /\ \A f \in Fds : f # Head(closing[t]) => table'[f] = table[f]
    BY <2>2, <2>3, ClosesOnly
  <2>5. ASSUME NEW f \in Fds, IsBt(table[f]), table'[f] = table[f], f \in Named(t)
        PROVE  \E i \in 1 .. Len(closing'[t]) : f = closing'[t][i]
    <3>1. PICK i \in 1 .. Len(closing[t]) : f = closing[t][i]
      BY <2>2, <2>5 DEF Named, HasCtl, HasCsk, HasIsk
    <3>2. i # 1
      BY <2>3, <2>4, <2>5, <3>1, NotBt
    <3>3. i - 1 \in 1 .. Len(closing'[t]) /\ closing'[t][i - 1] = closing[t][i]
      BY <2>3, <3>2
    <3> QED
      BY <3>1, <3>3
  <2>6. CASE Return(t)
    <3>1. closing'[t] = <<>>
      BY <1>8, <2>2, <2>6 DEF Undo, Return, Goto, locals, TypeOK
    <3>2. Len(closing'[t]) = 0
      BY <3>1
    <3>3. \A f \in Fds : IsBt(table[f]) /\ table'[f] = table[f] => f \notin Named(t)
      BY <2>5, <3>2
    <3> QED
      BY <1>s, <2>1, <2>2, <2>4, <3>3, NotBt
  <2>7. CASE UNCHANGED <<pc, locals>>
    <3>1. \A f \in Fds : (\E i \in 1 .. Len(closing'[t]) : f = closing'[t][i]) => f \in Named(t)'
      BY <2>2, <2>7 DEF Named
    <3> QED
      BY <1>s, <2>1, <2>2, <2>4, <2>5, <2>7, <3>1, NotBt DEF locals
  <2> QED
    BY <1>8, <2>6, <2>7 DEF Undo
<1>9. ASSUME NEW t \in Threads, CallQuit(t) \/ Quit(t) \/ Disconnect(t) \/ UpdateEnds(t) PROVE NoOther'
  <2>1. call[t] = None /\ made' = made
    BY <1>9 DEF CallQuit, Quit, QuitClose, Disconnect, UpdateEnds, EndsBy, Phases, HasCtl, aux
  <2>2. \A f \in Fds : IsBt(table'[f]) => table'[f] = table[f]
    BY <1>9, ClosesOnly, NotBt, ZeroInFds DEF CallQuit, Quit, QuitClose, Disconnect, UpdateEnds, EndsBy, TypeOK, csg, isg
  <2>3. \A u \in Threads : u # t => Same(u)
    BY <1>9 DEF CallQuit, Quit, QuitClose, Disconnect, UpdateEnds, EndsBy, Same, Goto, locals, TypeOK
  <2> QED
    BY <1>s, <2>1, <2>2, <2>3, BtCall
<1>10. CASE UNCHANGED vars
  <2>1. \A u \in Threads : Same(u)
    BY <1>10 DEF vars, locals, Same
  <2> QED
    BY <1>10, <2>1, NamedKept DEF NoOther, Same, vars, aux
<1> QED
  BY <1>1, <1>2, <1>3, <1>4, <1>5, <1>6, <1>7, <1>8, <1>9, <1>10 DEF Next, Clicks, Connecting

(***************************************************************************)
(* The globals, while connects overlap                                     *)
(***************************************************************************)

\* A call on its last steps, or made, stays so.
LEMMA SettledKept ==
  ASSUME TypeOK, NEW t \in Threads, Clicks(t) \/ Connecting(t),
         NEW labels \in {{"intr_set", "status"}, {"status"}}, NEW n, Settled(n, labels)
  PROVE  Settled(n, labels)'
<1>1. made \subseteq made'
  BY DEF Clicks, Connecting, Reconnect, Disconnect, UpdateEnds, EndsBy, CtrlSocket, IntrSocket, Connected,
     ConnectFails, SetCtrl, SetIntr, SetCtrlTo, SetIntrTo, SetStatus, Undo, aux
<1>2. CASE n \in made
  BY <1>1, <1>2 DEF Settled
<1>3. ASSUME NEW u \in Threads, pc[u] \in labels, call[u] = n PROVE Settled(n, labels)'
  <2>1. CASE u # t
    BY <1>3, <2>1, OthersSame DEF Same, Settled
  <2>2. CASE u = t
    <3>1. CASE pc[u] = "intr_set"
      <4>1. pc'[u] = "status" /\ call' = call
        BY <2>2, <3>1 DEF Clicks, Connecting, Reconnect, Disconnect, UpdateEnds, EndsBy, CtrlSocket, IntrSocket,
           Connected, ConnectFails, SetCtrl, SetIntr, SetCtrlTo, SetIntrTo, SetStatus, Undo, Goto, locals, TypeOK
      <4> QED
        BY <1>3, <4>1 DEF Settled
    <3>2. CASE pc[u] = "status"
      <4>1. call[u] \in made'
        BY <2>2, <3>2 DEF Clicks, Connecting, Reconnect, Disconnect, UpdateEnds, EndsBy, CtrlSocket, IntrSocket,
           Connected, ConnectFails, SetCtrl, SetIntr, SetCtrlTo, SetIntrTo, SetStatus, Undo
      <4> QED
        BY <1>3, <4>1 DEF Settled
    <3> QED
      BY <1>3, <3>1, <3>2
  <2> QED
    BY <2>1, <2>2
<1> QED
  BY <1>2, <1>3 DEF Settled

\* A connect that fails does not close the socket of a call that is settled.
LEMMA SettledUntouched ==
  ASSUME TypeOK, Phases, Numbers, Owned, NEW t \in Threads, Clicks(t) \/ Connecting(t),
         NEW f \in Fds, IsBt(table[f]), Settled(table[f].call, {"intr_set", "status"})
  PROVE  table'[f] = table[f]
<1> SUFFICES ASSUME table'[f] # table[f] PROVE FALSE
  OBVIOUS
<1>1. pc[t] = "undo" /\ table[f].call = call[t] /\ call[t] # None
  BY OnlyUndoCloses, BtCall DEF Owned, Undo
<1> QED
  BY <1>1 DEF Settled, Numbers

LEMMA ConnectsStep ==
  TypeOK /\ Phases /\ use # "again" /\ Numbers /\ Owned /\ Connects /\ [Next]_vars => Connects'
<1> SUFFICES ASSUME TypeOK, Phases, Numbers, Owned, Connects, [Next]_vars, use' = "connects"
             PROVE  Connects'
  BY DEF Connects
<1>u. use = "connects"
  BY DEF Next, OtherCode, Clicks, Connecting, Reconnect, Disconnect, UpdateEnds, EndsBy, CtrlSocket,
     IntrSocket, Connected, ConnectFails, SetCtrl, SetIntr, SetCtrlTo, SetIntrTo, SetStatus, Undo,
     CallQuit, Quit, QuitClose, vars, aux
<1>c. /\ \A t \in Threads : pc[t] \notin Quits
      /\ ctrl # 0 => table[ctrl].kind = "ctrl" /\ Settled(table[ctrl].call, {"intr_set", "status"})
      /\ intr # 0 => table[intr].kind = "intr" /\ Settled(table[intr].call, {"status"})
  BY <1>u DEF Connects
<1>f. ctrl \in Fds /\ intr \in Fds
  BY DEF TypeOK
<1>k. \A f \in Fds : table[f].kind \in {"ctrl", "intr"} => IsBt(table[f])
  BY DEF IsBt, BtKinds
<1>w. \A n : Settled(n, {"status"}) => Settled(n, {"intr_set", "status"})
  BY DEF Settled
<1>1. CASE OtherCode
  <2>1. /\ UNCHANGED <<ctrl, intr, pc, call, made>>
        /\ ctrl # 0 => table'[ctrl] = table[ctrl]
        /\ intr # 0 => table'[intr] = table[intr]
    BY <1>1, <1>c, <1>f, <1>k, OtherCodeKeeps DEF OtherCode, globals, locals, aux
  <2> QED
    BY <1>c, <2>1 DEF Connects, Settled
<1>2. ASSUME NEW t \in Threads, Clicks(t) \/ Connecting(t) PROVE Connects'
  <2>1. \A u \in Threads : pc'[u] \notin Quits
    <3>1. pc'[t] \notin Quits
      BY <1>2, <1>u, <1>c DEF Clicks, Connecting, Reconnect, CtrlSocket, IntrSocket, Connected, ConnectFails,
         SetCtrl, SetIntr, SetCtrlTo, SetIntrTo, SetStatus, Undo, Return, Goto, locals, TypeOK, Quits
    <3> QED
      BY <1>2, <1>c, <3>1, OthersSame DEF Same
  <2>2. /\ ctrl # 0 => table'[ctrl] = table[ctrl]
        /\ intr # 0 => table'[intr] = table[intr]
    BY <1>2, <1>c, <1>f, <1>k, <1>w, SettledUntouched
  <2>3. \A n : /\ Settled(n, {"intr_set", "status"}) => Settled(n, {"intr_set", "status"})'
               /\ Settled(n, {"status"}) => Settled(n, {"status"})'
    BY <1>2, SettledKept
  <2>4. CASE SetCtrl(t)
    <3>1. /\ ctrl' = csk[t] /\ intr' = intr /\ UNCHANGED <<table, call>>
          /\ pc[t] = "ctrl_set" /\ pc'[t] = "intr_set"
      BY <2>4 DEF SetCtrl, SetCtrlTo, Goto, locals, TypeOK
    <3>2. table[csk[t]] = [kind |-> "ctrl", call |-> call[t]]
      BY <3>1 DEF Owned, Owns, HasCtl, HasCsk
    <3>3. table'[ctrl'] = [kind |-> "ctrl", call |-> call'[t]]
      BY <3>1, <3>2
    <3>4. table'[ctrl'].kind = "ctrl" /\ table'[ctrl'].call = call'[t]
      BY <3>3
    <3> QED
      BY <1>c, <2>1, <2>2, <2>3, <3>1, <3>4 DEF Connects, Settled
  <2>5. CASE SetIntr(t)
    <3>1. /\ intr' = isk[t] /\ ctrl' = ctrl /\ UNCHANGED <<table, call>>
          /\ pc[t] = "intr_set" /\ pc'[t] = "status"
      BY <2>5 DEF SetIntr, SetIntrTo, Goto, locals, TypeOK
    <3>2. table[isk[t]] = [kind |-> "intr", call |-> call[t]]
      BY <3>1 DEF Owned, Owns, HasIsk
    <3>3. table'[intr'] = [kind |-> "intr", call |-> call'[t]]
      BY <3>1, <3>2
    <3>4. table'[intr'].kind = "intr" /\ table'[intr'].call = call'[t]
      BY <3>3
    <3> QED
      BY <1>c, <2>1, <2>2, <2>3, <3>1, <3>4 DEF Connects, Settled
  <2>6. CASE UNCHANGED <<ctrl, intr>>
    BY <1>c, <2>1, <2>2, <2>3, <2>6 DEF Connects, Settled
  <2> QED
    BY <1>2, <2>4, <2>5, <2>6 DEF Clicks, Connecting, Reconnect, Disconnect, UpdateEnds, EndsBy, CtrlSocket,
       IntrSocket, Connected, ConnectFails, SetStatus, Undo, globals
<1>3. ASSUME NEW t \in Threads, CallQuit(t) \/ Quit(t) PROVE FALSE
  BY <1>3, <1>c DEF CallQuit, Quit, QuitClose, Quits
<1>4. CASE UNCHANGED vars
  BY <1>c, <1>4 DEF Connects, Settled, vars, globals, locals, aux
<1> QED
  BY <1>1, <1>2, <1>3, <1>4 DEF Next

(***************************************************************************)
(* The session, in orderly use                                             *)
(***************************************************************************)

\* While a call is not idle the others are, and nothing is up.
LEMMA OthersIdle ==
  ASSUME Orderly, use = "orderly", NEW t \in Threads,
         Clicks(t) \/ Connecting(t) \/ CallQuit(t) \/ Quit(t)
  PROVE  /\ \A u \in Threads : u # t => pc[u] = "idle"
         /\ up = None \/ Disconnect(t) \/ UpdateEnds(t)
<1>1. CASE Clicks(t)
  BY <1>1 DEF Clicks, Alone
<1>2. CASE pc[t] # "idle"
  BY <1>2 DEF Orderly
<1> QED
  BY <1>1, <1>2 DEF Connecting, CtrlSocket, IntrSocket, Connected, ConnectFails, SetCtrl, SetIntr,
     SetCtrlTo, SetIntrTo, SetStatus, Undo, CallQuit, Quit, QuitClose

LEMMA OrderlyStep ==
  TypeOK /\ Phases /\ use # "again" /\ Owned /\ Orderly /\ [Next]_vars => Orderly'
<1> SUFFICES ASSUME TypeOK, Phases, Owned, Orderly, [Next]_vars, use' = "orderly"
             PROVE  Orderly'
  BY DEF Orderly
<1>u. use = "orderly"
  BY DEF Next, OtherCode, Clicks, Connecting, Reconnect, Disconnect, UpdateEnds, EndsBy, CtrlSocket,
     IntrSocket, Connected, ConnectFails, SetCtrl, SetIntr, SetCtrlTo, SetIntrTo, SetStatus, Undo,
     CallQuit, Quit, QuitClose, vars, aux
<1> DEFINE Place(t) ==
         /\ pc[t] \in {"intr_set", "status"} => ctrl = csk[t]
         /\ pc[t] = "status" => intr = isk[t]
         /\ pc[t] \in {"stopped", "quit_ctrl"} => Session(ending[t])
         /\ pc[t] = "quit_intr" => table[intr] = [kind |-> "intr", call |-> ending[t]]
<1>o. /\ \A t, u \in Threads : pc[t] # "idle" /\ pc[u] # "idle" => t = u
      /\ up # None => Session(up) /\ \A t \in Threads : pc[t] = "idle"
      /\ \A t \in Threads : Place(t)
  BY <1>u DEF Orderly
<1>f. ctrl \in Fds /\ intr \in Fds
  BY DEF TypeOK
<1>k. \A n : IsBt([kind |-> "ctrl", call |-> n]) /\ IsBt([kind |-> "intr", call |-> n])
  BY IsBtOf DEF BtKinds
<1>1. CASE OtherCode
  <2>1. UNCHANGED <<ctrl, intr, pc, csk, isk, up, ending>>
    BY <1>1 DEF OtherCode, globals, locals, aux
  <2>2. /\ \A n : Session(n) => Session(n)'
        /\ \A n : table[intr] = [kind |-> "intr", call |-> n] => table'[intr] = table[intr]
    BY <1>1, <1>f, <1>k, <2>1, OtherCodeKeeps DEF Session
  <2> QED
    BY <1>o, <2>1, <2>2 DEF Orderly, Session
\* A step of one thread: only its own place matters.
<1>s. ASSUME NEW t \in Threads, Clicks(t) \/ Connecting(t) \/ CallQuit(t) \/ Quit(t),
             up' = None, Place(t)'
      PROVE  Orderly'
  <2>1. \A u \in Threads : u # t => pc'[u] = "idle"
    BY <1>s, <1>u, OthersIdle, OthersSame DEF Same
  <2>2. \A u \in Threads : Place(u)'
    BY <1>s, <2>1
  <2> QED
    BY <1>s, <2>1, <2>2 DEF Orderly
<1>2. ASSUME NEW t \in Threads, Clicks(t), Disconnect(t) \/ UpdateEnds(t) PROVE Orderly'
  <2>1. pc[t] = "idle" /\ pc'[t] \in {"stopped", "quit_ctrl"} /\ ending'[t] = up
        /\ UNCHANGED <<table, ctrl, intr>> /\ up' = None
    BY <1>2 DEF Disconnect, UpdateEnds, EndsBy, Goto, globals, TypeOK
  <2>2. up # None
    <3>1. ~ Reconnect(t)
      BY <1>2, <2>1 DEF Reconnect, Goto, TypeOK
    <3> QED
      BY <1>2, <1>u, <3>1 DEF Clicks
  <2>3. Session(up)
    BY <1>o, <2>2
  <2>4. Place(t)'
    BY <2>1, <2>3 DEF Session
  <2> QED
    BY <1>2, <1>s, <2>1, <2>4
<1>3. ASSUME NEW t \in Threads, Clicks(t), Reconnect(t) PROVE Orderly'
  <2>1. up' = None
    BY <1>3, <1>u, OthersIdle DEF Reconnect, Disconnect, UpdateEnds, EndsBy
  <2>2. pc'[t] \in {"idle", "csk_socket"}
    BY <1>3 DEF Reconnect, Goto, TypeOK
  <2> QED
    BY <1>3, <1>s, <2>1, <2>2
<1>4. ASSUME NEW t \in Threads, CtrlSocket(t) \/ IntrSocket(t) \/ Connected(t) \/ ConnectFails(t) \/ Undo(t)
      PROVE  Orderly'
  <2>1. up' = up /\ up = None
    BY <1>4, <1>o DEF CtrlSocket, IntrSocket, Connected, ConnectFails, Undo, aux
  <2>2. pc'[t] \in {"csk_connect", "isk_socket", "isk_connect", "ctrl_set", "undo", "idle"}
    BY <1>4 DEF CtrlSocket, IntrSocket, Connected, ConnectFails, Undo, Return, Goto, locals, TypeOK
  <2> QED
    BY <1>4, <1>s, <2>1, <2>2 DEF Connecting
<1>5. ASSUME NEW t \in Threads, SetCtrl(t) PROVE Orderly'
  <2>1. up' = up /\ up = None /\ pc'[t] = "intr_set" /\ ctrl' = csk[t] /\ csk' = csk
    BY <1>5, <1>o DEF SetCtrl, SetCtrlTo, Goto, locals, aux, TypeOK
  <2> QED
    BY <1>5, <1>s, <2>1 DEF Connecting
<1>6. ASSUME NEW t \in Threads, SetIntr(t) PROVE Orderly'
  <2>1. /\ up' = up /\ up = None /\ pc[t] = "intr_set" /\ pc'[t] = "status" /\ intr' = isk[t]
        /\ UNCHANGED <<ctrl, csk, isk>>
    BY <1>6, <1>o DEF SetIntr, SetIntrTo, Goto, locals, aux, TypeOK
  <2> QED
    BY <1>6, <1>s, <1>o, <2>1 DEF Connecting
<1>7. ASSUME NEW t \in Threads, SetStatus(t) PROVE Orderly'
  <2>1. /\ pc[t] = "status" /\ pc'[t] = "idle" /\ up' = call[t]
        /\ UNCHANGED <<table, ctrl, intr>>
    BY <1>7 DEF SetStatus, Return, Goto, TypeOK
  <2>2. \A u \in Threads : pc'[u] = "idle"
    BY <1>7, <1>u, <2>1, OthersIdle, OthersSame DEF Connecting, Same
  <2>3. /\ table[csk[t]] = [kind |-> "ctrl", call |-> call[t]]
        /\ table[isk[t]] = [kind |-> "intr", call |-> call[t]]
    BY <2>1 DEF Owned, Owns, HasCtl, HasCsk, HasIsk
  <2>4. Session(up)'
    BY <1>o, <2>1, <2>3 DEF Session
  <2> QED
    BY <2>2, <2>4 DEF Orderly
<1>8. ASSUME NEW t \in Threads, CallQuit(t) PROVE Orderly'
  <2>1. /\ up' = up /\ up = None /\ pc[t] = "stopped" /\ pc'[t] = "quit_ctrl"
        /\ UNCHANGED <<table, ctrl, intr, ending>>
    BY <1>8, <1>o DEF CallQuit, Goto, globals, aux, TypeOK
  <2>2. Place(t)'
    BY <1>o, <2>1 DEF Session
  <2> QED
    BY <1>8, <1>s, <2>1, <2>2
<1>9. ASSUME NEW t \in Threads, Quit(t) PROVE Orderly'
  <2>1. up' = up /\ up = None
    BY <1>9, <1>o DEF Quit, QuitClose
  <2>2. CASE pc[t] = "quit_ctrl"
    <3>1. Closes(ctrl) /\ pc'[t] = "quit_intr" /\ UNCHANGED <<intr, ending>>
      BY <1>9, <2>2 DEF Quit, QuitClose, Goto, globals, TypeOK
    <3>2. Session(ending[t])
      BY <1>o, <2>2
    <3>3. table[ctrl].kind = "ctrl" /\ table[intr].kind = "intr"
      BY <3>2 DEF Session
    <3>4. table'[intr] = table[intr]
      BY <1>f, <3>1, <3>3, ClosesOnly
    <3>5. Place(t)'
      BY <3>1, <3>2, <3>4 DEF Session
    <3> QED
      BY <1>9, <1>s, <2>1, <3>5
  <2>3. CASE pc[t] # "quit_ctrl"
    <3>1. pc'[t] \in {"quit_csg", "quit_isg", "idle"}
      BY <1>9, <2>3 DEF Quit, QuitClose, Goto, TypeOK
    <3> QED
      BY <1>9, <1>s, <2>1, <3>1
  <2> QED
    BY <2>2, <2>3
<1>10. CASE UNCHANGED vars
  BY <1>o, <1>10 DEF Orderly, Session, vars, globals, locals, aux
<1> QED
  BY <1>1, <1>2, <1>3, <1>4, <1>5, <1>6, <1>7, <1>8, <1>9, <1>10 DEF Next, Clicks, Connecting

(***************************************************************************)
(* The invariant and what it says of the properties                        *)
(***************************************************************************)

LEMMA OwnershipInit == Init => Ownership
<1> SUFFICES ASSUME Init PROVE Ownership
  OBVIOUS
<1>1. \A f \in Fds : ~ IsBt(table[f])
  BY NotBt DEF Init
<1>2. /\ \A t \in Threads : pc[t] = "idle" /\ call[t] = None
      /\ ctrl = 0 /\ intr = 0 /\ made = {} /\ up = None
  BY DEF Init
<1>3. Numbers /\ Owned /\ NoOther
  BY <1>1, <1>2 DEF Numbers, Owned, Owns, NoOther, HasCtl, HasCsk, HasIsk
<1>4. Connects /\ Orderly
  BY <1>2 DEF Connects, Orderly, Quits
<1> QED
  BY <1>3, <1>4 DEF Ownership

LEMMA UseKept == [Next]_vars => use' = use
  BY DEF Next, OtherCode, Clicks, Connecting, Reconnect, Disconnect, UpdateEnds, EndsBy, CtrlSocket,
     IntrSocket, Connected, ConnectFails, SetCtrl, SetIntr, SetCtrlTo, SetIntrTo, SetStatus, Undo,
     CallQuit, Quit, QuitClose, vars, aux

\* Whatever the calls do, each of them owns exactly the sockets it has opened, and
\* the globals name sockets of a call that connected.
LEMMA HidInvariant == Spec => []HidInv
<1>1. Init => HidInv
  BY TypeInit, OwnershipInit DEF HidInv
<1>2. HidInv /\ [Next]_vars => HidInv'
  <2> SUFFICES ASSUME HidInv, [Next]_vars PROVE HidInv'
    OBVIOUS
  <2>1. TypeOK' /\ Phases'
    BY TypeStep DEF HidInv
  <2>2. Ownership'
    <3> SUFFICES ASSUME use' # "again" PROVE (Numbers /\ Owned /\ NoOther /\ Connects /\ Orderly)'
      BY DEF Ownership
    <3>1. use # "again"
      BY UseKept
    <3>2. TypeOK /\ Phases /\ Numbers /\ Owned /\ NoOther /\ Connects /\ Orderly
      BY <3>1 DEF HidInv, Ownership
    <3> QED
      BY <3>1, <3>2, NumbersStep, OwnedStep, NoOtherStep, ConnectsStep, OrderlyStep
  <2> QED
    BY <2>1, <2>2 DEF HidInv
<1> QED
  BY <1>1, <1>2, PTL DEF Spec

\* With any number of connects under way at once, failing and succeeding in any
\* order while other code opens and closes descriptors, what ota_update() and
\* hidRead() find in ctrl and intr is an open control and interrupt channel.
THEOREM GlobalsCorrect == Spec => []GlobalsLive
<1>1. HidInv => GlobalsLive
  BY DEF HidInv, Ownership, Connects, GlobalsLive
<1> QED
  BY <1>1, HidInvariant, PTL

\* Connects that fail leave no socket behind, wherever they fail and whatever the
\* other threads do meanwhile: a Bluetooth socket that is open belongs to a
\* connection or to a call that is still on its way.
THEOREM FailureClean == Spec => []FailureLeavesNothing
<1>1. HidInv => FailureLeavesNothing
  <2> SUFFICES ASSUME HidInv, use = "connects", NEW f \in Fds, IsBt(table[f])
               PROVE  \/ table[f].call \in made
                      \/ \E t \in Threads : pc[t] # "idle" /\ call[t] = table[f].call
    BY DEF FailureLeavesNothing
  <2>1. TypeOK /\ Phases /\ NoOther
    BY DEF HidInv, Ownership
  <2>2. table[f].call # None
    BY <2>1, BtCall
  <2>3. CASE table[f].call \in made
    BY <2>3
  <2>4. ASSUME NEW t \in Threads, call[t] = table[f].call
        PROVE  pc[t] # "idle"
    BY <2>1, <2>2, <2>4 DEF Phases, HasCtl
  <2> QED
    BY <2>1, <2>3, <2>4 DEF NoOther
<1> QED
  BY <1>1, HidInvariant, PTL

\* One Disconnect for each connection: in every session, however many came before
\* it and however the numbers were given out again, ctrl and intr are the two
\* channels of the connection that is up.
THEOREM SessionCorrect == Spec => []SessionIntact
<1>1. HidInv => SessionIntact
  BY DEF HidInv, Ownership, Orderly, Session, SessionIntact
<1> QED
  BY <1>1, HidInvariant, PTL

\* What quit_serv() closes while it is used in order.
LEMMA QuitClosesSession ==
  ASSUME HidInv, use # "again", NEW t \in Threads, Quit(t),
         NEW f \in Fds \ {0}, table'[f] # table[f]
  PROVE  IsBt(table[f]) /\ table[f].call = ending[t]
<1>1. TypeOK /\ Connects /\ Orderly
  BY DEF HidInv, Ownership
<1>2. use = "orderly"
  BY <1>1, QuitAlone
<1>3. ctrl \in Fds /\ intr \in Fds /\ 0 \in Fds
  BY <1>1, ZeroInFds DEF TypeOK
<1>4. CASE QuitClose(t, "quit_ctrl", ctrl, "quit_intr")
  <2>1. pc[t] = "quit_ctrl" /\ f = ctrl
    BY <1>1, <1>3, <1>4, ClosesOnly DEF QuitClose
  <2>2. table[f] = [kind |-> "ctrl", call |-> ending[t]]
    BY <1>1, <1>2, <2>1 DEF Orderly, Session
  <2> QED
    BY <2>2, IsBtOf DEF BtKinds
<1>5. CASE QuitClose(t, "quit_intr", intr, "quit_csg")
  <2>1. pc[t] = "quit_intr" /\ f = intr
    BY <1>1, <1>3, <1>5, ClosesOnly DEF QuitClose
  <2>2. table[f] = [kind |-> "intr", call |-> ending[t]]
    BY <1>1, <1>2, <2>1 DEF Orderly
  <2> QED
    BY <2>2, IsBtOf DEF BtKinds
<1>6. ~ Closes(0)
  BY <1>1, <1>3, ClosesOnly
<1> QED
  BY <1>4, <1>5, <1>6 DEF Quit, QuitClose, csg, isg

\* The library closes descriptors of its own only, as long as it is disconnected
\* once for each connection: the numbers in ctrl and intr, and those in the undo
\* of a connect, have not been given to other code in the meantime.
THEOREM ForeignCorrect == Spec => ForeignKept
<1>1. HidInv /\ [Next]_vars =>
        [(use = "orderly" /\ ~ OtherCode) => \A f \in Fds \ {0} : table[f] = File => table'[f] = File]_vars
  <2> SUFFICES ASSUME HidInv, Next, use = "orderly", ~ OtherCode,
                      NEW f \in Fds \ {0}, table[f] = File, table'[f] # File
               PROVE  FALSE
    OBVIOUS
  <2>1. TypeOK /\ Phases /\ Owned
    BY DEF HidInv, Ownership
  <2>2. ~ IsBt(table[f]) /\ table[f] # Free
    BY NotBt DEF File, Free
  <2>3. PICK t \in Threads : Clicks(t) \/ Connecting(t) \/ CallQuit(t) \/ Quit(t)
    BY DEF Next
  <2>4. CASE Quit(t)
    BY <2>2, <2>4, QuitClosesSession
  <2>5. CASE Undo(t)
    <3>1. /\ pc[t] = "undo" /\ closing[t] # <<>> /\ closing[t] \in Seq(Fds)
          /\ Closes(Head(closing[t]))
      BY <2>1, <2>5 DEF Undo, Phases, TypeOK
    <3>2. /\ Head(closing[t]) = closing[t][1] /\ 1 \in 1 .. Len(closing[t])
          /\ Head(closing[t]) \in Fds
      BY <3>1
    <3>3. IsBt(table[Head(closing[t])])
      BY <2>1, <3>1, <3>2 DEF Owned, Owns
    <3> QED
      BY <2>1, <2>2, <3>1, <3>2, <3>3, ClosesOnly
  <2>6. ASSUME NEW o, Opens(o) PROVE FALSE
    BY <2>1, <2>2, <2>6, OpensKeeps
  <2>7. table' # table
    OBVIOUS
  <2> QED
    BY <2>3, <2>4, <2>5, <2>6, <2>7 DEF Clicks, Connecting, Reconnect, Disconnect, UpdateEnds, EndsBy,
       CtrlSocket, IntrSocket, Connected, ConnectFails, SetCtrl, SetIntr, SetCtrlTo, SetIntrTo, SetStatus, CallQuit
<1> QED
  BY <1>1, HidInvariant, PTL DEF Spec, ForeignKept

\* Only Disconnect without a connection, or a Connect between the logged end of an
\* update and its quit_serv(), makes quit_serv() close a socket that is not of the
\* connection it is to end: without the third use of the buttons it never does.
THEOREM QuitCorrect ==
  ASSUME "again" \notin Uses
  PROVE  Spec => QuitClosesOwn
<1>1. HidInv /\ [Next]_vars =>
        [\A t \in Threads, f \in Fds \ {0} : (Quit(t) /\ table'[f] # table[f]) =>
           IsBt(table[f]) /\ table[f].call = ending[t]]_vars
  <2>1. HidInv => use # "again"
    BY DEF HidInv, TypeOK
  <2> QED
    BY <2>1, QuitClosesSession
<1> QED
  BY <1>1, HidInvariant, PTL DEF Spec, QuitClosesOwn
=============================================================================
