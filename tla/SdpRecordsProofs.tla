--------------------------- MODULE SdpRecordsProofs ---------------------------
(***************************************************************************)
(* For any number of sessions and any channels: what SdpRecords says about *)
(* the sessions kept, the records offered and the answers of a search.     *)
(*                                                                         *)
(* The two halves of SessionsKept need one another, and what an orderly    *)
(* user holds: at most one service, in a session that no failed call left  *)
(* open, with the record made in it.  Numbers above made are new.          *)
(***************************************************************************)
EXTENDS SdpRecords, TLAPS

Counted ==
  /\ made \in 0 .. MaxSessions
  /\ {session, record} \cup open \cup lost \subseteq 0 .. made
  /\ \A r \in server : r.by \in 1 .. made /\ r.channel \in Channels
  /\ holds \subseteq {"pan", "dun"}
  /\ calm \in BOOLEAN /\ broken \in BOOLEAN
  /\ answer.ret \in {-1, 0, 1} /\ answer.channel \in Channels

Kept(h) ==
  /\ ~ broken
  /\ h = {} => open = lost /\ server = {}
  /\ h # {} => /\ \E svc \in h : h = {svc}
               /\ open = lost \cup {session} /\ session \notin lost
               /\ record = session
               /\ {r.by : r \in server} = {session}

IInv == Counted /\ (calm => Kept(holds))

\* The two switch statements for the type of a dial-up service agree.
LEMMA ClassesAgree == ASSUME NEW type PROVE DunSearched(type) = DunClass(type)
BY DEF DunSearched, DunClass

LEMMA InitOK == Init => IInv /\ FoundIsOffered
<1> SUFFICES ASSUME Init PROVE IInv /\ FoundIsOffered
  OBVIOUS
<1>1. calm \in BOOLEAN /\ broken \in BOOLEAN /\ ~ broken
  BY Zenon DEF Init
<1>2. /\ session = 0 /\ record = 0 /\ open = {} /\ server = {} /\ made = 0 /\ holds = {}
      /\ lost = {} /\ answer = NoAnswer
  BY Zenon DEF Init, NULL
<1>3. Counted
  BY <1>1, <1>2, SessionsAssumption, ChannelsAssumption DEF Counted, NoAnswer
<1>4. Kept(holds)
  BY <1>1, <1>2 DEF Kept
<1> QED BY <1>2, <1>3, <1>4 DEF IInv, NoAnswer, FoundIsOffered

LEMMA RegisterOK ==
  ASSUME IInv, NEW svc \in {"pan", "dun"}, NEW class, NEW channel \in Channels,
         Register(svc, class, channel)
  PROVE  IInv'
<1> USE SessionsAssumption, ChannelsAssumption DEF NULL
<1>1. CASE session' = NULL /\ UNCHANGED <<record, open, server, made, holds, lost>>
  <2>1. Counted'
    BY <1>1 DEF IInv, Counted, Register, NoAnswer
  <2>2. ASSUME calm' PROVE Kept(holds)'
    <3>1. calm /\ holds = {}
      BY <2>2 DEF Register
    <3> QED BY <1>1, <3>1 DEF IInv, Kept, Register
  <2> QED BY <2>1, <2>2 DEF IInv
<1>2. CASE /\ made' = made + 1 /\ session' = made' /\ record' = NULL
           /\ open' = open \cup KeptOnFailure(svc)
           /\ lost' = IF svc = "dun" THEN lost \cup {made'} ELSE lost
           /\ UNCHANGED <<server, holds>>
  <2>1. Counted'
    BY <1>2 DEF IInv, Counted, Register, NoAnswer, KeptOnFailure
  <2>2. ASSUME calm' PROVE Kept(holds)'
    <3>1. calm /\ holds = {}
      BY <2>2 DEF Register
    <3> QED BY <1>2, <3>1 DEF IInv, Kept, Register, KeptOnFailure
  <2> QED BY <2>1, <2>2 DEF IInv
<1>3. CASE /\ made' = made + 1 /\ session' = made' /\ record' = made'
           /\ open' = open \cup {made'}
           /\ server' = server \cup {[by |-> made', class |-> class, channel |-> channel]}
           /\ holds' = holds \cup {svc}
           /\ UNCHANGED lost
  <2>1. Counted'
    BY <1>3 DEF IInv, Counted, Register, NoAnswer
  <2>2. ASSUME calm' PROVE Kept(holds)'
    <3>1. calm /\ holds = {}
      BY <2>2 DEF Register
    <3>2. made' \notin lost /\ lost' = lost
      BY <1>3 DEF IInv, Counted
    <3>3. open' = lost' \cup {session'} /\ record' = session' /\ session' \notin lost'
      BY <1>3, <3>1, <3>2 DEF IInv, Kept
    <3>4. holds' = {svc} /\ {r.by : r \in server'} = {session'}
      <4> DEFINE rec == [by |-> made', class |-> class, channel |-> channel]
      <4>1. server' = {rec} /\ holds' = {svc} /\ session' = made'
        BY <1>3, <3>1 DEF IInv, Kept
      <4>2. rec.by = made'
        OBVIOUS
      <4> HIDE DEF rec
      <4> QED BY <4>1, <4>2
    <3>5. ~ broken'
      <4>1. ~ broken
        BY <3>1 DEF IInv, Kept
      <4>2. broken' = broken
        BY Zenon DEF Register
      <4> QED BY <4>1, <4>2
    <3> QED BY <3>3, <3>4, <3>5 DEF Kept
  <2> QED BY <2>1, <2>2 DEF IInv
<1> QED BY <1>1, <1>2, <1>3 DEF Register

LEMMA UnregisterOK ==
  ASSUME IInv, NEW svc \in {"pan", "dun"}, Unregister(svc)
  PROVE  IInv'
<1>1. Counted'
  BY ChannelsAssumption DEF IInv, Counted, Unregister, statics, NoAnswer, Closed
<1>2. ASSUME calm' PROVE Kept(holds)'
  <2>1. calm /\ svc \in holds
    BY <1>2 DEF Unregister
  <2>2. /\ holds = {svc} /\ session \in open /\ record \in open
        /\ open = lost \cup {session} /\ session \notin lost
        /\ \A r \in server : r.by = session
    BY <2>1 DEF IInv, Kept
  <2>3. holds' = {} /\ open' = lost' /\ server' = {}
    BY <2>2 DEF Unregister, Closed
  <2>4. ~ broken'
    BY <2>2 DEF Unregister
  <2> QED BY <2>3, <2>4 DEF Kept
<1> QED BY <1>1, <1>2 DEF IInv

\* What a search leaves alone, and what it may answer.
LEMMA SearchOK ==
  ASSUME IInv, NEW rsp, NEW call, NEW arg, NEW ret \in {-1, 0, 1}, NEW channel \in Channels,
         AnswersFrom(rsp, call, arg, ret, channel)
  PROVE  IInv'
BY DEF IInv, Counted, Kept, AnswersFrom, statics, local

\* Every step is a registration, its end, or a search with an answer that is right.
LEMMA StepOK ==
  ASSUME IInv, Next
  PROVE  IInv' /\ FoundIsOffered'
<1> USE ChannelsAssumption
<1>1. ASSUME NEW role \in Roles, RegisterPan(role)
      PROVE  IInv' /\ FoundIsOffered'
  <2>1. IInv'
    BY <1>1, RegisterOK DEF RegisterPan
  <2> QED BY <1>1, <2>1 DEF RegisterPan, Register, NoAnswer, FoundIsOffered
<1>2. ASSUME NEW type \in Types, NEW ch \in Channels, RegisterDun(type, ch)
      PROVE  IInv' /\ FoundIsOffered'
  <2>1. IInv'
    BY <1>2, RegisterOK DEF RegisterDun
  <2> QED BY <1>2, <2>1 DEF RegisterDun, Register, NoAnswer, FoundIsOffered
<1>3. ASSUME NEW svc \in {"pan", "dun"}, Unregister(svc)
      PROVE  IInv' /\ FoundIsOffered'
  <2>1. IInv'
    BY <1>3, UnregisterOK
  <2> QED BY <1>3, <2>1 DEF Unregister, NoAnswer, FoundIsOffered
<1>4. ASSUME NEW role \in Roles, SearchPan(role)
      PROVE  IInv' /\ FoundIsOffered'
  <2>1. CASE Answers("pan", role, 0, 0)
    BY <2>1, SearchOK DEF Answers, AnswersFrom, FoundIsOffered
  <2>2. CASE /\ role = "other role" \/ \E r \in server : r.class = PanClass(role)
             /\ Answers("pan", role, 1, 0)
    <3>1. IInv'
      BY <2>2, SearchOK DEF Answers
    <3> QED BY <2>2, <3>1 DEF Answers, AnswersFrom, local, FoundIsOffered
  <2> QED BY <1>4, <2>1, <2>2 DEF SearchPan
<1>5. ASSUME NEW type \in Types, SearchDun(type)
      PROVE  IInv' /\ FoundIsOffered'
  <2>1. ASSUME NEW ret \in {-1, 0}, Answers("dun", type, ret, 0)
        PROVE  IInv' /\ FoundIsOffered'
    BY <2>1, SearchOK DEF Answers, AnswersFrom, FoundIsOffered
  <2>2. ASSUME NEW r \in Matching(type), Answers("dun", type, 1, r.channel)
        PROVE  IInv' /\ FoundIsOffered'
    <3>1. r \in server /\ r.class = DunClass(type) /\ r.channel \in Channels
      BY ClassesAgree DEF Matching, IInv, Counted
    <3>2. IInv'
      BY <2>2, <3>1, SearchOK DEF Answers
    <3> QED BY <2>2, <3>1, <3>2
            DEF Answers, AnswersFrom, local, FoundIsOffered
  <2> QED BY <1>5, <2>1, <2>2 DEF SearchDun
<1>6. ASSUME Alternate
      PROVE  IInv' /\ FoundIsOffered'
  <2>1. PICK headset \in SUBSET Channels, serial \in SUBSET Channels, err \in {-1, 0} :
          LET rsp  == {<<"HEADSET", ch>> : ch \in headset} \cup
                      {<<"SERIAL_PORT", ch>> : ch \in serial}
              last == IF err > 0 THEN headset ELSE serial
          IN \/ AnswersFrom(rsp, "alternate", AltService(err), -1, 0)
             \/ \E ch \in last \ {0} :
                  AnswersFrom(rsp, "alternate", AltService(err), 0, ch)
    BY <1>6 DEF Alternate
  <2> DEFINE rsp == {<<"HEADSET", ch>> : ch \in headset} \cup
                    {<<"SERIAL_PORT", ch>> : ch \in serial}
  <2>2. ~ (err > 0) /\ AltService(err) = "SERIAL_PORT"
    BY DEF AltService
  <2>3. \A ch \in serial : <<"SERIAL_PORT", ch>> \in rsp
    OBVIOUS
  <2> HIDE DEF rsp
  <2>4. CASE AnswersFrom(rsp, "alternate", AltService(err), -1, 0)
    BY <2>4, SearchOK DEF AnswersFrom, FoundIsOffered
  <2>5. ASSUME NEW ch \in serial, AnswersFrom(rsp, "alternate", AltService(err), 0, ch)
        PROVE  IInv' /\ FoundIsOffered'
    <3>1. IInv'
      BY <2>5, SearchOK
    <3> QED BY <2>2, <2>3, <2>5, <3>1 DEF AnswersFrom, FoundIsOffered
  <2> QED BY <2>1, <2>2, <2>4, <2>5 DEF rsp
<1> QED BY <1>1, <1>2, <1>3, <1>4, <1>5, <1>6 DEF Next

LEMMA StutterOK ==
  IInv /\ FoundIsOffered /\ UNCHANGED vars
    => IInv' /\ FoundIsOffered'
<1> SUFFICES ASSUME IInv, FoundIsOffered, UNCHANGED vars
             PROVE  IInv' /\ FoundIsOffered'
  OBVIOUS
<1>1. /\ UNCHANGED <<session, record, open, server, made, holds, lost, answer>>
      /\ calm' = calm /\ broken' = broken
  BY Zenon DEF vars, statics, local
<1>2. IInv'
  BY <1>1, Zenon DEF IInv, Counted, Kept
<1>3. FoundIsOffered'
  BY <1>1 DEF FoundIsOffered
<1> QED BY <1>2, <1>3

THEOREM Invariants == Spec => [](IInv /\ FoundIsOffered)
<1>1. Init => IInv /\ FoundIsOffered
  BY InitOK
<1>2. IInv /\ FoundIsOffered /\ [Next]_vars
        => IInv' /\ FoundIsOffered'
  BY StepOK, StutterOK
<1> QED BY <1>1, <1>2, PTL DEF Spec

\* The statics, the sessions and the answers keep their types.
THEOREM TypeCorrect == Spec => []TypeOK
<1>1. IInv => TypeOK
  BY SessionsAssumption DEF IInv, Counted, TypeOK
<1> QED BY <1>1, Invariants, PTL

\* An orderly user never touches a session that is gone, leaves none open but those
\* of a dun_sdp_register() that failed, and offers its record while it holds a service.
THEOREM SessionsKeptAlways == Spec => []SessionsKept
<1>1. IInv => SessionsKept
  BY DEF IInv, Kept, SessionsKept
<1> QED BY <1>1, Invariants, PTL

\* A search finds what was registered for the same role or type, and the channel of
\* get_alternate_device_info() is one of the service it names.
THEOREM FoundAlways == Spec => []FoundIsOffered
BY Invariants, PTL
=============================================================================
