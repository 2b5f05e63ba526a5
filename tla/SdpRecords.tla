------------------------------ MODULE SdpRecords ------------------------------
(***************************************************************************)
(* The service records the library offers for PAN and dial-up networking   *)
(* and the searches for such records on other devices (jni/sdp.c):         *)
(* bnep_sdp_register(), bnep_sdp_unregister(), bnep_sdp_search(), the same *)
(* three for dun, and get_alternate_device_info().                         *)
(*                                                                         *)
(* PAN and dial-up share the static variables session and record.  The     *)
(* SDP servers and libbluetooth are external: a record lives as long as    *)
(* the session it was registered in, a request gives 0 on success, and a   *)
(* session or record that is gone must not be used.                        *)
(***************************************************************************)
EXTENDS Integers, FiniteSets

CONSTANTS
  MaxSessions,   \* bound: sessions opened for a registration
  Channels       \* RFCOMM channels; 0 is none

ASSUME SessionsAssumption == MaxSessions \in Nat
ASSUME ChannelsAssumption == Channels \subseteq Nat /\ 0 \in Channels

Roles    == {"PANU", "NAP", "GN", "other role"}
Types    == {"LANACCESS", "MROUTER", "ACTIVESYNC", "DIALUP", "other type"}
NULL     == 0
NoClass  == "none"
NoAnswer == [call |-> "none", arg |-> "none", ret |-> 0, channel |-> 0, rsp |-> {}]

VARIABLES
  session, record,  \* the static variables: numbers of sessions, or NULL
  open,             \* the sessions open at the local server
  server,           \* the records there
  made,             \* auxiliary: sessions opened so far, also their names
  holds,            \* auxiliary: "pan" and "dun", where registered and not yet
                    \* unregistered
  lost,             \* auxiliary: sessions a failed dun_sdp_register() left open
  calm,             \* auxiliary: nobody unregistered what it does not hold, or
                    \* registered while something was held
  broken,           \* a session that is gone was used
  answer            \* the last search, what it returned, and the channels of the
                    \* services the other device has, in get_alternate_device_info()

statics == <<session, record>>
local   == <<open, server, made, holds, lost, calm, broken>>
vars    == <<statics, local, answer>>

TypeOK ==
  /\ {session, record} \cup open \cup lost \subseteq 0 .. MaxSessions
  /\ \A r \in server : r.by \in 1 .. MaxSessions /\ r.channel \in Channels
  /\ made \in 0 .. MaxSessions /\ holds \subseteq {"pan", "dun"}
  /\ calm \in BOOLEAN /\ broken \in BOOLEAN
  /\ answer.ret \in {-1, 0, 1} /\ answer.channel \in Channels

Init ==
  /\ session = NULL /\ record = NULL
  /\ open = {} /\ server = {} /\ made = 0
  /\ holds = {} /\ lost = {} /\ calm = TRUE /\ broken = FALSE
  /\ answer = NoAnswer

-----------------------------------------------------------------------------
(***************************************************************************)
(* Records of this phone                                                   *)
(***************************************************************************)

\* The service class of a PAN role; a role of no case gives a record without one.
PanClass(role) == CASE role = "NAP"  -> "NAP"
                    [] role = "GN"   -> "GN"
                    [] role = "PANU" -> "PANU"
                    [] OTHER         -> NoClass

\* The class of a dial-up type that is registered, and the one that is searched:
\* two switch statements of the source.
DunClass(type) == CASE type = "MROUTER"    -> "SERIAL_PORT"
                    [] type = "ACTIVESYNC" -> "async_uuid"
                    [] type = "DIALUP"     -> "DIALUP_NET"
                    [] OTHER               -> "LAN_ACCESS"
DunSearched(type) == CASE type = "MROUTER"    -> "SERIAL_PORT"
                       [] type = "ACTIVESYNC" -> "async_uuid"
                       [] type = "DIALUP"     -> "DIALUP_NET"
                       [] OTHER               -> "LAN_ACCESS"

\* Mutant: PAN forgets the session of a registration that failed, as dial-up does.
KeptByAll(svc) == {made'}

\* What stays open when sdp_record_alloc() or the registration fails.
KeptOnFailure(svc) == IF svc = "dun" THEN {made'} ELSE {}

\* bnep_sdp_register() and dun_sdp_register().
Register(svc, class, channel) ==
  /\ made < MaxSessions
  /\ calm' = (calm /\ holds = {})
  /\ \/ /\ session' = NULL                          \* sdp_connect() fails
        /\ UNCHANGED <<record, open, server, made, holds, lost>>
     \/ /\ made' = made + 1 /\ session' = made'
        /\ \/ /\ record' = NULL                     \* no record, or refused
              /\ open' = open \cup KeptOnFailure(svc)
              /\ lost' = IF svc = "dun" THEN lost \cup {made'} ELSE lost
              /\ UNCHANGED <<server, holds>>
           \/ /\ record' = made'
              /\ open' = open \cup {made'}
              /\ server' = server \cup {[by |-> made', class |-> class, channel |-> channel]}
              /\ holds' = holds \cup {svc}
              /\ UNCHANGED lost
  /\ answer' = NoAnswer
  /\ UNCHANGED broken

RegisterPan(role) == Register("pan", PanClass(role), 0)
RegisterDun(type, channel) == Register("dun", DunClass(type), channel)

Closed == {session}

\* bnep_sdp_unregister() and dun_sdp_unregister(): record and session keep their
\* values.  The record goes with the session, whether or not it could be removed.
Unregister(svc) ==
  /\ calm' = (calm /\ svc \in holds)
  /\ broken' = (session \notin open \/ record \notin {NULL} \cup open)
  /\ open' = open \ Closed
  /\ server' = {r \in server : r.by \notin Closed}
  /\ holds' = holds \ {svc}
  /\ answer' = NoAnswer
  /\ UNCHANGED <<statics, made, lost>>

-----------------------------------------------------------------------------
(***************************************************************************)
(* Searches, each in a session of its own.  They keep nothing: one between *)
(* two registrations is enough (a bound).                                  *)
(***************************************************************************)
AnswersFrom(rsp, call, arg, ret, channel) ==
  /\ answer = NoAnswer
  /\ answer' = [call |-> call, arg |-> arg, ret |-> ret, channel |-> channel, rsp |-> rsp]
  /\ UNCHANGED <<statics, local>>

Answers(call, arg, ret, channel) == AnswersFrom({}, call, arg, ret, channel)

\* bnep_sdp_search(), of a device that offers what this phone does.  For a role of
\* no case the class searched for is not initialised: anything may be found.
SearchPan(role) ==
  \/ Answers("pan", role, 0, 0)
  \/ /\ role = "other role" \/ \E r \in server : r.class = PanClass(role)
     /\ Answers("pan", role, 1, 0)

Matching(type) == {r \in server : r.class = DunSearched(type) /\ r.channel > 0}

\* dun_sdp_search(): -1 without a session, 0 when the request fails or no record
\* has a channel, else the channel of the first that has one.
SearchDun(type) ==
  \/ Answers("dun", type, -1, 0)
  \/ Answers("dun", type, 0, 0)
  \/ \E r \in Matching(type) : Answers("dun", type, 1, r.channel)

\* Mutant: the first search is believed as soon as it worked.
AltFromFirst(err) == IF err >= 0 THEN "HEADSET" ELSE "SERIAL_PORT"

\* The service a device is taken for.  A search that worked gives 0, and the test
\* is for a number above 0: the second search, for a serial port, follows always.
AltService(err) == IF err > 0 THEN "HEADSET" ELSE "SERIAL_PORT"

\* get_alternate_device_info(): the channel comes from the last search made.
Alternate ==
  \E headset, serial \in SUBSET Channels, err \in {-1, 0} :
    LET rsp  == {<<"HEADSET", ch>> : ch \in headset} \cup {<<"SERIAL_PORT", ch>> : ch \in serial}
        last == IF err > 0 THEN headset ELSE serial
    IN \/ AnswersFrom(rsp, "alternate", AltService(err), -1, 0)
       \/ \E ch \in last \ {0} : AnswersFrom(rsp, "alternate", AltService(err), 0, ch)

Next ==
  /\ ~ broken
  /\ \/ \E role \in Roles : RegisterPan(role) \/ SearchPan(role)
     \/ \E type \in Types : SearchDun(type) \/ \E ch \in Channels : RegisterDun(type, ch)
     \/ \E svc \in {"pan", "dun"} : Unregister(svc)
     \/ Alternate
Spec == Init /\ [][Next]_vars
-----------------------------------------------------------------------------
\* Whoever registers one service at a time and unregisters what it registered uses
\* no session that is gone, whatever failed before, and leaves none open but the one
\* it holds and those of failed calls of dun_sdp_register().  The phone offers one
\* record while a service is held, in the session it will be removed with, and none
\* afterwards.
SessionsKept ==
  LET held == IF holds = {} THEN {} ELSE {session}
  IN calm => /\ ~ broken
             /\ open = lost \cup held
             /\ {r.by : r \in server} = held

\* A search of either kind finds only what was registered under the same role or
\* type, and gives the channel it was registered with; the channel
\* get_alternate_device_info() gives belongs to the service it names.
FoundIsOffered ==
  /\ (answer.call = "dun" /\ answer.ret = 1) =>
       \E r \in server : r.class = DunClass(answer.arg) /\ r.channel = answer.channel
  /\ (answer.call = "pan" /\ answer.ret = 1 /\ answer.arg # "other role") =>
       \E r \in server : r.class = PanClass(answer.arg)
  /\ (answer.call = "alternate" /\ answer.ret = 0) =>
       <<answer.arg, answer.channel>> \in answer.rsp
=============================================================================
