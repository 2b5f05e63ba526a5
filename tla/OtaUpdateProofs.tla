--------------------------- MODULE OtaUpdateProofs ---------------------------
(***************************************************************************)
(* Theorems about OtaUpdate, for every image, buffer content, wait time    *)
(* and channel size: first for answers that may be late (Spec), then for   *)
(* timely answers (TimelySpec).                                            *)
(***************************************************************************)
EXTENDS OtaUpdate, TLAPS

(***************************************************************************)
(* Lemmas about the operators                                              *)
(***************************************************************************)

\* Whatever SendNextCmd loads, from the file or from behind it, is a command.
LEMMA CommandsAtType == \A i \in Nat : CommandsAt(i) \subseteq Commands
  BY ImageAssumption, JunkAssumption DEF CommandsAt

\* hidRead() only stores stages that the wait loop knows.
LEMMA VerdictType ==
  ASSUME NEW r \in Reports, NEW seq
  PROVE  VerdictOf(r, seq) \in {"NEXT_CMD", "ERR_RETRY", "COMPLETE"}
  BY DEF VerdictOf, Reports, Answers, OtherReport, Statuses

LEMMA AppendType ==
  ASSUME NEW S, NEW s \in Seq(S), NEW e \in S
  PROVE  Append(s, e) \in Seq(S)
  OBVIOUS

LEMMA CopiesType ==
  ASSUME wire.copies \in 0 .. MaxCopies
  PROVE  CopiesNow \in 0 .. MaxCopies
  BY DEF CopiesNow, MaxCopies

(***************************************************************************)
(* Type correctness                                                        *)
(***************************************************************************)

LEMMA TypeInit == Init => TypeOK
<1> SUFFICES ASSUME Init PROVE TypeOK
  OBVIOUS
<1>1. cmd_buf \in Commands /\ rsp_cmd \in Reports
  BY DEF Init, Commands, Kinds, Reports
<1>2. toDev \in Seq(Packets) /\ toHost \in Seq(Reports)
  BY DEF Init
<1>3. wire \in [idx : Nat, copies : 0 .. MaxCopies]
  BY DEF Init, MaxCopies
<1> QED
  BY <1>1, <1>2, <1>3 DEF Init, TypeOK, UpdatePcs, ReadPcs, Stages

LEMMA TypeStep == TypeOK /\ [Next]_vars => TypeOK'
<1> SUFFICES ASSUME TypeOK, [Next]_vars PROVE TypeOK'
  OBVIOUS
<1> USE DEF TypeOK, UpdatePcs, ReadPcs
<1>1. CASE Start
  BY <1>1 DEF Start, linkVars, devVars, auxVars
<1>2. CASE SendNextCmd
  BY <1>2, CommandsAtType DEF SendNextCmd, Stages, readVars, linkVars, devVars, auxVars
<1>3. CASE LoadSeq
  BY <1>3 DEF LoadSeq, Commands, readVars, linkVars, devVars, auxVars
<1>4. CASE RetryCmd
  BY <1>4 DEF RetryCmd, RetryWith, Stages, readVars, linkVars, devVars, auxVars
<1>5. CASE HidWrite
  <2>1. [cmd |-> cmd_buf.cmd, seq |-> cmd_buf.seq, idx |-> idx] \in Packets
    BY DEF Packets, Commands
  <2> DEFINE p == [cmd |-> cmd_buf.cmd, seq |-> cmd_buf.seq, idx |-> idx]
  <2>2. toDev' \in Seq(Packets)
    <3>1. toDev' = toDev \/ toDev' = Append(toDev, p)
      BY <1>5 DEF HidWrite
    <3>2. p \in Packets
      BY <2>1
    <3>3. toDev \in Seq(Packets)
      OBVIOUS
    <3> HIDE DEF p, TypeOK
    <3> QED
      BY <3>1, <3>2, <3>3, AppendType
  <2>3. wire' \in [idx : Nat, copies : 0 .. MaxCopies]
    BY <1>5, CopiesType DEF HidWrite
  <2> QED
    BY <1>5, <2>2, <2>3 DEF HidWrite, globals, readVars, devVars
<1>6. ASSUME NEW stage, NEW label \in UpdatePcs, PollTo(stage, label) PROVE TypeOK'
  BY <1>6 DEF PollTo, globals, readVars, linkVars, devVars, auxVars
<1>7. CASE PollNext \/ PollErrRetry \/ PollComplete \/ PollIdle
  BY <1>6, <1>7 DEF PollNext, PollErrRetry, PollComplete, PollIdle
<1>8. CASE PollTimeout
  BY <1>8 DEF PollTimeout, globals, readVars, linkVars, devVars, auxVars
<1>9. CASE OtaFail \/ OtaSuccess
  BY <1>9 DEF OtaFail, OtaSuccess, EndWith, readVars, linkVars, devVars
<1>10. CASE QuitServ
  BY <1>10 DEF QuitServ, CloseIntr, globals, readVars, devVars, auxVars
<1>11. CASE ReadLoop
  BY <1>11 DEF ReadLoop, updVars, globals, linkVars, devVars, auxVars
<1>12. CASE ReadEnter
  BY <1>12 DEF ReadEnter, updVars, globals, linkVars, devVars, auxVars
<1>13. CASE ReadReport
  BY <1>13 DEF ReadReport, updVars, devVars, auxVars
<1>14. CASE ReadNothing
  BY <1>14 DEF ReadNothing, Reports, updVars, linkVars, devVars, auxVars
<1>15. CASE Decide
  BY <1>15, VerdictType DEF Decide, Stages, updVars, globals, linkVars, devVars, auxVars
<1>16. CASE Store
  BY <1>16 DEF Store, updVars, linkVars, devVars, auxVars
<1>17. CASE ReaderFail
  BY <1>17 DEF ReaderFail, updVars, linkVars, devVars, auxVars
<1>18. ASSUME NEW st \in Statuses, DeviceAnswer(st) PROVE TypeOK'
  <2>1. /\ Head(toDev) \in Packets /\ Tail(toDev) \in Seq(Packets)
        /\ Head(toDev).cmd # "OTHER"
    BY <1>18 DEF DeviceAnswer
  <2>2. [cmd |-> Head(toDev).cmd, seq |-> Head(toDev).seq, stat |-> st] \in Reports
    BY <2>1 DEF Packets, Reports, Answers
  <2>3. toHost' \in Seq(Reports)
    BY <1>18, <2>2 DEF DeviceAnswer
  <2>4. devLast' \in Nat /\ accepted' \in SUBSET Nat /\ concluded' \in SUBSET Nat
    BY <1>18, <2>1 DEF DeviceAnswer, Packets
  <2> QED
    BY <1>18, <2>1, <2>3, <2>4 DEF DeviceAnswer, updVars, globals, readVars, auxVars
<1>19. CASE DeviceSilent
  <2>1. Head(toDev) \in Packets /\ Tail(toDev) \in Seq(Packets)
    BY <1>19 DEF DeviceSilent
  <2> QED
    BY <1>19, <2>1 DEF DeviceSilent, Packets, updVars, globals, readVars, auxVars
<1>20. CASE DeviceReport
  BY <1>20 DEF DeviceReport, Reports, updVars, globals, readVars, devVars, auxVars
<1>21. CASE LinkLost
  BY <1>21 DEF LinkLost, updVars, globals, readVars, devVars, auxVars
<1>22. CASE DeconnectClient
  BY <1>22 DEF DeconnectClient, CloseIntr, updVars, globals, readVars, devVars, auxVars
<1>23. CASE UNCHANGED vars
  BY <1>23 DEF vars, updVars, globals, readVars, linkVars, devVars, auxVars
<1> QED
  BY <1>1, <1>2, <1>3, <1>4, <1>5, <1>7, <1>8, <1>9, <1>10, <1>11, <1>12, <1>13,
     <1>14, <1>15, <1>16, <1>17, <1>18, <1>19, <1>20, <1>21, <1>22, <1>23
  DEF Next, Update, Poll, Reader, Device

\* Every global of hidserv.c and every local of ota_update() keeps its range.
THEOREM TypeCorrect == Spec => []TypeOK
  BY TypeInit, TypeStep, PTL DEF Spec

(***************************************************************************)
(* The device takes the commands in image order                            *)
(***************************************************************************)

\* Every command in the channel is the one before it or its successor, from the
\* last the device took to the last ota_update() wrote; what it writes next is
\* one of these two as well.
Follows(i, j) == j = i \/ j = i + 1

Chain ==
  /\ \A k \in 1 .. Len(toDev) :
       Follows(IF k = 1 THEN devLast ELSE toDev[k - 1].idx, toDev[k].idx)
  /\ wire.idx = IF toDev = <<>> THEN devLast ELSE toDev[Len(toDev)].idx

WriterNext ==
  /\ Follows(wire.idx, idx)
  /\ upc \in {"entry", "send_next", "wait"} => idx = wire.idx

InOrder == Chain /\ WriterNext

LEMMA InOrderInit == Init => InOrder
  BY DEF Init, InOrder, Chain, WriterNext, Follows

LEMMA InOrderStep ==
  TypeOK /\ InOrder /\ [Next]_vars
    => InOrder' /\ (devLast' # devLast => devLast' = devLast + 1)
<1> SUFFICES ASSUME TypeOK, InOrder, [Next]_vars
             PROVE  InOrder' /\ (devLast' # devLast => devLast' = devLast + 1)
  OBVIOUS
<1> USE DEF InOrder, WriterNext, Follows
<1>1. idx \in Nat /\ devLast \in Nat /\ wire.idx \in Nat /\ toDev \in Seq(Packets)
  BY DEF TypeOK
<1>2. UNCHANGED <<toDev, devLast, wire>> => Chain' /\ devLast' = devLast
  BY DEF Chain
<1>3. CASE SendNextCmd
  BY <1>1, <1>2, <1>3 DEF SendNextCmd, linkVars, devVars, auxVars
<1>4. CASE HidWrite
  <2> DEFINE p == [cmd |-> cmd_buf.cmd, seq |-> cmd_buf.seq, idx |-> idx]
  <2>1. CASE UNCHANGED <<toDev, wire>>
    BY <1>2, <1>4, <2>1 DEF HidWrite, devVars
  <2>2. CASE toDev' = Append(toDev, p) /\ wire' = [idx |-> idx, copies |-> CopiesNow]
    <3>1. devLast' = devLast /\ idx' = idx /\ wire'.idx = idx /\ p.idx = idx
      BY <1>4, <2>2 DEF HidWrite, devVars
    <3> HIDE DEF p
    <3>2. /\ toDev' # <<>> /\ Len(toDev') = Len(toDev) + 1
          /\ toDev'[Len(toDev) + 1] = p
          /\ \A k \in 1 .. Len(toDev) : toDev'[k] = toDev[k]
      BY <1>1, <2>2
    <3>3. Follows(IF toDev = <<>> THEN devLast ELSE toDev[Len(toDev)].idx, idx)
      BY DEF Chain
    <3>4. Chain'
      <4>1. \A k \in 1 .. Len(toDev) :
              Follows(IF k = 1 THEN devLast' ELSE toDev'[k - 1].idx, toDev'[k].idx)
        <5> TAKE k \in 1 .. Len(toDev)
        <5>1. Follows(IF k = 1 THEN devLast ELSE toDev[k - 1].idx, toDev[k].idx)
          BY DEF Chain
        <5>2. toDev'[k] = toDev[k] /\ (k # 1 => toDev'[k - 1] = toDev[k - 1])
          BY <1>1, <3>2
        <5> QED
          BY <3>1, <5>1, <5>2
      <4>2. Follows(IF Len(toDev) + 1 = 1 THEN devLast' ELSE toDev'[Len(toDev)].idx,
                    toDev'[Len(toDev) + 1].idx)
        BY <1>1, <3>1, <3>2, <3>3
      <4>3. \A k \in 1 .. Len(toDev') :
              Follows(IF k = 1 THEN devLast' ELSE toDev'[k - 1].idx, toDev'[k].idx)
        <5> TAKE k \in 1 .. Len(toDev')
        <5>1. k \in 1 .. Len(toDev) \/ k = Len(toDev) + 1
          BY <1>1, <3>2
        <5>2. (Len(toDev) + 1) - 1 = Len(toDev)
          BY <1>1
        <5> HIDE DEF Follows
        <5> QED
          BY <4>1, <4>2, <5>1, <5>2
      <4>4. wire'.idx = toDev'[Len(toDev')].idx
        BY <3>1, <3>2
      <4> QED
        BY <3>2, <4>3, <4>4 DEF Chain
    <3> QED
      BY <3>1, <3>4
  <2> QED
    BY <1>4, <2>1, <2>2 DEF HidWrite
<1>5. ASSUME toDev # <<>>, toDev' = Tail(toDev), devLast' = Head(toDev).idx,
             UNCHANGED <<wire, idx, upc>>
      PROVE  InOrder' /\ (devLast' # devLast => devLast' = devLast + 1)
  <2>1. /\ Len(toDev') = Len(toDev) - 1
        /\ \A k \in 1 .. Len(toDev') : toDev'[k] = toDev[k + 1]
        /\ devLast' = toDev[1].idx
        /\ Len(toDev) \in Nat \ {0}
    BY <1>1, <1>5
  <2>2. Follows(devLast, toDev[1].idx)
    BY <2>1 DEF Chain
  <2>3. \A k \in 1 .. Len(toDev') :
          Follows(IF k = 1 THEN devLast' ELSE toDev'[k - 1].idx, toDev'[k].idx)
    <3> TAKE k \in 1 .. Len(toDev')
    <3>1. k + 1 \in 1 .. Len(toDev) /\ k + 1 # 1 /\ (k + 1) - 1 = k
      BY <2>1
    <3>2. Follows(toDev[k].idx, toDev[k + 1].idx)
      BY <3>1 DEF Chain
    <3>3. k # 1 => toDev'[k - 1] = toDev[k]
      BY <2>1
    <3> QED
      BY <2>1, <3>2, <3>3
  <2>4. wire'.idx = IF toDev' = <<>> THEN devLast' ELSE toDev'[Len(toDev')].idx
    <3>1. wire'.idx = toDev[Len(toDev)].idx
      BY <1>5 DEF Chain
    <3>2. toDev' # <<>> => toDev'[Len(toDev')] = toDev[Len(toDev)]
      BY <1>1, <1>5
    <3>3. toDev' = <<>> => Len(toDev) = 1
      BY <2>1, <1>5
    <3> QED
      BY <2>1, <3>1, <3>2, <3>3
  <2> QED
    BY <1>5, <2>2, <2>1, <2>3, <2>4 DEF Chain
<1>6. CASE \E st \in Statuses : DeviceAnswer(st)
  BY <1>5, <1>6 DEF DeviceAnswer, updVars, auxVars
<1>7. CASE DeviceSilent
  BY <1>5, <1>7 DEF DeviceSilent, updVars, auxVars
<1>8. CASE Start
  BY <1>2, <1>8 DEF Start, linkVars, devVars, auxVars
<1>9. CASE LoadSeq
  BY <1>2, <1>9 DEF LoadSeq, linkVars, devVars, auxVars
<1>10. CASE RetryCmd
  BY <1>2, <1>10 DEF RetryCmd, RetryWith, linkVars, devVars, auxVars
<1>11. CASE Poll \/ PollIdle
  BY <1>2, <1>11 DEF Poll, PollNext, PollErrRetry, PollComplete, PollIdle, PollTo,
                     PollTimeout, linkVars, devVars, auxVars
<1>12. CASE OtaFail \/ OtaSuccess \/ QuitServ
  BY <1>2, <1>12 DEF OtaFail, OtaSuccess, EndWith, QuitServ, linkVars, devVars, auxVars
<1>13. CASE Reader
  BY <1>2, <1>13 DEF Reader, ReadLoop, ReadEnter, ReadReport, ReadNothing, Decide,
                     Store, ReaderFail, updVars, linkVars, devVars, auxVars
<1>14. CASE DeviceReport \/ LinkLost \/ DeconnectClient \/ UNCHANGED vars
  BY <1>2, <1>14 DEF DeviceReport, LinkLost, DeconnectClient, vars, updVars, linkVars, devVars, auxVars
<1> QED
  BY <1>3, <1>4, <1>6, <1>7, <1>8, <1>9, <1>10, <1>11, <1>12, <1>13, <1>14
  DEF Next, Update, Device

\* The device takes the commands of the image in order and none is left out,
\* whatever is sent again, lost or answered late.
THEOREM InOrderDelivery == Spec => DeliveryInOrder
<1>1. TypeOK /\ InOrder /\ [Next]_vars
        => [devLast' # devLast => devLast' = devLast + 1]_vars
  BY InOrderStep
<1> QED
  BY <1>1, InOrderInit, InOrderStep, TypeCorrect, PTL DEF Spec, DeliveryInOrder

(***************************************************************************)
(* Success is earned                                                       *)
(***************************************************************************)

\* An answer hidRead() turns into COMPLETE.
Concluding(r) == Concludes(r, r.stat)

\* Wherever a success is on its way, in the channel, in rsp_cmd, in the stage
\* about to be stored, in OTAStage or in the wait loop, the device concluded.
Earned ==
  \/ concluded # {}
  \/ /\ \A k \in 1 .. Len(toHost) : ~ Concluding(toHost[k])
     /\ ~ Concluding(rsp_cmd)
     /\ verdict # "COMPLETE" /\ OTAStage # "COMPLETE"
     /\ upc # "success" /\ outcome # "success"

LEMMA VerdictComplete ==
  ASSUME NEW r \in Reports, NEW seq, VerdictOf(r, seq) = "COMPLETE"
  PROVE  Concluding(r)
  BY DEF VerdictOf, Concluding, Concludes, Reports, Answers, OtherReport, Statuses

LEMMA EarnedInit == Init => Earned
  BY DEF Init, Earned, Concluding, Concludes, OtherReport

LEMMA EarnedStep == TypeOK /\ Earned /\ [Next]_vars => Earned'
<1> SUFFICES ASSUME TypeOK, Earned, [Next]_vars PROVE Earned'
  OBVIOUS
<1>1. concluded \subseteq concluded'
  BY DEF Next, Update, Start, SendNextCmd, LoadSeq, RetryCmd, RetryWith, HidWrite, Poll, PollNext,
         PollErrRetry, PollComplete, PollIdle, PollTo, PollTimeout, OtaFail, OtaSuccess,
         EndWith, QuitServ, Reader, ReadLoop, ReadEnter, ReadReport, ReadNothing, Decide,
         Store, ReaderFail, Device, DeviceAnswer, DeviceSilent, DeviceReport, LinkLost,
         DeconnectClient, vars, devVars
<1>2. CASE concluded # {}
  BY <1>1, <1>2 DEF Earned
<1>3. CASE concluded = {}
  <2>1. /\ \A k \in 1 .. Len(toHost) : ~ Concluding(toHost[k])
        /\ ~ Concluding(rsp_cmd)
        /\ verdict # "COMPLETE" /\ OTAStage # "COMPLETE"
        /\ upc # "success" /\ outcome # "success"
    BY <1>3 DEF Earned
  <2>2. toHost \in Seq(Reports) /\ rsp_cmd \in Reports /\ toDev \in Seq(Packets)
    BY DEF TypeOK
  <2>3. UNCHANGED <<toHost, rsp_cmd, verdict>> /\ OTAStage' # "COMPLETE"
          /\ upc' # "success" /\ outcome' # "success" => Earned'
    BY <2>1 DEF Earned, Concluding
  <2>4. ASSUME NEW r \in Reports, toHost' = Append(toHost, r), ~ Concluding(r),
               UNCHANGED <<rsp_cmd, verdict, OTAStage, upc, outcome>>
        PROVE  Earned'
    <3>1. \A k \in 1 .. Len(toHost') : toHost'[k] = r \/ \E j \in 1 .. Len(toHost) : toHost'[k] = toHost[j]
      BY <2>2, <2>4
    <3> QED
      BY <2>1, <2>4, <3>1 DEF Earned, Concluding
  <2>5. CASE Start \/ SendNextCmd \/ LoadSeq \/ RetryCmd \/ HidWrite
    BY <2>1, <2>3, <2>5 DEF Start, SendNextCmd, LoadSeq, RetryCmd, RetryWith, HidWrite, globals,
                            readVars, linkVars, auxVars
  <2>6. CASE Poll \/ PollIdle
    BY <2>1, <2>3, <2>6 DEF Poll, PollNext, PollErrRetry, PollComplete, PollIdle, PollTo,
                            PollTimeout, globals, readVars, linkVars, auxVars
  <2>7. CASE OtaFail \/ OtaSuccess \/ QuitServ
    BY <2>1, <2>3, <2>7 DEF OtaFail, OtaSuccess, EndWith, QuitServ, globals, readVars,
                            linkVars, auxVars
  <2>8. CASE ReadLoop \/ ReadEnter \/ ReaderFail
    BY <2>1, <2>3, <2>8 DEF ReadLoop, ReadEnter, ReaderFail, updVars, globals, linkVars,
                            auxVars
  <2>9. CASE ReadReport
    <3>1. \A k \in 1 .. Len(toHost') : toHost'[k] = toHost[k + 1] /\ k + 1 \in 1 .. Len(toHost)
      BY <2>2, <2>9 DEF ReadReport
    <3>2. rsp_cmd' = toHost[1] /\ 1 \in 1 .. Len(toHost)
      BY <2>2, <2>9 DEF ReadReport
    <3> QED
      BY <2>1, <2>9, <3>1, <3>2 DEF ReadReport, Earned, Concluding, updVars, auxVars
  <2>10. CASE ReadNothing
    BY <2>1, <2>10 DEF ReadNothing, Earned, Concluding, Concludes, OtherReport, updVars,
                       linkVars, auxVars
  <2>11. CASE Decide
    BY <2>1, <2>2, <2>11, VerdictComplete DEF Decide, Earned, Concluding, updVars, globals,
                                              linkVars, auxVars
  <2>12. CASE Store
    BY <2>1, <2>3, <2>12 DEF Store, updVars, linkVars, auxVars
  <2>13. ASSUME NEW st \in Statuses, DeviceAnswer(st) PROVE Earned'
    <3> DEFINE p == Head(toDev)
               r == [cmd |-> p.cmd, seq |-> p.seq, stat |-> st]
    <3>1. p \in Packets /\ p.cmd # "OTHER"
      BY <2>2, <2>13 DEF DeviceAnswer
    <3>2. CASE Concludes(p, st)
      BY <2>13, <3>2 DEF DeviceAnswer, Earned
    <3>3. CASE ~ Concludes(p, st)
      <4>1. r \in Reports /\ ~ Concluding(r)
        BY <3>1, <3>3 DEF Packets, Reports, Answers, Concluding, Concludes
      <4>2. toHost' = toHost \/ toHost' = Append(toHost, r)
        BY <2>13 DEF DeviceAnswer
      <4>3. UNCHANGED <<rsp_cmd, verdict, OTAStage, upc, outcome>>
        BY <2>13 DEF DeviceAnswer, updVars, globals, readVars, auxVars
      <4> HIDE DEF r
      <4> QED
        BY <2>1, <2>3, <2>4, <4>1, <4>2, <4>3
    <3> QED
      BY <3>2, <3>3
  <2>14. CASE DeviceSilent \/ LinkLost \/ DeconnectClient \/ UNCHANGED vars
    BY <2>1, <2>3, <2>14 DEF DeviceSilent, LinkLost, DeconnectClient, vars, updVars, globals, readVars,
                             linkVars, auxVars
  <2>15. CASE DeviceReport
    <3>1. OtherReport \in Reports /\ ~ Concluding(OtherReport)
      BY DEF Reports, Concluding, Concludes, OtherReport
    <3> QED
      BY <2>4, <2>15, <3>1 DEF DeviceReport, updVars, globals, readVars, auxVars
  <2> QED
    BY <2>5, <2>6, <2>7, <2>8, <2>9, <2>10, <2>11, <2>12, <2>13, <2>14, <2>15
    DEF Next, Update, Reader, Device
<1> QED
  BY <1>2, <1>3

\* ota_update() reports success only after the device concluded the update, for
\* every interleaving of the two threads and every answer, however late.
THEOREM SuccessEarned == Spec => []SuccessIsEarned
<1>1. Earned => SuccessIsEarned
  BY DEF Earned, SuccessIsEarned
<1> QED
  BY <1>1, EarnedInit, EarnedStep, TypeCorrect, PTL DEF Spec

(***************************************************************************)
(* Timely answers.  When they come in time (TimelySpec) there is one       *)
(* token: the command in the channel, or its answer in the channel, in     *)
(* hidRead() or in OTAStage.  ota_update() sends again only when the token *)
(* is gone, so no answer is taken for another one.                         *)
(***************************************************************************)

\* ota_update() waits and no answer is stored.
Pending == upc = "wait" /\ OTAStage = "RETRYING"

\* An answer to the command in cmd_buf.
Right(r) == r.cmd = cmd_buf.cmd /\ (r.stat = "SUCCESS" => idx \in accepted)

AnswersIn == {k \in 1 .. Len(toHost) : IsAnswer(toHost[k])}
Reading   == rpc \in {"decide", "store"}
Goes      == idx \in accepted /\ cmd_buf.cmd # "FINISH"

\* The token is the command ...
InChannel ==
  link = "up" /\ toDev # <<>> =>
    /\ Len(toDev) = 1 /\ Pending
    /\ toDev[1].cmd = cmd_buf.cmd /\ toDev[1].idx = idx
    /\ ReaderLives => AnswersIn = {} /\ ~ Reading
\* ... or the answer in the channel ...
InAnswers ==
  ReaderLives =>
    /\ \A j, k \in AnswersIn : j = k
    /\ \A k \in AnswersIn : Pending /\ ~ Reading /\ Right(toHost[k])
\* ... or in hidRead() ...
InReader ==
  /\ rpc = "decide" => Pending /\ Right(rsp_cmd)
  /\ rpc = "store" => Pending /\ verdict # "RETRYING" /\ (verdict = "NEXT_CMD" => Goes)
\* ... or in OTAStage.
InStage == upc = "wait" /\ OTAStage = "NEXT_CMD" => Goes

\* The last round of the wait loop, and the counter it comes from.
LastRound ==
  /\ upc = "wait" /\ wait_count + 1 >= OTA_WAIT_TIME => Quiet
  /\ upc = "write" => wait_count = 0 /\ OTAStage = "RETRYING"
  /\ upc = "entry" => rpc = "none" /\ toDev = <<>> /\ AnswersIn = {}

Token == InChannel /\ InAnswers /\ InReader /\ InStage /\ LastRound

\* What the token gives: the commands before idx are accepted, and the buffer
\* holds the command at idx, which ota_update() leaves only if it is not FINISH.
Progress ==
  /\ \A i \in 1 .. Len(Image) : i < idx => i \in accepted
  /\ upc = "entry" => idx = 0
  /\ upc = "send_next" /\ idx # 0 => Goes
  /\ idx \in 1 .. Len(Image) => cmd_buf = Image[idx]
  /\ ImageEndsInFinish => idx <= Len(Image)

TimelyInv == Token /\ Progress

LEMMA TimelyIsNext == [TimelyNext]_vars => [Next]_vars
  BY DEF TimelyNext, Next, TimelyIdle

LEMMA TimelyTypeCorrect == TimelySpec => []TypeOK
  BY TypeInit, TypeStep, TimelyIsNext, PTL DEF TimelySpec

LEMMA TimelyInit == Init => TimelyInv
  BY WaitAssumption DEF Init, TimelyInv, Token, InChannel, InAnswers, InReader, InStage,
     LastRound, Progress, AnswersIn, ReaderLives, Goes

(***************************************************************************)
(* The channel to the host: what a step does to the answers in it          *)
(***************************************************************************)

\* Taking an answer takes the only one; taking another report takes none.
LEMMA AnswersTail ==
  ASSUME TypeOK, toHost # <<>>, toHost' = Tail(toHost)
  PROVE  /\ Head(toHost) = toHost[1]
         /\ 1 \in AnswersIn <=> IsAnswer(Head(toHost))
         /\ \A k \in AnswersIn' : k + 1 \in AnswersIn /\ k + 1 # 1 /\ toHost'[k] = toHost[k + 1]
<1>1. toHost \in Seq(Reports)
  BY DEF TypeOK
<1>2. /\ Len(toHost) \in Nat \ {0} /\ Len(toHost') = Len(toHost) - 1
      /\ Head(toHost) = toHost[1]
      /\ \A k \in 1 .. Len(toHost') : toHost'[k] = toHost[k + 1]
  BY <1>1
<1> QED
  BY <1>2 DEF AnswersIn, IsAnswer

LEMMA AnswersAppend ==
  ASSUME TypeOK, NEW r, toHost' = Append(toHost, r)
  PROVE  \A k \in AnswersIn' :
           \/ k \in AnswersIn /\ toHost'[k] = toHost[k]
           \/ k = Len(toHost) + 1 /\ toHost'[k] = r /\ IsAnswer(r)
<1>1. toHost \in Seq(Reports)
  BY DEF TypeOK
<1>2. /\ Len(toHost) \in Nat /\ Len(toHost') = Len(toHost) + 1
      /\ toHost'[Len(toHost) + 1] = r
      /\ \A k \in 1 .. Len(toHost) : toHost'[k] = toHost[k]
  BY <1>1
<1> QED
  BY <1>2 DEF AnswersIn, IsAnswer

LEMMA AnswersSame ==
  ASSUME toHost' = toHost
  PROVE  AnswersIn' = AnswersIn
  BY DEF AnswersIn

\* Quiet says of the answers what the token says.
LEMMA QuietAnswers ==
  Quiet <=> /\ link = "up" => toDev = <<>>
            /\ ReaderLives => AnswersIn = {} /\ ~ Reading
  BY DEF Quiet, AnswersIn, Reading, IsAnswer

\* Outside the wait, and in it once OTAStage is set, nothing else is under way.
LEMMA NotPendingIsQuiet ==
  ASSUME Token, ~ Pending
  PROVE  Quiet
  BY QuietAnswers DEF Token, InChannel, InAnswers, InReader, Reading

\* Only an accepted command other than FINISH makes the host go on.
LEMMA VerdictNext ==
  ASSUME NEW r \in Reports, NEW seq, VerdictOf(r, seq) = "NEXT_CMD"
  PROVE  r.stat = "SUCCESS" /\ r.cmd # "FINISH"
  BY DEF VerdictOf, Reports, Answers, OtherReport, Statuses

(***************************************************************************)
(* The token                                                               *)
(***************************************************************************)

LEMMA TokenStep == TypeOK /\ TimelyInv /\ [TimelyNext]_vars => Token'
<1> SUFFICES ASSUME TypeOK, TimelyInv, [TimelyNext]_vars PROVE Token'
  OBVIOUS
<1> USE DEF TimelyInv, ReaderLives, Reading
<1>q. ASSUME Quiet, UNCHANGED <<toDev, toHost, rpc>>, upc' # "entry",
             link' = "up" => link = "up",
             InStage', LastRound'
      PROVE  Token'
  <2>1. AnswersIn' = AnswersIn
    BY <1>q, AnswersSame
  <2>2. (link = "up" => toDev = <<>>) /\ (ReaderLives => AnswersIn = {} /\ ~ Reading)
    BY <1>q, QuietAnswers
  <2>3. InChannel'
    BY <1>q, <2>2 DEF InChannel
  <2>4. InAnswers' /\ InReader'
    BY <1>q, <2>1, <2>2 DEF InAnswers, InReader
  <2> QED
    BY <1>q, <2>3, <2>4 DEF Token
<1>s. ASSUME UNCHANGED <<updVars, OTAStage, rsp_cmd, rpc, verdict>>,
             link' = "up" => link = "up" /\ toDev' \in {toDev, <<>>},
             toDev = <<>> => toDev' = <<>>,
             accepted \subseteq accepted',
             \A k \in AnswersIn' : k \in AnswersIn /\ toHost'[k] = toHost[k]
      PROVE  Token'
  <2>1. UNCHANGED <<upc, idx, cmd_buf, wait_count, OTAStage, rsp_cmd, rpc, verdict>>
    BY <1>s DEF updVars
  <2>2. AnswersIn = {} => AnswersIn' = {}
    BY <1>s
  <2>3. Quiet => Quiet'
    <3>1. ASSUME ReaderLives', Quiet
          PROVE  (\A j \in 1 .. Len(toHost') : ~ IsAnswer(toHost'[j])) /\ rpc' \notin {"decide", "store"}
      BY <2>1, <2>2, <3>1, QuietAnswers DEF AnswersIn
    <3> QED
      BY <1>s, <3>1 DEF Quiet
  <2>4. InChannel'
    BY <1>s, <2>1, <2>2 DEF Token, InChannel, Pending
  <2>5. InAnswers'
    BY <1>s, <2>1 DEF Token, InAnswers, Pending, Right
  <2>6. InReader' /\ InStage'
    BY <1>s, <2>1 DEF Token, InReader, InStage, Pending, Right, Goes
  <2>7. LastRound'
    BY <1>s, <2>1, <2>2, <2>3 DEF Token, LastRound
  <2> QED
    BY <2>4, <2>5, <2>6, <2>7 DEF Token
<1>1. CASE Start
  <2>1. toDev = <<>> /\ AnswersIn = {} /\ rpc = "none"
    BY <1>1 DEF Start, Token, LastRound
  <2>2. toDev' = <<>> /\ AnswersIn' = {} /\ rpc' \in {"none", "loop"}
    BY <1>1, <2>1, AnswersSame DEF Start, linkVars
  <2>3. upc' \in {"fail", "send_next"}
    BY <1>1 DEF Start
  <2> QED
    BY <2>2, <2>3 DEF Token, InChannel, InAnswers, InReader, InStage, LastRound
<1>2. CASE SendNextCmd \/ LoadSeq \/ RetryCmd \/ OtaFail \/ OtaSuccess
  <2>1. ~ Pending /\ UNCHANGED <<toDev, toHost, rpc, link>>
    BY <1>2 DEF SendNextCmd, LoadSeq, RetryCmd, RetryWith, OtaFail, OtaSuccess, EndWith,
                Pending, readVars, linkVars
  <2>2. upc' \notin {"entry", "wait"}
    BY <1>2 DEF SendNextCmd, LoadSeq, RetryCmd, RetryWith, OtaFail, OtaSuccess, EndWith
  <2>3. upc' = "write" => wait_count' = 0 /\ OTAStage' = "RETRYING"
    BY <1>2 DEF SendNextCmd, LoadSeq, RetryCmd, RetryWith, OtaFail, OtaSuccess, EndWith
  <2> QED
    BY <1>q, <2>1, <2>2, <2>3, NotPendingIsQuiet DEF InStage, LastRound
<1>3. CASE HidWrite
  <2>1. upc = "write" /\ ~ Pending /\ Quiet /\ OTAStage = "RETRYING" /\ wait_count = 0
    BY <1>3, NotPendingIsQuiet DEF HidWrite, Pending, Token, LastRound
  <2>2. UNCHANGED <<toHost, rpc, link, OTAStage, wait_count, cmd_buf, idx>>
    BY <1>3 DEF HidWrite, globals, readVars
  <2>3. CASE upc' = "fail" /\ UNCHANGED toDev
    BY <1>q, <2>1, <2>2, <2>3 DEF InStage, LastRound
  <2>4. CASE /\ link = "up" /\ upc' = "wait"
             /\ toDev' = Append(toDev, [cmd |-> cmd_buf.cmd, seq |-> cmd_buf.seq, idx |-> idx])
    <3>1. /\ Len(toDev') = 1 /\ toDev'[1].cmd = cmd_buf.cmd /\ toDev'[1].idx = idx
      BY <2>1, <2>4 DEF Quiet
    <3>2. ReaderLives => AnswersIn = {} /\ ~ Reading
      BY <2>1, QuietAnswers
    <3>3. AnswersIn' = AnswersIn
      BY <2>2, AnswersSame
    <3>4. InChannel' /\ InAnswers' /\ InReader'
      BY <2>1, <2>2, <2>4, <3>1, <3>2, <3>3 DEF InChannel, InAnswers, InReader, Pending
    <3> QED
      BY <2>1, <2>2, <2>4, <3>4, WaitAssumption DEF Token, InStage, LastRound
  <2> QED
    BY <1>3, <2>3, <2>4 DEF HidWrite
<1>4. CASE PollNext \/ PollErrRetry \/ PollComplete
  <2>1. ~ Pending /\ UNCHANGED <<toDev, toHost, rpc, link>>
    BY <1>4 DEF PollNext, PollErrRetry, PollComplete, PollTo, Pending, readVars, linkVars
  <2>2. upc' \notin {"entry", "wait", "write"}
    BY <1>4 DEF PollNext, PollErrRetry, PollComplete, PollTo
  <2> QED
    BY <1>q, <2>1, <2>2, NotPendingIsQuiet DEF InStage, LastRound
<1>5. CASE PollTimeout
  BY <1>5, <1>q DEF PollTimeout, Token, InStage, LastRound, readVars, linkVars
<1>6. CASE TimelyIdle
  <2>1. /\ upc = "wait" /\ upc' = "wait" /\ OTAStage = "RETRYING" /\ wait_count' = wait_count + 1
        /\ UNCHANGED <<idx, cmd_buf, OTAStage, rsp_cmd, rpc, verdict, link, toDev, toHost, accepted>>
    BY <1>6 DEF TimelyIdle, PollIdle, PollTo, globals, readVars, linkVars, devVars
  <2>2. wait_count' + 1 >= OTA_WAIT_TIME => Quiet'
    BY <1>6, <2>1, WaitAssumption DEF TimelyIdle, Quiet, TypeOK
  <2>3. InChannel' /\ InAnswers' /\ InReader' /\ InStage'
    BY <2>1, AnswersSame DEF Token, InChannel, InAnswers, InReader, InStage, Pending, Right, Goes
  <2> QED
    BY <2>1, <2>2, <2>3 DEF Token, LastRound
<1>7. CASE QuitServ
  <2>1. ~ Pending /\ UNCHANGED <<toDev, toHost, rpc>> /\ upc' = "return"
          /\ (link' = "up" => link = "up")
    BY <1>7 DEF QuitServ, CloseIntr, Pending, readVars, TypeOK
  <2> QED
    BY <1>q, <2>1, NotPendingIsQuiet DEF InStage, LastRound
<1>8. CASE ReadLoop \/ ReadEnter \/ ReadNothing \/ ReaderFail
  <2>1. /\ ReaderLives' => ReaderLives
        /\ ~ Reading' /\ rpc # "none"
        /\ UNCHANGED <<updVars, OTAStage, link, toDev, toHost, accepted>>
    BY <1>8 DEF ReadLoop, ReadEnter, ReadNothing, ReaderFail, globals, linkVars, devVars
  <2>2. AnswersIn' = AnswersIn
    BY <2>1, AnswersSame
  <2>3. Quiet => Quiet'
    BY <2>1 DEF Quiet
  <2> QED
    BY <2>1, <2>2, <2>3 DEF updVars, Token, InChannel, InAnswers, InReader, InStage, LastRound,
                            Pending, Right, Goes
<1>9. CASE ReadReport
  <2>1. /\ rpc = "recv" /\ toHost # <<>> /\ toHost' = Tail(toHost) /\ rsp_cmd' = Head(toHost)
        /\ UNCHANGED <<updVars, OTAStage, toDev, accepted>> /\ (link' = "up" => link = "up")
        /\ rpc' = IF IsAnswer(Head(toHost)) THEN "decide" ELSE "loop"
    BY <1>9 DEF ReadReport, devVars, TypeOK
  <2>2. CASE IsAnswer(Head(toHost))
    <3>1. 1 \in AnswersIn /\ Head(toHost) = toHost[1]
      BY <2>1, <2>2, AnswersTail
    <3>2. AnswersIn' = {}
      BY <2>1, <3>1, AnswersTail DEF Token, InAnswers
    <3>3. Pending /\ Right(Head(toHost))
      BY <2>1, <3>1 DEF Token, InAnswers
    <3>4. link = "up" => toDev = <<>>
      BY <2>1, <3>1 DEF Token, InChannel
    <3>5. ~ Quiet
      BY <2>1, <3>1, QuietAnswers
    <3> QED
      BY <2>1, <2>2, <3>2, <3>3, <3>4, <3>5
      DEF updVars, Token, InChannel, InAnswers, InReader, InStage, LastRound, Pending, Right
  <2>3. CASE ~ IsAnswer(Head(toHost))
    <3>1. \A k \in AnswersIn' : k + 1 \in AnswersIn /\ toHost'[k] = toHost[k + 1]
      BY <2>1, AnswersTail
    <3>2. AnswersIn = {} => AnswersIn' = {}
      BY <3>1
    <3>3. \A j, k \in AnswersIn' : j = k
      BY <2>1, <3>1 DEF Token, InAnswers, AnswersIn
    <3>4. Quiet => Quiet'
      <4>1. ASSUME Quiet PROVE \A j \in 1 .. Len(toHost') : ~ IsAnswer(toHost'[j])
        BY <2>1, <3>2, <4>1, QuietAnswers DEF AnswersIn
      <4> QED
        BY <2>1, <2>3, <4>1 DEF Quiet
    <3> QED
      BY <2>1, <2>3, <3>1, <3>2, <3>3, <3>4
      DEF updVars, Token, InChannel, InAnswers, InReader, InStage, LastRound, Pending, Right, Goes
  <2> QED
    BY <2>2, <2>3
<1>10. CASE Decide
  <2>1. /\ rpc = "decide" /\ rpc' = "store"
        /\ verdict' = VerdictOf(rsp_cmd, current_data_seq)
        /\ UNCHANGED <<updVars, OTAStage, link, toDev, toHost, accepted>>
    BY <1>10 DEF Decide, globals, linkVars, devVars
  <2>2. Pending /\ Right(rsp_cmd) /\ rsp_cmd \in Reports
    BY <2>1 DEF Token, InReader, TypeOK
  <2>3. verdict' # "RETRYING"
    BY <2>1, <2>2, VerdictType
  <2>4. verdict' = "NEXT_CMD" => Goes
    BY <2>1, <2>2, VerdictNext DEF Right, Goes
  <2>5. AnswersIn = {} /\ (link = "up" => toDev = <<>>) /\ ~ Quiet
    BY <2>1 DEF Token, InAnswers, InChannel, Quiet
  <2>6. AnswersIn' = {}
    BY <2>1, <2>5, AnswersSame
  <2> QED
    BY <2>1, <2>2, <2>3, <2>4, <2>5, <2>6
    DEF updVars, Token, InChannel, InAnswers, InReader, InStage, LastRound, Pending, Goes
<1>11. CASE Store
  <2>1. /\ rpc = "store" /\ rpc' = "loop" /\ OTAStage' = verdict
        /\ UNCHANGED <<updVars, link, toDev, toHost, accepted>>
    BY <1>11 DEF Store, linkVars, devVars
  <2>2. Pending /\ (verdict = "NEXT_CMD" => Goes)
    BY <2>1 DEF Token, InReader
  <2>3. AnswersIn = {} /\ (link = "up" => toDev = <<>>) /\ ~ Quiet
    BY <2>1 DEF Token, InAnswers, InChannel, Quiet
  <2>4. AnswersIn' = {}
    BY <2>1, <2>3, AnswersSame
  <2> QED
    BY <2>1, <2>2, <2>3, <2>4
    DEF updVars, Token, InChannel, InAnswers, InReader, InStage, LastRound, Pending, Goes
<1>12. ASSUME NEW st \in Statuses, DeviceAnswer(st) PROVE Token'
  <2> DEFINE p == Head(toDev)
             r == [cmd |-> p.cmd, seq |-> p.seq, stat |-> st]
  <2>1. /\ toDev # <<>> /\ toDev' = Tail(toDev)
        /\ accepted' = IF st = "SUCCESS" THEN accepted \cup {p.idx} ELSE accepted
        /\ toHost' = IF link = "up" THEN Append(toHost, r) ELSE toHost
        /\ UNCHANGED <<updVars, OTAStage, rsp_cmd, rpc, verdict, link>>
    BY <1>12 DEF DeviceAnswer, globals, readVars
  <2>2. CASE link # "up"
    <3>1. toHost' = toHost /\ AnswersIn' = AnswersIn
      BY <2>1, <2>2, AnswersSame
    <3>2. accepted \subseteq accepted'
      BY <2>1
    <3> HIDE DEF p, r
    <3> QED
      BY <1>s, <2>1, <2>2, <3>1, <3>2
  <2>3. CASE link = "up"
    <3>1. /\ Len(toDev) = 1 /\ Pending
          /\ toDev[1].cmd = cmd_buf.cmd /\ toDev[1].idx = idx
          /\ ReaderLives => AnswersIn = {} /\ ~ Reading
      BY <2>1, <2>3 DEF Token, InChannel
    <3>2. toDev' = <<>> /\ p = toDev[1]
      BY <2>1, <3>1 DEF TypeOK
    <3>3. r.cmd = cmd_buf.cmd /\ (r.stat = "SUCCESS" => idx \in accepted')
      BY <2>1, <3>1, <3>2
    <3> HIDE DEF p, r
    <3>4. ReaderLives => \A k \in AnswersIn' : k = Len(toHost) + 1 /\ toHost'[k] = r
      BY <2>1, <2>3, <3>1, AnswersAppend
    <3>5. ~ Quiet
      BY <2>1, <2>3 DEF Quiet
    <3>6. UNCHANGED <<upc, idx, cmd_buf, wait_count, OTAStage, rsp_cmd, rpc, verdict>>
      BY <2>1 DEF updVars
    <3>7. upc = "wait" /\ OTAStage = "RETRYING"
      BY <3>1 DEF Pending
    <3>8. InChannel' /\ InReader' /\ InStage'
      BY <3>1, <3>2, <3>6, <3>7 DEF InChannel, InReader, InStage
    <3>9. InAnswers'
      BY <3>1, <3>3, <3>4, <3>6, <3>7 DEF InAnswers, Pending, Right
    <3>10. LastRound'
      BY <3>5, <3>6, <3>7 DEF Token, LastRound
    <3> QED
      BY <3>8, <3>9, <3>10 DEF Token
  <2> QED
    BY <2>2, <2>3
<1>13. CASE DeviceSilent
  <2>1. /\ toDev # <<>> /\ toDev' = Tail(toDev)
        /\ UNCHANGED <<updVars, OTAStage, rsp_cmd, rpc, verdict, link, toHost, accepted>>
    BY <1>13 DEF DeviceSilent, globals, readVars
  <2>2. link = "up" => toDev' = <<>>
    BY <2>1 DEF Token, InChannel, TypeOK
  <2> QED
    BY <1>s, <2>1, <2>2, AnswersSame
<1>14. CASE DeviceReport
  <2>1. /\ toHost' = Append(toHost, OtherReport)
        /\ UNCHANGED <<updVars, OTAStage, rsp_cmd, rpc, verdict, link, toDev, accepted>>
    BY <1>14 DEF DeviceReport, globals, readVars, devVars
  <2>2. ~ IsAnswer(OtherReport)
    BY DEF IsAnswer, OtherReport
  <2> QED
    BY <1>s, <2>1, <2>2, AnswersAppend
<1>15. CASE LinkLost \/ DeconnectClient \/ UNCHANGED vars
  <2>1. /\ UNCHANGED <<updVars, OTAStage, rsp_cmd, rpc, verdict, toDev, toHost, accepted>>
        /\ link' = "up" => link = "up"
    BY <1>15 DEF LinkLost, DeconnectClient, CloseIntr, vars, updVars, globals, readVars,
                 linkVars, devVars
  <2> QED
    BY <1>s, <2>1, AnswersSame
<1> QED
  BY <1>1, <1>2, <1>3, <1>4, <1>5, <1>6, <1>7, <1>8, <1>9, <1>10, <1>11, <1>12, <1>13, <1>14, <1>15
  DEF TimelyNext, Update, Poll, Reader, Device

(***************************************************************************)
(* What the host has reached                                               *)
(***************************************************************************)

LEMMA ProgressStep == TypeOK /\ TimelyInv /\ [TimelyNext]_vars => Progress'
<1> SUFFICES ASSUME TypeOK, TimelyInv, [TimelyNext]_vars PROVE Progress'
  OBVIOUS
<1>p. Progress /\ idx \in Nat /\ Image \in Seq(Commands)
  BY ImageAssumption DEF TimelyInv, TypeOK
<1>s. ASSUME UNCHANGED <<idx, cmd_buf>>, accepted \subseteq accepted',
             upc' = "entry" => upc = "entry",
             upc' = "send_next" => upc = "send_next" \/ idx = 0 \/ Goes
      PROVE  Progress'
  BY <1>p, <1>s DEF Progress, Goes
<1>1. CASE Start
  BY <1>p, <1>s, <1>1 DEF Start, Progress, devVars
<1>2. CASE SendNextCmd
  <2>1. /\ upc = "send_next" /\ upc' = "load" /\ accepted' = accepted
        /\ idx' = IF idx > Len(Image) THEN idx ELSE idx + 1
        /\ cmd_buf' \in CommandsAt(idx')
    BY <1>2 DEF SendNextCmd, devVars
  <2>2. idx # 0 => Goes
    BY <1>p, <2>1 DEF Progress
  <2>3. \A i \in 1 .. Len(Image) : i < idx' => i \in accepted'
    BY <1>p, <2>1, <2>2 DEF Progress, Goes
  <2>4. idx' \in 1 .. Len(Image) => cmd_buf' = Image[idx']
    BY <1>p, <2>1 DEF CommandsAt
  <2>5. ImageEndsInFinish => idx' <= Len(Image)
    <3> SUFFICES ASSUME ImageEndsInFinish PROVE idx' <= Len(Image)
      OBVIOUS
    <3>1. idx <= Len(Image) /\ Len(Image) \in Nat \ {0}
      BY <1>p DEF Progress, ImageEndsInFinish
    <3>2. CASE idx = 0
      BY <2>1, <3>1, <3>2
    <3>3. CASE idx # 0
      <4>1. cmd_buf = Image[idx] /\ cmd_buf.cmd # "FINISH"
        BY <1>p, <2>2, <3>1, <3>3 DEF Progress, Goes
      <4>2. idx # Len(Image)
        BY <1>p, <3>1, <3>3, <4>1 DEF ImageEndsInFinish
      <4> QED
        BY <1>p, <2>1, <3>1, <4>2
    <3> QED
      BY <3>2, <3>3
  <2> QED
    BY <2>1, <2>3, <2>4, <2>5 DEF Progress, ImageEndsInFinish
<1>3. CASE LoadSeq \/ RetryCmd \/ HidWrite \/ OtaFail \/ OtaSuccess \/ QuitServ
  BY <1>s, <1>3 DEF LoadSeq, RetryCmd, RetryWith, HidWrite, OtaFail, OtaSuccess, EndWith,
                    QuitServ, devVars
<1>4. CASE PollNext
  BY <1>s, <1>4 DEF PollNext, PollTo, TimelyInv, Token, InStage, devVars
<1>5. CASE PollErrRetry \/ PollComplete \/ PollTimeout \/ TimelyIdle
  BY <1>s, <1>5 DEF PollErrRetry, PollComplete, PollTimeout, TimelyIdle, PollIdle, PollTo, devVars
<1>6. CASE Reader
  BY <1>s, <1>6 DEF Reader, ReadLoop, ReadEnter, ReadReport, ReadNothing, Decide, Store,
                    ReaderFail, updVars, devVars
<1>7. CASE Device
  <2>1. UNCHANGED updVars /\ accepted \subseteq accepted'
    BY <1>7 DEF Device, DeviceAnswer, DeviceSilent
  <2> QED
    BY <1>s, <2>1 DEF updVars
<1>8. CASE DeviceReport \/ LinkLost \/ DeconnectClient \/ UNCHANGED vars
  BY <1>s, <1>8 DEF DeviceReport, LinkLost, DeconnectClient, vars, updVars, devVars
<1> QED
  BY <1>1, <1>2, <1>3, <1>4, <1>5, <1>6, <1>7, <1>8 DEF TimelyNext, Update, Poll

LEMMA TimelyInvariant == TimelySpec => []TimelyInv
<1>1. TypeOK /\ TimelyInv /\ [TimelyNext]_vars => TimelyInv'
  BY TokenStep, ProgressStep DEF TimelyInv
<1> QED
  BY <1>1, TimelyInit, TimelyTypeCorrect, PTL DEF TimelySpec

(***************************************************************************)
(* The theorems                                                            *)
(***************************************************************************)

\* When answers come in time, the host goes on to a command of the image only
\* after the device accepted every command before it: no answer to an earlier
\* copy is taken for the answer to the command that is out.
THEOREM AckedBeforeAdvance == TimelySpec => []AckBeforeAdvance
<1>1. TimelyInv => AckBeforeAdvance
  BY DEF TimelyInv, Progress, AckBeforeAdvance
<1> QED
  BY <1>1, TimelyInvariant, PTL

\* When answers come in time, ota_update() never reads fw_data_buf behind an
\* image that ends in FINISH, whatever is there.
THEOREM InsideImage == TimelySpec => []NeverPastImage
<1>1. TimelyInv => NeverPastImage
  BY DEF TimelyInv, Progress, NeverPastImage
<1> QED
  BY <1>1, TimelyInvariant, PTL

(***************************************************************************)
(* With timely answers OtaUpdate implements StopAndWait, and reports no    *)
(* failure of an update the device has concluded.                          *)
(*                                                                         *)
(* To the token this adds what the abstract transfer sees: which command   *)
(* was written last and how often, that the device can only answer that    *)
(* one, and that an answer which concludes the update is believed on its   *)
(* whole way to the wait loop.                                             *)
(***************************************************************************)

\* The command at idx has not been written yet.
Unsent == \/ upc = "load"
          \/ upc = "retry" /\ send_count = 0
          \/ upc = "write" /\ send_count = 1

\* The last command written, and how often, by the place in ota_update().
Copies ==
  /\ upc \in {"entry", "send_next", "success"} => wire.idx = idx
  /\ upc = "load" => send_count = 0
  /\ Unsent => idx = wire.idx + 1
  /\ upc \in {"retry", "wait"} /\ ~ Unsent =>
       wire.idx = idx /\ wire.copies = send_count /\ send_count \in 1 .. 3
  /\ upc = "write" /\ ~ Unsent =>
       wire.idx = idx /\ wire.copies + 1 = send_count /\ send_count \in 2 .. 3

\* The device has at most one command before it, and that is the last written.
OneOut == toDev # <<>> => Len(toDev) = 1 /\ toDev[1].idx = wire.idx /\ wire.idx # 0

\* hidRead() compares with the number of the DATA command that is out.
NumberOut ==
  /\ upc \in {"load", "retry", "write", "wait"} => idx # 0
  /\ upc \in {"retry", "write", "wait"} /\ cmd_buf.cmd = "DATA" => current_data_seq = cmd_buf.seq
  /\ link = "up" /\ toDev # <<>> => toDev[1].seq = cmd_buf.seq

NoEndYet == upc \notin {"quit", "return"} => outcome = "none"

\* An answer that ends the update is one the device has given to the command at idx.
Ending(r) == Concludes(r, r.stat) => idx \in concluded
EndEarned ==
  /\ ReaderLives => \A k \in AnswersIn : Ending(toHost[k])
  /\ rpc = "decide" => Ending(rsp_cmd)
  /\ rpc = "store" /\ verdict = "COMPLETE" => idx \in concluded
  /\ upc = "wait" /\ OTAStage = "COMPLETE" => idx \in concluded
  /\ upc = "success" => idx \in concluded

\* The conclusion is on its way to ota_update(), or has arrived.
EndUnderWay ==
  \/ \E k \in AnswersIn : VerdictOf(toHost[k], current_data_seq) = "COMPLETE"
  \/ rpc = "decide" /\ VerdictOf(rsp_cmd, current_data_seq) = "COMPLETE"
  \/ rpc = "store" /\ verdict = "COMPLETE"
  \/ upc = "wait" /\ OTAStage = "COMPLETE"
  \/ upc \in {"success", "quit", "return"}

\* It is not lost, as the wait ends only where nothing is stored.
EndKept ==
  /\ link = "up" /\ ReaderLives /\ concluded # {} => EndUnderWay
  /\ upc = "wait" /\ wait_count + 1 >= OTA_WAIT_TIME /\ link = "up" /\ ReaderLives
       => OTAStage = "RETRYING"
  /\ upc = "entry" => concluded = {}

TransferInv == NumberOut /\ OneOut /\ NoEndYet /\ EndEarned /\ EndKept

LEMMA TransferInit == Init => TransferInv
<1> SUFFICES ASSUME Init PROVE TransferInv
  OBVIOUS
<1>1. /\ upc = "entry" /\ rpc = "none" /\ toDev = <<>> /\ toHost = <<>>
      /\ outcome = "none" /\ concluded = {}
  BY DEF Init
<1> QED
  BY <1>1 DEF TransferInv, NumberOut, OneOut, NoEndYet, EndEarned, EndKept, AnswersIn, ReaderLives

(***************************************************************************)
(* The command that is out                                                 *)
(***************************************************************************)

LEMMA NumberOutStep == TypeOK /\ TimelyInv /\ NumberOut /\ [TimelyNext]_vars => NumberOut'
<1> SUFFICES ASSUME TypeOK, TimelyInv, NumberOut, [TimelyNext]_vars PROVE NumberOut'
  OBVIOUS
<1> USE DEF NumberOut
<1>q. (link = "up" /\ toDev # <<>>) => upc = "wait"
  BY DEF TimelyInv, Token, InChannel, Pending
<1>1. CASE SendNextCmd \/ LoadSeq
  BY <1>1, <1>q DEF SendNextCmd, LoadSeq, TypeOK, linkVars
<1>2. CASE Start \/ RetryCmd \/ Poll \/ TimelyIdle \/ OtaFail \/ OtaSuccess
  BY <1>2, <1>q DEF Start, RetryCmd, RetryWith, Poll, PollNext, PollErrRetry, PollComplete,
     PollTimeout, TimelyIdle, PollIdle, PollTo, OtaFail, OtaSuccess, EndWith, globals, linkVars
<1>3. CASE HidWrite
  <2>1. upc = "write" /\ UNCHANGED <<idx, cmd_buf, current_data_seq, link>> /\ upc' \in {"wait", "fail"}
    BY <1>3 DEF HidWrite, globals
  <2>2. (link = "up" /\ toDev' # <<>>) => toDev'[1].seq = cmd_buf.seq
    <3>1. link = "up" => toDev = <<>>
      BY <1>q, <2>1
    <3>2. CASE toDev' = Append(toDev, [cmd |-> cmd_buf.cmd, seq |-> cmd_buf.seq, idx |-> idx])
      BY <3>1, <3>2
    <3> QED
      BY <1>3, <3>1, <3>2 DEF HidWrite
  <2> QED
    BY <2>1, <2>2
<1>4. CASE QuitServ \/ DeconnectClient \/ LinkLost \/ DeviceReport \/ Reader \/ UNCHANGED vars
  BY <1>4 DEF QuitServ, DeconnectClient, CloseIntr, LinkLost, DeviceReport, Reader, ReadLoop, ReadEnter,
     ReadReport, ReadNothing, Decide, Store, ReaderFail, vars, updVars, globals, linkVars, TypeOK
<1>5. CASE Device
  <2>1. toDev # <<>> /\ toDev' = Tail(toDev) /\ UNCHANGED <<link, idx, upc, cmd_buf, current_data_seq>>
    BY <1>5 DEF Device, DeviceAnswer, DeviceSilent, updVars, globals
  <2>2. link = "up" => toDev' = <<>>
    BY <2>1 DEF TimelyInv, Token, InChannel, TypeOK
  <2> QED
    BY <2>1, <2>2
<1> QED
  BY <1>1, <1>2, <1>3, <1>4, <1>5 DEF TimelyNext, Update

LEMMA OneOutStep ==
  TypeOK /\ TimelyInv /\ NumberOut /\ OneOut /\ [TimelyNext]_vars => OneOut'
<1> SUFFICES ASSUME TypeOK, TimelyInv, NumberOut, OneOut, [TimelyNext]_vars PROVE OneOut'
  OBVIOUS
<1>1. CASE HidWrite
  <2>1. CASE UNCHANGED <<toDev, wire>>
    BY <2>1 DEF OneOut
  <2>2. CASE /\ link = "up" /\ wire' = [idx |-> idx, copies |-> CopiesNow]
             /\ toDev' = Append(toDev, [cmd |-> cmd_buf.cmd, seq |-> cmd_buf.seq, idx |-> idx])
    <3>1. toDev = <<>> /\ idx # 0
      BY <1>1, <2>2 DEF HidWrite, TimelyInv, Token, InChannel, Pending, NumberOut
    <3> QED
      BY <2>2, <3>1 DEF OneOut
  <2> QED
    BY <1>1, <2>1, <2>2 DEF HidWrite
<1>2. CASE Device
  <2>1. toDev # <<>> /\ toDev' = Tail(toDev)
    BY <1>2 DEF Device, DeviceAnswer, DeviceSilent
  <2>2. toDev' = <<>>
    BY <2>1 DEF OneOut, TypeOK
  <2> QED
    BY <2>2 DEF OneOut
<1>3. CASE UNCHANGED <<toDev, wire>>
  BY <1>3 DEF OneOut
<1>4. ASSUME ~ HidWrite, ~ Device PROVE UNCHANGED <<toDev, wire>>
  BY <1>4 DEF TimelyNext, Update, Start, SendNextCmd, LoadSeq, RetryCmd, RetryWith, Poll, PollNext,
     PollErrRetry, PollComplete, PollTimeout, TimelyIdle, PollIdle, PollTo, OtaFail, OtaSuccess, EndWith,
     QuitServ, DeconnectClient, LinkLost, DeviceReport, Reader, ReadLoop, ReadEnter, ReadReport,
     ReadNothing, Decide, Store, ReaderFail, vars, linkVars, auxVars
<1> QED
  BY <1>1, <1>2, <1>3, <1>4

LEMMA NoEndYetStep == NoEndYet /\ [TimelyNext]_vars => NoEndYet'
<1> SUFFICES ASSUME NoEndYet, [TimelyNext]_vars PROVE NoEndYet'
  OBVIOUS
<1> USE DEF NoEndYet
<1>1. CASE Update \/ TimelyIdle
  BY <1>1 DEF Update, Start, SendNextCmd, LoadSeq, RetryCmd, RetryWith, HidWrite, Poll, PollNext,
     PollErrRetry, PollComplete, PollTimeout, TimelyIdle, PollIdle, PollTo, OtaFail, OtaSuccess, EndWith,
     QuitServ, auxVars
<1>2. CASE Reader \/ Device \/ DeviceReport \/ LinkLost \/ DeconnectClient \/ UNCHANGED vars
  BY <1>2 DEF Reader, ReadLoop, ReadEnter, ReadReport, ReadNothing, Decide, Store, ReaderFail, Device,
     DeviceAnswer, DeviceSilent, DeviceReport, LinkLost, DeconnectClient, vars, updVars, auxVars
<1> QED
  BY <1>1, <1>2 DEF TimelyNext

(***************************************************************************)
(* The end of the update                                                   *)
(***************************************************************************)

LEMMA EndEarnedStep == TypeOK /\ TimelyInv /\ EndEarned /\ [TimelyNext]_vars => EndEarned'
<1> SUFFICES ASSUME TypeOK, TimelyInv, EndEarned, [TimelyNext]_vars PROVE EndEarned'
  OBVIOUS
<1> USE DEF EndEarned, Ending
\* Nothing is under way, and ota_update() goes on.
<1>q. ASSUME ~ Pending, UNCHANGED <<rpc, toHost>>,
             upc' = "wait" => OTAStage' # "COMPLETE", upc' # "success"
      PROVE  EndEarned'
  <2>1. ReaderLives => AnswersIn = {} /\ ~ Reading
    BY <1>q, NotPendingIsQuiet, QuietAnswers DEF TimelyInv
  <2>2. AnswersIn' = AnswersIn
    BY <1>q, AnswersSame
  <2> QED
    BY <1>q, <2>1, <2>2 DEF ReaderLives, Reading
\* The way of the answer is not touched.
<1>s. ASSUME UNCHANGED <<idx, rsp_cmd, verdict, OTAStage, upc>>, concluded \subseteq concluded',
             ReaderLives' => ReaderLives, rpc' \in {"decide", "store"} => rpc' = rpc,
             \A k \in AnswersIn' : k \in AnswersIn /\ toHost'[k] = toHost[k]
      PROVE  EndEarned'
  BY <1>s
<1>1. CASE Start
  <2>1. AnswersIn = {} /\ toHost' = toHost /\ rpc' \in {"none", "loop"} /\ upc' \in {"fail", "send_next"}
    BY <1>1 DEF Start, TimelyInv, Token, LastRound, linkVars
  <2> QED
    BY <2>1, AnswersSame
<1>2. CASE SendNextCmd \/ LoadSeq \/ RetryCmd \/ OtaFail \/ OtaSuccess \/ QuitServ
  BY <1>2, <1>q DEF SendNextCmd, LoadSeq, RetryCmd, RetryWith, OtaFail, OtaSuccess, EndWith, QuitServ,
                    Pending, readVars, linkVars
<1>3. CASE HidWrite
  BY <1>3, <1>q DEF HidWrite, TimelyInv, Token, LastRound, Pending, readVars, globals
<1>4. CASE PollNext \/ PollErrRetry
  BY <1>4, <1>q DEF PollNext, PollErrRetry, PollTo, Pending, readVars, linkVars
<1>5. CASE PollComplete \/ PollTimeout \/ TimelyIdle
  <2>1. UNCHANGED <<idx, rpc, rsp_cmd, verdict, OTAStage, toHost, concluded>>
    BY <1>5 DEF PollComplete, PollTimeout, TimelyIdle, PollIdle, PollTo, globals, readVars, linkVars, devVars
  <2>2. AnswersIn' = AnswersIn
    BY <2>1, AnswersSame
  <2>3. upc' = "success" => upc = "wait" /\ OTAStage = "COMPLETE"
    BY <1>5 DEF PollComplete, PollTimeout, TimelyIdle, PollIdle, PollTo
  <2>4. upc' = "wait" => upc = "wait"
    BY <1>5 DEF PollComplete, PollTimeout, TimelyIdle, PollIdle, PollTo
  <2> QED
    BY <2>1, <2>2, <2>3, <2>4 DEF ReaderLives
<1>6. CASE ReadLoop \/ ReadEnter \/ ReadNothing \/ ReaderFail
  <2>1. /\ UNCHANGED <<upc, idx, OTAStage, toHost, concluded>>
        /\ ReaderLives' => ReaderLives
        /\ rpc' \notin {"decide", "store"}
    BY <1>6 DEF ReadLoop, ReadEnter, ReadNothing, ReaderFail, updVars, globals, linkVars, devVars, ReaderLives
  <2> QED
    BY <2>1, AnswersSame
<1>7. CASE ReadReport
  <2>1. /\ toHost # <<>> /\ toHost' = Tail(toHost) /\ rsp_cmd' = Head(toHost) /\ rpc = "recv"
        /\ rpc' = IF IsAnswer(Head(toHost)) THEN "decide" ELSE "loop"
        /\ UNCHANGED <<upc, idx, OTAStage, concluded>>
    BY <1>7 DEF ReadReport, updVars, devVars
  <2>2. /\ Head(toHost) = toHost[1] /\ (1 \in AnswersIn <=> IsAnswer(Head(toHost)))
        /\ \A k \in AnswersIn' : k + 1 \in AnswersIn /\ toHost'[k] = toHost[k + 1]
    BY <2>1, AnswersTail
  <2> QED
    BY <2>1, <2>2 DEF ReaderLives
<1>8. CASE Decide
  <2>1. /\ rpc = "decide" /\ rpc' = "store" /\ verdict' = VerdictOf(rsp_cmd, current_data_seq)
        /\ UNCHANGED <<upc, idx, OTAStage, toHost, concluded>>
    BY <1>8 DEF Decide, updVars, globals, linkVars, devVars
  <2>2. verdict' = "COMPLETE" => Concludes(rsp_cmd, rsp_cmd.stat)
    BY <2>1, VerdictComplete DEF TypeOK, Concluding
  <2> QED
    BY <2>1, <2>2, AnswersSame DEF ReaderLives
<1>9. CASE Store
  <2>1. /\ rpc = "store" /\ rpc' = "loop" /\ OTAStage' = verdict
        /\ UNCHANGED <<upc, idx, toHost, concluded>>
    BY <1>9 DEF Store, updVars, linkVars, devVars
  <2> QED
    BY <2>1, AnswersSame DEF ReaderLives
<1>10. ASSUME NEW st \in Statuses, DeviceAnswer(st) PROVE EndEarned'
  <2> DEFINE p == Head(toDev)
             r == [cmd |-> p.cmd, seq |-> p.seq, stat |-> st]
  <2>1. /\ toDev # <<>>
        /\ concluded' = IF Concludes(p, st) THEN concluded \cup {p.idx} ELSE concluded
        /\ toHost' = IF link = "up" THEN Append(toHost, r) ELSE toHost
        /\ UNCHANGED <<upc, idx, OTAStage, rsp_cmd, rpc, verdict>>
    BY <1>10 DEF DeviceAnswer, updVars, globals, readVars
  <2>2. CASE link # "up"
    <3>1. toHost' = toHost /\ concluded \subseteq concluded'
      BY <2>1, <2>2
    <3> HIDE DEF p, r
    <3> QED
      BY <2>1, <3>1, <1>s, AnswersSame DEF ReaderLives
  <2>3. CASE link = "up"
    <3>1. p.idx = idx
      BY <2>1, <2>3 DEF TimelyInv, Token, InChannel, TypeOK
    <3>2. Concludes(r, r.stat) => idx \in concluded'
      BY <2>1, <3>1 DEF Concludes
    <3>3. concluded \subseteq concluded'
      BY <2>1
    <3> HIDE DEF p, r
    <3>4. \A k \in AnswersIn' : (k \in AnswersIn /\ toHost'[k] = toHost[k]) \/ toHost'[k] = r
      BY <2>1, <2>3, AnswersAppend
    <3> QED
      BY <2>1, <3>2, <3>3, <3>4 DEF ReaderLives
  <2> QED
    BY <2>2, <2>3
<1>11. CASE DeviceReport
  <2>1. /\ toHost' = Append(toHost, OtherReport)
        /\ UNCHANGED <<upc, idx, OTAStage, rsp_cmd, rpc, verdict, concluded>>
    BY <1>11 DEF DeviceReport, updVars, globals, readVars, devVars
  <2>2. ~ IsAnswer(OtherReport)
    BY DEF IsAnswer, OtherReport
  <2> QED
    BY <1>s, <2>1, <2>2, AnswersAppend DEF ReaderLives
<1>12. CASE DeviceSilent \/ LinkLost \/ DeconnectClient \/ UNCHANGED vars
  <2>1. UNCHANGED <<upc, idx, OTAStage, rsp_cmd, rpc, verdict, toHost, concluded>>
    BY <1>12 DEF DeviceSilent, LinkLost, DeconnectClient, vars, updVars, globals, readVars, linkVars, devVars
  <2> QED
    BY <1>s, <2>1, AnswersSame DEF ReaderLives
<1> QED
  BY <1>1, <1>2, <1>3, <1>4, <1>5, <1>6, <1>7, <1>8, <1>9, <1>10, <1>11, <1>12
  DEF TimelyNext, Update, Poll, Reader, Device

\* While ota_update() is still to send, or goes on, no conclusion is under way.
LEMMA NothingUnderWay ==
  ASSUME TimelyInv, EndKept, link = "up", ReaderLives, ~ Pending,
         upc \notin {"success", "quit", "return"}, upc = "wait" => OTAStage # "COMPLETE"
  PROVE  concluded = {}
<1>1. AnswersIn = {} /\ ~ Reading
  BY NotPendingIsQuiet, QuietAnswers DEF TimelyInv
<1> QED
  BY <1>1 DEF EndKept, EndUnderWay, Reading

LEMMA EndKeptStep ==
  TypeOK /\ TimelyInv /\ NumberOut /\ EndKept /\ [TimelyNext]_vars => EndKept'
<1> SUFFICES ASSUME TypeOK, TimelyInv, NumberOut, EndKept, [TimelyNext]_vars PROVE EndKept'
  OBVIOUS
<1> DEFINE Kept    == link = "up" /\ ReaderLives /\ concluded # {} => EndUnderWay
           LastOne == upc = "wait" /\ wait_count + 1 >= OTA_WAIT_TIME /\ link = "up" /\ ReaderLives
                        => OTAStage = "RETRYING"
           Fresh   == upc = "entry" => concluded = {}
<1>k. Kept /\ LastOne /\ Fresh
  BY DEF EndKept
<1>g. Kept' /\ LastOne' /\ Fresh' => EndKept'
  BY DEF EndKept
\* ota_update() outside the wait, or leaving it with no conclusion stored.
<1>q. ASSUME ~ Pending, upc \notin {"success", "quit", "return"}, upc = "wait" => OTAStage # "COMPLETE",
             UNCHANGED <<rpc, link, concluded>>, upc' \notin {"wait", "entry"}
      PROVE  EndKept'
  <2>1. link' = "up" /\ ReaderLives' => concluded' = {}
    BY <1>q, NothingUnderWay DEF ReaderLives
  <2> QED
    BY <1>q, <1>g, <2>1
\* The way of the conclusion is not touched.
<1>s. ASSUME UNCHANGED <<upc, wait_count, OTAStage, concluded>>,
             link' = "up" => link = "up",
             ReaderLives' => ReaderLives,
             link = "up" /\ ReaderLives /\ EndUnderWay => EndUnderWay'
      PROVE  EndKept'
  BY <1>s, <1>k, <1>g
<1>1. CASE Start
  BY <1>1, <1>g, <1>k DEF Start, devVars
<1>2. CASE SendNextCmd \/ LoadSeq \/ RetryCmd
  BY <1>2, <1>q DEF SendNextCmd, LoadSeq, RetryCmd, RetryWith, Pending, readVars, linkVars, devVars
<1>3. CASE PollNext \/ PollErrRetry
  BY <1>3, <1>q DEF PollNext, PollErrRetry, PollTo, Pending, readVars, linkVars, devVars
<1>4. CASE HidWrite
  <2>1. /\ upc = "write" /\ upc' \in {"wait", "fail"} /\ wait_count = 0 /\ OTAStage = "RETRYING"
        /\ UNCHANGED <<rpc, link, concluded, wait_count, OTAStage>>
    BY <1>4 DEF HidWrite, TimelyInv, Token, LastRound, readVars, devVars, globals
  <2>2. link' = "up" /\ ReaderLives' => concluded' = {}
    BY <2>1, NothingUnderWay DEF ReaderLives, Pending
  <2> QED
    BY <2>1, <2>2, <1>g
<1>5. CASE PollTimeout
  <2>1. /\ upc = "wait" /\ wait_count + 1 >= OTA_WAIT_TIME /\ upc' = "retry"
        /\ UNCHANGED <<rpc, link, concluded>>
    BY <1>5 DEF PollTimeout, readVars, linkVars, devVars
  <2>2. ReaderLives => AnswersIn = {} /\ ~ Reading
    BY <2>1, QuietAnswers DEF TimelyInv, Token, LastRound
  <2>3. link = "up" /\ ReaderLives => concluded = {}
    BY <1>k, <2>1, <2>2 DEF EndUnderWay, Reading
  <2> QED
    BY <1>g, <2>1, <2>3 DEF ReaderLives
<1>6. CASE PollComplete \/ OtaFail \/ OtaSuccess \/ QuitServ
  BY <1>6, <1>g DEF PollComplete, PollTo, OtaFail, OtaSuccess, EndWith, QuitServ, EndUnderWay
<1>7. CASE TimelyIdle
  <2>1. /\ upc = "wait" /\ upc' = "wait" /\ OTAStage = "RETRYING"
        /\ UNCHANGED <<OTAStage, current_data_seq, rsp_cmd, rpc, verdict, link, toHost, concluded>>
    BY <1>7 DEF TimelyIdle, PollIdle, PollTo, globals, readVars, linkVars, devVars
  <2>2. EndUnderWay => EndUnderWay'
    BY <2>1, AnswersSame DEF EndUnderWay
  <2> QED
    BY <1>g, <1>k, <2>1, <2>2 DEF ReaderLives
<1>8. CASE ReadLoop \/ ReadEnter \/ ReadNothing \/ ReaderFail
  <2>1. /\ UNCHANGED <<upc, wait_count, OTAStage, current_data_seq, verdict, link, toHost, concluded>>
        /\ ReaderLives' => ReaderLives
        /\ rpc \notin {"decide", "store"}
    BY <1>8 DEF ReadLoop, ReadEnter, ReadNothing, ReaderFail, updVars, globals, linkVars, devVars,
                ReaderLives
  <2>2. EndUnderWay => EndUnderWay'
    BY <2>1, AnswersSame DEF EndUnderWay
  <2> QED
    BY <1>s, <2>1, <2>2
<1>9. CASE ReadReport
  <2>1. /\ toHost # <<>> /\ toHost' = Tail(toHost) /\ rsp_cmd' = Head(toHost) /\ rpc = "recv"
        /\ rpc' = IF IsAnswer(Head(toHost)) THEN "decide" ELSE "loop"
        /\ UNCHANGED <<upc, wait_count, OTAStage, current_data_seq, concluded>>
        /\ link' = "up" => link = "up"
    BY <1>9 DEF ReadReport, updVars, devVars, TypeOK
  <2>2. ASSUME NEW k \in AnswersIn, VerdictOf(toHost[k], current_data_seq) = "COMPLETE"
        PROVE  EndUnderWay'
    <3>1. CASE k = 1
      <4>1. rpc' = "decide" /\ rsp_cmd' = toHost[1]
        BY <2>1, <3>1, AnswersTail
      <4> QED
        BY <2>1, <2>2, <3>1, <4>1 DEF EndUnderWay
    <3>2. CASE k # 1
      <4>1. k - 1 \in AnswersIn' /\ toHost'[k - 1] = toHost[k]
        <5>1. /\ Len(toHost') = Len(toHost) - 1 /\ Len(toHost) \in Nat
              /\ \A j \in 1 .. Len(toHost') : toHost'[j] = toHost[j + 1]
          BY <2>1 DEF TypeOK
        <5>2. k \in 2 .. Len(toHost) /\ IsAnswer(toHost[k]) /\ (k - 1) + 1 = k
          BY <3>2, <5>1 DEF AnswersIn
        <5>3. k - 1 \in 1 .. Len(toHost')
          BY <5>1, <5>2
        <5>4. toHost'[k - 1] = toHost[k]
          BY <5>1, <5>2, <5>3
        <5> QED
          BY <5>2, <5>3, <5>4 DEF AnswersIn, IsAnswer
      <4> QED
        BY <2>1, <2>2, <4>1 DEF EndUnderWay
    <3> QED
      BY <3>1, <3>2
  <2>3. EndUnderWay => EndUnderWay'
    BY <2>1, <2>2 DEF EndUnderWay
  <2> QED
    BY <1>s, <2>1, <2>3 DEF ReaderLives
<1>10. CASE Decide
  <2>1. /\ rpc = "decide" /\ rpc' = "store" /\ verdict' = VerdictOf(rsp_cmd, current_data_seq)
        /\ UNCHANGED <<upc, wait_count, OTAStage, current_data_seq, link, toHost, concluded>>
    BY <1>10 DEF Decide, updVars, globals, linkVars, devVars
  <2>2. EndUnderWay => EndUnderWay'
    BY <2>1, AnswersSame DEF EndUnderWay
  <2> QED
    BY <1>s, <2>1, <2>2 DEF ReaderLives
<1>11. CASE Store
  <2>1. /\ rpc = "store" /\ rpc' = "loop" /\ OTAStage' = verdict /\ upc = "wait" /\ OTAStage = "RETRYING"
        /\ UNCHANGED <<upc, wait_count, current_data_seq, link, toHost, concluded>>
    BY <1>11 DEF Store, updVars, linkVars, devVars, TimelyInv, Token, InReader, Pending
  <2>2. EndUnderWay => EndUnderWay'
    BY <2>1, AnswersSame DEF EndUnderWay
  <2>3. ~ (wait_count + 1 >= OTA_WAIT_TIME)
    BY <2>1 DEF TimelyInv, Token, LastRound, Quiet, ReaderLives
  <2> QED
    BY <1>g, <1>k, <2>1, <2>2, <2>3 DEF ReaderLives
<1>12. ASSUME NEW st \in Statuses, DeviceAnswer(st) PROVE EndKept'
  <2> DEFINE p == Head(toDev)
             r == [cmd |-> p.cmd, seq |-> p.seq, stat |-> st]
  <2>1. /\ toDev # <<>> /\ p.cmd # "OTHER"
        /\ concluded' = IF Concludes(p, st) THEN concluded \cup {p.idx} ELSE concluded
        /\ toHost' = IF link = "up" THEN Append(toHost, r) ELSE toHost
        /\ UNCHANGED <<upc, wait_count, OTAStage, current_data_seq, rsp_cmd, rpc, verdict, link>>
    BY <1>12 DEF DeviceAnswer, updVars, globals, readVars
  <2>2. upc # "entry"
    BY <2>1 DEF TimelyInv, Token, LastRound
  <2>3. CASE link # "up"
    BY <1>g, <2>1, <2>2, <2>3
  <2>4. CASE link = "up"
    <3>1. /\ upc = "wait" /\ OTAStage = "RETRYING" /\ p = toDev[1] /\ p.cmd = cmd_buf.cmd
          /\ ReaderLives => AnswersIn = {} /\ ~ Reading
          /\ p.seq = cmd_buf.seq
      BY <2>1, <2>4 DEF TimelyInv, Token, InChannel, Pending, TypeOK, NumberOut
    <3>2. ReaderLives => concluded = {}
      BY <1>k, <2>4, <3>1 DEF EndUnderWay, Reading
    <3>3. cmd_buf.cmd = "DATA" => p.seq = current_data_seq
      BY <3>1 DEF NumberOut
    <3>4. ASSUME Concludes(p, st) PROVE EndUnderWay'
      <4>1. Len(toHost) + 1 \in AnswersIn' /\ toHost'[Len(toHost) + 1] = r
        <5>1. toHost \in Seq(Reports) /\ toHost' = Append(toHost, r)
          BY <2>1, <2>4 DEF TypeOK
        <5>2. IsAnswer(r)
          BY <2>1 DEF IsAnswer
        <5> HIDE DEF p, r
        <5> QED
          BY <5>1, <5>2 DEF AnswersIn, IsAnswer
      <4>2. VerdictOf(r, current_data_seq) = "COMPLETE"
        <5>1. r.cmd = p.cmd /\ r.seq = p.seq /\ r.stat = st
          OBVIOUS
        <5>2. r.cmd = "DATA" => r.seq = current_data_seq
          BY <3>1, <3>3, <5>1
        <5>3. r.stat = "NO_NEED_UPDATE" \/ (r.cmd = "FINISH" /\ r.stat = "SUCCESS")
          BY <3>4, <5>1 DEF Concludes
        <5> HIDE DEF p, r
        <5> QED
          BY <5>2, <5>3 DEF VerdictOf
      <4> HIDE DEF p, r
      <4> QED
        BY <2>1, <4>1, <4>2 DEF EndUnderWay
    <3>5. ~ Concludes(p, st) => concluded' = concluded
      BY <2>1
    <3> HIDE DEF p, r
    <3>6. LastOne' /\ Fresh'
      BY <1>k, <2>1, <2>2, <3>1
    <3>7. Kept'
      BY <2>1, <3>2, <3>4, <3>5 DEF ReaderLives
    <3> QED
      BY <1>g, <3>6, <3>7
  <2> QED
    BY <2>3, <2>4
<1>13. CASE DeviceReport
  <2>1. /\ toHost' = Append(toHost, OtherReport)
        /\ UNCHANGED <<upc, wait_count, OTAStage, current_data_seq, rsp_cmd, rpc, verdict, link, concluded>>
    BY <1>13 DEF DeviceReport, updVars, globals, readVars, devVars
  <2>2. \A k \in AnswersIn : k \in AnswersIn' /\ toHost'[k] = toHost[k]
    <3>1. /\ toHost \in Seq(Reports) /\ Len(toHost') = Len(toHost) + 1
          /\ \A k \in 1 .. Len(toHost) : toHost'[k] = toHost[k]
      BY <2>1 DEF TypeOK
    <3> QED
      BY <3>1 DEF AnswersIn, IsAnswer
  <2>3. EndUnderWay => EndUnderWay'
    BY <2>1, <2>2 DEF EndUnderWay
  <2> QED
    BY <1>s, <2>1, <2>3 DEF ReaderLives
<1>14. CASE DeviceSilent \/ LinkLost \/ DeconnectClient \/ UNCHANGED vars
  <2>1. /\ UNCHANGED <<upc, wait_count, OTAStage, current_data_seq, rsp_cmd, rpc, verdict, toHost, concluded>>
        /\ link' = "up" => link = "up"
    BY <1>14 DEF DeviceSilent, LinkLost, DeconnectClient, CloseIntr, vars, updVars, globals, readVars,
                 linkVars, devVars
  <2>2. EndUnderWay => EndUnderWay'
    BY <2>1, AnswersSame DEF EndUnderWay
  <2> QED
    BY <1>s, <2>1, <2>2 DEF ReaderLives
<1> QED
  BY <1>1, <1>2, <1>3, <1>4, <1>5, <1>6, <1>7, <1>8, <1>9, <1>10, <1>11, <1>12, <1>13, <1>14
  DEF TimelyNext, Update, Poll, Reader, Device

LEMMA TransferInvariant == TimelySpec => []TransferInv
<1>1. TypeOK /\ TimelyInv /\ TransferInv /\ [TimelyNext]_vars => TransferInv'
  BY NumberOutStep, OneOutStep, NoEndYetStep, EndEarnedStep, EndKeptStep DEF TransferInv
<1> QED
  BY <1>1, TransferInit, TimelyInvariant, TimelyTypeCorrect, PTL DEF TimelySpec

(***************************************************************************)
(* A failure is honest                                                     *)
(***************************************************************************)

\* When answers come in time, the link holds and hidRead() runs, ota_update()
\* does not give up an update the device has concluded: the conclusion is in
\* the channel, in the reader or in OTAStage until the wait loop has seen it.
THEOREM FailureHonest == TimelySpec => []FailureIsHonest
<1>1. TimelyInv /\ TransferInv => FailureIsHonest
  BY NothingUnderWay DEF TransferInv, FailureIsHonest, Pending
<1> QED
  BY <1>1, TimelyInvariant, TransferInvariant, PTL

(***************************************************************************)
(* The abstract transfer                                                   *)
(***************************************************************************)

LEMMA CopiesInit == Init => Copies
  BY DEF Init, Copies, Unsent

LEMMA CopiesStep ==
  ASSUME ImageEndsInFinish, TypeOK, TimelyInv, Copies, [TimelyNext]_vars
  PROVE  Copies'
<1> USE DEF Copies, Unsent
<1>t. idx \in Nat /\ send_count \in Nat /\ wire.idx \in Nat /\ wire.copies \in Nat
  BY DEF TypeOK
<1>1. CASE Start
  BY <1>1 DEF Start, auxVars
<1>2. CASE SendNextCmd
  <2>1. idx <= Len(Image) /\ Len(Image) \in Nat
    BY ImageAssumption DEF TimelyInv, Progress
  <2>2. idx' = idx + 1
    BY <1>2, <1>t, <2>1 DEF SendNextCmd
  <2> QED
    BY <1>2, <2>2 DEF SendNextCmd, auxVars
<1>3. CASE LoadSeq
  BY <1>3 DEF LoadSeq, auxVars
<1>4. CASE RetryCmd
  BY <1>4, <1>t DEF RetryCmd, RetryWith, auxVars
<1>5. CASE HidWrite
  <2>1. upc = "write" /\ UNCHANGED <<idx, send_count>>
    BY <1>5 DEF HidWrite
  <2>2. CASE upc' = "fail"
    BY <2>2
  <2>3. CASE upc' = "wait" /\ wire' = [idx |-> idx, copies |-> CopiesNow]
    <3>1. CopiesNow = send_count /\ send_count \in 1 .. 3
      BY <1>t, <2>1 DEF CopiesNow, MaxCopies
    <3> QED
      BY <2>1, <2>3, <3>1
  <2> QED
    BY <1>5, <2>2, <2>3 DEF HidWrite
<1>6. CASE Poll \/ TimelyIdle
  BY <1>6 DEF Poll, PollNext, PollErrRetry, PollComplete, PollTimeout, TimelyIdle, PollIdle, PollTo, auxVars
<1>7. CASE OtaFail \/ OtaSuccess \/ QuitServ
  BY <1>7 DEF OtaFail, OtaSuccess, EndWith, QuitServ
<1>8. CASE Reader \/ Device \/ DeviceReport \/ LinkLost \/ DeconnectClient \/ UNCHANGED vars
  BY <1>8 DEF Reader, ReadLoop, ReadEnter, ReadReport, ReadNothing, Decide, Store, ReaderFail, Device,
     DeviceAnswer, DeviceSilent, DeviceReport, LinkLost, DeconnectClient, vars, updVars, auxVars
<1> QED
  BY <1>1, <1>2, <1>3, <1>4, <1>5, <1>6, <1>7, <1>8 DEF TimelyNext, Update

\* The first writing of a command is a transmission, every other a retransmission.
LEMMA HidWriteImplements ==
  ASSUME ImageEndsInFinish, TypeOK, TimelyInv, TransferInv, Copies, HidWrite
  PROVE  SW!Next \/ UNCHANGED SW!vars
<1>t. /\ idx \in Nat /\ send_count \in Nat /\ wire.idx \in Nat /\ wire.copies \in Nat
      /\ Len(Image) \in Nat
  BY ImageAssumption DEF TypeOK
<1>1. upc = "write" /\ outcome = "none" /\ UNCHANGED <<accepted, concluded, outcome>>
  BY DEF HidWrite, TransferInv, NoEndYet, devVars
<1>2. CASE UNCHANGED wire
  BY <1>1, <1>2 DEF SW!vars
<1>3. CASE wire' = [idx |-> idx, copies |-> CopiesNow]
  <2>0. wire'.idx = idx /\ wire'.copies = CopiesNow
    BY <1>3
  <2>1. CASE Unsent
    <3>1. wire.idx + 1 = idx /\ idx <= Len(Image) /\ CopiesNow = 1
      BY <1>t, <2>1 DEF Copies, TimelyInv, Progress, CopiesNow
    <3>2. wire.idx = 0 \/ wire.idx \in accepted
      BY <1>t, <3>1 DEF TimelyInv, Progress
    <3>3. SW!Transmit
      BY <1>1, <1>t, <2>0, <3>1, <3>2 DEF SW!Transmit
    <3> QED
      BY <3>3 DEF SW!Next
  <2>2. CASE ~ Unsent
    <3>1. wire.idx = idx /\ wire.copies \in {1, 2} /\ CopiesNow = wire.copies + 1
      BY <1>1, <1>t, <2>2 DEF Copies, CopiesNow, MaxCopies
    <3>2. SW!Retransmit
      BY <1>1, <2>0, <3>1 DEF SW!Retransmit
    <3> QED
      BY <3>2 DEF SW!Next
  <2> QED
    BY <2>1, <2>2
<1> QED
  BY <1>2, <1>3 DEF HidWrite

\* The device answers the command written last.
LEMMA DeviceAnswerImplements ==
  ASSUME TypeOK, TransferInv, NEW st \in Statuses, DeviceAnswer(st)
  PROVE  SW!Next
<1>1. Head(toDev).idx = wire.idx /\ wire.idx # 0 /\ wire.idx \in Nat
  BY DEF DeviceAnswer, TransferInv, OneOut, TypeOK
<1>2. /\ accepted' \in {accepted, accepted \cup {wire.idx}}
      /\ concluded' \in {concluded, concluded \cup {wire.idx}}
      /\ UNCHANGED <<wire, outcome>>
  BY <1>1 DEF DeviceAnswer, auxVars
<1>3. SW!Answer
  BY <1>1, <1>2 DEF SW!Answer
<1> QED
  BY <1>3 DEF SW!Next

\* For every image that ends in FINISH, and while answers come in time,
\* ota_update(), hidRead(), the channel and the device together are a
\* stop-and-wait transfer: a command is written first after the one before it
\* was accepted and three times at most, the device answers none but the last
\* one written, and success is reported for a concluded command.
THEOREM Refinement ==
  ASSUME ImageEndsInFinish
  PROVE  TimelySpec => StopAndWaitSpec
<1>1. Init => SW!Init
  BY DEF Init, SW!Init
<1>2. TypeOK /\ TimelyInv /\ TransferInv /\ Copies /\ [TimelyNext]_vars => [SW!Next]_(SW!vars)
  <2> SUFFICES ASSUME TypeOK, TimelyInv, TransferInv, Copies, [TimelyNext]_vars
               PROVE  SW!Next \/ UNCHANGED SW!vars
    OBVIOUS
  <2>1. CASE HidWrite
    BY <2>1, HidWriteImplements
  <2>2. CASE \E st \in Statuses : DeviceAnswer(st)
    BY <2>2, DeviceAnswerImplements
  <2>3. CASE OtaSuccess
    <3>1. outcome = "none" /\ wire.idx \in concluded
      BY <2>3 DEF OtaSuccess, EndWith, TransferInv, NoEndYet, EndEarned, Copies
    <3>2. SW!Succeed
      BY <2>3, <3>1 DEF OtaSuccess, EndWith, SW!Succeed, devVars
    <3> QED
      BY <3>2 DEF SW!Next
  <2>4. CASE OtaFail
    <3>1. outcome = "none"
      BY <2>4 DEF OtaFail, EndWith, TransferInv, NoEndYet
    <3>2. SW!Fail
      BY <2>4, <3>1 DEF OtaFail, EndWith, SW!Fail, devVars
    <3> QED
      BY <3>2 DEF SW!Next
  <2>5. ASSUME UNCHANGED <<wire, accepted, concluded, outcome>> PROVE UNCHANGED SW!vars
    BY <2>5 DEF SW!vars
  <2>6. CASE Start \/ SendNextCmd \/ LoadSeq \/ RetryCmd \/ Poll \/ TimelyIdle \/ QuitServ
    BY <2>5, <2>6 DEF Start, SendNextCmd, LoadSeq, RetryCmd, RetryWith, Poll, PollNext, PollErrRetry,
       PollComplete, PollTimeout, TimelyIdle, PollIdle, PollTo, QuitServ, devVars, auxVars
  <2>7. CASE Reader \/ DeviceSilent \/ DeviceReport \/ LinkLost \/ DeconnectClient \/ UNCHANGED vars
    BY <2>5, <2>7 DEF Reader, ReadLoop, ReadEnter, ReadReport, ReadNothing, Decide, Store, ReaderFail,
       DeviceSilent, DeviceReport, LinkLost, DeconnectClient, vars, devVars, auxVars
  <2> QED
    BY <2>1, <2>2, <2>3, <2>4, <2>6, <2>7 DEF TimelyNext, Update, Device
<1>3. TypeOK /\ TimelyInv /\ Copies /\ [TimelyNext]_vars => Copies'
  BY CopiesStep
<1> QED
  BY <1>1, <1>2, <1>3, CopiesInit, TransferInvariant, TimelyInvariant, TimelyTypeCorrect, PTL
  DEF TimelySpec, StopAndWaitSpec, SW!Spec

(***************************************************************************)
(* What the screen sees of an update                                       *)
(***************************************************************************)

\* The reader comes with the update, which has no result before it ends.
Begun == NoEndYet /\ (upc = "entry" => rpc = "none")

LEMMA BegunInit == Init => Begun
  BY DEF Init, Begun, NoEndYet

LEMMA BegunStep == Begun /\ [Next]_vars => Begun'
<1> SUFFICES ASSUME Begun, [Next]_vars PROVE Begun'
  OBVIOUS
<1> USE DEF Begun, NoEndYet
<1>1. CASE Update \/ PollIdle
  BY <1>1 DEF Update, Start, SendNextCmd, LoadSeq, RetryCmd, RetryWith, HidWrite, Poll, PollNext,
     PollErrRetry, PollComplete, PollTimeout, PollIdle, PollTo, OtaFail, OtaSuccess, EndWith,
     QuitServ, readVars, auxVars
<1>2. CASE Reader \/ Device \/ DeviceReport \/ LinkLost \/ DeconnectClient \/ UNCHANGED vars
  BY <1>2 DEF Reader, ReadLoop, ReadEnter, ReadReport, ReadNothing, Decide, Store, ReaderFail, Device,
     DeviceAnswer, DeviceSilent, DeviceReport, LinkLost, DeconnectClient, vars, updVars, readVars, auxVars
<1> QED
  BY <1>1, <1>2 DEF Next

\* The screen itself stands still.
LEMMA ScreenStill == UNCHANGED <<Screen!screenVars, Screen!ctlVars, <<>>, Screen!auxVars>>
  BY DEF Screen!screenVars, Screen!ctlVars, Screen!auxVars, One

\* Between its beginning and its end the screen sees nothing of ota_update().
LEMMA HiddenStep ==
  ASSUME UNCHANGED <<outcome, flagRead, ReadEnd>>, upc # "entry", upc' # "entry"
  PROVE  UNCHANGED Screen!nativeVars
<1>1. Engine' = Engine /\ Result' = Result
  BY DEF Engine, Result
<1>2. One(Engine)' = One(Engine) /\ One(Result)' = One(Result)
  BY <1>1 DEF One
<1>3. One(IF upc = "entry" THEN "none" ELSE ReadEnd)' = One(IF upc = "entry" THEN "none" ELSE ReadEnd)
  BY DEF One
<1> QED
  BY <1>2, <1>3 DEF Screen!nativeVars

\* Every update, with late answers, dead readers and lost links, looks to the
\* screen like an update of UpdateScreen: flagRead is cleared by its end and by a
\* failed read() and by nothing else, a reader leaves only on one of the two, and
\* there is one result, at the end.
THEOREM UpdateAsSeen == Spec => SeenByScreen
<1>1. Begun /\ [Next]_vars
        => [Screen!Engine(1) \/ Screen!ReaderQuits(1) \/ Screen!ReaderFails(1)]_(Screen!nativeVars)
  <2> SUFFICES ASSUME Begun, [Next]_vars
               PROVE  \/ Screen!Engine(1) \/ Screen!ReaderQuits(1) \/ Screen!ReaderFails(1)
                      \/ UNCHANGED Screen!nativeVars
    OBVIOUS
  <2> DEFINE ReaderEnd == IF upc = "entry" THEN "none" ELSE ReadEnd
  <2>1. CASE Start
    <3>1. /\ Engine = "ready" /\ Engine' = "running" /\ ReaderEnd' = "alive"
          /\ flagRead' = TRUE /\ Result' = Result
      BY <2>1 DEF Start, auxVars, Begun, NoEndYet, Engine, ReadEnd, Result
    <3>2. /\ One(Engine)[1] = "ready" /\ One(Engine)' = [One(Engine) EXCEPT ![1] = "running"]
          /\ One(ReaderEnd)' = [One(ReaderEnd) EXCEPT ![1] = "alive"] /\ One(Result)' = One(Result)
      BY <3>1 DEF One
    <3>3. Screen!StartOTAUpdate(1)
      BY <3>1, <3>2, ScreenStill DEF Screen!StartOTAUpdate, Screen!BeginWith, Screen!NoFile
    <3> QED
      BY <3>3 DEF Screen!Engine
  <2>2. CASE OtaFail \/ OtaSuccess
    <3>1. PICK res \in {"fail", "end"} : /\ Engine = "running" /\ Engine' = "verdict" /\ Result' = res
                                       /\ flagRead' = FALSE /\ ReaderEnd' = ReaderEnd
      BY <2>2 DEF OtaFail, OtaSuccess, EndWith, readVars, Begun, NoEndYet, Engine, ReadEnd, Result
    <3>2. /\ One(Engine)[1] = "running" /\ One(Engine)' = [One(Engine) EXCEPT ![1] = "verdict"]
          /\ One(Result)' = [One(Result) EXCEPT ![1] = res] /\ One(ReaderEnd)' = One(ReaderEnd)
      BY <3>1 DEF One
    <3>3. Screen!EndUpdate(1, res)
      BY <3>1, <3>2, ScreenStill DEF Screen!EndUpdate
    <3> QED
      BY <3>3 DEF Screen!Engine
  <2>3. CASE ReadLoop /\ ~ flagRead
    <3>1. upc # "entry" /\ upc' = upc /\ UNCHANGED <<outcome, flagRead>> /\ rpc = "loop" /\ rpc' = "exit"
      BY <2>3 DEF ReadLoop, updVars, globals, auxVars, Begun
    <3>2. ReaderEnd = "alive" /\ ReaderEnd' = "gone" /\ Engine' = Engine /\ Result' = Result
      BY <3>1 DEF Engine, Result, ReadEnd
    <3>3. /\ One(ReaderEnd)[1] = "alive" /\ One(ReaderEnd)' = [One(ReaderEnd) EXCEPT ![1] = "gone"]
          /\ One(Engine)' = One(Engine) /\ One(Result)' = One(Result)
      BY <3>2 DEF One
    <3> QED
      BY <2>3, <3>1, <3>3, ScreenStill DEF Screen!ReaderQuits
  <2>4. CASE ReaderFail
    <3>1. /\ upc # "entry" /\ upc' = upc /\ outcome' = outcome /\ flagRead' = FALSE
          /\ rpc = "fail" /\ rpc' = "failed"
      BY <2>4 DEF ReaderFail, updVars, auxVars, Begun
    <3>2. ReaderEnd = "alive" /\ ReaderEnd' = "fail" /\ Engine' = Engine /\ Result' = Result
      BY <3>1 DEF Engine, Result, ReadEnd
    <3>3. /\ One(ReaderEnd)[1] = "alive" /\ One(ReaderEnd)' = [One(ReaderEnd) EXCEPT ![1] = "fail"]
          /\ One(Engine)' = One(Engine) /\ One(Result)' = One(Result)
      BY <3>2 DEF One
    <3> QED
      BY <3>1, <3>3, ScreenStill DEF Screen!ReaderFails
  <2>5. CASE SendNextCmd \/ LoadSeq \/ RetryCmd \/ HidWrite \/ Poll \/ PollIdle \/ QuitServ
    <3>1. UNCHANGED <<outcome, flagRead, rpc>> /\ upc # "entry" /\ upc' # "entry"
      BY <2>5 DEF SendNextCmd, LoadSeq, RetryCmd, RetryWith, HidWrite, Poll, PollNext, PollErrRetry,
         PollComplete, PollTimeout, PollIdle, PollTo, QuitServ, globals, readVars, auxVars
    <3> QED
      BY <3>1, HiddenStep DEF ReadEnd
  <2>6. CASE \/ ReadLoop /\ flagRead
             \/ ReadEnter \/ ReadReport \/ ReadNothing \/ Decide \/ Store
    <3>1. UNCHANGED <<outcome, flagRead, upc>> /\ rpc # "none"
          /\ rpc \notin {"exit", "failed"} /\ rpc' \notin {"exit", "failed"}
      BY <2>6 DEF ReadLoop, ReadEnter, ReadReport, ReadNothing, Decide, Store, globals, updVars, auxVars
    <3>2. upc # "entry"
      BY <3>1 DEF Begun
    <3> QED
      BY <3>1, <3>2, HiddenStep DEF ReadEnd
  <2>7. CASE Device \/ DeviceReport \/ LinkLost \/ DeconnectClient \/ UNCHANGED vars
    <3>1. UNCHANGED <<outcome, flagRead, upc, rpc>>
      BY <2>7 DEF Device, DeviceAnswer, DeviceSilent, DeviceReport, LinkLost, DeconnectClient, vars,
         updVars, globals, readVars, auxVars
    <3> QED
      BY <3>1 DEF Screen!nativeVars, One, Engine, Result, ReadEnd
  <2> QED
    BY <2>1, <2>2, <2>3, <2>4, <2>5, <2>6, <2>7 DEF Next, Update, Reader
<1> QED
  BY <1>1, BegunInit, BegunStep, PTL DEF Spec, SeenByScreen

(***************************************************************************)
(* How long ota_update() takes                                             *)
(***************************************************************************)

\* The counters are inside the bounds the loops stop them at.
Counted ==
  /\ idx \in 0 .. Len(Image) + 1
  /\ upc = "load" => send_count = 0
  /\ upc = "retry" => send_count \in 0 .. 3
  /\ upc \in {"write", "wait"} => send_count \in 1 .. 3
  /\ upc = "write" => wait_count = 0
  /\ upc = "wait" => wait_count \in 0 .. OTA_WAIT_TIME - 1

LEMMA CountedInit == Init => Counted
BY ImageAssumption DEF Init, Counted

\* What a step of ota_update() does to its position and its counters.
Passes(from, to) == upc = from /\ upc' = to /\ UNCHANGED <<idx, send_count, wait_count>>
NextCommand == upc = "send_next" /\ upc' = "load" /\ send_count' = 0
                      /\ idx' = IF idx > Len(Image) THEN idx ELSE idx + 1
CountsCopy  == upc = "retry" /\ idx' = idx /\ send_count' = send_count + 1 /\ wait_count' = 0
                      /\ upc' = IF send_count + 1 > 3 THEN "fail" ELSE "write"
CountsRound == upc = "wait" /\ UNCHANGED <<idx, send_count>> /\ wait_count' = wait_count + 1
                      /\ \/ upc' \in {"send_next", "retry", "success"}
                         \/ upc' = "wait" /\ wait_count + 1 < OTA_WAIT_TIME
Moves ==
  \/ UNCHANGED updVars
  \/ (\E to \in {"fail", "send_next"} : Passes("entry", to)) \/ NextCommand
  \/ Passes("load", "retry") \/ CountsCopy \/ Passes("write", "wait") \/ Passes("write", "fail")
  \/ CountsRound
  \/ Passes("fail", "quit") \/ Passes("success", "quit") \/ Passes("quit", "return")

LEMMA StepMoves == [Next]_vars => Moves
<1>1. CASE Reader \/ Device \/ DeviceReport \/ LinkLost \/ DeconnectClient \/ UNCHANGED vars
  <2>1. UNCHANGED updVars
    BY <1>1, Zenon DEF Reader, ReadLoop, ReadEnter, ReadReport, ReadNothing, Decide, Store, ReaderFail,
       Device, DeviceAnswer, DeviceSilent, DeviceReport, LinkLost, DeconnectClient, vars
  <2> QED
    BY <2>1 DEF Moves
<1>2. CASE Start
  BY <1>2, Zenon DEF Start, Passes, Moves
<1>3. CASE SendNextCmd
  BY <1>3, Zenon DEF SendNextCmd, NextCommand, Moves
<1>4. CASE LoadSeq \/ HidWrite \/ OtaFail \/ OtaSuccess \/ QuitServ
  BY <1>4, Zenon DEF LoadSeq, HidWrite, OtaFail, OtaSuccess, EndWith, QuitServ, Passes, Moves
<1>5. CASE RetryCmd
  BY <1>5, Zenon DEF RetryCmd, RetryWith, CountsCopy, Moves
<1>6. CASE Poll \/ PollIdle
  <2>1. CountsRound
    BY <1>6 DEF Poll, PollNext, PollErrRetry, PollComplete, PollIdle, PollTo, PollTimeout, CountsRound
  <2> QED
    BY <2>1 DEF Moves
<1> QED
  BY <1>1, <1>2, <1>3, <1>4, <1>5, <1>6 DEF Next, Update

LEMMA CountedStep == TypeOK /\ Counted /\ [Next]_vars => Counted'
<1> SUFFICES ASSUME TypeOK, Counted, [Next]_vars PROVE Counted'
  OBVIOUS
<1>1. upc \in UpdatePcs /\ idx \in Nat /\ send_count \in Nat /\ wait_count \in Nat
  BY DEF TypeOK
<1>2. OTA_WAIT_TIME \in Nat /\ OTA_WAIT_TIME > 1 /\ Len(Image) \in Nat
  BY WaitAssumption, ImageAssumption
<1>3. Moves
  BY StepMoves
<1>4. CASE UNCHANGED updVars
  BY <1>4 DEF updVars, Counted
<1>5. CASE CountsCopy \/ CountsRound \/ NextCommand
  BY <1>1, <1>2, <1>5 DEF CountsCopy, CountsRound, NextCommand, Counted
<1>6. CASE Passes("load", "retry") \/ Passes("write", "wait")
  BY <1>2, <1>6 DEF Passes, Counted
<1>7. CASE \/ (\E to \in {"fail", "send_next"} : Passes("entry", to)) \/ Passes("write", "fail")
           \/ Passes("fail", "quit") \/ Passes("success", "quit") \/ Passes("quit", "return")
  BY <1>7 DEF Passes, Counted
<1> QED
  BY <1>3, <1>4, <1>5, <1>6, <1>7 DEF Moves

LEMMA WorkStep ==
  ASSUME TypeOK, Counted, Moves
  PROVE  \/ UNCHANGED updVars
         \/ upc = "send_next" /\ idx > Len(Image)
         \/ Work \in Nat /\ Work' \in Nat /\ Work' < Work
<1>1. Copy \in Nat /\ Copy = OTA_WAIT_TIME + 2 /\ OTA_WAIT_TIME \in Nat /\ Copy' = Copy
  BY WaitAssumption DEF Copy
<1>2. /\ Ahead \in Nat /\ (idx' = idx => Ahead' = Ahead)
      /\ NextCommand /\ idx <= Len(Image) => Ahead' \in Nat /\ Ahead = Ahead' + 4 * Copy + 2
  <2> DEFINE P == 4 * Copy + 2
             r == Len(Image) + 1 - idx
  <2>1. P \in Nat /\ P' = P /\ Ahead = P * r /\ Ahead' = P' * r'
    BY <1>1 DEF Ahead
  <2>2. r \in Nat /\ (idx' = idx => r' = r)
    BY ImageAssumption DEF Counted
  <2>3. NextCommand /\ idx <= Len(Image) => r' \in Nat /\ r = r' + 1
    BY ImageAssumption DEF Counted, NextCommand
  <2>4. \A p, q \in Nat : p * q \in Nat /\ p * (q + 1) = p * q + p
    OBVIOUS
  <2> HIDE DEF P, r
  <2>5. Ahead \in Nat /\ (idx' = idx => Ahead' = Ahead)
    BY <2>1, <2>2, <2>4
  <2>6. NextCommand /\ idx <= Len(Image) => Ahead' \in Nat /\ Ahead = Ahead' + P
    BY <2>1, <2>2, <2>3, <2>4
  <2> QED
    BY <1>1, <2>5, <2>6 DEF P
<1>3. CASE UNCHANGED updVars
  BY <1>3
<1>4. CASE \E to \in {"fail", "send_next"} : Passes("entry", to)
  <2>1. Work = 4 + Ahead /\ Ahead' = Ahead /\ (Work' = 2 \/ Work' = 3 + Ahead')
    BY <1>2, <1>4 DEF Work, Passes
  <2> QED
    BY <1>2, <2>1
<1>5. CASE NextCommand
  <2>1. CASE idx > Len(Image)
    BY <1>5, <2>1 DEF NextCommand
  <2>2. CASE idx <= Len(Image)
    <3>1. Work = 3 + Ahead /\ Work' = 4 + Ahead' + 4 * Copy'
      <4>1. upc = "send_next" /\ upc' = "load"
        BY <1>5 DEF NextCommand
      <4> QED
        BY <4>1 DEF Work
    <3> QED
      BY <1>1, <1>2, <1>5, <2>2, <3>1
  <2>3. idx \in Nat /\ Len(Image) \in Nat
    BY ImageAssumption DEF TypeOK
  <2> QED
    BY <2>1, <2>2, <2>3
<1>6. CASE Passes("load", "retry")
  <2>1. Work = 4 + Ahead + 4 * Copy /\ Work' = 3 + Ahead' + 4 * Copy' /\ Ahead' = Ahead
    <3>1. upc = "load" /\ upc' = "retry" /\ send_count = 0 /\ send_count' = 0 /\ idx' = idx
      BY <1>6 DEF Passes, Counted
    <3>2. Work' = 3 + Ahead' + (4 - send_count') * Copy'
      BY <3>1 DEF Work
    <3> QED
      BY <1>1, <1>2, <3>1, <3>2 DEF Work
  <2> QED
    BY <1>1, <1>2, <2>1
<1>7. CASE CountsCopy
  <2>1. /\ send_count \in 0 .. 3 /\ send_count' = send_count + 1 /\ Ahead' = Ahead
        /\ Work = 3 + Ahead + (4 - send_count) * Copy
        /\ \/ send_count = 3 /\ Work' = 2
           \/ send_count # 3 /\ Work' = 4 + Ahead' + (4 - send_count') * Copy' + OTA_WAIT_TIME
    BY <1>2, <1>7 DEF Work, CountsCopy, Counted
  <2> QED
    BY <1>1, <1>2, <2>1
<1>8. CASE Passes("write", "wait") \/ Passes("write", "fail")
  <2>1. /\ send_count \in 1 .. 3 /\ send_count' = send_count /\ Ahead' = Ahead /\ wait_count' = 0
        /\ Work = 4 + Ahead + (4 - send_count) * Copy + OTA_WAIT_TIME
        /\ \/ Work' = 3 + Ahead' + (4 - send_count') * Copy' + OTA_WAIT_TIME - wait_count'
           \/ Work' = 2
    BY <1>2, <1>8 DEF Work, Passes, Counted
  <2> QED
    BY <1>1, <1>2, <2>1
<1>9. CASE CountsRound
  <2>1. /\ send_count \in 1 .. 3 /\ send_count' = send_count /\ Ahead' = Ahead
        /\ wait_count \in 0 .. OTA_WAIT_TIME - 1 /\ wait_count' = wait_count + 1
        /\ Work = 3 + Ahead + (4 - send_count) * Copy + OTA_WAIT_TIME - wait_count
        /\ \/ Work' = 3 + Ahead'
           \/ Work' = 3 + Ahead' + (4 - send_count') * Copy'
           \/ Work' = 2
           \/ Work' = 3 + Ahead' + (4 - send_count') * Copy' + OTA_WAIT_TIME - wait_count'
    BY <1>2, <1>9 DEF Work, CountsRound, Counted
  <2> QED
    BY <1>1, <1>2, <2>1
<1>10. CASE Passes("fail", "quit") \/ Passes("success", "quit") \/ Passes("quit", "return")
  BY <1>10 DEF Work, Passes
<1> QED
  BY <1>3, <1>4, <1>5, <1>6, <1>7, <1>8, <1>9, <1>10 DEF Moves

\* However the steps of the two threads, the device and the link mix, ota_update()
\* takes at most (4 * (OTA_WAIT_TIME + 2) + 2) * (Len(Image) + 1) + 4 steps for an
\* image it does not run past: every one of its steps lowers a natural number, and
\* nothing else changes it.
THEOREM UpdateIsBounded == Spec => WorkShrinks
<1>1. TypeOK /\ Counted /\ [Next]_vars
        => \/ UNCHANGED updVars
           \/ upc = "send_next" /\ idx > Len(Image)
           \/ Work \in Nat /\ Work' \in Nat /\ Work' < Work
  BY StepMoves, WorkStep
<1> QED
  BY <1>1, TypeInit, TypeStep, CountedInit, CountedStep, PTL DEF Spec, WorkShrinks

\* With answers in time and an image that ends in FINISH there is no exception: the
\* count of steps is lowered by every step of ota_update().
THEOREM TimelyIsBounded ==
  ASSUME ImageEndsInFinish
  PROVE  TimelySpec => [][UNCHANGED updVars \/ Work' < Work]_vars
<1>1. TypeOK /\ Counted /\ NeverPastImage /\ [Next]_vars => [UNCHANGED updVars \/ Work' < Work]_vars
  <2>1. TypeOK /\ NeverPastImage => ~ (idx > Len(Image))
    BY ImageAssumption DEF TypeOK, NeverPastImage
  <2> QED
    BY <2>1, StepMoves, WorkStep
<1> QED
  BY <1>1, TimelyIsNext, TypeInit, TypeStep, CountedInit, CountedStep, InsideImage, PTL DEF TimelySpec

(***************************************************************************)
(* A healthy update.  It is a timely one, so that the invariants above     *)
(* hold; in addition the reader is there, the token is never lost, and it  *)
(* is an acceptance wherever it is.                                        *)
(***************************************************************************)

Undisturbed ==
  /\ upc # "return" => isOpen /\ link = "up"
  /\ upc \notin {"entry", "quit", "return"} => flagRead /\ ReaderLives
  /\ upc # "fail" /\ outcome # "fail"
  /\ send_count <= 1 /\ (upc \in {"load", "retry"} => send_count = 0)

\* An answer that hidRead() will take for an acceptance.
Accepts(r) == r.stat = "SUCCESS" /\ (r.cmd = "DATA" => r.seq = current_data_seq)
Accepting ==
  /\ ReaderLives => \A k \in AnswersIn : Accepts(toHost[k])
  /\ rpc = "decide" => Accepts(rsp_cmd)
  /\ rpc = "store" => verdict \in {"NEXT_CMD", "COMPLETE"}
  /\ upc = "wait" => OTAStage \in {"RETRYING", "NEXT_CMD", "COMPLETE"}

\* While ota_update() waits the token is somewhere, so that the last round of the
\* wait loop does not come.  After the end there is none.
NotLost ==
  /\ Pending => toDev # <<>> \/ AnswersIn # {} \/ Reading
  /\ upc = "wait" => wait_count + 1 < OTA_WAIT_TIME
  /\ upc = "return" => toDev = <<>>

\* The device has accepted no other commands than those of the image, and all of
\* them if it has concluded the update.
Whole ==
  ImageEndsInFinish =>
    /\ accepted \subseteq 1 .. Len(Image)
    /\ concluded # {} => accepted = 1 .. Len(Image)

HealthyInv == Undisturbed /\ Accepting /\ NotLost /\ Whole

LEMMA HealthyIsTimely == [HealthyNext]_vars => [TimelyNext]_vars
  BY DEF HealthyNext, HealthyUpdate, TimelyNext, Update, Device, Statuses

LEMMA HealthyFirst == HealthyInit => HealthyInv
  BY DEF HealthyInit, Init, HealthyInv, Undisturbed, Accepting, NotLost, Whole, AnswersIn, ReaderLives,
         Pending

\* Neither way back to FLAG_RETRY_CMD is taken.
LEMMA NoRetry ==
  ASSUME TypeOK, HealthyInv
  PROVE  ~ PollErrRetry /\ ~ PollTimeout
<1>1. ~ PollErrRetry
  BY DEF HealthyInv, Accepting, PollErrRetry, PollTo
<1>2. upc = "wait" => ~ (wait_count + 1 >= OTA_WAIT_TIME)
  BY WaitAssumption DEF HealthyInv, NotLost, TypeOK
<1> QED
  BY <1>1, <1>2 DEF PollTimeout

LEMMA UndisturbedStep == TypeOK /\ HealthyInv /\ [HealthyNext]_vars => Undisturbed'
<1> SUFFICES ASSUME TypeOK, HealthyInv, [HealthyNext]_vars PROVE Undisturbed'
  OBVIOUS
<1>u. Undisturbed /\ send_count \in Nat
  BY DEF HealthyInv, TypeOK
<1> USE DEF Undisturbed, ReaderLives
<1>1. CASE Start /\ upc' = "send_next" /\ rpc' = "loop"
  <2>1. flagRead' = TRUE /\ UNCHANGED <<isOpen, link, outcome, send_count>> /\ upc = "entry"
    BY <1>1, Zenon DEF Start, linkVars, auxVars
  <2> QED
    BY <1>1, <1>u, <2>1
<1>2. CASE SendNextCmd \/ LoadSeq \/ RetryCmd
  <2>1. /\ UNCHANGED <<isOpen, link, outcome, flagRead, rpc>>
        /\ upc \in {"send_next", "load", "retry"}
        /\ upc = "send_next" => upc' = "load" /\ send_count' = 0
        /\ upc = "load" => upc' = "retry" /\ send_count' = send_count
        /\ upc = "retry" => send_count' = send_count + 1 /\ upc' = IF send_count + 1 > 3 THEN "fail" ELSE "write"
    BY <1>2 DEF SendNextCmd, LoadSeq, RetryCmd, RetryWith, linkVars, readVars, auxVars
  <2> QED
    BY <1>u, <2>1
<1>3. CASE HidWrite
  <2>1. /\ UNCHANGED <<isOpen, link, outcome, flagRead, rpc, send_count>> /\ upc = "write"
        /\ upc' = "wait" \/ (upc' = "fail" /\ (~ isOpen \/ link = "down"))
    BY <1>3, Zenon DEF HidWrite, readVars, globals
  <2> QED
    BY <1>u, <2>1
<1>4. CASE Poll \/ TimelyIdle
  <2>1. PollNext \/ PollComplete \/ PollIdle
    BY <1>4, NoRetry DEF Poll, TimelyIdle
  <2>2. /\ UNCHANGED <<isOpen, link, outcome, flagRead, rpc, send_count>> /\ upc = "wait"
        /\ upc' \in {"send_next", "success", "wait"}
    BY <2>1, Zenon DEF PollNext, PollComplete, PollIdle, PollTo, readVars, globals, linkVars, auxVars
  <2> QED
    BY <1>u, <2>2
<1>5. CASE OtaFail \/ OtaSuccess \/ QuitServ
  <2>1. ~ OtaFail
    BY <1>u DEF OtaFail, EndWith
  <2>2. UNCHANGED send_count /\ upc' \in {"quit", "return"}
    BY <1>5, Zenon DEF OtaFail, OtaSuccess, EndWith, QuitServ
  <2>3. outcome' # "fail" /\ (upc' = "quit" => upc = "success" /\ UNCHANGED <<isOpen, link>>)
    BY <1>5, <1>u, <2>1 DEF OtaSuccess, EndWith, QuitServ, linkVars, auxVars
  <2> QED
    BY <1>u, <2>2, <2>3
<1>6. CASE Reader
  <2>1. UNCHANGED <<upc, send_count, outcome, isOpen>>
    BY <1>6, Zenon DEF Reader, ReadLoop, ReadEnter, ReadReport, ReadNothing, Decide, Store, ReaderFail,
       updVars, linkVars, auxVars
  <2>2. upc # "return" => link' = "up"
    BY <1>6, <1>u DEF Reader, ReadLoop, ReadEnter, ReadReport, ReadNothing, Decide, Store, ReaderFail, linkVars
  <2>3. upc \notin {"entry", "quit", "return"} =>
          flagRead' /\ rpc' \in {"loop", "enter", "recv", "decide", "store"}
    BY <1>6, <1>u DEF Reader, ReadLoop, ReadEnter, ReadReport, ReadNothing, Decide, Store, ReaderFail, globals
  <2> QED
    BY <1>u, <2>1, <2>2, <2>3
<1>7. CASE DeviceAnswer("SUCCESS") \/ DeviceReport \/ UNCHANGED vars
  <2>1. UNCHANGED <<upc, send_count, outcome, isOpen, link, flagRead, rpc>>
    BY <1>7, Zenon DEF DeviceAnswer, DeviceReport, vars, updVars, globals, readVars, linkVars, auxVars
  <2> QED
    BY <1>u, <2>1
<1> QED
  BY <1>1, <1>2, <1>3, <1>4, <1>5, <1>6, <1>7 DEF HealthyNext, HealthyUpdate, Update, Start

LEMMA AcceptingStep ==
  TypeOK /\ TimelyInv /\ NumberOut /\ HealthyInv /\ [HealthyNext]_vars => Accepting'
<1> SUFFICES ASSUME TypeOK, TimelyInv, NumberOut, HealthyInv, [HealthyNext]_vars PROVE Accepting'
  OBVIOUS
<1>a. Accepting
  BY DEF HealthyInv
<1> USE DEF Accepting, Accepts
\* Nothing is under way.
<1>q. ASSUME ~ Pending, UNCHANGED <<rpc, toHost>>, upc' = "wait" => OTAStage' = "RETRYING"
      PROVE  Accepting'
  <2>1. ReaderLives => AnswersIn = {} /\ ~ Reading
    BY <1>q, NotPendingIsQuiet, QuietAnswers DEF TimelyInv
  <2>2. AnswersIn' = AnswersIn
    BY <1>q, AnswersSame
  <2> QED
    BY <1>q, <2>1, <2>2 DEF ReaderLives, Reading
\* The way of the answer is not touched.
<1>s. ASSUME UNCHANGED <<rsp_cmd, verdict, OTAStage, current_data_seq>>, upc' = "wait" => upc = "wait",
             ReaderLives' => ReaderLives, rpc' \in {"decide", "store"} => rpc' = rpc,
             \A k \in AnswersIn' : k \in AnswersIn /\ toHost'[k] = toHost[k]
      PROVE  Accepting'
  BY <1>a, <1>s
<1>1. CASE Start
  <2>1. AnswersIn = {} /\ toHost' = toHost /\ rpc' \in {"none", "loop"} /\ upc' \in {"fail", "send_next"}
    BY <1>1 DEF Start, TimelyInv, Token, LastRound, linkVars
  <2> QED
    BY <2>1, AnswersSame
<1>2. CASE SendNextCmd \/ LoadSeq \/ RetryCmd \/ OtaFail \/ OtaSuccess \/ QuitServ
  BY <1>2, <1>q DEF SendNextCmd, LoadSeq, RetryCmd, RetryWith, OtaFail, OtaSuccess, EndWith, QuitServ,
                    Pending, readVars, linkVars
<1>3. CASE HidWrite
  BY <1>3, <1>q DEF HidWrite, TimelyInv, Token, LastRound, Pending, readVars, globals
<1>4. CASE Poll \/ TimelyIdle
  <2>1. /\ UNCHANGED <<rsp_cmd, verdict, OTAStage, current_data_seq, rpc, toHost>> /\ upc = "wait"
    BY <1>4, Zenon DEF Poll, PollNext, PollErrRetry, PollComplete, PollTimeout, TimelyIdle, PollIdle, PollTo,
       globals, readVars, linkVars
  <2> QED
    BY <1>s, <2>1, AnswersSame DEF ReaderLives
<1>5. CASE ReadLoop \/ ReadEnter \/ ReadNothing \/ ReaderFail
  <2>1. /\ UNCHANGED <<upc, OTAStage, toHost, current_data_seq>>
        /\ ReaderLives' => ReaderLives
        /\ rpc' \notin {"decide", "store"}
    BY <1>5 DEF ReadLoop, ReadEnter, ReadNothing, ReaderFail, updVars, globals, linkVars, ReaderLives
  <2> QED
    BY <1>a, <2>1, AnswersSame
<1>6. CASE ReadReport
  <2>1. /\ toHost # <<>> /\ toHost' = Tail(toHost) /\ rsp_cmd' = Head(toHost) /\ rpc = "recv"
        /\ rpc' = IF IsAnswer(Head(toHost)) THEN "decide" ELSE "loop"
        /\ UNCHANGED <<upc, OTAStage, current_data_seq>>
    BY <1>6 DEF ReadReport, updVars
  <2>2. /\ Head(toHost) = toHost[1] /\ (1 \in AnswersIn <=> IsAnswer(Head(toHost)))
        /\ \A k \in AnswersIn' : k + 1 \in AnswersIn /\ toHost'[k] = toHost[k + 1]
    BY <2>1, AnswersTail
  <2> QED
    BY <1>a, <2>1, <2>2 DEF ReaderLives
<1>7. CASE Decide
  <2>1. /\ rpc = "decide" /\ rpc' = "store" /\ verdict' = VerdictOf(rsp_cmd, current_data_seq)
        /\ UNCHANGED <<upc, OTAStage, toHost, current_data_seq>>
    BY <1>7 DEF Decide, updVars, globals, linkVars
  <2>2. verdict' \in {"NEXT_CMD", "COMPLETE"}
    BY <1>a, <2>1 DEF VerdictOf
  <2> QED
    BY <1>a, <2>1, <2>2, AnswersSame DEF ReaderLives
<1>8. CASE Store
  <2>1. /\ rpc = "store" /\ rpc' = "loop" /\ OTAStage' = verdict
        /\ UNCHANGED <<upc, toHost, current_data_seq>>
    BY <1>8 DEF Store, updVars, linkVars
  <2> QED
    BY <1>a, <2>1, AnswersSame DEF ReaderLives
<1>9. CASE DeviceAnswer("SUCCESS")
  <2> DEFINE p == Head(toDev)
             r == [cmd |-> p.cmd, seq |-> p.seq, stat |-> "SUCCESS"]
  <2>1. /\ toDev # <<>>
        /\ toHost' = IF link = "up" THEN Append(toHost, r) ELSE toHost
        /\ UNCHANGED <<upc, OTAStage, rsp_cmd, rpc, verdict, current_data_seq>>
    BY <1>9 DEF DeviceAnswer, updVars, globals, readVars
  <2>2. CASE link # "up"
    <3>1. toHost' = toHost
      BY <2>1, <2>2
    <3> HIDE DEF p, r
    <3> QED
      BY <2>1, <3>1, <1>s, AnswersSame DEF ReaderLives
  <2>3. CASE link = "up"
    <3>1. r.stat = "SUCCESS" /\ (r.cmd = "DATA" => r.seq = current_data_seq)
      <4>1. p = toDev[1] /\ p.cmd = cmd_buf.cmd /\ p.seq = cmd_buf.seq /\ upc = "wait"
        BY <2>1, <2>3 DEF TimelyInv, Token, InChannel, Pending, NumberOut, TypeOK
      <4> QED
        BY <4>1 DEF NumberOut
    <3> HIDE DEF p, r
    <3>2. \A k \in AnswersIn' : (k \in AnswersIn /\ toHost'[k] = toHost[k]) \/ toHost'[k] = r
      BY <2>1, <2>3, AnswersAppend
    <3> QED
      BY <1>a, <2>1, <3>1, <3>2 DEF ReaderLives
  <2> QED
    BY <2>2, <2>3
<1>10. CASE DeviceReport
  <2>1. /\ toHost' = Append(toHost, OtherReport)
        /\ UNCHANGED <<upc, OTAStage, rsp_cmd, rpc, verdict, current_data_seq>>
    BY <1>10 DEF DeviceReport, updVars, globals, readVars
  <2>2. ~ IsAnswer(OtherReport)
    BY DEF IsAnswer, OtherReport
  <2> QED
    BY <1>s, <2>1, <2>2, AnswersAppend DEF ReaderLives
<1>11. CASE UNCHANGED vars
  <2>1. UNCHANGED <<upc, OTAStage, rsp_cmd, rpc, verdict, current_data_seq, toHost>>
    BY <1>11 DEF vars, updVars, globals, readVars, linkVars
  <2> QED
    BY <1>s, <2>1, AnswersSame DEF ReaderLives
<1> QED
  BY <1>1, <1>2, <1>3, <1>4, <1>5, <1>6, <1>7, <1>8, <1>9, <1>10, <1>11
  DEF HealthyNext, HealthyUpdate, Update, Reader

LEMMA NotLostStep ==
  TypeOK /\ TimelyInv /\ HealthyInv /\ [HealthyNext]_vars => NotLost'
<1> SUFFICES ASSUME TypeOK, TimelyInv, HealthyInv, [HealthyNext]_vars PROVE NotLost'
  OBVIOUS
<1>n. NotLost
  BY DEF HealthyInv
<1>w. OTA_WAIT_TIME \in Nat /\ OTA_WAIT_TIME > 1 /\ wait_count \in Nat
  BY WaitAssumption DEF TypeOK
<1> USE DEF NotLost, Pending, Reading
<1>1. CASE QuitServ
  <2>1. Quiet /\ link = "up" /\ toDev' = toDev /\ upc' # "wait"
    BY <1>1, NotPendingIsQuiet DEF QuitServ, TimelyInv, HealthyInv, Undisturbed
  <2> QED
    BY <2>1 DEF Quiet
<1>2. CASE upc' \notin {"wait", "return"}
  BY <1>2
<1>3. CASE HidWrite
  <2>1. /\ upc = "write" /\ wait_count' = wait_count
        /\ upc' = "fail" \/ (upc' = "wait" /\ toDev' # <<>>)
    <3>1. link = "up" => toDev = <<>>
      BY <1>3, NotPendingIsQuiet DEF HidWrite, TimelyInv, Quiet
    <3>2. \A x : <<x>> # <<>>
      OBVIOUS
    <3>3. \A x : Append(<<>>, x) = <<x>>
      OBVIOUS
    <3> QED
      BY <1>3, <3>1, <3>2, <3>3 DEF HidWrite
  <2>2. wait_count' = 0
    BY <2>1 DEF TimelyInv, Token, LastRound
  <2> QED
    BY <1>w, <2>1, <2>2
<1>4. CASE TimelyIdle
  <2>1. /\ Pending /\ wait_count' = wait_count + 1 /\ (wait_count + 2 >= OTA_WAIT_TIME => Quiet)
        /\ upc' = "wait" /\ UNCHANGED <<OTAStage, toDev, toHost, rpc>>
    BY <1>4 DEF TimelyIdle, PollIdle, PollTo, globals, linkVars, readVars
  <2>2. ~ Quiet
    BY <1>n, <2>1, QuietAnswers DEF HealthyInv, Undisturbed, ReaderLives
  <2>3. AnswersIn' = AnswersIn
    BY <2>1, AnswersSame
  <2> QED
    BY <1>n, <1>w, <2>1, <2>2, <2>3
<1>5. CASE ReadReport
  <2>1. /\ rpc = "recv" /\ toHost # <<>> /\ toHost' = Tail(toHost)
        /\ rpc' = IF IsAnswer(Head(toHost)) THEN "decide" ELSE "loop"
        /\ UNCHANGED <<upc, wait_count, OTAStage, toDev>>
    BY <1>5 DEF ReadReport, updVars
  <2>2. ASSUME NEW k \in AnswersIn, ~ IsAnswer(Head(toHost)) PROVE AnswersIn' # {}
    <3>1. /\ toHost \in Seq(Reports) /\ Len(toHost') = Len(toHost) - 1 /\ Len(toHost) \in Nat
          /\ \A j \in 1 .. Len(toHost') : toHost'[j] = toHost[j + 1]
      BY <2>1 DEF TypeOK
    <3>2. k # 1
      BY <2>1, <2>2, AnswersTail
    <3>3. k \in 2 .. Len(toHost) /\ IsAnswer(toHost[k]) /\ (k - 1) + 1 = k
      BY <3>1, <3>2 DEF AnswersIn
    <3>4. k - 1 \in 1 .. Len(toHost')
      BY <3>1, <3>3
    <3>5. toHost'[k - 1] = toHost[k]
      BY <3>1, <3>3, <3>4
    <3> QED
      BY <3>3, <3>4, <3>5 DEF AnswersIn, IsAnswer
  <2> QED
    BY <1>n, <2>1, <2>2
<1>6. CASE ReadLoop \/ ReadEnter \/ ReadNothing \/ ReaderFail \/ Decide \/ Store
  <2>1. /\ UNCHANGED <<upc, wait_count, toDev, toHost>>
        /\ OTAStage' = OTAStage \/ (rpc = "store" /\ OTAStage' = verdict)
        /\ rpc = "decide" => rpc' = "store"
        /\ rpc = "store" => OTAStage' = verdict
    BY <1>6 DEF ReadLoop, ReadEnter, ReadNothing, ReaderFail, Decide, Store, updVars, globals, linkVars
  <2>2. rpc = "store" => verdict # "RETRYING"
    BY DEF TimelyInv, Token, InReader
  <2>3. AnswersIn' = AnswersIn
    BY <2>1, AnswersSame
  <2> QED
    BY <1>n, <2>1, <2>2, <2>3
<1>7. CASE DeviceAnswer("SUCCESS")
  <2>1. /\ toDev # <<>> /\ Head(toDev).cmd # "OTHER" /\ UNCHANGED <<upc, wait_count, OTAStage, rpc>>
        /\ link = "up" => toHost' = Append(toHost, [cmd |-> Head(toDev).cmd, seq |-> Head(toDev).seq,
                                                    stat |-> "SUCCESS"])
    BY <1>7 DEF DeviceAnswer, updVars, globals, readVars
  <2>2. upc = "wait" => link = "up"
    BY DEF HealthyInv, Undisturbed
  <2>3. link = "up" => Len(toHost) + 1 \in AnswersIn'
    <3>1. toHost \in Seq(Reports)
      BY DEF TypeOK
    <3>2. \A r : /\ Len(Append(toHost, r)) = Len(toHost) + 1 /\ Append(toHost, r)[Len(toHost) + 1] = r
                 /\ Len(toHost) \in Nat
      BY <3>1
    <3> QED
      BY <2>1, <3>2 DEF AnswersIn, IsAnswer
  <2> QED
    BY <1>n, <2>1, <2>2, <2>3
<1>8. CASE DeviceReport
  <2>1. UNCHANGED <<upc, wait_count, OTAStage, rpc, toDev>> /\ toHost' = Append(toHost, OtherReport)
    BY <1>8 DEF DeviceReport, updVars, globals, readVars
  <2>2. AnswersIn \subseteq AnswersIn'
    <3>1. /\ toHost \in Seq(Reports) /\ Len(toHost') = Len(toHost) + 1
          /\ \A k \in 1 .. Len(toHost) : toHost'[k] = toHost[k]
      BY <2>1 DEF TypeOK
    <3> QED
      BY <3>1 DEF AnswersIn, IsAnswer
  <2> QED
    BY <1>n, <2>1, <2>2
<1>9. CASE UNCHANGED vars
  <2>1. UNCHANGED <<upc, wait_count, OTAStage, rpc, toDev, toHost>>
    BY <1>9 DEF vars, updVars, globals, readVars, linkVars
  <2> QED
    BY <1>n, <2>1, AnswersSame
<1>10. ASSUME Update, upc' \in {"wait", "return"} PROVE HidWrite \/ QuitServ
  BY <1>10 DEF Update, Start, SendNextCmd, LoadSeq, RetryCmd, RetryWith, Poll, PollNext, PollErrRetry,
     PollComplete, PollTimeout, PollTo, OtaFail, OtaSuccess, EndWith, QuitServ
<1>11. CASE Start
  BY <1>11 DEF Start
<1> QED
  BY <1>1, <1>2, <1>3, <1>4, <1>5, <1>6, <1>7, <1>8, <1>9, <1>10, <1>11 DEF HealthyNext, HealthyUpdate, Reader

LEMMA WholeStep ==
  TypeOK /\ TimelyInv /\ NumberOut /\ HealthyInv /\ [HealthyNext]_vars => Whole'
<1> SUFFICES ASSUME TypeOK, TimelyInv, NumberOut, HealthyInv, [HealthyNext]_vars, ImageEndsInFinish
             PROVE  /\ accepted' \subseteq 1 .. Len(Image)
                    /\ concluded' # {} => accepted' = 1 .. Len(Image)
  BY DEF Whole, ImageEndsInFinish
<1>w. accepted \subseteq 1 .. Len(Image) /\ (concluded # {} => accepted = 1 .. Len(Image))
  BY DEF HealthyInv, Whole
<1>1. CASE DeviceAnswer("SUCCESS")
  <2> DEFINE p == Head(toDev)
  <2>1. /\ toDev # <<>> /\ accepted' = accepted \cup {p.idx}
        /\ concluded' = IF Concludes(p, "SUCCESS") THEN concluded \cup {p.idx} ELSE concluded
    BY <1>1 DEF DeviceAnswer
  <2>2. toDev[1] = p /\ (link # "up" => upc = "return")
    BY <2>1 DEF HealthyInv, Undisturbed, TypeOK
  <2>3. CASE link = "up"
    <3>1. p.idx = idx /\ p.cmd = cmd_buf.cmd /\ upc = "wait"
      BY <2>1, <2>2, <2>3 DEF TimelyInv, Token, InChannel, Pending
    <3>2. idx \in 1 .. Len(Image) /\ cmd_buf = Image[idx] /\ (\A i \in 1 .. Len(Image) : i < idx => i \in accepted)
      BY <3>1, ImageAssumption DEF TimelyInv, Progress, NumberOut, TypeOK
    <3>3. Concludes(p, "SUCCESS") => idx = Len(Image)
      BY <3>1, <3>2 DEF Concludes, ImageEndsInFinish
    <3> HIDE DEF p
    <3>4. Concludes(p, "SUCCESS") => 1 .. Len(Image) \subseteq accepted'
      BY <2>1, <3>1, <3>2, <3>3
    <3> QED
      BY <1>w, <2>1, <3>1, <3>2, <3>4
  <2> QED
    BY <2>1, <2>2, <2>3 DEF HealthyInv, NotLost
<1>2. CASE UNCHANGED <<accepted, concluded>>
  BY <1>2, <1>w
<1>3. ~ DeviceAnswer("SUCCESS") => UNCHANGED <<accepted, concluded>>
  BY DEF HealthyNext, HealthyUpdate, Update, Start, SendNextCmd, LoadSeq, RetryCmd, RetryWith, HidWrite,
     Poll, PollNext, PollErrRetry, PollComplete, PollTimeout, TimelyIdle, PollIdle, PollTo, OtaFail,
     OtaSuccess, EndWith, QuitServ, Reader, ReadLoop, ReadEnter, ReadReport, ReadNothing, Decide, Store,
     ReaderFail, DeviceReport, vars, devVars
<1> QED
  BY <1>1, <1>2, <1>3

\* An update of a device that accepts every command in time sends each of them
\* once, does not fail, and reports success only of the whole image, whatever the
\* order of the steps of the two threads, for every image and wait time.
THEOREM HealthyUndisturbed == HealthySpec => []NothingRepeated
<1>1. HealthyInit => Init
  BY DEF HealthyInit
<1>2. TypeOK /\ TimelyInv /\ TransferInv /\ HealthyInv /\ [HealthyNext]_vars => HealthyInv'
  BY UndisturbedStep, AcceptingStep, NotLostStep, WholeStep DEF HealthyInv, TransferInv
<1>3. HealthyInv /\ SuccessIsEarned => NothingRepeated
  BY DEF HealthyInv, Undisturbed, Whole, SuccessIsEarned, NothingRepeated
<1>4. [HealthyNext]_vars => [TimelyNext]_vars /\ [Next]_vars
  BY HealthyIsTimely, TimelyIsNext
<1>5. HealthySpec => TimelySpec /\ Spec
  BY <1>1, <1>4, PTL DEF HealthySpec, TimelySpec, Spec
<1> QED
  BY <1>1, <1>2, <1>3, <1>5, HealthyFirst, TimelyTypeCorrect, TimelyInvariant, TransferInvariant, SuccessEarned,
     PTL DEF HealthySpec
==============================================================================
