------------------------------ MODULE OtaUpdate ------------------------------
(***************************************************************************)
(* One firmware update: the thread that runs ota_update() and the thread   *)
(* hidRead() it creates (jni/hidserv.c), the L2CAP interrupt channel       *)
(* between them and the remote control, and the remote control itself.     *)
(*                                                                         *)
(* ota_update() sends the commands of a firmware image one at a time and   *)
(* polls the global OTAStage; hidRead() reads the answers and stores what  *)
(* they mean in OTAStage.  No lock protects the globals, so every access   *)
(* to a global that the other thread writes is a step of its own.          *)
(*                                                                         *)
(* The device is external: it takes the commands in the order sent, and    *)
(* answers each at most once, when it likes, with any status.              *)
(***************************************************************************)
EXTENDS Naturals, Sequences

CONSTANTS
  Image,          \* the commands of the firmware file, in file order
  Junk,           \* what fw_data_buf may hold behind the last command
  OTA_WAIT_TIME,  \* polls of OTAStage before a command is sent again
  MaxQueue        \* bound: reports either direction of the channel holds

Kinds    == {"START", "DATA", "FINISH", "OTHER"}
Commands == [cmd : Kinds, seq : Nat]

ASSUME ImageAssumption == Image \in Seq(Commands)
ASSUME JunkAssumption  == Junk \subseteq Commands /\ Junk # {}
ASSUME WaitAssumption  == OTA_WAIT_TIME \in Nat /\ OTA_WAIT_TIME > 1
ASSUME QueueAssumption == MaxQueue \in Nat \ {0}

Stages   == {"START", "NEW_CMD", "RETRYING", "NEXT_CMD", "ERR_RETRY", "COMPLETE"}
Statuses == {"SUCCESS", "NO_NEED_UPDATE", "ERROR"}   \* ERROR: every other code

Packets  == [cmd : Kinds, seq : Nat, idx : Nat]
Answers  == [cmd : Kinds \ {"OTHER"}, seq : Nat, stat : Statuses]

\* A report hidRead() ignores: its report ID is not 0x02, or read() gave 0 bytes.
OtherReport == [cmd |-> "OTHER", seq |-> 0, stat |-> "ERROR"]
Reports     == Answers \cup {OtherReport}
IsAnswer(r) == r.cmd # "OTHER"

VARIABLES
  \* ota_update(): program counter, position in the image, the command in
  \* cmd_buf, and the two counters of the retry loop
  upc, idx, cmd_buf, send_count, wait_count,
  \* globals of hidserv.c
  OTAStage, current_data_seq, flagRead, rsp_cmd,
  \* hidRead(): program counter, and the stage it is about to store
  rpc, verdict,
  \* the descriptor intr, the link behind it, and the two directions of it
  isOpen, link, toDev, toHost,
  \* the device: the last command it took, those it answered with SUCCESS,
  \* and those whose answer ends the update
  devLast, accepted, concluded,
  \* auxiliary: the end line ota_update() logged, the last command written
  \* and how often
  outcome, wire

updVars   == <<upc, idx, cmd_buf, send_count, wait_count>>
globals   == <<OTAStage, current_data_seq, flagRead, rsp_cmd>>
readVars  == <<rpc, verdict>>
linkVars  == <<isOpen, link, toDev, toHost>>
devVars   == <<devLast, accepted, concluded>>
auxVars   == <<outcome, wire>>
vars      == <<updVars, globals, readVars, linkVars, devVars, auxVars>>

UpdatePcs == {"entry", "send_next", "load", "retry", "write", "wait",
              "fail", "success", "quit", "return"}
ReadPcs   == {"none", "loop", "enter", "recv", "decide", "store", "fail", "exit", "failed"}

MaxCopies == 4   \* bound: wire.copies stays there

TypeOK ==
  /\ upc \in UpdatePcs /\ rpc \in ReadPcs
  /\ idx \in Nat /\ send_count \in Nat /\ wait_count \in Nat
  /\ cmd_buf \in Commands
  /\ OTAStage \in Stages /\ verdict \in Stages
  /\ current_data_seq \in Nat /\ flagRead \in BOOLEAN
  /\ rsp_cmd \in Reports
  /\ isOpen \in BOOLEAN /\ link \in {"up", "down"}
  /\ toDev \in Seq(Packets) /\ toHost \in Seq(Reports)
  /\ devLast \in Nat /\ accepted \in SUBSET Nat /\ concluded \in SUBSET Nat
  /\ outcome \in {"none", "fail", "success"}
  /\ wire \in [idx : Nat, copies : 0 .. MaxCopies]

(***************************************************************************)
(* The update is started on a channel that is connected, or was.           *)
(***************************************************************************)
Init ==
  /\ upc = "entry" /\ idx = 0 /\ send_count = 0 /\ wait_count = 0
  /\ cmd_buf = [cmd |-> "OTHER", seq |-> 0]
  /\ OTAStage = "START" /\ current_data_seq = 0 /\ flagRead = FALSE
  /\ rsp_cmd = OtherReport
  /\ rpc = "none" /\ verdict = "START"
  /\ isOpen = TRUE /\ link \in {"up", "down"}
  /\ toDev = <<>> /\ toHost = <<>>
  /\ devLast = 0 /\ accepted = {} /\ concluded = {}
  /\ outcome = "none" /\ wire = [idx |-> 0, copies |-> 0]

-----------------------------------------------------------------------------
(***************************************************************************)
(* ota_update()                                                            *)
(***************************************************************************)

\* Up to FLAG_SNED_NEXT_CMD.  fopen() may fail; a failed pthread_create() is
\* logged and ignored, and the update goes on without a reader.
Start ==
  /\ upc = "entry"
  /\ flagRead' = TRUE
  /\ \/ upc' = "fail" /\ UNCHANGED rpc
     \/ upc' = "send_next" /\ rpc' \in {"loop", "none"}
  /\ UNCHANGED <<idx, cmd_buf, send_count, wait_count, OTAStage, current_data_seq,
                 rsp_cmd, verdict, linkVars, devVars, auxVars>>

CommandsAt(i) == IF i \in DOMAIN Image THEN {Image[i]} ELSE Junk

\* FLAG_SNED_NEXT_CMD: the next command is copied to cmd_buf.  Behind the last
\* command of the file the buffer was never written: every position there is
\* one, Len(Image) + 1, with any content of Junk.
SendNextCmd ==
  /\ upc = "send_next"
  /\ upc' = "load"
  /\ idx' = IF idx > Len(Image) THEN idx ELSE idx + 1
  /\ cmd_buf' \in CommandsAt(idx')
  /\ send_count' = 0
  /\ current_data_seq' = 0
  /\ OTAStage' = "NEW_CMD"
  /\ UNCHANGED <<wait_count, flagRead, rsp_cmd, readVars, linkVars, devVars, auxVars>>

\* Mutant: the sequence number is not taken over.
LoadSeqForgotten ==
  /\ upc = "load"
  /\ upc' = "retry"
  /\ UNCHANGED <<idx, cmd_buf, send_count, wait_count, globals,
                 readVars, linkVars, devVars, auxVars>>

\* The sequence number of a DATA command, for hidRead() to compare with.
LoadSeq ==
  /\ upc = "load"
  /\ upc' = "retry"
  /\ current_data_seq' = IF cmd_buf.cmd = "DATA" THEN cmd_buf.seq ELSE current_data_seq
  /\ UNCHANGED <<idx, cmd_buf, send_count, wait_count, OTAStage, flagRead, rsp_cmd,
                 readVars, linkVars, devVars, auxVars>>

\* FLAG_RETRY_CMD with the position, the copies counted so far and their limit.
RetryWith(position, count, limit) ==
  /\ upc = "retry"
  /\ OTAStage' = "RETRYING"
  /\ idx' = position
  /\ send_count' = count
  /\ wait_count' = 0
  /\ upc' = IF count > limit THEN "fail" ELSE "write"
  /\ UNCHANGED <<cmd_buf, current_data_seq, flagRead, rsp_cmd,
                 readVars, linkVars, devVars, auxVars>>

\* Mutants: a retry moves the position back by one command; the fourth copy is
\* sent as well; send_count = 0 stands below the label.
RetryStepsBack == RetryWith(IF send_count = 0 \/ idx = 1 THEN idx ELSE idx - 1,
                            send_count + 1, 3)
RetryOnceMore  == RetryWith(idx, send_count + 1, 4)
RetryForever   == RetryWith(idx, 1, 3)

RetryCmd == RetryWith(idx, send_count + 1, 3)

\* How often the position has been written, counted up to MaxCopies.
CopiesNow == IF wire.idx # idx THEN 1
             ELSE IF wire.copies < MaxCopies THEN wire.copies + 1 ELSE MaxCopies

\* hidWrite(): the command without its CRC, on intr.  write() blocks while the
\* channel is full, and fails when the descriptor or the link is gone.
HidWrite ==
  /\ upc = "write"
  /\ \/ /\ isOpen /\ link = "up" /\ Len(toDev) < MaxQueue
        /\ toDev' = Append(toDev, [cmd |-> cmd_buf.cmd, seq |-> cmd_buf.seq, idx |-> idx])
        /\ wire' = [idx |-> idx, copies |-> CopiesNow]
        /\ upc' = "wait"
     \/ /\ ~ isOpen \/ link = "down"
        /\ upc' = "fail"
        /\ UNCHANGED <<toDev, wire>>
  /\ UNCHANGED <<idx, cmd_buf, send_count, wait_count, globals, readVars,
                 isOpen, link, toHost, devVars, outcome>>

\* One round of the wait loop that looks at OTAStage.
PollTo(stage, label) ==
  /\ upc = "wait" /\ wait_count + 1 < OTA_WAIT_TIME
  /\ OTAStage = stage
  /\ wait_count' = wait_count + 1
  /\ upc' = label
  /\ UNCHANGED <<idx, cmd_buf, send_count, globals, readVars, linkVars, devVars, auxVars>>

PollNext     == PollTo("NEXT_CMD", "send_next")
PollErrRetry == PollTo("ERR_RETRY", "retry")
PollComplete == PollTo("COMPLETE", "success")
PollIdle     == PollTo("RETRYING", "wait")

\* The round that reaches OTA_WAIT_TIME sends again without looking at OTAStage.
PollTimeout ==
  /\ upc = "wait" /\ wait_count + 1 >= OTA_WAIT_TIME
  /\ wait_count' = wait_count + 1
  /\ upc' = "retry"
  /\ UNCHANGED <<idx, cmd_buf, send_count, globals, readVars, linkVars, devVars, auxVars>>

\* FLAG_OTA_FAIL and FLAG_OTA_SUCCESS up to the calls that close the channel.
EndWith(label, result) ==
  /\ upc = label
  /\ upc' = "quit"
  /\ flagRead' = FALSE
  /\ outcome' = result
  /\ UNCHANGED <<idx, cmd_buf, send_count, wait_count, OTAStage, current_data_seq,
                 rsp_cmd, readVars, linkVars, devVars, wire>>

OtaFail    == EndWith("fail", "fail")
OtaSuccess == EndWith("success", "success")

\* quit_serv(), as far as it is about intr.  close() does not wake a thread inside
\* read() on the socket, and the socket lives until that read() returns.
CloseIntr ==
  /\ isOpen' = FALSE
  /\ link' = IF rpc = "recv" THEN link ELSE "down"

\* quit_thread() and quit_serv() at the end of ota_update().
QuitServ ==
  /\ upc = "quit"
  /\ upc' = "return"
  /\ CloseIntr
  /\ UNCHANGED <<idx, cmd_buf, send_count, wait_count, globals, readVars,
                 toDev, toHost, devVars, auxVars>>

\* deconnectClient() on the UI thread: the button Disconnect works during an
\* update as well.
DeconnectClient ==
  /\ isOpen
  /\ CloseIntr
  /\ UNCHANGED <<updVars, globals, readVars, toDev, toHost, devVars, auxVars>>

-----------------------------------------------------------------------------
(***************************************************************************)
(* hidRead()                                                               *)
(***************************************************************************)

ReadLoop ==
  /\ rpc = "loop"
  /\ rpc' = IF flagRead THEN "enter" ELSE "exit"
  /\ UNCHANGED <<updVars, globals, verdict, linkVars, devVars, auxVars>>

\* The call of read(): EBADF when the descriptor is closed by then.
ReadEnter ==
  /\ rpc = "enter"
  /\ rpc' = IF isOpen THEN "recv" ELSE "fail"
  /\ UNCHANGED <<updVars, globals, verdict, linkVars, devVars, auxVars>>

\* read() returns a report, and it is copied to rsp_cmd.
ReadReport ==
  /\ rpc = "recv" /\ toHost # <<>>
  /\ rsp_cmd' = Head(toHost)
  /\ toHost' = Tail(toHost)
  /\ rpc' = IF IsAnswer(rsp_cmd') THEN "decide" ELSE "loop"
  /\ link' = IF isOpen THEN link ELSE "down"
  /\ UNCHANGED <<updVars, OTAStage, current_data_seq, flagRead, verdict,
                 isOpen, toDev, devVars, auxVars>>

\* read() on a link that is gone: 0 bytes, taken for a report, or an error.
ReadNothing ==
  /\ rpc = "recv" /\ toHost = <<>> /\ link = "down"
  /\ \/ rpc' = "loop" /\ rsp_cmd' = OtherReport
     \/ rpc' = "fail" /\ UNCHANGED rsp_cmd
  /\ UNCHANGED <<updVars, OTAStage, current_data_seq, flagRead, verdict,
                 linkVars, devVars, auxVars>>

\* Mutants of VerdictOf: the status of FINISH is not looked at,
FinishUnchecked(r, seq) ==
  IF r.cmd = "FINISH" \/ r.stat = "NO_NEED_UPDATE" THEN "COMPLETE"
  ELSE IF r.stat = "SUCCESS" THEN "NEXT_CMD" ELSE "ERR_RETRY"
\* ... the sequence number decides alone,
SeqDecides(r, seq) ==
  CASE r.cmd = "DATA" /\ r.seq # seq -> "ERR_RETRY"
    [] r.cmd = "DATA" /\ r.seq = seq -> "NEXT_CMD"
    [] OTHER -> IF r.stat = "ERROR" THEN "ERR_RETRY"
                ELSE IF r.cmd = "FINISH" THEN "COMPLETE" ELSE "NEXT_CMD"
\* ... NO_NEED_UPDATE is an error like the others.
NoNeedIsError(r, seq) ==
  IF r.stat # "SUCCESS" THEN "ERR_RETRY"
  ELSE IF r.cmd = "FINISH" THEN "COMPLETE" ELSE "NEXT_CMD"

\* What an answer means while a command with sequence number seq is out.
VerdictOf(r, seq) ==
  CASE r.cmd = "DATA" /\ r.seq # seq             -> "ERR_RETRY"
    [] OTHER -> CASE r.stat = "NO_NEED_UPDATE"   -> "COMPLETE"
                  [] r.stat = "ERROR"            -> "ERR_RETRY"
                  [] r.stat = "SUCCESS"          -> IF r.cmd = "FINISH" THEN "COMPLETE"
                                                                        ELSE "NEXT_CMD"

\* The comparison with current_data_seq ...
Decide ==
  /\ rpc = "decide"
  /\ rpc' = "store"
  /\ verdict' = VerdictOf(rsp_cmd, current_data_seq)
  /\ UNCHANGED <<updVars, globals, linkVars, devVars, auxVars>>

\* Mutant: the status byte is stored where the stage belongs.
StoreStatus ==
  /\ rpc = "store"
  /\ rpc' = "loop"
  /\ OTAStage' = rsp_cmd.stat
  /\ UNCHANGED <<updVars, current_data_seq, flagRead, rsp_cmd, verdict,
                 linkVars, devVars, auxVars>>

\* ... and the assignment to OTAStage.
Store ==
  /\ rpc = "store"
  /\ rpc' = "loop"
  /\ OTAStage' = verdict
  /\ UNCHANGED <<updVars, current_data_seq, flagRead, rsp_cmd, verdict,
                 linkVars, devVars, auxVars>>

\* Mutant: flagRead is left set.
ReaderFailKeepsFlag ==
  /\ rpc = "fail"
  /\ rpc' = "failed"
  /\ UNCHANGED <<updVars, globals, verdict, linkVars, devVars, auxVars>>

\* FLAG_OTA_FAIL of hidRead(): ota_update() is not told.
ReaderFail ==
  /\ rpc = "fail"
  /\ rpc' = "failed"
  /\ flagRead' = FALSE
  /\ UNCHANGED <<updVars, OTAStage, current_data_seq, rsp_cmd, verdict,
                 linkVars, devVars, auxVars>>

-----------------------------------------------------------------------------
(***************************************************************************)
(* The device and the link (external)                                      *)
(***************************************************************************)

Concludes(p, st) == st = "NO_NEED_UPDATE" \/ (p.cmd = "FINISH" /\ st = "SUCCESS")

\* The device takes the next command and answers it.  Commands still in the
\* channel when the link goes down may have reached it or not; its answers then
\* go nowhere.
DeviceAnswer(st) ==
  /\ toDev # <<>> /\ Head(toDev).cmd # "OTHER"
  /\ link = "up" => Len(toHost) < MaxQueue
  /\ LET p == Head(toDev)
     IN  /\ devLast' = p.idx
         /\ accepted' = IF st = "SUCCESS" THEN accepted \cup {p.idx} ELSE accepted
         /\ concluded' = IF Concludes(p, st) THEN concluded \cup {p.idx} ELSE concluded
         /\ toHost' = IF link = "up"
                        THEN Append(toHost, [cmd |-> p.cmd, seq |-> p.seq, stat |-> st])
                        ELSE toHost
  /\ toDev' = Tail(toDev)
  /\ UNCHANGED <<updVars, globals, readVars, isOpen, link, auxVars>>

\* The device takes the next command and never answers it.
DeviceSilent ==
  /\ toDev # <<>>
  /\ devLast' = Head(toDev).idx
  /\ toDev' = Tail(toDev)
  /\ UNCHANGED <<updVars, globals, readVars, isOpen, link, toHost,
                 accepted, concluded, auxVars>>

\* An input report that is no answer, a key press for one.
DeviceReport ==
  /\ link = "up" /\ Len(toHost) + 1 < MaxQueue
  /\ toHost' = Append(toHost, OtherReport)
  /\ UNCHANGED <<updVars, globals, readVars, isOpen, link, toDev, devVars, auxVars>>

LinkLost ==
  /\ link = "up"
  /\ link' = "down"
  /\ UNCHANGED <<updVars, globals, readVars, isOpen, toDev, toHost, devVars, auxVars>>

-----------------------------------------------------------------------------
Poll       == PollNext \/ PollErrRetry \/ PollComplete \/ PollTimeout
Update     == Start \/ SendNextCmd \/ LoadSeq \/ RetryCmd \/ HidWrite \/ Poll
                \/ OtaFail \/ OtaSuccess \/ QuitServ
Reader     == ReadLoop \/ ReadEnter \/ ReadReport \/ ReadNothing
                \/ Decide \/ Store \/ ReaderFail
Device     == (\E st \in Statuses : DeviceAnswer(st)) \/ DeviceSilent

\* Both threads may be over, and the device silent.
Next       == Update \/ PollIdle \/ Reader \/ Device \/ DeviceReport \/ LinkLost
                \/ DeconnectClient
Spec       == Init /\ [][Next]_vars

(***************************************************************************)
(* Each round of the wait loop sleeps 20 ms and the threads are runnable   *)
(* between their sleeps, so both keep taking steps.  The channel delivers  *)
(* what it holds; the device need not answer any of it.                    *)
(***************************************************************************)
FairSpec   ==
  Spec /\ WF_vars(Update \/ PollIdle) /\ WF_vars(Reader) /\ WF_vars(Device)

(***************************************************************************)
(* The assumption the retry logic rests on: an answer comes well within    *)
(* the 15 s of OTA_WAIT_TIME, or never.  The wait then enters its last     *)
(* round only when no answer is under way.                                 *)
(***************************************************************************)
ReaderLives == rpc \in {"loop", "enter", "recv", "decide", "store"}
Quiet ==
  /\ link = "up" => toDev = <<>>
  /\ ReaderLives => /\ \A j \in 1 .. Len(toHost) : ~ IsAnswer(toHost[j])
                    /\ rpc \notin {"decide", "store"}

TimelyIdle == PollIdle /\ (wait_count + 2 >= OTA_WAIT_TIME => Quiet)
TimelyNext == Update \/ TimelyIdle \/ Reader \/ Device \/ DeviceReport \/ LinkLost
                \/ DeconnectClient
TimelySpec == Init /\ [][TimelyNext]_vars
-----------------------------------------------------------------------------
(***************************************************************************)
(* Properties of every execution, late answers included                    *)
(***************************************************************************)

\* The device takes the commands in image order and none is left out, whatever
\* is sent again and however late its answers are: the only place that advances
\* current_cmd_idx is FLAG_SNED_NEXT_CMD, and one command is written per pass.
DeliveryInOrder == [][devLast' # devLast => devLast' = devLast + 1]_vars

\* ota_update() reports success only when the device has concluded the update,
\* by accepting FINISH or by NO_NEED_UPDATE: no timeout, retry or race between
\* the two threads makes a success up.
SuccessIsEarned == outcome = "success" => concluded # {}

\* What UpdateScreen has of an update is true of this one, as far as the log lines
\* at its end: the screen sees no other step of ota_update(), its reader and
\* flagRead than the actions there.  A reader that was not created is one that
\* never takes a step.
One(x)  == [n \in {1} |-> x]
Engine  == IF upc = "entry" THEN "ready" ELSE IF outcome = "none" THEN "running" ELSE "verdict"
Result  == IF outcome = "success" THEN "end" ELSE outcome
ReadEnd == CASE rpc = "exit" -> "gone" [] rpc = "failed" -> "fail" [] OTHER -> "alive"
Screen  == INSTANCE UpdateScreen WITH MaxStarts <- 1, MaxScreens <- 1,
  eng <- One(Engine), rdr <- One(IF upc = "entry" THEN "none" ELSE ReadEnd), result <- One(Result),
  screen <- 1, shown <- TRUE, isOTARun <- TRUE, fwFilePath <- "img", tvResult <- "", msgs <- <<>>,
  ctl <- One("read"), owner <- One(1), clearing <- One("done"), next <- One(1), log <- <<>>,
  starts <- 1, wiped <- FALSE
SeenByScreen ==
  [][Screen!Engine(1) \/ Screen!ReaderQuits(1) \/ Screen!ReaderFails(1)]_(Screen!nativeVars)

\* How many steps ota_update() takes at most from where it is: three copies of each
\* command to come, and OTA_WAIT_TIME rounds of the wait loop for each of them.
Copy  == OTA_WAIT_TIME + 2
Ahead == (4 * Copy + 2) * (Len(Image) + 1 - idx)
Work  == CASE upc = "return"             -> 0
           [] upc = "quit"               -> 1
           [] upc \in {"fail", "success"} -> 2
           [] upc = "send_next"          -> 3 + Ahead
           [] upc = "entry"              -> 4 + Ahead
           [] upc = "load"               -> 4 + Ahead + 4 * Copy
           [] upc = "retry"              -> 3 + Ahead + (4 - send_count) * Copy
           [] upc = "write"              -> 4 + Ahead + (4 - send_count) * Copy + OTA_WAIT_TIME
           [] upc = "wait"               -> 3 + Ahead + (4 - send_count) * Copy + OTA_WAIT_TIME - wait_count

\* Every step of ota_update() leaves it less to do, whatever the reader, the device
\* and the link did before it: no retry, timeout or late answer starts the count of
\* copies or rounds anew.  The exception is a command from behind the image.
WorkShrinks ==
  [][\/ UNCHANGED updVars
     \/ upc = "send_next" /\ idx > Len(Image)
     \/ Work \in Nat /\ Work' \in Nat /\ Work' < Work]_vars

\* ota_update() comes to an end, even on a silent device or without its reader:
\* a command is sent three times at most, and the image is finite.
Terminates == <>(upc = "return")

(***************************************************************************)
(* Properties when answers come in time (TimelySpec)                       *)
(***************************************************************************)

\* The host goes on to a command only when the device accepted all before it
\* ("response right, start to send next command", hidserv.c:908).
AckBeforeAdvance == \A i \in 1 .. Len(Image) : i < idx => i \in accepted

ImageEndsInFinish ==
  /\ Image # <<>>
  /\ \A i \in 1 .. Len(Image) : Image[i].cmd = "FINISH" <=> i = Len(Image)

\* fw_data_buf is never read behind the last command of an image that ends in
\* FINISH: only an answer to FINISH could make the host go on.
NeverPastImage == ImageEndsInFinish => idx <= Len(Image)

\* A failure is never reported for an update the device has concluded, as long
\* as the link holds and hidRead() runs: the concluding answer is not lost
\* between the reader, OTAStage and the wait loop.
FailureIsHonest == (upc = "fail" /\ link = "up" /\ ReaderLives) => concluded = {}

\* The two threads, the channel and the device together are a stop-and-wait
\* transfer of the image.
SW == INSTANCE StopAndWait WITH Last <- Len(Image), cur <- wire.idx,
        copies <- wire.copies, acked <- accepted, result <- outcome
StopAndWaitSpec == SW!Spec

(***************************************************************************)
(* An update of a well-behaved device: the file and the reader are there,  *)
(* the link holds, and every command is accepted in time.                  *)
(***************************************************************************)
HealthyInit   == Init /\ link = "up"
HealthyUpdate ==
  \/ Start /\ upc' = "send_next" /\ rpc' = "loop"
  \/ upc # "entry" /\ Update
  \/ TimelyIdle
HealthyNext == HealthyUpdate \/ Reader \/ DeviceAnswer("SUCCESS") \/ DeviceReport
HealthySpec ==
  /\ HealthyInit /\ [][HealthyNext]_vars
  /\ WF_vars(HealthyUpdate) /\ WF_vars(Reader) /\ WF_vars(DeviceAnswer("SUCCESS"))

\* In such an update nothing is sent twice and nothing is given up, and a success
\* is that of the whole image: no answer is refused for its number, overwritten by
\* a store of the other thread, or overlooked by the wait loop.
NothingRepeated ==
  /\ upc # "fail" /\ outcome # "fail" /\ send_count <= 1
  /\ outcome = "success" /\ ImageEndsInFinish => accepted = 1 .. Len(Image)

\* Such an update succeeds, and every command of the image was accepted: no
\* answer is overwritten by a store of the other thread.
HealthySucceeds == <>(outcome = "success" /\ accepted = 1 .. Len(Image))
=============================================================================
