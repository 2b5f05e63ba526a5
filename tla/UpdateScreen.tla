---------------------------- MODULE UpdateScreen ----------------------------
(***************************************************************************)
(* The main screen of the application (OTAActivity.java) over a series of  *)
(* updates.                                                                *)
(*                                                                         *)
(* A click on Start makes a controller thread.  It clears the log with a   *)
(* process of its own, starts the thread that runs ota_update(), and then  *)
(* reads the log: the native lines "OTA fail", "OTA end" and "OTA STOP"    *)
(* are all the screen learns of the update.  They are written by           *)
(* ota_update() and by every hidRead() thread, of this update or of an     *)
(* earlier one.  OtaUpdate models one update in detail; here it is only    *)
(* its end, its reader and the lines they log.                             *)
(***************************************************************************)
EXTENDS Naturals, Sequences

CONSTANTS
  MaxStarts,   \* bound: updates started in this process
  MaxScreens   \* bound: instances of OTAActivity

ASSUME StartsAssumption  == MaxStarts \in Nat \ {0}
ASSUME ScreensAssumption == MaxScreens \in Nat \ {0}

Runs  == 1 .. MaxStarts
Lines == [kind : {"fail", "end", "STOP"}, by : 0 .. MaxStarts]
Line(k, n) == [kind |-> k, by |-> n]   \* by 0: an update before this process

Texts  == {"", "Fail", "Success"}
NoFile == ""
Files  == {NoFile, "img"}

VARIABLES
  \* OTAActivity: its instance, whether it is on the screen, two static fields,
  \* the text of tvResult, and the messages waiting for handler
  screen, shown, isOTARun, fwFilePath, tvResult, msgs,
  \* per update: the controller thread, the instance it belongs to, the process
  \* logcat -c, and the next line its monitor reads
  ctl, owner, clearing, next,
  \* per update: ota_update(), how it ended, and its hidRead()
  eng, result, rdr,
  \* the global of hidserv.c, and the log
  flagRead, log,
  \* auxiliary: the updates started, and whether tvResult was emptied since the
  \* last of them
  starts, wiped

screenVars == <<screen, shown, isOTARun, fwFilePath, tvResult, msgs>>
ctlVars    == <<ctl, owner, clearing, next>>
nativeVars == <<eng, result, rdr, flagRead>>
auxVars    == <<starts, wiped>>
vars       == <<screenVars, ctlVars, nativeVars, log, auxVars>>

CtlPcs == {"idle", "exec", "sleep", "open", "read", "stopping", "done"}
EngPcs == {"none", "ready", "running", "verdict", "stop", "return"}
RdrPcs == {"none", "alive", "fail", "stop", "gone"}

TypeOK ==
  /\ screen \in 1 .. MaxScreens /\ shown \in BOOLEAN /\ isOTARun \in BOOLEAN
  /\ fwFilePath \in Files /\ tvResult \in Texts
  /\ msgs \in Seq([screen : 1 .. MaxScreens, text : Texts \ {""}])
  /\ ctl \in [Runs -> CtlPcs] /\ owner \in [Runs -> 0 .. MaxScreens]
  /\ clearing \in [Runs -> {"none", "pending", "done"}] /\ next \in [Runs -> Nat]
  /\ eng \in [Runs -> EngPcs] /\ result \in [Runs -> {"none", "fail", "end"}]
  /\ rdr \in [Runs -> RdrPcs] /\ flagRead \in BOOLEAN
  /\ log \in Seq(Lines)
  /\ starts \in 0 .. MaxStarts /\ wiped \in BOOLEAN

\* What an update of an earlier process left in the log.
OldLogs == {<<>>} \cup {<<Line(k, 0), Line("STOP", 0)>> : k \in {"fail", "end"}}

Init ==
  /\ screen = 1 /\ shown = TRUE /\ isOTARun = FALSE
  /\ fwFilePath = NoFile /\ tvResult = "" /\ msgs = <<>>
  /\ ctl = [n \in Runs |-> "idle"] /\ owner = [n \in Runs |-> 0]
  /\ clearing = [n \in Runs |-> "none"] /\ next = [n \in Runs |-> 1]
  /\ eng = [n \in Runs |-> "none"] /\ result = [n \in Runs |-> "none"]
  /\ rdr = [n \in Runs |-> "none"] /\ flagRead = FALSE
  /\ log \in OldLogs
  /\ starts = 0 /\ wiped = FALSE

-----------------------------------------------------------------------------
(***************************************************************************)
(* The UI thread                                                           *)
(***************************************************************************)

\* onCreate(): new views, and the static flag is cleared.
OnCreate ==
  /\ screen < MaxScreens
  /\ screen' = screen + 1
  /\ shown' = TRUE
  /\ isOTARun' = FALSE
  /\ tvResult' = "" /\ wiped' = TRUE
  /\ UNCHANGED <<fwFilePath, msgs, ctlVars, nativeVars, log, starts>>

\* The activity is opened again after Back; or the system makes it anew, after
\* a rotation or when a keyboard such as the remote control comes or goes.
Launch   == ~ shown /\ OnCreate
Recreate == shown /\ OnCreate

\* onActivityResult(): a file was picked, or the picking was cancelled.
FileResult(f) ==
  /\ shown
  /\ fwFilePath' = f
  /\ UNCHANGED <<screen, shown, isOTARun, tvResult, msgs, ctlVars, nativeVars, log, auxVars>>

\* The Start button where the flag has the value run.
StartWhen(run) ==
  /\ shown /\ fwFilePath # NoFile
  /\ isOTARun = run
  /\ starts < MaxStarts
  /\ starts' = starts + 1
  /\ isOTARun' = TRUE
  /\ tvResult' = "" /\ wiped' = FALSE
  /\ ctl' = [ctl EXCEPT ![starts'] = "exec"]
  /\ owner' = [owner EXCEPT ![starts'] = screen]
  /\ UNCHANGED <<screen, shown, fwFilePath, msgs, clearing, next, nativeVars, log>>

\* Mutant: the flag is not looked at.
StartUnchecked == \E run \in BOOLEAN : StartWhen(run)

StartClick == StartWhen(FALSE)

\* The button Clear log.
CleanClick ==
  /\ shown /\ tvResult # ""
  /\ tvResult' = "" /\ wiped' = TRUE
  /\ UNCHANGED <<screen, shown, isOTARun, fwFilePath, msgs, ctlVars, nativeVars, log, starts>>

\* onBackPressed(): only a message while the flag is set.
OnBackPressed ==
  /\ shown /\ ~ isOTARun
  /\ shown' = FALSE
  /\ UNCHANGED <<screen, isOTARun, fwFilePath, tvResult, msgs, ctlVars, nativeVars, log, auxVars>>

\* handler: the text goes to the tvResult of the instance the handler is from.
HandleMessage ==
  /\ msgs # <<>>
  /\ msgs' = Tail(msgs)
  /\ tvResult' = IF Head(msgs).screen = screen THEN Head(msgs).text ELSE tvResult
  /\ UNCHANGED <<screen, shown, isOTARun, fwFilePath, ctlVars, nativeVars, log, auxVars>>

-----------------------------------------------------------------------------
(***************************************************************************)
(* The controller thread of update n, and the process logcat -c            *)
(***************************************************************************)

CtlStep(n, from, to) == ctl[n] = from /\ ctl' = [ctl EXCEPT ![n] = to]

\* exec() returns while the process has yet to clear the log.
ExecClear(n) ==
  /\ CtlStep(n, "exec", "sleep")
  /\ clearing' = [clearing EXCEPT ![n] = "pending"]
  /\ UNCHANGED <<screenVars, owner, next, nativeVars, log, auxVars>>

\* The process clears the log with l, whoever reads it.
ClearTo(n, l) ==
  /\ clearing[n] = "pending"
  /\ clearing' = [clearing EXCEPT ![n] = "done"]
  /\ log' = l
  /\ next' = [k \in Runs |-> 1]
  /\ UNCHANGED <<screenVars, ctl, owner, nativeVars, auxVars>>

\* Mutant: logcat -c is left out of the command line.
ClearNothing(n) == ClearTo(n, log)

Clear(n) == ClearTo(n, <<>>)

\* After 100 ms of sleep the thread for ota_update() is started, ready or not.
SpawnUpdate(n) ==
  /\ CtlStep(n, "sleep", "open")
  /\ eng' = [eng EXCEPT ![n] = "ready"]
  /\ UNCHANGED <<screenVars, owner, clearing, next, result, rdr, flagRead, log, auxVars>>

\* logcat shows the log from line i on.
OpenAt(n, i) ==
  /\ CtlStep(n, "open", "read")
  /\ next' = [next EXCEPT ![n] = i]
  /\ UNCHANGED <<screenVars, owner, clearing, nativeVars, log, auxVars>>

\* Mutant: only lines logged from now on are shown.
OpenAtEnd(n) == OpenAt(n, Len(log) + 1)

OpenLog(n) == OpenAt(n, 1)

\* Mutant: the log line itself is posted.
TextOfLine(kind) == kind

TextOf(kind) == IF kind = "fail" THEN "Fail" ELSE "Success"

\* One round of the monitor loop: a verdict is posted, STOP leaves the loop.
ReadLine(n) ==
  /\ ctl[n] = "read" /\ next[n] <= Len(log)
  /\ LET l == log[next[n]]
     IN  IF l.kind = "STOP"
           THEN ctl' = [ctl EXCEPT ![n] = "stopping"] /\ UNCHANGED msgs
           ELSE /\ msgs' = Append(msgs, [screen |-> owner[n], text |-> TextOf(l.kind)])
                /\ UNCHANGED ctl
  /\ next' = [next EXCEPT ![n] = @ + 1]
  /\ UNCHANGED <<screen, shown, isOTARun, fwFilePath, tvResult, owner, clearing,
                 nativeVars, log, auxVars>>

\* readLine() gives null: logcat is gone.
LogcatEnds(n) ==
  /\ CtlStep(n, "read", "stopping")
  /\ UNCHANGED <<screenVars, owner, clearing, next, nativeVars, log, auxVars>>

\* The controller ends and sets the flag to run.
FinishWith(n, run) ==
  /\ CtlStep(n, "stopping", "done")
  /\ isOTARun' = run
  /\ UNCHANGED <<screen, shown, fwFilePath, tvResult, msgs, owner, clearing, next,
                 nativeVars, log, auxVars>>

\* Mutant: the reset of the flag is forgotten.
FinishForgets(n) == FinishWith(n, isOTARun)

FinishMonitor(n) == FinishWith(n, FALSE)

-----------------------------------------------------------------------------
(***************************************************************************)
(* ota_update() and hidRead() of update n                                  *)
(***************************************************************************)

\* startOTAUpdate(), which reads fwFilePath only now; fopen() may fail.
BeginWith(n, flag) ==
  /\ eng[n] = "ready"
  /\ \/ /\ fwFilePath # NoFile
        /\ eng' = [eng EXCEPT ![n] = "running"]
        /\ rdr' = [rdr EXCEPT ![n] = "alive"]
        /\ flagRead' = flag
        /\ UNCHANGED result
     \/ /\ eng' = [eng EXCEPT ![n] = "verdict"]
        /\ result' = [result EXCEPT ![n] = "fail"]
        /\ flagRead' = FALSE
        /\ UNCHANGED rdr
  /\ UNCHANGED <<screenVars, ctlVars, log, auxVars>>

\* Mutant: flagRead keeps the value the last update left.
FlagNotSet(n) == BeginWith(n, flagRead)

StartOTAUpdate(n) == BeginWith(n, TRUE)

\* FLAG_OTA_FAIL or FLAG_OTA_SUCCESS is reached.
EndUpdate(n, res) ==
  /\ eng[n] = "running"
  /\ eng' = [eng EXCEPT ![n] = "verdict"]
  /\ result' = [result EXCEPT ![n] = res]
  /\ flagRead' = FALSE
  /\ UNCHANGED <<screenVars, ctlVars, rdr, log, auxVars>>

LogVerdict(n) ==
  /\ eng[n] = "verdict"
  /\ eng' = [eng EXCEPT ![n] = "stop"]
  /\ log' = Append(log, Line(result[n], n))
  /\ UNCHANGED <<screenVars, ctlVars, result, rdr, flagRead, auxVars>>

LogStop(n) ==
  /\ eng[n] = "stop"
  /\ eng' = [eng EXCEPT ![n] = "return"]
  /\ log' = Append(log, Line("STOP", n))
  /\ UNCHANGED <<screenVars, ctlVars, result, rdr, flagRead, auxVars>>

\* The reader looks at flagRead.  It may as well sit in read() while the flag is
\* cleared and set again, and then goes on in the next update.
ReaderQuits(n) ==
  /\ rdr[n] = "alive" /\ ~ flagRead
  /\ rdr' = [rdr EXCEPT ![n] = "gone"]
  /\ UNCHANGED <<screenVars, ctlVars, eng, result, flagRead, log, auxVars>>

\* read() fails.
ReaderFails(n) ==
  /\ rdr[n] = "alive"
  /\ rdr' = [rdr EXCEPT ![n] = "fail"]
  /\ flagRead' = FALSE
  /\ UNCHANGED <<screenVars, ctlVars, eng, result, log, auxVars>>

ReaderLogs(n) ==
  /\ \/ rdr[n] = "fail" /\ rdr' = [rdr EXCEPT ![n] = "stop"] /\ log' = Append(log, Line("fail", n))
     \/ rdr[n] = "stop" /\ rdr' = [rdr EXCEPT ![n] = "gone"] /\ log' = Append(log, Line("STOP", n))
  /\ UNCHANGED <<screenVars, ctlVars, eng, result, flagRead, auxVars>>

-----------------------------------------------------------------------------
User       == (\E f \in Files : FileResult(f)) \/ StartClick \/ CleanClick
                \/ OnBackPressed \/ Launch
Monitor(n) == OpenLog(n) \/ ReadLine(n) \/ FinishMonitor(n)
Engine(n)  == StartOTAUpdate(n) \/ (\E res \in {"fail", "end"} : EndUpdate(n, res))
                \/ LogVerdict(n) \/ LogStop(n)
Trouble(n) == ReaderFails(n) \/ ReaderLogs(n)

Next ==
  \/ User \/ Recreate \/ HandleMessage
  \/ \E n \in Runs : \/ ExecClear(n) \/ Clear(n) \/ SpawnUpdate(n) \/ Monitor(n) \/ LogcatEnds(n)
                     \/ Engine(n) \/ ReaderQuits(n) \/ Trouble(n)
Spec == Init /\ [][Next]_vars

(***************************************************************************)
(* Nothing unexpected happens to the screen: it is not made anew while it  *)
(* is shown, logcat lives, and the log is cleared within the 100 ms that   *)
(* the controller allows for it.                                           *)
(***************************************************************************)
PromptSpawn(n) == clearing[n] = "done" /\ SpawnUpdate(n)
Controller(n)  == ExecClear(n) \/ Clear(n) \/ PromptSpawn(n) \/ Monitor(n)
SteadyNext ==
  \/ User \/ HandleMessage
  \/ \E n \in Runs : Controller(n) \/ Engine(n) \/ ReaderQuits(n) \/ Trouble(n)
SteadySpec == Init /\ [][SteadyNext]_vars

(***************************************************************************)
(* Nothing unexpected happens to the link either: no read() fails.  The    *)
(* threads keep running, and ota_update() comes to its end (Terminates of  *)
(* OtaUpdate).                                                             *)
(***************************************************************************)
CalmNext ==
  \/ User \/ HandleMessage
  \/ \E n \in Runs : Controller(n) \/ Engine(n) \/ ReaderQuits(n)
CalmSpec == Init /\ [][CalmNext]_vars
CalmFairSpec ==
  CalmSpec /\ WF_vars(HandleMessage) /\ \A n \in Runs : WF_vars(Controller(n)) /\ WF_vars(Engine(n))

\* A calm link, and a screen that may be made anew.
RecreateSpec == Init /\ [][CalmNext \/ Recreate]_vars
-----------------------------------------------------------------------------
(***************************************************************************)
(* Properties                                                              *)
(***************************************************************************)

\* An update is in process from the click on Start to the end of ota_update().
InProcess(n) == ctl[n] \in {"exec", "sleep"} \/ eng[n] \in {"ready", "running"}

\* "When OTA firmware upgrade in process, application will not be closed"
\* (OTAActivity.java:278): Back does not close the screen over a running update.
BackKeepsUpdate == [][shown /\ ~ shown' => \A n \in Runs : ~ InProcess(n)]_vars

\* The flag that blocks Start and Back is never left set by a controller that
\* is over: some controller is still there that will clear it.
FlagHasOwner == isOTARun => \E n \in Runs : ctl[n] \notin {"idle", "done"}

\* When nothing unexpected happens, at most one ota_update() works on the globals
\* of hidserv.c: the second click on Start is refused until the first is over.
OneUpdate == \A m, n \in Runs : InProcess(m) /\ InProcess(n) => m = n

\* ... nobody tells the reader of a running update to stop: flagRead, which all
\* updates share, is only cleared by the update itself.
ReaderKept == \A n \in Runs : eng[n] = "running" => flagRead

\* ... the verdict on the screen is the verdict of the last update, not one an
\* earlier update or an earlier process left in the log.
VerdictIsOwn ==
  starts > 0 /\ ctl[starts] = "done" /\ msgs = <<>> /\ ~ wiped
    => result[starts] # "none" /\ tvResult = TextOf(result[starts])

\* ... the monitor never waits for a line that is not to come: while it is in its
\* loop, there is a line it has not read, or its update has STOP yet to log.
MonitorFed ==
  \A n \in Runs : ctl[n] = "read" => next[n] <= Len(log) \/ eng[n] \notin {"none", "return"}

\* ... and the screen learns of the end of every update, so that Start and Back
\* work again: the STOP line is neither cleared nor missed.
UpdateReleased == isOTARun ~> ~ isOTARun

\* ... and controllers, log and engines together are a series of updates as the
\* user expects it: in particular the screen is told the verdict of every update,
\* once, after the update came to it and before Start and Back work again.
Told(n) == ctl[n] = "stopping" \/ (ctl[n] = "read" /\ next[n] # 1)
Phase   == IF ~ isOTARun THEN "idle"
           ELSE IF result[starts] = "none" THEN "running"
           ELSE IF Told(starts) THEN "told" ELSE "ended"
Verdict == IF starts = 0 \/ result[starts] = "none" THEN "" ELSE TextOf(result[starts])
Session == INSTANCE UpdateSession WITH open <- shown, phase <- Phase, verdict <- Verdict,
             posted <- msgs, text <- tvResult
SessionSpec == Session!Spec
=============================================================================
