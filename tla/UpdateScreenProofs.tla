-------------------------- MODULE UpdateScreenProofs --------------------------
(***************************************************************************)
(* Theorems about UpdateScreen, for any number of updates and screens.     *)
(***************************************************************************)
EXTENDS UpdateScreen, TLAPS

(***************************************************************************)
(* The flag has an owner                                                   *)
(***************************************************************************)

\* The owner is the controller of the last click on Start.
LastOwns ==
  /\ starts \in 0 .. MaxStarts
  /\ ctl \in [Runs -> CtlPcs] /\ isOTARun \in BOOLEAN
  /\ isOTARun => starts \in Runs /\ ctl[starts] \notin {"idle", "done"}

LEMMA OwnerInit == Init => LastOwns
<1> SUFFICES ASSUME Init PROVE LastOwns
  OBVIOUS
<1>1. starts = 0 /\ ctl = [n \in Runs |-> "idle"] /\ isOTARun \in BOOLEAN /\ ~ isOTARun
  BY Zenon DEF Init
<1> QED
  BY <1>1, StartsAssumption DEF LastOwns, CtlPcs

LEMMA OwnerStep == LastOwns /\ [Next]_vars => LastOwns'
<1> SUFFICES ASSUME LastOwns, [Next]_vars PROVE LastOwns'
  OBVIOUS
<1> USE DEF LastOwns, CtlPcs
<1>1. CASE StartClick
  <2>1. /\ starts < MaxStarts /\ starts' = starts + 1 /\ isOTARun' = TRUE
        /\ ctl' = [ctl EXCEPT ![starts'] = "exec"]
    BY <1>1, Zenon DEF StartClick, StartWhen
  <2>2. starts' \in Runs
    BY <2>1, StartsAssumption DEF Runs
  <2> QED
    BY <2>1, <2>2 DEF Runs
<1>2. CASE Launch \/ Recreate
  BY <1>2 DEF Launch, Recreate, OnCreate, ctlVars
<1>3. CASE (\E f \in Files : FileResult(f)) \/ CleanClick \/ OnBackPressed \/ HandleMessage
  <2>1. UNCHANGED <<starts, ctl, isOTARun>>
    BY <1>3, Zenon DEF FileResult, CleanClick, OnBackPressed, HandleMessage, ctlVars, auxVars
  <2> QED
    BY <2>1
<1>4. ASSUME NEW n \in Runs, ExecClear(n) \/ SpawnUpdate(n) \/ OpenLog(n) \/ ReadLine(n) \/ LogcatEnds(n)
      PROVE  LastOwns'
  <2>1. UNCHANGED <<starts, isOTARun>>
    BY <1>4 DEF ExecClear, SpawnUpdate, OpenLog, OpenAt, ReadLine, LogcatEnds, screenVars, auxVars
  <2>2. ctl' = ctl \/ \E to \in CtlPcs \ {"idle", "done"} : ctl' = [ctl EXCEPT ![n] = to]
    BY <1>4 DEF ExecClear, SpawnUpdate, OpenLog, OpenAt, ReadLine, LogcatEnds, CtlStep
  <2> QED
    BY <2>1, <2>2
<1>5. ASSUME NEW n \in Runs, FinishMonitor(n) PROVE LastOwns'
  BY <1>5 DEF FinishMonitor, FinishWith, CtlStep, auxVars
<1>6. ASSUME NEW n \in Runs, Clear(n) \/ Engine(n) \/ ReaderQuits(n) \/ Trouble(n) PROVE LastOwns'
  BY <1>6 DEF Clear, ClearTo, Engine, StartOTAUpdate, BeginWith, EndUpdate, LogVerdict, LogStop,
              ReaderQuits, Trouble, ReaderFails, ReaderLogs, screenVars, ctlVars, auxVars
<1>7. CASE UNCHANGED vars
  BY <1>7 DEF vars, screenVars, ctlVars, auxVars
<1> QED
  BY <1>1, <1>2, <1>3, <1>4, <1>5, <1>6, <1>7 DEF Next, User, Monitor

\* However often the screen is made anew and whatever the log says, the flag is
\* never set without a controller that will clear it: Start and Back cannot be
\* blocked for good by a controller that ended.
THEOREM FlagOwned == Spec => []FlagHasOwner
<1>1. LastOwns => FlagHasOwner
  BY DEF LastOwns, FlagHasOwner
<1> QED
  BY <1>1, OwnerInit, OwnerStep, PTL DEF Spec

(***************************************************************************)
(* One update at a time, when nothing unexpected happens                   *)
(***************************************************************************)

Past(n) == ctl[n] = "done" /\ eng[n] = "return"
Idle(n) == ctl[n] = "idle" /\ eng[n] = "none"

NoStop == \A i \in 1 .. Len(log) : log[i].kind # "STOP"

\* The update of the last click, from the click to the reset of the flag.
Current(n) ==
  /\ ctl[n] # "idle"
  /\ ctl[n] \in {"exec", "sleep"} => eng[n] = "none"
  /\ ctl[n] = "sleep" /\ clearing[n] = "done" => log = <<>>
  /\ ctl[n] \in {"open", "read"} => eng[n] # "none" /\ (NoStop \/ eng[n] = "return")
  /\ ctl[n] \in {"stopping", "done"} => eng[n] = "return"
  /\ eng[n] = "running" => flagRead

\* A log is cleared only in the sleep of the update that asked for it.
ClearInSleep == \A n \in Runs : clearing[n] = "pending" => ctl[n] = "sleep"

CalmType ==
  /\ starts \in 0 .. MaxStarts /\ next \in [Runs -> Nat \ {0}]
  /\ ctl \in [Runs -> CtlPcs] /\ eng \in [Runs -> EngPcs]
  /\ clearing \in [Runs -> {"none", "pending", "done"}]
  /\ result \in [Runs -> {"none", "fail", "end"}]
  /\ log \in Seq(Lines)
  /\ isOTARun \in BOOLEAN /\ flagRead \in BOOLEAN /\ shown \in BOOLEAN

\* The flag is set exactly while the last update is not done; all before it are
\* over, so that whoever runs or logs is the last.
CalmInv ==
  /\ CalmType
  /\ shown \/ ~ isOTARun
  /\ isOTARun <=> (starts # 0 /\ ctl[starts] # "done")
  /\ starts # 0 => Current(starts)
  /\ \A n \in Runs : (n < starts => Past(n)) /\ (n > starts => Idle(n))
  /\ \A n \in Runs : eng[n] \in {"verdict", "stop"} => result[n] # "none"
  /\ ClearInSleep

LEMMA PairType ==
  ASSUME NEW S, NEW a \in S, NEW b \in S
  PROVE  <<a, b>> \in Seq(S)
  OBVIOUS

LEMMA CalmInit == Init => CalmInv
<1> SUFFICES ASSUME Init PROVE CalmInv
  OBVIOUS
<1>1. /\ starts = 0 /\ next = [n \in Runs |-> 1]
      /\ ctl = [n \in Runs |-> "idle"] /\ eng = [n \in Runs |-> "none"]
      /\ clearing = [n \in Runs |-> "none"] /\ result = [n \in Runs |-> "none"]
  BY Zenon DEF Init
<1>2. isOTARun \in BOOLEAN /\ flagRead \in BOOLEAN /\ shown \in BOOLEAN /\ ~ isOTARun
  BY Zenon DEF Init
<1>3. log \in Seq(Lines)
  <2>1. log \in OldLogs
    BY Zenon DEF Init
  <2>2. \A k \in {"fail", "end"} : Line(k, 0) \in Lines /\ Line("STOP", 0) \in Lines
    BY StartsAssumption DEF Line, Lines
  <2>3. log = <<>> \/ \E k \in {"fail", "end"} : log = <<Line(k, 0), Line("STOP", 0)>>
    BY <2>1 DEF OldLogs
  <2>4. ASSUME NEW k \in {"fail", "end"} PROVE <<Line(k, 0), Line("STOP", 0)>> \in Seq(Lines)
    <3> HIDE DEF Lines
    <3> QED
      BY <2>2, PairType
  <2>5. <<>> \in Seq(Lines)
    OBVIOUS
  <2> QED
    BY <2>3, <2>4, <2>5, Zenon
<1>4. CalmType
  BY <1>1, <1>2, <1>3, StartsAssumption DEF CalmType, CtlPcs, EngPcs
<1> QED
  BY <1>1, <1>2, <1>4 DEF CalmInv, Idle, ClearInSleep, Runs

\* Whoever is not over is the last.
LEMMA OnlyLast ==
  ASSUME CalmInv, NEW n \in Runs,
         ctl[n] \notin {"idle", "done"} \/ eng[n] \notin {"none", "return"}
  PROVE  n = starts /\ Current(n)
  BY StartsAssumption DEF CalmInv, CalmType, Past, Idle, Runs

LEMMA CalmStep == CalmInv /\ [CalmNext]_vars => CalmInv'
<1> SUFFICES ASSUME CalmInv, [CalmNext]_vars PROVE CalmInv'
  OBVIOUS
<1>t. CalmType /\ ClearInSleep
  BY DEF CalmInv
<1>u. ASSUME UNCHANGED <<starts, ctl, clearing, next, eng, result, flagRead, log, isOTARun>>,
             shown' \in BOOLEAN, shown' \/ ~ isOTARun
      PROVE  CalmInv'
  BY <1>u DEF CalmInv, CalmType, Current, Past, Idle, NoStop, ClearInSleep
<1>1. CASE (\E f \in Files : FileResult(f)) \/ CleanClick \/ HandleMessage \/ UNCHANGED vars
  <2>1. UNCHANGED <<starts, ctl, clearing, next, eng, result, flagRead, log, isOTARun, shown>>
    BY <1>1, Zenon DEF FileResult, CleanClick, HandleMessage, vars, screenVars, ctlVars, nativeVars, auxVars
  <2> QED
    BY <1>t, <1>u, <2>1 DEF CalmInv, CalmType
<1>2. CASE OnBackPressed
  <2>1. UNCHANGED <<starts, ctl, clearing, next, eng, result, flagRead, log, isOTARun>>
    BY <1>2, Zenon DEF OnBackPressed, ctlVars, nativeVars, auxVars
  <2>2. ~ isOTARun /\ shown' \in BOOLEAN
    BY <1>2, Zenon DEF OnBackPressed
  <2> QED
    BY <1>u, <2>1, <2>2
<1>3. CASE Launch
  <2>1. UNCHANGED <<starts, ctl, clearing, next, eng, result, flagRead, log>>
    BY <1>3, Zenon DEF Launch, OnCreate, ctlVars, nativeVars
  <2>2. ~ shown /\ shown' \in BOOLEAN /\ shown' /\ isOTARun' \in BOOLEAN /\ ~ isOTARun'
    BY <1>3, Zenon DEF Launch, OnCreate
  <2>3. isOTARun' = isOTARun
    BY <1>t, <2>2 DEF CalmInv, CalmType
  <2> QED
    BY <1>u, <2>1, <2>2, <2>3
<1>4. CASE StartClick
  <2>1. /\ starts < MaxStarts /\ starts' = starts + 1
        /\ ctl' = [ctl EXCEPT ![starts'] = "exec"]
        /\ UNCHANGED <<clearing, next, eng, result, flagRead, log, shown>>
    BY <1>4, Zenon DEF StartClick, StartWhen, nativeVars
  <2>2. ~ isOTARun /\ shown /\ isOTARun' \in BOOLEAN /\ isOTARun'
    BY <1>4, Zenon DEF StartClick, StartWhen
  <2>3. PICK m \in Runs : m = starts + 1
    BY <1>t, <2>1, StartsAssumption DEF CalmType, Runs
  <2>4. Idle(m) /\ starts' = m /\ starts \in 0 .. MaxStarts /\ ctl' = [ctl EXCEPT ![m] = "exec"]
    BY <1>t, <2>1, <2>3 DEF CalmInv, CalmType, Runs
  <2>5. \A n \in Runs : n < m => Past(n)
    <3>1. starts # 0 => starts \in Runs /\ Past(starts)
      BY <1>t, <2>2, StartsAssumption DEF CalmInv, CalmType, Current, Past, Runs
    <3> QED
      BY <2>3, <2>4, <3>1 DEF CalmInv, Runs
  <2>6. CalmType'
    BY <1>t, <2>1, <2>2, <2>3, <2>4 DEF CalmType, CtlPcs, Runs
  <2>7. Current(m)'
    BY <1>t, <2>1, <2>4 DEF CalmType, Current, Idle
  <2>8. \A n \in Runs : (n < m => Past(n)') /\ (n > m => Idle(n)')
    BY <1>t, <2>1, <2>3, <2>4, <2>5 DEF CalmInv, CalmType, Past, Idle, Runs
  <2>9. ClearInSleep'
    BY <1>t, <2>1, <2>4 DEF CalmType, ClearInSleep, Idle
  <2>10. starts' # 0 /\ ctl'[m] # "done"
    BY <1>t, <2>3, <2>4 DEF CalmType, Runs
  <2> QED
    BY <1>t, <2>1, <2>2, <2>4, <2>6, <2>7, <2>8, <2>9, <2>10 DEF CalmInv
<1>g. ASSUME NEW n \in Runs, n = starts, starts' = starts, shown' = shown,
             CalmType', ClearInSleep', Current(n)',
             \A k \in Runs \ {n} : ctl'[k] = ctl[k] /\ eng'[k] = eng[k],
             isOTARun' = isOTARun, ctl[n] = "done" <=> ctl'[n] = "done",
             \A k \in Runs : eng'[k] \in {"verdict", "stop"} => result'[k] # "none"
      PROVE  CalmInv'
  <2>1. starts # 0
    BY <1>g, StartsAssumption DEF Runs
  <2>2. \A k \in Runs : (k < starts' => Past(k)') /\ (k > starts' => Idle(k)')
    BY <1>g, <1>t DEF CalmInv, CalmType, Past, Idle, Runs
  <2> QED
    BY <1>g, <2>1, <2>2 DEF CalmInv
<1>5. ASSUME NEW n \in Runs, ExecClear(n) PROVE CalmInv'
  <2>1. /\ ctl[n] = "exec" /\ ctl' = [ctl EXCEPT ![n] = "sleep"]
        /\ clearing' = [clearing EXCEPT ![n] = "pending"]
        /\ UNCHANGED <<starts, next, eng, result, flagRead, log, isOTARun, shown>>
    BY <1>5, Zenon DEF ExecClear, CtlStep, screenVars, nativeVars, auxVars
  <2>2. n = starts /\ Current(n)
    BY <2>1, OnlyLast
  <2>3. CalmType'
    BY <1>t, <2>1 DEF CalmType, CtlPcs
  <2>4. ClearInSleep' /\ Current(n)' /\ ctl'[n] = "sleep"
    BY <1>t, <2>1, <2>2 DEF CalmType, ClearInSleep, Current
  <2> QED
    BY <1>g, <1>t, <2>1, <2>2, <2>3, <2>4 DEF CalmInv, CalmType
<1>6. ASSUME NEW n \in Runs, Clear(n) PROVE CalmInv'
  <2>1. /\ clearing[n] = "pending" /\ clearing' = [clearing EXCEPT ![n] = "done"]
        /\ log' = <<>> /\ next' = [k \in Runs |-> 1]
        /\ UNCHANGED <<starts, ctl, eng, result, flagRead, isOTARun, shown>>
    BY <1>6, Zenon DEF Clear, ClearTo, screenVars, nativeVars, auxVars
  <2>2. ctl[n] = "sleep"
    BY <1>t, <2>1 DEF ClearInSleep
  <2>3. n = starts /\ Current(n)
    BY <2>2, OnlyLast
  <2>4. CalmType'
    BY <1>t, <2>1 DEF CalmType
  <2>5. ClearInSleep' /\ Current(n)'
    BY <1>t, <2>1, <2>2, <2>3 DEF CalmType, ClearInSleep, Current
  <2> QED
    BY <1>g, <1>t, <2>1, <2>2, <2>3, <2>4, <2>5 DEF CalmInv
<1>7. ASSUME NEW n \in Runs, PromptSpawn(n) PROVE CalmInv'
  <2>1. /\ clearing[n] = "done" /\ ctl[n] = "sleep" /\ ctl' = [ctl EXCEPT ![n] = "open"]
        /\ eng' = [eng EXCEPT ![n] = "ready"]
        /\ UNCHANGED <<starts, clearing, next, result, flagRead, log, isOTARun, shown>>
    BY <1>7, Zenon DEF PromptSpawn, SpawnUpdate, CtlStep, screenVars, auxVars
  <2>2. n = starts /\ Current(n)
    BY <2>1, OnlyLast
  <2>3. CalmType' /\ ctl'[n] = "open" /\ eng'[n] = "ready"
    BY <1>t, <2>1 DEF CalmType, CtlPcs, EngPcs
  <2>4. NoStop'
    BY <2>1, <2>2 DEF Current, NoStop
  <2>5. ClearInSleep' /\ Current(n)'
    BY <1>t, <2>1, <2>2, <2>3, <2>4 DEF CalmType, ClearInSleep, Current
  <2>6. \A k \in Runs \ {n} : ctl'[k] = ctl[k] /\ eng'[k] = eng[k]
    BY <1>t, <2>1 DEF CalmType
  <2>7. \A k \in Runs : eng'[k] \in {"verdict", "stop"} => result'[k] # "none"
    BY <2>1, <2>3, <2>6 DEF CalmInv
  <2> QED
    BY <1>g, <2>1, <2>2, <2>3, <2>5, <2>6, <2>7
<1>8. ASSUME NEW n \in Runs, OpenLog(n) PROVE CalmInv'
  <2>1. /\ ctl[n] = "open" /\ ctl' = [ctl EXCEPT ![n] = "read"] /\ next' = [next EXCEPT ![n] = 1]
        /\ UNCHANGED <<starts, clearing, eng, result, flagRead, log, isOTARun, shown>>
    BY <1>8, Zenon DEF OpenLog, OpenAt, CtlStep, screenVars, nativeVars, auxVars
  <2>2. n = starts /\ Current(n)
    BY <2>1, OnlyLast
  <2>3. CalmType' /\ ctl'[n] = "read"
    BY <1>t, <2>1 DEF CalmType, CtlPcs
  <2>4. ClearInSleep' /\ Current(n)'
    BY <1>t, <2>1, <2>2, <2>3 DEF CalmType, ClearInSleep, Current, NoStop
  <2>5. \A k \in Runs \ {n} : ctl'[k] = ctl[k] /\ eng'[k] = eng[k]
    BY <1>t, <2>1 DEF CalmType
  <2> QED
    BY <1>g, <2>1, <2>2, <2>3, <2>4, <2>5 DEF CalmInv
<1>9. ASSUME NEW n \in Runs, ReadLine(n) PROVE CalmInv'
  <2>1. /\ ctl[n] = "read" /\ next[n] <= Len(log)
        /\ \/ log[next[n]].kind = "STOP" /\ ctl' = [ctl EXCEPT ![n] = "stopping"]
           \/ log[next[n]].kind # "STOP" /\ ctl' = ctl
        /\ next' = [next EXCEPT ![n] = next[n] + 1]
        /\ UNCHANGED <<starts, clearing, eng, result, flagRead, log, isOTARun, shown>>
    BY <1>9, Zenon DEF ReadLine, nativeVars, auxVars
  <2>2. n = starts /\ Current(n)
    BY <2>1, OnlyLast
  <2>3. CalmType' /\ (ctl'[n] = "read" \/ ctl'[n] = "stopping")
    BY <1>t, <2>1 DEF CalmType, CtlPcs
  <2>4. ctl'[n] = "stopping" => eng[n] = "return"
    <3>1. next[n] \in 1 .. Len(log)
      BY <1>t, <2>1 DEF CalmType
    <3> QED
      BY <1>t, <2>1, <2>2, <3>1 DEF CalmType, Current, NoStop
  <2>5. ClearInSleep' /\ Current(n)'
    BY <1>t, <2>1, <2>2, <2>3, <2>4 DEF CalmType, ClearInSleep, Current, NoStop
  <2>6. \A k \in Runs \ {n} : ctl'[k] = ctl[k] /\ eng'[k] = eng[k]
    BY <1>t, <2>1 DEF CalmType
  <2> QED
    BY <1>g, <2>1, <2>2, <2>3, <2>5, <2>6 DEF CalmInv
<1>10. ASSUME NEW n \in Runs, FinishMonitor(n) PROVE CalmInv'
  <2>1. /\ ctl[n] = "stopping" /\ ctl' = [ctl EXCEPT ![n] = "done"]
        /\ UNCHANGED <<starts, clearing, next, eng, result, flagRead, log, shown>>
    BY <1>10, Zenon DEF FinishMonitor, FinishWith, CtlStep, nativeVars, auxVars
  <2>2. isOTARun' \in BOOLEAN /\ ~ isOTARun'
    BY <1>10, Zenon DEF FinishMonitor, FinishWith
  <2>3. n = starts /\ Current(n) /\ starts # 0
    BY <2>1, OnlyLast, StartsAssumption DEF Runs
  <2>4. CalmType' /\ ctl'[n] = "done"
    BY <1>t, <2>1, <2>2 DEF CalmType, CtlPcs
  <2>5. ClearInSleep' /\ Current(n)'
    BY <1>t, <2>1, <2>3, <2>4 DEF CalmType, ClearInSleep, Current, NoStop
  <2>6. \A k \in Runs : (k < starts' => Past(k)') /\ (k > starts' => Idle(k)')
    BY <1>t, <2>1, <2>3 DEF CalmInv, CalmType, Past, Idle, Runs
  <2> QED
    BY <2>1, <2>2, <2>3, <2>4, <2>5, <2>6 DEF CalmInv
<1>e. ASSUME NEW n \in Runs, n = starts, Current(n)',
             UNCHANGED <<starts, ctl, clearing, next, isOTARun, shown>>, CalmType',
             \A k \in Runs \ {n} : eng'[k] = eng[k] /\ result'[k] = result[k],
             eng'[n] \in {"verdict", "stop"} => result'[n] # "none"
      PROVE  CalmInv'
  <2>1. ClearInSleep'
    BY <1>t, <1>e DEF ClearInSleep
  <2>2. \A k \in Runs : eng'[k] \in {"verdict", "stop"} => result'[k] # "none"
    BY <1>e DEF CalmInv
  <2> QED
    BY <1>g, <1>e, <2>1, <2>2
<1>11. ASSUME NEW n \in Runs, StartOTAUpdate(n) PROVE CalmInv'
  <2>1. /\ eng[n] = "ready"
        /\ \/ /\ eng' = [eng EXCEPT ![n] = "running"] /\ result' = result
              /\ flagRead' \in BOOLEAN /\ flagRead'
           \/ /\ eng' = [eng EXCEPT ![n] = "verdict"] /\ result' = [result EXCEPT ![n] = "fail"]
              /\ flagRead' \in BOOLEAN
        /\ UNCHANGED <<starts, ctl, clearing, next, log, isOTARun, shown>>
    BY <1>11, Zenon DEF StartOTAUpdate, BeginWith, screenVars, ctlVars, auxVars
  <2>2. n = starts /\ Current(n)
    BY <2>1, OnlyLast
  <2>3. CalmType'
    BY <1>t, <2>1 DEF CalmType, EngPcs
  <2>4. Current(n)'
    BY <1>t, <2>1, <2>2 DEF CalmType, Current, NoStop
  <2>5. /\ \A k \in Runs \ {n} : eng'[k] = eng[k] /\ result'[k] = result[k]
        /\ eng'[n] \in {"verdict", "stop"} => result'[n] # "none"
    BY <1>t, <2>1 DEF CalmType
  <2> QED
    BY <1>e, <2>1, <2>2, <2>3, <2>4, <2>5
<1>12. ASSUME NEW n \in Runs, NEW res \in {"fail", "end"}, EndUpdate(n, res) PROVE CalmInv'
  <2>1. /\ eng[n] = "running" /\ eng' = [eng EXCEPT ![n] = "verdict"]
        /\ result' = [result EXCEPT ![n] = res] /\ flagRead' \in BOOLEAN
        /\ UNCHANGED <<starts, ctl, clearing, next, log, isOTARun, shown>>
    BY <1>12, Zenon DEF EndUpdate, screenVars, ctlVars, auxVars
  <2>2. n = starts /\ Current(n)
    BY <2>1, OnlyLast
  <2>3. CalmType'
    BY <1>t, <2>1 DEF CalmType, EngPcs
  <2>4. Current(n)'
    BY <1>t, <2>1, <2>2 DEF CalmType, Current, NoStop
  <2>5. /\ \A k \in Runs \ {n} : eng'[k] = eng[k] /\ result'[k] = result[k]
        /\ result'[n] # "none"
    BY <1>t, <2>1 DEF CalmType
  <2> QED
    BY <1>e, <2>1, <2>2, <2>3, <2>4, <2>5
<1>l. ASSUME NEW n \in Runs, NEW k \in {"fail", "end", "STOP"}
      PROVE  Line(k, n) \in Lines /\ Line(k, n).kind = k
  BY <1>l, StartsAssumption DEF Line, Lines, Runs
<1>13. ASSUME NEW n \in Runs, LogVerdict(n) PROVE CalmInv'
  <2>1. /\ eng[n] = "verdict" /\ eng' = [eng EXCEPT ![n] = "stop"]
        /\ log' = Append(log, Line(result[n], n))
        /\ UNCHANGED <<starts, ctl, clearing, next, result, flagRead, isOTARun, shown>>
    BY <1>13, Zenon DEF LogVerdict, screenVars, ctlVars, auxVars
  <2>2. n = starts /\ Current(n) /\ result[n] \in {"fail", "end"}
    BY <1>t, <2>1, OnlyLast DEF CalmInv, CalmType
  <2> DEFINE r == Line(result[n], n)
  <2>3. r \in Lines /\ r.kind # "STOP"
    BY <1>l, <2>2
  <2> HIDE DEF r
  <2>4. log \in Seq(Lines) /\ log' = Append(log, r)
    BY <1>t, <2>1 DEF CalmType, r
  <2>5. log' \in Seq(Lines) /\ (NoStop => NoStop')
    BY <2>3, <2>4 DEF NoStop
  <2>6. CalmType'
    BY <1>t, <2>1, <2>5 DEF CalmType, EngPcs
  <2>7. Current(n)'
    BY <1>t, <2>1, <2>2, <2>5 DEF CalmType, Current
  <2>8. /\ \A k \in Runs \ {n} : eng'[k] = eng[k] /\ result'[k] = result[k]
        /\ result'[n] # "none"
    BY <1>t, <2>1, <2>2 DEF CalmType
  <2> QED
    BY <1>e, <2>1, <2>2, <2>6, <2>7, <2>8
<1>14. ASSUME NEW n \in Runs, LogStop(n) PROVE CalmInv'
  <2>1. /\ eng[n] = "stop" /\ eng' = [eng EXCEPT ![n] = "return"]
        /\ log' = Append(log, Line("STOP", n))
        /\ UNCHANGED <<starts, ctl, clearing, next, result, flagRead, isOTARun, shown>>
    BY <1>14, Zenon DEF LogStop, screenVars, ctlVars, auxVars
  <2>2. n = starts /\ Current(n)
    BY <2>1, OnlyLast
  <2>3. log' \in Seq(Lines)
    BY <1>t, <1>l, <2>1 DEF CalmType
  <2>4. CalmType' /\ eng'[n] = "return"
    BY <1>t, <2>1, <2>3 DEF CalmType, EngPcs
  <2>5. Current(n)'
    BY <1>t, <2>1, <2>2, <2>4 DEF CalmType, Current
  <2>6. \A k \in Runs \ {n} : eng'[k] = eng[k] /\ result'[k] = result[k]
    BY <1>t, <2>1 DEF CalmType
  <2> QED
    BY <1>e, <2>1, <2>2, <2>4, <2>5, <2>6
<1>15. ASSUME NEW n \in Runs, ReaderQuits(n) PROVE CalmInv'
  <2>1. UNCHANGED <<starts, ctl, clearing, next, eng, result, flagRead, log, isOTARun, shown>>
    BY <1>15, Zenon DEF ReaderQuits, screenVars, ctlVars, auxVars
  <2> QED
    BY <1>t, <1>u, <2>1 DEF CalmInv, CalmType
<1> QED
  BY <1>1, <1>2, <1>3, <1>4, <1>5, <1>6, <1>7, <1>8, <1>9, <1>10, <1>11, <1>12, <1>13, <1>14, <1>15
  DEF CalmNext, User, Controller, Monitor, Engine

\* The update of the last click is the only one in process, and only while the
\* flag is set.
LEMMA OnlyLastInProcess ==
  ASSUME CalmInv, NEW n \in Runs, InProcess(n)
  PROVE  n = starts /\ isOTARun
<1>1. n = starts /\ Current(n)
  BY OnlyLast DEF InProcess
<1>2. starts # 0 /\ ctl[starts] # "done"
  BY <1>1, StartsAssumption DEF InProcess, Current, Runs
<1> QED
  BY <1>1, <1>2 DEF CalmInv

LEMMA CalmInvariant == CalmSpec => []CalmInv
  BY CalmInit, CalmStep, PTL DEF CalmSpec

\* At most one ota_update() works on the globals of hidserv.c, for any number of
\* clicks, when the log is cleared in time and no read() fails.
THEOREM OneUpdateAtATime == CalmSpec => []OneUpdate
<1>1. CalmInv => OneUpdate
  BY OnlyLastInProcess DEF OneUpdate
<1> QED
  BY <1>1, CalmInvariant, PTL

\* ... flagRead, which all updates share, stays set while one runs.
THEOREM ReaderIsKept == CalmSpec => []ReaderKept
<1>1. CalmInv => ReaderKept
  BY OnlyLast DEF ReaderKept, Current
<1> QED
  BY <1>1, CalmInvariant, PTL

\* ... and Back does not close the screen over a running update.
THEOREM BackBlocked == CalmSpec => BackKeepsUpdate
<1>1. CalmInv /\ [CalmNext]_vars => [shown /\ ~ shown' => \A n \in Runs : ~ InProcess(n)]_vars
  <2> SUFFICES ASSUME CalmInv, [CalmNext]_vars, shown, ~ shown', NEW n \in Runs, InProcess(n)
               PROVE  FALSE
    OBVIOUS
  <2>1. CalmInv' /\ isOTARun
    BY CalmStep, OnlyLastInProcess
  <2>2. OnBackPressed
    BY Zenon DEF CalmNext, User, FileResult, StartClick, StartWhen, CleanClick, Launch, OnCreate,
       HandleMessage, Controller, PromptSpawn, Monitor, Engine, ExecClear, Clear, ClearTo,
       SpawnUpdate, OpenLog, OpenAt, ReadLine, FinishMonitor, FinishWith, StartOTAUpdate, BeginWith,
       EndUpdate, LogVerdict, LogStop, ReaderQuits, vars, screenVars
  <2> QED
    BY <2>1, <2>2 DEF OnBackPressed
<1> QED
  BY <1>1, CalmInvariant, PTL DEF CalmSpec, BackKeepsUpdate

(***************************************************************************)
(* Type correctness, whatever happens to the screen and the link           *)
(***************************************************************************)

\* What is posted names a screen there is, what is logged a verdict there was.
ScreenInv ==
  /\ TypeOK
  /\ \A n \in Runs : /\ ctl[n] # "idle" => owner[n] # 0
                     /\ eng[n] \in {"verdict", "stop"} => result[n] # "none"

LEMMA ScreenInit == Init => ScreenInv
<1> SUFFICES ASSUME Init PROVE ScreenInv
  OBVIOUS
<1>1. CalmType
  BY CalmInit DEF CalmInv
<1>2. /\ screen = 1 /\ fwFilePath = NoFile /\ tvResult = "" /\ msgs = <<>>
      /\ ctl = [n \in Runs |-> "idle"] /\ owner = [n \in Runs |-> 0]
      /\ eng = [n \in Runs |-> "none"] /\ rdr = [n \in Runs |-> "none"]
  BY Zenon DEF Init
<1>3. wiped \in BOOLEAN
  BY Zenon DEF Init
<1>4. /\ screen \in 1 .. MaxScreens /\ fwFilePath \in Files /\ tvResult \in Texts
      /\ msgs \in Seq([screen : 1 .. MaxScreens, text : Texts \ {""}])
      /\ owner \in [Runs -> 0 .. MaxScreens] /\ rdr \in [Runs -> RdrPcs]
  <2>1. screen \in 1 .. MaxScreens /\ 0 \in 0 .. MaxScreens
    <3>1. screen = 1
      BY <1>2
    <3> QED
      BY <3>1, ScreensAssumption
  <2>2. fwFilePath \in Files /\ tvResult \in Texts /\ msgs \in Seq([screen : 1 .. MaxScreens, text : Texts \ {""}])
    <3>1. fwFilePath = NoFile /\ tvResult = "" /\ msgs = <<>>
      BY <1>2
    <3>2. fwFilePath \in Files /\ tvResult \in Texts
      BY <3>1, Zenon DEF Files, Texts
    <3>3. \A S : <<>> \in Seq(S)
      OBVIOUS
    <3> QED
      BY <3>1, <3>2, <3>3, Zenon
  <2>3. owner \in [Runs -> 0 .. MaxScreens] /\ rdr \in [Runs -> RdrPcs]
    BY <1>2, <2>1 DEF RdrPcs
  <2> QED
    BY <2>1, <2>2, <2>3
<1>5. next \in [Runs -> Nat]
  BY <1>1 DEF CalmType
<1>6. TypeOK
  BY <1>1, <1>3, <1>4, <1>5, Zenon DEF TypeOK, CalmType
<1> QED
  BY <1>2, <1>6 DEF ScreenInv

\* One line more keeps a log, and one message more the messages, of their type.
LEMMA AppendType ==
  ASSUME NEW S, NEW s \in Seq(S), NEW e \in S
  PROVE  Append(s, e) \in Seq(S)
  OBVIOUS

LEMMA TailType ==
  ASSUME NEW S, NEW s \in Seq(S), s # <<>>
  PROVE  Tail(s) \in Seq(S) /\ Head(s) \in S
  OBVIOUS

LEMMA ScreenStep == ScreenInv /\ [Next]_vars => ScreenInv'
<1> SUFFICES ASSUME ScreenInv, [Next]_vars PROVE ScreenInv'
  OBVIOUS
<1> DEFINE Message == [screen : 1 .. MaxScreens, text : Texts \ {""}]
           Screen  == /\ screen \in 1 .. MaxScreens
                      /\ fwFilePath \in Files /\ tvResult \in Texts /\ msgs \in Seq(Message)
           Flags   == /\ shown \in BOOLEAN /\ isOTARun \in BOOLEAN
                      /\ flagRead \in BOOLEAN /\ wiped \in BOOLEAN
           Control == /\ ctl \in [Runs -> CtlPcs] /\ owner \in [Runs -> 0 .. MaxScreens]
                      /\ clearing \in [Runs -> {"none", "pending", "done"}] /\ next \in [Runs -> Nat]
                      /\ \A n \in Runs : ctl[n] # "idle" => owner[n] # 0
           Native  == /\ eng \in [Runs -> EngPcs] /\ result \in [Runs -> {"none", "fail", "end"}]
                      /\ rdr \in [Runs -> RdrPcs]
                      /\ \A n \in Runs : eng[n] \in {"verdict", "stop"} => result[n] # "none"
           Rest    == log \in Seq(Lines) /\ starts \in 0 .. MaxStarts
<1>t. Screen /\ Flags /\ Control /\ Native /\ Rest
  BY DEF ScreenInv, TypeOK
<1>g. Screen' /\ Flags' /\ Control' /\ Native' /\ Rest' => ScreenInv'
  BY DEF ScreenInv, TypeOK
<1>s. UNCHANGED <<screen, fwFilePath, tvResult, msgs>> => Screen'
  BY <1>t
<1>f. UNCHANGED <<shown, isOTARun, flagRead, wiped>> => Flags'
  BY <1>t
<1>c. UNCHANGED ctlVars => Control'
  BY <1>t DEF ctlVars
<1>n. UNCHANGED <<eng, result, rdr>> => Native'
  BY <1>t
<1>r. UNCHANGED <<log, starts>> => Rest'
  BY <1>t
<1> HIDE DEF Message, Screen, Flags, Control, Native, Rest
<1>v. \A k \in {"fail", "end"} : TextOf(k) \in Texts \ {""}
  BY DEF TextOf, Texts
<1>l. ASSUME NEW n \in Runs, NEW k \in {"fail", "end", "STOP"}
      PROVE  Line(k, n) \in Lines
  BY <1>l, StartsAssumption DEF Line, Lines, Runs
<1>1. CASE Launch \/ Recreate
  <2>1. /\ screen < MaxScreens /\ screen' = screen + 1 /\ tvResult' = "" /\ UNCHANGED <<fwFilePath, msgs>>
        /\ UNCHANGED ctlVars /\ UNCHANGED <<eng, result, rdr>> /\ UNCHANGED <<log, starts>>
    BY <1>1, Zenon DEF Launch, Recreate, OnCreate, nativeVars
  <2>2. Screen'
    <3>1. screen \in 1 .. MaxScreens /\ screen < MaxScreens /\ screen' = screen + 1
      BY <1>t, <2>1 DEF Screen
    <3>2. screen' \in 1 .. MaxScreens
      BY <3>1, ScreensAssumption
    <3> QED
      BY <1>t, <2>1, <3>2 DEF Screen, Texts
  <2>3. Flags'
    BY <1>1, <1>t, Zenon DEF Launch, Recreate, OnCreate, nativeVars, Flags
  <2> QED
    BY <1>g, <1>c, <1>n, <1>r, <2>1, <2>2, <2>3
<1>2. ASSUME NEW f \in Files, FileResult(f) PROVE ScreenInv'
  <2>1. /\ fwFilePath' = f /\ UNCHANGED <<screen, tvResult, msgs>> /\ UNCHANGED <<shown, isOTARun, flagRead, wiped>>
        /\ UNCHANGED ctlVars /\ UNCHANGED <<eng, result, rdr>> /\ UNCHANGED <<log, starts>>
    BY <1>2, Zenon DEF FileResult, nativeVars, auxVars
  <2>2. Screen'
    BY <1>t, <2>1 DEF Screen
  <2> QED
    BY <1>g, <1>f, <1>c, <1>n, <1>r, <2>1, <2>2
<1>3. CASE StartClick
  <2>1. /\ starts < MaxStarts /\ starts' = starts + 1 /\ tvResult' = ""
        /\ ctl' = [ctl EXCEPT ![starts'] = "exec"] /\ owner' = [owner EXCEPT ![starts'] = screen]
        /\ UNCHANGED <<screen, fwFilePath, msgs, clearing, next>>
        /\ UNCHANGED <<eng, result, rdr>> /\ UNCHANGED log
    BY <1>3, Zenon DEF StartClick, StartWhen, nativeVars
  <2>2. Flags'
    BY <1>3, <1>t, Zenon DEF StartClick, StartWhen, nativeVars, Flags
  <2>3. Screen'
    BY <1>t, <2>1 DEF Screen, Texts
  <2>4. Rest' /\ starts' \in Runs
    <3>1. log \in Seq(Lines) /\ starts \in 0 .. MaxStarts
      BY <1>t DEF Rest
    <3>2. starts < MaxStarts /\ starts' = starts + 1
      BY <2>1
    <3>3. starts' \in Runs /\ starts' \in 0 .. MaxStarts
      BY <3>1, <3>2, StartsAssumption DEF Runs
    <3> QED
      BY <2>1, <3>1, <3>3 DEF Rest
  <2>5. Control'
    <3>1. screen \in 0 .. MaxScreens /\ screen # 0
      BY <1>t, ScreensAssumption DEF Screen
    <3> QED
      BY <1>t, <2>1, <2>4, <3>1 DEF Control, CtlPcs
  <2> QED
    BY <1>g, <1>n, <2>1, <2>2, <2>3, <2>4, <2>5
<1>4. CASE CleanClick \/ OnBackPressed
  <2>1. /\ tvResult' \in {tvResult, ""} /\ UNCHANGED <<screen, fwFilePath, msgs>>
        /\ UNCHANGED ctlVars /\ UNCHANGED <<eng, result, rdr>> /\ UNCHANGED <<log, starts>>
    BY <1>4, Zenon DEF CleanClick, OnBackPressed, nativeVars, auxVars
  <2>2. Screen'
    BY <1>t, <2>1 DEF Screen, Texts
  <2>3. Flags'
    BY <1>4, <1>t, Zenon DEF CleanClick, OnBackPressed, nativeVars, auxVars, Flags
  <2> QED
    BY <1>g, <1>c, <1>n, <1>r, <2>1, <2>2, <2>3
<1>5. CASE HandleMessage
  <2>1. /\ msgs # <<>> /\ msgs' = Tail(msgs) /\ tvResult' \in {Head(msgs).text, tvResult}
        /\ UNCHANGED <<screen, fwFilePath>> /\ UNCHANGED <<shown, isOTARun, flagRead, wiped>>
        /\ UNCHANGED ctlVars /\ UNCHANGED <<eng, result, rdr>> /\ UNCHANGED <<log, starts>>
    BY <1>5 DEF HandleMessage, nativeVars, auxVars
  <2>2. msgs' \in Seq(Message) /\ Head(msgs) \in Message
    BY <1>t, <2>1, TailType, Zenon DEF Screen
  <2>3. Screen'
    BY <1>t, <2>1, <2>2 DEF Screen, Message
  <2> QED
    BY <1>g, <1>f, <1>c, <1>n, <1>r, <2>1, <2>3
<1>6. ASSUME NEW n \in Runs, ExecClear(n) \/ SpawnUpdate(n) \/ OpenLog(n) \/ LogcatEnds(n)
      PROVE  ScreenInv'
  <2>1. /\ \E to \in CtlPcs : ctl' = [ctl EXCEPT ![n] = to]
        /\ ctl[n] # "idle" /\ owner' = owner
        /\ next' = next \/ next' = [next EXCEPT ![n] = 1]
        /\ clearing' = clearing \/ clearing' = [clearing EXCEPT ![n] = "pending"]
        /\ eng' = eng \/ eng' = [eng EXCEPT ![n] = "ready"]
        /\ UNCHANGED <<screen, fwFilePath, tvResult, msgs>> /\ UNCHANGED <<result, rdr>>
        /\ UNCHANGED <<log, starts>>
    BY <1>6 DEF ExecClear, SpawnUpdate, OpenLog, OpenAt, LogcatEnds, CtlStep, CtlPcs, screenVars, nativeVars, auxVars
  <2>2. UNCHANGED <<shown, isOTARun, flagRead, wiped>>
    BY <1>6, Zenon DEF ExecClear, SpawnUpdate, OpenLog, OpenAt, LogcatEnds, screenVars, nativeVars, auxVars
  <2>3. Control'
    BY <1>t, <2>1 DEF Control
  <2>4. Native'
    BY <1>t, <2>1 DEF Native, EngPcs
  <2> QED
    BY <1>g, <1>s, <1>f, <1>r, <2>1, <2>2, <2>3, <2>4
<1>7. ASSUME NEW n \in Runs, Clear(n) PROVE ScreenInv'
  <2>1. /\ clearing' = [clearing EXCEPT ![n] = "done"] /\ next' = [k \in Runs |-> 1] /\ log' = <<>>
        /\ UNCHANGED <<ctl, owner, starts>>
        /\ UNCHANGED <<screen, fwFilePath, tvResult, msgs>> /\ UNCHANGED <<eng, result, rdr>>
        /\ UNCHANGED <<shown, isOTARun, flagRead, wiped>>
    BY <1>7, Zenon DEF Clear, ClearTo, screenVars, nativeVars, auxVars
  <2>2. Control'
    BY <1>t, <2>1 DEF Control
  <2>3. Rest'
    BY <1>t, <2>1 DEF Rest
  <2> QED
    BY <1>g, <1>s, <1>f, <1>n, <2>1, <2>2, <2>3
<1>8. ASSUME NEW n \in Runs, ReadLine(n) PROVE ScreenInv'
  <2>1. /\ ctl[n] = "read" /\ next[n] <= Len(log)
        /\ next' = [next EXCEPT ![n] = next[n] + 1]
        /\ UNCHANGED <<screen, fwFilePath, tvResult, owner, clearing>>
        /\ UNCHANGED <<eng, result, rdr>> /\ UNCHANGED <<log, starts>>
        /\ UNCHANGED <<shown, isOTARun, flagRead, wiped>>
    BY <1>8, Zenon DEF ReadLine, nativeVars, auxVars
  <2>2. \/ ctl' = [ctl EXCEPT ![n] = "stopping"] /\ UNCHANGED msgs
        \/ /\ msgs' = Append(msgs, [screen |-> owner[n], text |-> TextOf(log[next[n]].kind)])
           /\ UNCHANGED ctl
    BY <1>8, Zenon DEF ReadLine
  <2>3. Control'
    <3>1. ctl' = [ctl EXCEPT ![n] = "stopping"] \/ ctl' = ctl
      BY <2>2, Zenon
    <3>2. ctl[n] = "read" /\ next' = [next EXCEPT ![n] = next[n] + 1] /\ UNCHANGED <<owner, clearing>>
      BY <2>1
    <3> QED
      BY <1>t, <3>1, <3>2 DEF Control, CtlPcs
  <2>4. Screen'
    <3> DEFINE m == [screen |-> owner[n], text |-> TextOf(log[next[n]].kind)]
    <3>1. m \in Message
      <4>1. owner[n] \in 1 .. MaxScreens
        BY <1>t, <2>1, ScreensAssumption DEF Control
      <4>2. TextOf(log[next[n]].kind) \in Texts \ {""}
        BY DEF TextOf, Texts
      <4> QED
        BY <4>1, <4>2 DEF Message
    <3> HIDE DEF m
    <3>2. msgs' = msgs \/ msgs' = Append(msgs, m)
      BY <2>2 DEF m
    <3>3. msgs' \in Seq(Message)
      <4>1. msgs \in Seq(Message)
        BY <1>t, Zenon DEF Screen
      <4>2. Append(msgs, m) \in Seq(Message)
        BY <3>1, <4>1, AppendType
      <4> QED
        BY <3>2, <4>1, <4>2
    <3> QED
      BY <1>t, <2>1, <3>3 DEF Screen
  <2> QED
    BY <1>g, <1>f, <1>n, <1>r, <2>1, <2>3, <2>4
<1>9. ASSUME NEW n \in Runs, FinishMonitor(n) PROVE ScreenInv'
  <2>1. /\ ctl[n] = "stopping" /\ ctl' = [ctl EXCEPT ![n] = "done"]
        /\ UNCHANGED <<owner, clearing, next>> /\ UNCHANGED <<screen, fwFilePath, tvResult, msgs>>
        /\ UNCHANGED <<eng, result, rdr>> /\ UNCHANGED <<log, starts>>
    BY <1>9, Zenon DEF FinishMonitor, FinishWith, CtlStep, nativeVars, auxVars
  <2>2. Flags'
    BY <1>9, <1>t, Zenon DEF FinishMonitor, FinishWith, nativeVars, auxVars, Flags
  <2>3. Control'
    BY <1>t, <2>1 DEF Control, CtlPcs
  <2> QED
    BY <1>g, <1>s, <1>n, <1>r, <2>1, <2>2, <2>3
<1>10. ASSUME NEW n \in Runs,
              StartOTAUpdate(n) \/ (\E res \in {"fail", "end"} : EndUpdate(n, res)) \/ ReaderQuits(n) \/ ReaderFails(n)
       PROVE  ScreenInv'
  <2>1. /\ UNCHANGED <<screen, fwFilePath, tvResult, msgs>> /\ UNCHANGED ctlVars /\ UNCHANGED <<log, starts>>
    BY <1>10, Zenon DEF StartOTAUpdate, BeginWith, EndUpdate, ReaderQuits, ReaderFails, screenVars, auxVars
  <2>2. Flags'
    BY <1>10, <1>t, Zenon DEF StartOTAUpdate, BeginWith, EndUpdate, ReaderQuits, ReaderFails, screenVars, auxVars, Flags
  <2>3. \/ eng' = [eng EXCEPT ![n] = "running"] /\ result' = result
        \/ eng' = [eng EXCEPT ![n] = "verdict"] /\ \E res \in {"fail", "end"} : result' = [result EXCEPT ![n] = res]
        \/ UNCHANGED <<eng, result>>
    BY <1>10, Zenon DEF StartOTAUpdate, BeginWith, EndUpdate, ReaderQuits, ReaderFails
  <2>4. rdr' = rdr \/ \E to \in RdrPcs : rdr' = [rdr EXCEPT ![n] = to]
    BY <1>10, Zenon DEF StartOTAUpdate, BeginWith, EndUpdate, ReaderQuits, ReaderFails, RdrPcs
  <2>5. Native'
    BY <1>t, <2>3, <2>4 DEF Native, EngPcs
  <2> QED
    BY <1>g, <1>s, <1>c, <1>r, <2>1, <2>2, <2>5
<1>11. ASSUME NEW n \in Runs, LogVerdict(n) \/ LogStop(n) \/ ReaderLogs(n) PROVE ScreenInv'
  <2>1. /\ UNCHANGED <<screen, fwFilePath, tvResult, msgs>> /\ UNCHANGED ctlVars /\ UNCHANGED <<starts, result>>
        /\ UNCHANGED <<shown, isOTARun, flagRead, wiped>>
    BY <1>11, Zenon DEF LogVerdict, LogStop, ReaderLogs, screenVars, auxVars
  <2>2. /\ \/ eng' = eng
           \/ eng[n] = "verdict" /\ eng' = [eng EXCEPT ![n] = "stop"]
           \/ eng' = [eng EXCEPT ![n] = "return"]
        /\ rdr' = rdr \/ \E to \in RdrPcs : rdr' = [rdr EXCEPT ![n] = to]
    BY <1>11, Zenon DEF LogVerdict, LogStop, ReaderLogs, RdrPcs
  <2>3. Native'
    BY <1>t, <2>1, <2>2 DEF Native, EngPcs
  <2>4. \E k \in {"fail", "end", "STOP"} : log' = Append(log, Line(k, n))
    <3>1. eng[n] = "verdict" => result[n] \in {"fail", "end"}
      BY <1>t DEF Native
    <3> QED
      BY <1>11, <3>1 DEF LogVerdict, LogStop, ReaderLogs
  <2>5. log' \in Seq(Lines)
    BY <1>t, <1>l, <2>4, AppendType, Zenon DEF Rest
  <2>6. Rest'
    BY <1>t, <2>1, <2>5 DEF Rest
  <2> QED
    BY <1>g, <1>s, <1>f, <1>c, <2>1, <2>3, <2>6
<1>12. CASE UNCHANGED vars
  BY <1>12, <1>g, <1>s, <1>f, <1>c, <1>n, <1>r, Zenon DEF vars, screenVars, nativeVars, auxVars
<1> QED
  BY <1>1, <1>2, <1>3, <1>4, <1>5, <1>6, <1>7, <1>8, <1>9, <1>10, <1>11, <1>12
  DEF Next, User, Monitor, Engine, Trouble

\* The log, the messages to the screen and the state of every thread keep their
\* types whatever happens: no message is posted for a screen there never was, and
\* no verdict is logged before there is one.
THEOREM TypeCorrect == Spec => []TypeOK
<1>1. ScreenInv => TypeOK
  BY DEF ScreenInv
<1> QED
  BY <1>1, ScreenInit, ScreenStep, PTL DEF Spec

(***************************************************************************)
(* The verdict on the screen, when nothing unexpected happens              *)
(***************************************************************************)

\* What update n has logged so far.
Logged(n) ==
  /\ eng[n] \in {"none", "ready", "running", "verdict"} => log = <<>>
  /\ eng[n] = "stop" => log = <<Line(result[n], n)>>
  /\ eng[n] = "return" => log = <<Line(result[n], n), Line("STOP", n)>>

\* The monitor has read the verdict, and so it is the last that was posted.
Posted(n) == ctl[n] \in {"stopping", "done"} \/ (ctl[n] = "read" /\ next[n] = 2)
Last(n)   ==
  /\ msgs = <<>> => tvResult = TextOf(result[n])
  /\ msgs # <<>> => msgs[Len(msgs)] = [screen |-> owner[n], text |-> TextOf(result[n])]

OwnLog(n) ==
  /\ ctl[n] \in {"open", "read", "stopping", "done"} => Logged(n)
  /\ ctl[n] = "read" => next[n] \in {1, 2}
  /\ Posted(n) => eng[n] \in {"stop", "return"}
  /\ eng[n] \in {"verdict", "stop", "return"} => result[n] # "none"
OwnText(n) == owner[n] = screen /\ (Posted(n) => Last(n))

\* While the text was not wiped, the screen is the one the last update was
\* started from, and shows its verdict as soon as the messages are handled.
OwnVerdict == starts # 0 => OwnLog(starts) /\ (wiped \/ OwnText(starts))

LEMMA AppendPair ==
  ASSUME NEW a, NEW b
  PROVE  Append(<<>>, a) = <<a>> /\ Append(<<a>>, b) = <<a, b>>
<1> DEFINE S == {a, b}
<1>1. <<>> \in Seq(S) /\ <<a>> \in Seq(S) /\ a \in S /\ b \in S
  OBVIOUS
<1>2. Append(<<>>, a) = <<a>>
  BY <1>1
<1>3. Append(<<a>>, b) = <<a, b>>
  <2> DEFINE t == Append(<<a>>, b)
             p == <<a, b>>
  <2>1. t \in Seq(S) /\ Len(t) = 2 /\ t[1] = a /\ t[2] = b
    BY <1>1
  <2>2. p \in Seq(S) /\ Len(p) = 2 /\ p[1] = a /\ p[2] = b
    OBVIOUS
  <2> HIDE DEF t, p, S
  <2>3. t \in [1 .. 2 -> S] /\ p \in [1 .. 2 -> S]
    BY <2>1, <2>2
  <2>4. \A i \in 1 .. 2 : t[i] = p[i]
    BY <2>1, <2>2
  <2>5. t = p
    BY <2>3, <2>4
  <2> QED
    BY <2>5 DEF t, p
<1> QED
  BY <1>2, <1>3

LEMMA VerdictInit == Init => OwnVerdict
<1> SUFFICES ASSUME Init PROVE OwnVerdict
  OBVIOUS
<1>1. starts = 0
  BY Zenon DEF Init
<1> QED
  BY <1>1 DEF OwnVerdict

\* What the monitor finds in the log: first the verdict, then STOP.
VerdictLine(n) ==
  /\ ctl[n] = "read" /\ next[n] = 1
  /\ eng[n] \in {"stop", "return"} /\ result[n] \in {"fail", "end"}
  /\ ctl' = ctl /\ next' = [next EXCEPT ![n] = 2]
  /\ msgs' = Append(msgs, [screen |-> owner[n], text |-> TextOf(result[n])])
StopLine(n) ==
  /\ ctl[n] = "read" /\ next[n] = 2
  /\ eng[n] = "return"
  /\ ctl' = [ctl EXCEPT ![n] = "stopping"] /\ next' = [next EXCEPT ![n] = 3]
  /\ msgs' = msgs

LEMMA LineRead ==
  ASSUME ScreenInv, CalmInv, OwnVerdict, NEW n \in Runs, ReadLine(n)
  PROVE  n = starts /\ OwnLog(n) /\ (VerdictLine(n) \/ StopLine(n))
<1>t. eng[n] \in EngPcs /\ result[n] \in {"none", "fail", "end"} /\ next \in [Runs -> Nat]
  BY DEF ScreenInv, TypeOK
<1>1. /\ ctl[n] = "read" /\ next[n] <= Len(log)
      /\ \/ log[next[n]].kind = "STOP" /\ ctl' = [ctl EXCEPT ![n] = "stopping"] /\ msgs' = msgs
         \/ /\ log[next[n]].kind # "STOP" /\ ctl' = ctl
            /\ msgs' = Append(msgs, [screen |-> owner[n], text |-> TextOf(log[next[n]].kind)])
      /\ next' = [next EXCEPT ![n] = next[n] + 1]
  BY Zenon DEF ReadLine
<1>2. n = starts /\ OwnLog(n)
  BY <1>1, OnlyLast, StartsAssumption DEF OwnVerdict, Runs
<1>3. /\ next[n] \in {1, 2} /\ Logged(n)
      /\ eng[n] \in {"verdict", "stop", "return"} => result[n] \in {"fail", "end"}
  BY <1>t, <1>1, <1>2 DEF OwnLog
<1>4. eng[n] \in {"stop", "return"} /\ (eng[n] = "stop" => Len(log) = 1)
  <2>1. eng[n] \notin {"stop", "return"} => log = <<>>
    BY <1>t, <1>3 DEF Logged, EngPcs
  <2>2. log = <<>> => Len(log) = 0
    OBVIOUS
  <2>3. eng[n] = "stop" => Len(log) = 1
    BY <1>3 DEF Logged
  <2> QED
    BY <1>1, <1>3, <2>1, <2>2, <2>3
<1>5. CASE next[n] = 1
  <2>1. log[1] = Line(result[n], n) /\ result[n] \in {"fail", "end"}
    BY <1>3, <1>4 DEF Logged
  <2>2. log[next[n]].kind = result[n] /\ result[n] # "STOP"
    BY <1>5, <2>1 DEF Line
  <2> QED
    BY <1>1, <1>2, <1>4, <1>5, <2>1, <2>2 DEF VerdictLine
<1>6. CASE next[n] = 2
  <2>1. eng[n] = "return"
    BY <1>1, <1>4, <1>6
  <2>2. log[2] = Line("STOP", n)
    BY <1>3, <2>1 DEF Logged
  <2>3. log[next[n]].kind = "STOP"
    BY <1>6, <2>2 DEF Line
  <2> QED
    BY <1>1, <1>2, <1>6, <2>1, <2>3 DEF StopLine
<1> QED
  BY <1>3, <1>5, <1>6

LEMMA VerdictStep == ScreenInv /\ CalmInv /\ OwnVerdict /\ [CalmNext]_vars => OwnVerdict'
<1> SUFFICES ASSUME ScreenInv, CalmInv, OwnVerdict, [CalmNext]_vars PROVE OwnVerdict'
  OBVIOUS
<1>t. /\ starts \in 0 .. MaxStarts
      /\ ctl \in [Runs -> CtlPcs] /\ owner \in [Runs -> 0 .. MaxScreens] /\ next \in [Runs -> Nat]
      /\ eng \in [Runs -> EngPcs] /\ result \in [Runs -> {"none", "fail", "end"}]
  BY DEF ScreenInv, TypeOK
<1>m. msgs \in Seq([screen : 1 .. MaxScreens, text : Texts \ {""}])
  BY DEF ScreenInv, TypeOK
<1>r. starts # 0 => starts \in Runs
  BY <1>t, StartsAssumption DEF Runs
\* The user and the messages leave the update alone.
<1>u. ASSUME UNCHANGED <<starts, ctl, owner, next, eng, result, log>>,
             starts # 0 => wiped' \/ (~ wiped /\ (OwnText(starts) => OwnText(starts)'))
      PROVE  OwnVerdict'
  <2>1. starts # 0 => OwnLog(starts)'
    BY <1>u DEF OwnVerdict, OwnLog, Logged, Posted
  <2>2. starts # 0 => wiped' \/ OwnText(starts)'
    BY <1>u, Zenon DEF OwnVerdict
  <2> QED
    BY <1>u, <2>1, <2>2 DEF OwnVerdict
<1>1. CASE (\E f \in Files : FileResult(f)) \/ OnBackPressed \/ (\E n \in Runs : ReaderQuits(n)) \/ UNCHANGED vars
  <2>1. UNCHANGED <<starts, ctl, owner, next, eng, result, log>> /\ UNCHANGED <<screen, msgs, tvResult, wiped>>
    BY <1>1, Zenon DEF FileResult, OnBackPressed, ReaderQuits, vars, screenVars, ctlVars, nativeVars, auxVars
  <2>2. OwnText(starts) => OwnText(starts)'
    BY <2>1 DEF OwnText, Posted, Last
  <2> QED
    BY <1>u, <2>1, <2>2, Zenon
<1>2. CASE CleanClick \/ Launch
  <2>1. UNCHANGED <<starts, ctl, owner, next, eng, result, log>> /\ wiped' = TRUE
    BY <1>2, Zenon DEF CleanClick, Launch, OnCreate, ctlVars, nativeVars
  <2> QED
    BY <1>u, <2>1, Zenon
<1>3. CASE HandleMessage
  <2>1. /\ UNCHANGED <<starts, ctl, owner, next, eng, result, log>> /\ UNCHANGED wiped /\ screen' = screen
        /\ msgs # <<>> /\ msgs' = Tail(msgs)
    BY <1>3, Zenon DEF HandleMessage, ctlVars, nativeVars, auxVars
  <2>2. Head(msgs).screen = screen => tvResult' = Head(msgs).text
    BY <1>3 DEF HandleMessage
  <2>3. /\ Head(msgs) = msgs[1] /\ Len(msgs) \in Nat \ {0}
        /\ msgs' = <<>> => Len(msgs) = 1
        /\ msgs' # <<>> => msgs'[Len(msgs')] = msgs[Len(msgs)]
    <3> DEFINE M == [screen : 1 .. MaxScreens, text : Texts \ {""}]
    <3>1. msgs \in Seq(M)
      BY <1>m
    <3> HIDE DEF M
    <3>2. Len(msgs') = Len(msgs) - 1 /\ Len(msgs) \in Nat \ {0} /\ msgs' \in Seq(M)
      BY <2>1, <3>1
    <3>3. \A i \in 1 .. Len(msgs') : msgs'[i] = msgs[i + 1]
      BY <2>1, <3>1
    <3>4. Head(msgs) = msgs[1]
      BY <2>1, <3>1
    <3>5. msgs' = <<>> => Len(msgs) = 1
      <4>1. msgs' = <<>> => Len(msgs') = 0
        OBVIOUS
      <4> QED
        BY <3>2, <4>1
    <3>6. msgs' # <<>> => Len(msgs') \in 1 .. Len(msgs') /\ Len(msgs') + 1 = Len(msgs)
      BY <3>2
    <3>7. msgs' # <<>> => msgs'[Len(msgs')] = msgs[Len(msgs)]
      BY <3>3, <3>6
    <3> QED
      BY <3>2, <3>4, <3>5, <3>7
  <2>4. OwnText(starts) => OwnText(starts)'
    <3> SUFFICES ASSUME OwnText(starts), Posted(starts)
                 PROVE  Last(starts)'
      BY <2>1 DEF OwnText, Posted
    <3>1. msgs[Len(msgs)] = [screen |-> screen, text |-> TextOf(result[starts])] /\ owner[starts] = screen
      BY <2>1 DEF OwnText, Last
    <3>2. ASSUME msgs' = <<>> PROVE tvResult' = TextOf(result[starts])
      <4>1. Head(msgs) = [screen |-> screen, text |-> TextOf(result[starts])]
        BY <2>3, <3>1, <3>2
      <4>2. Head(msgs).screen = screen /\ Head(msgs).text = TextOf(result[starts])
        BY <4>1
      <4> QED
        BY <2>2, <4>2
    <3>3. msgs' # <<>> => msgs'[Len(msgs')] = [screen |-> owner[starts], text |-> TextOf(result[starts])]
      BY <2>3, <3>1
    <3> QED
      BY <2>1, <3>2, <3>3 DEF Last, TextOf
  <2> QED
    BY <1>u, <2>1, <2>4, Zenon
<1>4. CASE StartClick
  <2>1. /\ starts < MaxStarts /\ starts' = starts + 1
        /\ ctl' = [ctl EXCEPT ![starts'] = "exec"] /\ owner' = [owner EXCEPT ![starts'] = screen]
        /\ UNCHANGED <<eng, screen>>
    BY <1>4, Zenon DEF StartClick, StartWhen, nativeVars
  <2>2. starts' \in Runs /\ starts' > starts
    <3>1. starts < MaxStarts /\ starts' = starts + 1 /\ starts \in 0 .. MaxStarts
      BY <1>t, <2>1
    <3> QED
      BY <3>1, StartsAssumption DEF Runs
  <2>3. eng[starts'] = "none"
    BY <2>2 DEF CalmInv, Idle
  <2>4. ctl'[starts'] = "exec" /\ owner'[starts'] = screen' /\ eng'[starts'] = "none"
    BY <1>t, <2>1, <2>2, <2>3
  <2>5. OwnLog(starts)' /\ OwnText(starts)'
    BY <2>4 DEF OwnLog, OwnText, Posted
  <2> QED
    BY <2>5, Zenon DEF OwnVerdict
\* A step of update n, which is the last one.
<1>n. ASSUME NEW n \in Runs, n = starts
      PROVE  OwnLog(n) /\ (wiped \/ OwnText(n))
  BY <1>n, StartsAssumption DEF OwnVerdict, Runs
<1>g. ASSUME NEW n \in Runs, n = starts, starts' = starts, wiped' = wiped, OwnLog(n)',
             OwnLog(n) /\ OwnText(n) => OwnText(n)'
      PROVE  OwnVerdict'
  <2>1. OwnLog(n) /\ (wiped \/ OwnText(n))
    BY <1>n, <1>g
  <2>2. wiped' \/ OwnText(n)'
    BY <1>g, <2>1, Zenon
  <2>3. OwnLog(starts)' /\ (wiped' \/ OwnText(starts)')
    BY <1>g, <2>2 DEF OwnLog, Logged, OwnText, Posted, Last
  <2> QED
    BY <2>3 DEF OwnVerdict
<1>5. ASSUME NEW n \in Runs, ExecClear(n) \/ Clear(n) PROVE OwnVerdict'
  <2>1. /\ ctl[n] = "exec" \/ clearing[n] = "pending"
        /\ ctl' = [ctl EXCEPT ![n] = "sleep"] \/ (ctl' = ctl /\ clearing[n] = "pending")
        /\ UNCHANGED <<starts, owner, eng, screen>> /\ wiped' = wiped
    BY <1>5, Zenon DEF ExecClear, Clear, ClearTo, CtlStep, screenVars, nativeVars, auxVars
  <2>2. n = starts /\ ctl[n] \in {"exec", "sleep"} /\ eng[n] = "none"
    <3>1. ctl[n] \in {"exec", "sleep"}
      BY <2>1 DEF CalmInv, ClearInSleep
    <3>2. n = starts /\ Current(n)
      BY <3>1, OnlyLast
    <3> QED
      BY <3>1, <3>2 DEF Current
  <2>3. ctl'[n] = "sleep"
    BY <1>t, <2>1 DEF CalmInv, ClearInSleep
  <2> QED
    BY <1>g, <2>1, <2>2, <2>3 DEF OwnLog, OwnText, Posted
<1>6. ASSUME NEW n \in Runs, PromptSpawn(n) PROVE OwnVerdict'
  <2>1. /\ clearing[n] = "done" /\ ctl[n] = "sleep" /\ ctl' = [ctl EXCEPT ![n] = "open"]
        /\ eng' = [eng EXCEPT ![n] = "ready"]
        /\ UNCHANGED <<starts, owner, log, screen>> /\ wiped' = wiped
    BY <1>6, Zenon DEF PromptSpawn, SpawnUpdate, CtlStep, screenVars, auxVars
  <2>2. n = starts /\ Current(n)
    BY <2>1, OnlyLast
  <2>3. ctl'[n] = "open" /\ eng'[n] = "ready" /\ log' = <<>>
    BY <1>t, <2>1, <2>2 DEF Current
  <2> QED
    BY <1>g, <2>1, <2>2, <2>3 DEF OwnLog, Logged, OwnText, Posted
<1>7. ASSUME NEW n \in Runs, OpenLog(n) PROVE OwnVerdict'
  <2>1. /\ ctl[n] = "open" /\ ctl' = [ctl EXCEPT ![n] = "read"] /\ next' = [next EXCEPT ![n] = 1]
        /\ UNCHANGED <<starts, owner, eng, result, log, screen>> /\ wiped' = wiped
    BY <1>7, Zenon DEF OpenLog, OpenAt, CtlStep, screenVars, nativeVars, auxVars
  <2>2. n = starts /\ OwnLog(n)
    BY <1>n, <2>1, OnlyLast
  <2>3. ctl'[n] = "read" /\ next'[n] = 1
    BY <1>t, <2>1
  <2> QED
    BY <1>g, <2>1, <2>2, <2>3 DEF OwnLog, Logged, OwnText, Posted
<1>8. ASSUME NEW n \in Runs, ReadLine(n) PROVE OwnVerdict'
  <2>1. UNCHANGED <<starts, owner, eng, result, log, screen, tvResult>> /\ wiped' = wiped
    BY <1>8, Zenon DEF ReadLine, nativeVars, auxVars
  <2>2. n = starts /\ OwnLog(n)
    BY <1>8, LineRead
  <2>3. CASE VerdictLine(n)
    <3>1. /\ eng[n] \in {"stop", "return"} /\ ctl' = ctl /\ next'[n] = 2
          /\ msgs' = Append(msgs, [screen |-> owner[n], text |-> TextOf(result[n])])
      BY <1>t, <2>3 DEF VerdictLine
    <3>2. msgs' # <<>> /\ msgs'[Len(msgs')] = [screen |-> owner[n], text |-> TextOf(result[n])]
      <4> DEFINE M == [screen : 1 .. MaxScreens, text : Texts \ {""}]
                 v == [screen |-> owner[n], text |-> TextOf(result[n])]
      <4>1. msgs \in Seq(M) /\ msgs' = Append(msgs, v)
        BY <1>m, <3>1
      <4> HIDE DEF M, v
      <4>2. msgs' # <<>> /\ msgs'[Len(msgs')] = v
        BY <4>1
      <4> QED
        BY <4>2 DEF v
    <3>3. OwnLog(n)'
      BY <2>1, <2>2, <3>1 DEF OwnLog, Logged, Posted
    <3>4. Last(n)'
      BY <2>1, <3>2 DEF Last, TextOf
    <3> QED
      BY <1>g, <2>1, <2>2, <3>3, <3>4 DEF OwnText
  <2>4. CASE StopLine(n)
    <3>1. ctl[n] = "read" /\ next[n] = 2 /\ eng[n] = "return" /\ ctl'[n] = "stopping" /\ msgs' = msgs
      BY <1>t, <2>4 DEF StopLine
    <3>2. OwnLog(n)'
      BY <2>1, <2>2, <3>1 DEF OwnLog, Logged, Posted
    <3>3. OwnText(n) => OwnText(n)'
      BY <2>1, <3>1 DEF OwnText, Posted, Last
    <3> QED
      BY <1>g, <2>1, <2>2, <3>2, <3>3
  <2> QED
    BY <1>8, <2>3, <2>4, LineRead
<1>9. ASSUME NEW n \in Runs, FinishMonitor(n) PROVE OwnVerdict'
  <2>1. /\ ctl[n] = "stopping" /\ ctl' = [ctl EXCEPT ![n] = "done"]
        /\ UNCHANGED <<starts, owner, next, eng, result, log, screen, msgs, tvResult>> /\ wiped' = wiped
    BY <1>9, Zenon DEF FinishMonitor, FinishWith, CtlStep, nativeVars, auxVars
  <2>2. n = starts /\ OwnLog(n)
    BY <1>n, <2>1, OnlyLast
  <2>3. ctl'[n] = "done"
    BY <1>t, <2>1
  <2> QED
    BY <1>g, <2>1, <2>2, <2>3 DEF OwnLog, Logged, OwnText, Posted, Last
<1>10. ASSUME NEW n \in Runs, StartOTAUpdate(n) \/ (\E res \in {"fail", "end"} : EndUpdate(n, res))
       PROVE  OwnVerdict'
  <2>1. /\ eng[n] \in {"ready", "running"}
        /\ \/ eng' = [eng EXCEPT ![n] = "running"] /\ result' = result
           \/ eng' = [eng EXCEPT ![n] = "verdict"] /\ \E res \in {"fail", "end"} : result' = [result EXCEPT ![n] = res]
        /\ UNCHANGED <<starts, ctl, owner, next, log, screen>> /\ wiped' = wiped
    BY <1>10, Zenon DEF StartOTAUpdate, BeginWith, EndUpdate, screenVars, ctlVars, auxVars
  <2>2. n = starts /\ OwnLog(n)
    BY <1>n, <2>1, OnlyLast
  <2>3. eng'[n] = "running" \/ (eng'[n] = "verdict" /\ result'[n] # "none")
    BY <1>t, <2>1
  <2>4. ~ Posted(n) /\ ~ Posted(n)'
    BY <2>1, <2>2 DEF OwnLog, Posted
  <2>5. OwnLog(n)'
    BY <2>1, <2>2, <2>3, <2>4 DEF OwnLog, Logged
  <2> QED
    BY <1>g, <2>1, <2>2, <2>4, <2>5 DEF OwnText
<1>11. ASSUME NEW n \in Runs, LogVerdict(n) \/ LogStop(n) PROVE OwnVerdict'
  <2>1. /\ \/ eng[n] = "verdict" /\ eng' = [eng EXCEPT ![n] = "stop"] /\ log' = Append(log, Line(result[n], n))
           \/ eng[n] = "stop" /\ eng' = [eng EXCEPT ![n] = "return"] /\ log' = Append(log, Line("STOP", n))
        /\ UNCHANGED <<starts, ctl, owner, next, result, screen, msgs, tvResult>> /\ wiped' = wiped
    BY <1>11, Zenon DEF LogVerdict, LogStop, screenVars, ctlVars, auxVars
  <2>2. n = starts /\ OwnLog(n) /\ Current(n)
    BY <1>n, <2>1, OnlyLast
  <2>3. ctl[n] \in {"open", "read", "stopping", "done"} /\ Logged(n)
    BY <1>t, <2>1, <2>2 DEF Current, OwnLog, CtlPcs
  <2>4. Logged(n)'
    <3>1. \A a, b : Append(<<>>, a) = <<a>> /\ Append(<<a>>, b) = <<a, b>>
      BY AppendPair
    <3>2. CASE eng[n] = "verdict"
      BY <1>t, <2>1, <2>3, <3>1, <3>2 DEF Logged
    <3>3. CASE eng[n] = "stop"
      BY <1>t, <2>1, <2>3, <3>1, <3>3 DEF Logged
    <3> QED
      BY <2>1, <3>2, <3>3
  <2>5. eng'[n] \in {"stop", "return"} /\ result[n] # "none"
    BY <1>t, <2>1, <2>2 DEF OwnLog
  <2>6. OwnLog(n)'
    BY <2>1, <2>2, <2>4, <2>5 DEF OwnLog, Posted
  <2> QED
    BY <1>g, <2>1, <2>2, <2>6 DEF OwnText, Posted, Last
<1> QED
  BY <1>1, <1>2, <1>3, <1>4, <1>5, <1>6, <1>7, <1>8, <1>9, <1>10, <1>11
  DEF CalmNext, User, Controller, Monitor, Engine

\* Once the controller of the last update is over and its messages are handled,
\* the text on the screen is the verdict that update came to, and no other: not
\* what an earlier update logged or posted late, nor an update before this process.
THEOREM VerdictCorrect == CalmSpec => []VerdictIsOwn
<1>1. [CalmNext]_vars => [Next]_vars
  BY DEF CalmNext, Next, Controller, PromptSpawn, Monitor
<1>2. ScreenInv /\ CalmInv /\ OwnVerdict => VerdictIsOwn
  <2> SUFFICES ASSUME ScreenInv, OwnVerdict, starts > 0, ctl[starts] = "done", msgs = <<>>, ~ wiped
               PROVE  result[starts] # "none" /\ tvResult = TextOf(result[starts])
    BY DEF VerdictIsOwn
  <2>1. starts # 0
    BY DEF ScreenInv, TypeOK
  <2>2. OwnLog(starts) /\ OwnText(starts)
    BY <2>1, Zenon DEF OwnVerdict
  <2> QED
    BY <2>2 DEF OwnLog, OwnText, Posted, Last
<1> QED
  BY <1>1, <1>2, ScreenInit, ScreenStep, CalmInvariant, VerdictInit, VerdictStep, PTL DEF CalmSpec

\* While the monitor of an update reads, STOP is before it in the log or will be
\* logged by ota_update(): what it does not find has not been cleared away before
\* it came, so that it cannot wait for ever.
THEOREM MonitorIsFed == CalmSpec => []MonitorFed
<1>1. [CalmNext]_vars => [Next]_vars
  BY DEF CalmNext, Next, Controller, PromptSpawn, Monitor
<1>2. ScreenInv /\ CalmInv /\ OwnVerdict => MonitorFed
  <2> SUFFICES ASSUME ScreenInv, CalmInv, OwnVerdict, NEW n \in Runs, ctl[n] = "read",
                      eng[n] \in {"none", "return"}
               PROVE  next[n] <= Len(log)
    BY DEF MonitorFed
  <2>1. n = starts /\ starts # 0 /\ Current(n)
    BY OnlyLast, StartsAssumption DEF Runs
  <2>2. OwnLog(n) /\ eng[n] = "return"
    BY <2>1 DEF OwnVerdict, Current
  <2>3. log = <<Line(result[n], n), Line("STOP", n)>> /\ next[n] \in {1, 2}
    BY <2>2 DEF OwnLog, Logged
  <2>4. Len(log) = 2
    BY <2>3
  <2> QED
    BY <2>3, <2>4
<1> QED
  BY <1>1, <1>2, ScreenInit, ScreenStep, CalmInvariant, VerdictInit, VerdictStep, PTL DEF CalmSpec

(***************************************************************************)
(* The screen implements UpdateSession, when nothing unexpected happens    *)
(***************************************************************************)

\* The update at work belongs to the instance that is shown, and no update has a
\* result before its end.
Seated ==
  /\ isOTARun => owner[starts] = screen
  /\ \A n \in Runs : eng[n] \in {"none", "ready", "running"} => result[n] = "none"

LEMMA SeatedInit == Init => Seated
<1> SUFFICES ASSUME Init PROVE Seated
  OBVIOUS
<1>1. ~ isOTARun /\ result = [n \in Runs |-> "none"]
  BY Zenon DEF Init
<1> QED
  BY <1>1 DEF Seated

LEMMA SeatedStep == ScreenInv /\ CalmInv /\ Seated /\ [CalmNext]_vars => Seated'
<1> SUFFICES ASSUME ScreenInv, CalmInv, Seated, [CalmNext]_vars PROVE Seated'
  OBVIOUS
<1>t. /\ starts \in 0 .. MaxStarts /\ owner \in [Runs -> 0 .. MaxScreens]
      /\ eng \in [Runs -> EngPcs] /\ result \in [Runs -> {"none", "fail", "end"}]
  BY DEF ScreenInv, TypeOK
<1>1. CASE StartClick
  <2>1. /\ starts < MaxStarts /\ starts' = starts + 1
        /\ owner' = [owner EXCEPT ![starts'] = screen] /\ UNCHANGED <<eng, result, screen>>
    BY <1>1, Zenon DEF StartClick, StartWhen, nativeVars
  <2>2. starts' \in Runs
    <3>1. starts < MaxStarts /\ starts' = starts + 1 /\ starts \in 0 .. MaxStarts
      BY <1>t, <2>1
    <3> QED
      BY <3>1, StartsAssumption DEF Runs
  <2> QED
    BY <1>t, <2>1, <2>2 DEF Seated
<1>2. CASE Launch \/ (\E n \in Runs : FinishMonitor(n))
  <2>1. ~ isOTARun' /\ UNCHANGED <<eng, result>>
    BY <1>2, Zenon DEF Launch, OnCreate, FinishMonitor, FinishWith, nativeVars
  <2> QED
    BY <2>1 DEF Seated
<1>3. CASE \/ (\E f \in Files : FileResult(f)) \/ CleanClick \/ OnBackPressed \/ HandleMessage
           \/ (\E n \in Runs : \/ ExecClear(n) \/ Clear(n) \/ OpenLog(n) \/ ReadLine(n)
                               \/ LogVerdict(n) \/ LogStop(n) \/ ReaderQuits(n))
           \/ UNCHANGED vars
  <2>1. UNCHANGED <<screen, isOTARun, owner, starts, result>>
    BY <1>3, Zenon DEF FileResult, CleanClick, OnBackPressed, HandleMessage, ExecClear, Clear, ClearTo,
       OpenLog, OpenAt, ReadLine, LogVerdict, LogStop, ReaderQuits, vars, screenVars, ctlVars, nativeVars, auxVars
  <2>2. \/ eng' = eng
        \/ \E n \in Runs : eng[n] \in {"verdict", "stop"} /\ \E to \in {"stop", "return"} : eng' = [eng EXCEPT ![n] = to]
    BY <1>3, Zenon DEF FileResult, CleanClick, OnBackPressed, HandleMessage, ExecClear, Clear, ClearTo,
       OpenLog, OpenAt, ReadLine, LogVerdict, LogStop, ReaderQuits, vars, screenVars, ctlVars, nativeVars, auxVars
  <2>3. \A n \in Runs : eng'[n] \in {"none", "ready", "running"} => eng[n] \in {"none", "ready", "running"}
    BY <1>t, <2>2
  <2> QED
    BY <2>1, <2>3 DEF Seated
<1>4. ASSUME NEW n \in Runs,
             PromptSpawn(n) \/ StartOTAUpdate(n) \/ (\E res \in {"fail", "end"} : EndUpdate(n, res))
      PROVE  Seated'
  <2>1. UNCHANGED <<screen, isOTARun, owner, starts>>
    BY <1>4, Zenon DEF PromptSpawn, SpawnUpdate, StartOTAUpdate, BeginWith, EndUpdate, screenVars, ctlVars, auxVars
  <2>2. \/ eng[n] = "none" /\ eng' = [eng EXCEPT ![n] = "ready"] /\ result' = result
        \/ eng[n] = "ready" /\ eng' = [eng EXCEPT ![n] = "running"] /\ result' = result
        \/ /\ eng' = [eng EXCEPT ![n] = "verdict"]
           /\ \E res \in {"fail", "end"} : result' = [result EXCEPT ![n] = res]
    <3>1. PromptSpawn(n) => eng[n] = "none"
      BY OnlyLast DEF PromptSpawn, SpawnUpdate, CtlStep, Current
    <3> QED
      BY <1>4, <3>1, Zenon DEF PromptSpawn, SpawnUpdate, StartOTAUpdate, BeginWith, EndUpdate
  <2> QED
    BY <1>t, <2>1, <2>2 DEF Seated
<1> QED
  BY <1>1, <1>2, <1>3, <1>4 DEF CalmNext, User, Controller, Monitor, Engine

\* What a session is, is not in the steps that only move threads and the log.
LEMMA PhaseKept ==
  ASSUME UNCHANGED <<isOTARun, starts, result>>, isOTARun => (Told(starts)' <=> Told(starts))
  PROVE  Phase' = Phase /\ Verdict' = Verdict
  BY DEF Phase, Verdict, TextOf

LEMMA SessionKept ==
  ASSUME UNCHANGED <<screen, shown, msgs, tvResult, isOTARun, starts, result>>,
         isOTARun => (Told(starts)' <=> Told(starts))
  PROVE  UNCHANGED Session!vars
  BY PhaseKept DEF Session!vars

LEMMA SessionStep ==
  ASSUME ScreenInv, CalmInv, OwnVerdict, Seated, [CalmNext]_vars
  PROVE  Session!Next \/ UNCHANGED Session!vars
<1>t. /\ starts \in 0 .. MaxStarts /\ isOTARun \in BOOLEAN
      /\ ctl \in [Runs -> CtlPcs] /\ next \in [Runs -> Nat]
      /\ eng \in [Runs -> EngPcs] /\ result \in [Runs -> {"none", "fail", "end"}]
  BY DEF ScreenInv, TypeOK
<1>1. CASE StartClick
  <2>1. /\ shown /\ ~ isOTARun /\ isOTARun' = TRUE /\ tvResult' = ""
        /\ starts < MaxStarts /\ starts' = starts + 1 /\ UNCHANGED <<screen, shown, msgs, eng, result>>
    BY <1>1, Zenon DEF StartClick, StartWhen, nativeVars
  <2>2. starts' \in Runs /\ starts' > starts
    <3>1. starts < MaxStarts /\ starts' = starts + 1 /\ starts \in 0 .. MaxStarts
      BY <1>t, <2>1
    <3> QED
      BY <3>1, StartsAssumption DEF Runs
  <2>3. result[starts'] = "none"
    BY <2>2 DEF CalmInv, Idle, Seated
  <2>4. Phase = "idle" /\ Phase' = "running" /\ Verdict' = ""
    BY <2>1, <2>3 DEF Phase, Verdict
  <2> QED
    BY <2>1, <2>4 DEF Session!Begin, Session!Next
<1>2. CASE CleanClick
  <2>1. shown /\ tvResult' = "" /\ UNCHANGED <<screen, shown, msgs, isOTARun, starts>>
        /\ UNCHANGED <<ctl, next, result>>
    BY <1>2, Zenon DEF CleanClick, ctlVars, nativeVars
  <2>2. Phase' = Phase /\ Verdict' = Verdict
    BY <2>1, PhaseKept DEF Told
  <2> QED
    BY <2>1, <2>2 DEF Session!Wipe, Session!Next
<1>3. CASE OnBackPressed
  <2>1. shown /\ ~ isOTARun /\ shown' = FALSE /\ UNCHANGED <<screen, msgs, tvResult, isOTARun, starts>>
        /\ UNCHANGED <<ctl, next, result>>
    BY <1>3, Zenon DEF OnBackPressed, ctlVars, nativeVars, auxVars
  <2>2. Phase' = Phase /\ Verdict' = Verdict
    BY <2>1, PhaseKept DEF Told
  <2>3. Phase = "idle"
    BY <2>1 DEF Phase
  <2> QED
    BY <2>1, <2>2, <2>3 DEF Session!Leave, Session!Next
<1>4. CASE Launch
  <2>1. ~ shown /\ shown' = TRUE /\ screen' = screen + 1 /\ tvResult' = "" /\ isOTARun' = FALSE
        /\ UNCHANGED <<msgs, starts>> /\ UNCHANGED <<ctl, next, result>>
    BY <1>4, Zenon DEF Launch, OnCreate, ctlVars, nativeVars
  <2>2. ~ isOTARun
    BY <2>1 DEF CalmInv
  <2>3. Phase' = Phase /\ Verdict' = Verdict
    BY <1>t, <2>1, <2>2, PhaseKept DEF Told
  <2> QED
    BY <2>1, <2>3 DEF Session!Return, Session!Next
<1>5. CASE HandleMessage
  <2>1. /\ msgs # <<>> /\ msgs' = Tail(msgs)
        /\ tvResult' = IF Head(msgs).screen = screen THEN Head(msgs).text ELSE tvResult
        /\ UNCHANGED <<screen, shown, isOTARun, starts>> /\ UNCHANGED <<ctl, next, result>>
    BY <1>5, Zenon DEF HandleMessage, ctlVars, nativeVars, auxVars
  <2>2. Phase' = Phase /\ Verdict' = Verdict
    BY <2>1, PhaseKept DEF Told
  <2> QED
    BY <2>1, <2>2 DEF Session!Show, Session!Next
<1>6. CASE (\E f \in Files : FileResult(f)) \/ (\E n \in Runs : ReaderQuits(n) \/ LogVerdict(n) \/ LogStop(n))
           \/ UNCHANGED vars
  <2>1. UNCHANGED <<screen, shown, msgs, tvResult, isOTARun, starts, result>> /\ UNCHANGED <<ctl, next>>
    BY <1>6, Zenon DEF FileResult, ReaderQuits, LogVerdict, LogStop, vars, screenVars, ctlVars, nativeVars, auxVars
  <2> QED
    BY <2>1, SessionKept DEF Told
<1>7. ASSUME NEW n \in Runs, ExecClear(n) \/ Clear(n) \/ PromptSpawn(n) \/ OpenLog(n)
      PROVE  UNCHANGED Session!vars
  <2>1. UNCHANGED <<screen, shown, msgs, tvResult, isOTARun, starts, result>>
    BY <1>7, Zenon DEF ExecClear, Clear, ClearTo, PromptSpawn, SpawnUpdate, OpenLog, OpenAt,
       screenVars, nativeVars, auxVars
  <2>2. /\ ctl[n] \in {"exec", "sleep", "open"} \/ clearing[n] = "pending"
        /\ \/ ctl' = ctl /\ clearing[n] = "pending"
           \/ \E to \in {"sleep", "open"} : ctl' = [ctl EXCEPT ![n] = to]
           \/ ctl' = [ctl EXCEPT ![n] = "read"] /\ next' = [next EXCEPT ![n] = 1]
    BY <1>7, Zenon DEF ExecClear, Clear, ClearTo, PromptSpawn, SpawnUpdate, OpenLog, OpenAt, CtlStep
  <2>3. ctl[n] \in {"exec", "sleep", "open"} /\ (clearing[n] = "pending" => ctl[n] = "sleep")
    BY <2>2 DEF CalmInv, ClearInSleep
  <2>4. n = starts
    BY <2>3, OnlyLast
  <2>5. ~ Told(n) /\ ~ Told(n)'
    BY <1>t, <2>2, <2>3 DEF Told
  <2>6. Told(starts)' <=> Told(starts)
    BY <2>1, <2>4, <2>5 DEF Told
  <2> QED
    BY <2>1, <2>6, SessionKept
<1>8. ASSUME NEW n \in Runs, ReadLine(n) PROVE Session!Next \/ UNCHANGED Session!vars
  <2>1. n = starts /\ (VerdictLine(n) \/ StopLine(n)) /\ OwnLog(n)
    BY <1>8, LineRead
  <2>2. UNCHANGED <<screen, shown, tvResult, isOTARun, starts, result>>
    BY <1>8, Zenon DEF ReadLine, nativeVars, auxVars
  <2>3. isOTARun
    BY <2>1, StartsAssumption DEF VerdictLine, StopLine, CalmInv, Runs
  <2>4. CASE VerdictLine(n)
    <3>1. Phase = "ended" /\ Phase' = "told" /\ Verdict = TextOf(result[n]) /\ Verdict' = Verdict
      <4>1. ~ Told(n) /\ Told(n)' /\ result[n] # "none"
        BY <1>t, <2>4 DEF VerdictLine, Told
      <4>2. n = starts /\ starts # 0
        BY <2>1, StartsAssumption DEF Runs
      <4> QED
        BY <2>2, <2>3, <4>1, <4>2 DEF Phase, Told, Verdict, TextOf
    <3>2. msgs' = Append(msgs, [screen |-> screen, text |-> Verdict])
      BY <2>1, <2>3, <2>4, <3>1 DEF VerdictLine, Seated
    <3> QED
      BY <2>2, <3>1, <3>2 DEF Session!Tell, Session!Next
  <2>5. CASE StopLine(n)
    <3>1. msgs' = msgs /\ Told(n) /\ Told(n)'
      BY <1>t, <2>5 DEF StopLine, Told
    <3>2. Told(starts) /\ Told(starts)'
      BY <2>1, <2>2, <3>1 DEF Told
    <3> QED
      BY <2>2, <3>1, <3>2, SessionKept
  <2> QED
    BY <2>1, <2>4, <2>5
<1>9. ASSUME NEW n \in Runs, FinishMonitor(n) PROVE Session!Next
  <2>1. ctl[n] = "stopping" /\ isOTARun' = FALSE /\ UNCHANGED <<screen, shown, msgs, tvResult, starts, result>>
    BY <1>9, Zenon DEF FinishMonitor, FinishWith, CtlStep, nativeVars, auxVars
  <2>2. n = starts /\ starts # 0
    BY <2>1, OnlyLast, StartsAssumption DEF Runs
  <2>3. isOTARun /\ result[n] # "none"
    BY <2>1, <2>2 DEF CalmInv, OwnVerdict, OwnLog, Posted
  <2>4. Phase = "told" /\ Phase' = "idle" /\ Verdict' = Verdict
    BY <2>1, <2>2, <2>3 DEF Phase, Told, Verdict, TextOf
  <2> QED
    BY <2>1, <2>4 DEF Session!Release, Session!Next
<1>10. ASSUME NEW n \in Runs, StartOTAUpdate(n) \/ (\E res \in {"fail", "end"} : EndUpdate(n, res))
       PROVE  Session!Next \/ UNCHANGED Session!vars
  <2>1. /\ eng[n] \in {"ready", "running"}
        /\ UNCHANGED <<screen, shown, msgs, tvResult, isOTARun, starts>> /\ UNCHANGED <<ctl, next>>
        /\ result' = result \/ \E res \in {"fail", "end"} : result' = [result EXCEPT ![n] = res]
    BY <1>10, Zenon DEF StartOTAUpdate, BeginWith, EndUpdate, screenVars, ctlVars, auxVars
  <2>2. n = starts /\ starts # 0 /\ Current(n)
    BY <2>1, OnlyLast, StartsAssumption DEF Runs
  <2>3. result[n] = "none" /\ isOTARun /\ ~ Told(n)
    <3>1. ctl[n] # "done" /\ ~ Told(n)
      BY <2>1, <2>2 DEF Current, OwnVerdict, OwnLog, Posted, Told
    <3> QED
      BY <2>1, <2>2, <3>1 DEF Seated, CalmInv
  <2>4. CASE result' = result
    BY <2>1, <2>4, SessionKept DEF Told
  <2>5. ASSUME NEW res \in {"fail", "end"}, result' = [result EXCEPT ![n] = res] PROVE Session!Next
    <3>1. result'[n] = res /\ ~ Told(n)'
      BY <1>t, <2>1, <2>3, <2>5 DEF Told
    <3>2. Phase = "running" /\ Phase' = "ended" /\ Verdict' \in {"Fail", "Success"}
      BY <2>1, <2>2, <2>3, <3>1 DEF Phase, Verdict, TextOf, Told
    <3> QED
      BY <2>1, <3>2 DEF Session!Conclude, Session!Next
  <2> QED
    BY <2>1, <2>4, <2>5
<1> QED
  BY <1>1, <1>2, <1>3, <1>4, <1>5, <1>6, <1>7, <1>8, <1>9, <1>10 DEF CalmNext, User, Controller, Monitor, Engine

\* The main screen, its controllers, the log and the engines are a series of
\* updates as the user expects it: none is started or left behind before the last
\* one is over, the screen is told the verdict of each, once, after the update came
\* to it and before Start and Back work again, and it shows what it was told.
THEOREM SessionRefinement == CalmSpec => SessionSpec
<1>1. Init => Session!Init
  BY DEF Init, Session!Init, Phase, Verdict
<1>2. ScreenInv /\ CalmInv /\ OwnVerdict /\ Seated /\ [CalmNext]_vars => [Session!Next]_(Session!vars)
  BY SessionStep
<1>3. [CalmNext]_vars => [Next]_vars
  BY DEF CalmNext, Next, Controller, PromptSpawn, Monitor
<1> QED
  BY <1>1, <1>2, <1>3, ScreenInit, ScreenStep, CalmInvariant, VerdictInit, VerdictStep, SeatedInit, SeatedStep, PTL
  DEF CalmSpec, SessionSpec, Session!Spec
=============================================================================
