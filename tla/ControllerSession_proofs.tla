---------------------- MODULE ControllerSession_proofs ----------------------
(***************************************************************************)
(* Proofs about the life of a connection, for any devices and data servers,*)
(* any holdoff and any number of runs.                                     *)
(*                                                                         *)
(* Ordered says which call can be where; Filled that the results of a run  *)
(* are prepared before anything is executed; Held that a controller the    *)
(* session relies on never loses what it needs.  The last one holds only   *)
(* if no run disconnects (DisconnectAfterRun): see the README.             *)
(***************************************************************************)
EXTENDS ControllerSession, TLAPS

Ordered ==
  /\ pc = "ready" <=> op = "none"
  /\ pc \in {"connect", "devices", "configure"} => op \in {"connect", "run"}
  /\ pc \in {"execute", "end"} => op = "run"
  /\ pc \in {"reset", "leave"} => op = "disconnect" \/ (op = "run" /\ DisconnectAfterRun)
  /\ op = "run" => runs > 0 /\ connected
  /\ op = "disconnect" => ~connected
  /\ connected => ctl # None
Filled ==
  /\ op = "run" /\ pc \notin {"connect", "devices", "configure"} => work.results = runs
  /\ shown # None => shown = runs

TypeInv == TypeOK /\ Ordered /\ Filled

(* What a new controller has reached on its way to a connection.           *)
Arriving ==
  /\ pc = "connect" => work.checkTs = None /\ ~work.monitorStarted
  /\ pc = "devices" => /\ ~work.monitorStarted
                       /\ Devices \ todo \subseteq work.connected \cap work.monitored
  /\ pc = "configure" => Usable(work)
Held ==
  /\ connected => Usable(ctl)
  /\ op = "run" => Usable(work)
  /\ op = "connect" => Arriving

-----------------------------------------------------------------------------
LEMMA NewControllerType == NewController \in Controllers
  BY BoundsAssumption DEF NewController, Controllers

(* A call that raises leaves a controller behind.                          *)
LEMMA RaiseType ==
  ASSUME TypeInv, NEW c \in Controllers, Raise(c), pc # "ready"
  PROVE  TypeInv'
<1>1. /\ pc' = "ready" /\ op' = "none" /\ reconnect' = FALSE /\ todo' = {} /\ work' = c
      /\ ctl' = IF op = "connect" THEN ctl ELSE c
      /\ UNCHANGED <<startTs, connected, runs, shown, now>>
  BY DEF Raise
<1>2. c # None
  BY NoneAssumption
<1>3. TypeOK'
  BY <1>1 DEF TypeInv, TypeOK
<1>4. Ordered' /\ Filled'
  BY <1>1, <1>2 DEF TypeInv, TypeOK, Ordered, Filled
<1> QED
  BY <1>3, <1>4 DEF TypeInv

(* The connection has been established, or found to be.                    *)
LEMMA ConnectReturnsType ==
  ASSUME TypeInv, ConnectReturns(work), pc \in {"connect", "configure"},
         UNCHANGED <<reconnect, todo, startTs, runs, shown, now>>
  PROVE  TypeInv'
<1> DEFINE checked == [work EXCEPT !.checkTs = startTs]
           prepared == [checked EXCEPT !.results = runs]
<1>1. checked \in Controllers /\ prepared \in Controllers /\ prepared.results = runs
  BY DEF TypeInv, TypeOK, Controllers
<1>2. checked # None
  BY <1>1, NoneAssumption
<1> HIDE DEF checked, prepared
<1>0. now' = now /\ runs \in 0 .. MaxRuns
  BY BoundsAssumption DEF TypeInv, TypeOK, Ordered
<1>3. CASE op = "connect"
  <2>1. pc' = "ready" /\ op' = "none" /\ work' = checked /\ ctl' = checked /\ connected' = TRUE
    BY <1>3 DEF ConnectReturns, checked
  <2>2. TypeOK'
    BY <1>0, <1>1, <2>1 DEF TypeInv, TypeOK
  <2>3. Ordered' /\ Filled'
    BY <1>0, <1>2, <2>1 DEF TypeInv, Ordered, Filled
  <2> QED
    BY <2>2, <2>3 DEF TypeInv
<1>4. CASE op # "connect"
  <2>1. pc' = "execute" /\ op' = op /\ work' = prepared /\ UNCHANGED <<ctl, connected>>
    BY <1>4 DEF ConnectReturns, checked, prepared
  <2>2. op = "run"
    BY <1>4 DEF TypeInv, Ordered
  <2>3. TypeOK'
    BY <1>0, <1>1, <2>1, <2>2 DEF TypeInv, TypeOK
  <2>4. Ordered' /\ Filled'
    BY <1>0, <1>1, <2>1, <2>2 DEF TypeInv, Ordered, Filled
  <2> QED
    BY <2>3, <2>4 DEF TypeInv
<1> QED
  BY <1>3, <1>4

(* Another controller is disconnected, the session is not connected.       *)
LEMMA BeginDisconnectType ==
  ASSUME TypeInv, pc = "ready", ctl # None, BeginDisconnect(ctl), reconnect' \in BOOLEAN,
         connected' = FALSE, UNCHANGED <<startTs, ctl, runs, shown, now>>
  PROVE  TypeInv'
<1>1. ctl \in Controllers /\ ctl.daqs \subseteq Servers
  BY DEF TypeInv, TypeOK, Controllers
<1>2. op' = "disconnect" /\ work' = ctl /\ pc' = "reset" /\ todo' = ctl.daqs
  BY DEF BeginDisconnect
<1> QED
  BY <1>1, <1>2 DEF TypeInv, TypeOK, Ordered, Filled

LEMMA BeginConnectType ==
  ASSUME TypeInv, BeginConnect, pc = "ready" \/ op = "disconnect",
         connected => ctl' # None, ctl' \in Controllers \cup {None}, todo' \subseteq Devices \cup Servers,
         UNCHANGED <<connected, runs, shown, now>>
  PROVE  TypeInv'
<1>1. op' = "connect" /\ work' = NewController /\ startTs' = now /\ pc' = "connect" /\ reconnect' = FALSE
  BY DEF BeginConnect
<1> QED
  BY <1>1, NewControllerType DEF TypeInv, TypeOK, Ordered, Filled

(* One step of a loop: the controller changes, but not its results.        *)
LEMMA LoopType ==
  ASSUME TypeInv, work' \in Controllers, work'.results = work.results,
         todo' \subseteq Devices \cup Servers, pc # "ready",
         \/ {pc, pc'} \subseteq {"connect", "devices", "configure"}
         \/ {pc, pc'} \subseteq {"reset", "leave"},
         UNCHANGED <<op, reconnect, startTs, connected, ctl, runs, shown, now>>
  PROVE  TypeInv'
<1>1. TypeOK'
  BY DEF TypeInv, TypeOK
<1>2. Ordered' /\ Filled'
  BY DEF TypeInv, Ordered, Filled
<1> QED
  BY <1>1, <1>2 DEF TypeInv

(* What the steps of a call make of a controller is one.                   *)
LEMMA ControllerSwitches ==
  ASSUME TypeOK
  PROVE  /\ work \in Controllers
         /\ [work EXCEPT !.daqs = Servers] \in Controllers
         /\ [work EXCEPT !.subscribed = work.monitored] \in Controllers
         /\ [work EXCEPT !.subscribed = work.monitored, !.monitorStarted = TRUE] \in Controllers
         /\ [work EXCEPT !.monitorStarted = FALSE] \in Controllers
         /\ [work EXCEPT !.daqs = {}, !.checkTs = None] \in Controllers
         /\ Finally(work) \in Controllers
         /\ work.connected \subseteq Devices /\ work.daqs \subseteq Servers
  BY DEF TypeOK, Controllers, Finally

(* The same for the steps of the loops, which visit a device or a server.  *)
LEMMA DeviceSwitches ==
  ASSUME NEW c \in Controllers, NEW d \in Devices
  PROVE  LET joined == [c EXCEPT !.connected = @ \cup {d}, !.monitored = @ \cup {d}]
             left == [c EXCEPT !.connected = @ \ {d}]
         IN  /\ joined \in Controllers /\ joined.results = c.results
             /\ left \in Controllers /\ left.results = c.results
  BY DEF Controllers

LEMMA ServerSwitches ==
  ASSUME NEW c \in Controllers, NEW s \in Servers
  PROVE  LET reset == [c EXCEPT !.subscribed = @ \ Of(s), !.monitored = @ \ Of(s)]
         IN  reset \in Controllers /\ reset.results = c.results
  BY DEF Controllers

LEMMA InitType == Init => TypeInv
<1> SUFFICES ASSUME Init PROVE TypeInv
  OBVIOUS
<1>1. runs = 0 /\ now = 0 /\ startTs = 0 /\ work \in Controllers
  BY NewControllerType DEF Init
<1>2. /\ pc = "ready" /\ op = "none" /\ reconnect = FALSE /\ todo = {} /\ connected = FALSE
      /\ ctl = None /\ shown = None
  BY DEF Init
<1>3. 0 \in 0 .. MaxTime /\ 0 \in 0 .. MaxRuns
  BY BoundsAssumption
<1>4. TypeOK
  BY <1>1, <1>2, <1>3 DEF TypeOK
<1>5. Ordered /\ Filled
  BY <1>1, <1>2 DEF Ordered, Filled
<1> QED
  BY <1>4, <1>5 DEF TypeInv

LEMMA StepType == TypeInv /\ [Next]_vars => TypeInv'
<1> SUFFICES ASSUME TypeInv, [Next]_vars PROVE TypeInv'
  OBVIOUS
<1>0. TypeOK /\ Ordered /\ Filled
  BY DEF TypeInv
<1>1. ASSUME NEW same \in BOOLEAN, SessionConnect(same) PROVE TypeInv'
  <2>1. CASE connected /\ ~same
    BY <1>0, <1>1, <2>1, BeginDisconnectType DEF SessionConnect, Ordered
  <2>2. CASE ~(connected /\ ~same)
    BY <1>0, <1>1, <2>2, BeginConnectType DEF SessionConnect, Ordered, TypeOK
  <2> QED
    BY <2>1, <2>2
<1>2. CASE SessionDisconnect
  BY <1>2, BeginDisconnectType DEF SessionDisconnect
<1>3. CASE SessionCompile
  BY <1>0, <1>3 DEF SessionCompile, call, TypeInv, TypeOK, Ordered, Filled
<1>4. CASE SessionRun
  <2>1. /\ pc = "ready" /\ connected /\ runs < MaxRuns /\ runs' = runs + 1 /\ shown' = None
        /\ op' = "run" /\ work' = ctl /\ startTs' = now /\ pc' = "connect"
        /\ UNCHANGED <<reconnect, todo, connected, ctl, now>>
    BY <1>4 DEF SessionRun
  <2>2. runs' \in 0 .. MaxRuns /\ runs' > 0 /\ work' \in Controllers
    BY <1>0, <2>1, BoundsAssumption DEF TypeOK, Ordered
  <2>3. TypeOK'
    BY <1>0, <2>1, <2>2 DEF TypeOK
  <2>4. Ordered' /\ Filled'
    BY <1>0, <2>1, <2>2 DEF Ordered, Filled
  <2> QED
    BY <2>3, <2>4 DEF TypeInv
<1>5. CASE SkipCheck \/ ConfigureSetup
  <2>1. /\ ConnectReturns(work) /\ pc \in {"connect", "configure"}
        /\ UNCHANGED <<reconnect, todo, startTs, runs, shown, now>>
    BY <1>5 DEF SkipCheck, ConfigureSetup
  <2> QED
    BY <2>1, ConnectReturnsType
<1>6. CASE PrepareDaqs \/ StartMonitor
  <2>1. /\ work' \in Controllers /\ work'.results = work.results
        /\ {pc, pc'} \subseteq {"connect", "devices", "configure"}
        /\ UNCHANGED <<op, reconnect, startTs, connected, ctl, runs, shown, now>>
        /\ todo' \subseteq Devices \cup Servers
    BY <1>0, <1>6, ControllerSwitches DEF PrepareDaqs, StartMonitor, session, TypeOK, Controllers
  <2> QED
    BY <2>1, LoopType
<1>7. ASSUME NEW d \in Devices, ConnectDevice(d) \/ DisconnectDevice(d) PROVE TypeInv'
  <2>0. work \in Controllers /\ todo \subseteq Devices \cup Servers
    BY <1>0 DEF TypeOK
  <2>1. /\ work' \in Controllers /\ work'.results = work.results
        /\ todo' \subseteq Devices \cup Servers
    <3>1. CASE ConnectDevice(d)
      BY <2>0, <3>1, DeviceSwitches DEF ConnectDevice
    <3>2. CASE DisconnectDevice(d)
      BY <2>0, <3>2, DeviceSwitches DEF DisconnectDevice
    <3> QED
      BY <1>7, <3>1, <3>2
  <2>2. /\ \/ {pc, pc'} \subseteq {"connect", "devices", "configure"}
           \/ {pc, pc'} \subseteq {"reset", "leave"}
        /\ UNCHANGED <<op, reconnect, startTs, connected, ctl, runs, shown, now>>
    BY <1>7 DEF ConnectDevice, DisconnectDevice, session
  <2> QED
    BY <2>1, <2>2, LoopType
<1>8. ASSUME NEW s \in Servers, ResetMonitor(s) PROVE TypeInv'
  <2>0. work \in Controllers /\ todo \subseteq Devices \cup Servers
    BY <1>0 DEF TypeOK
  <2>1. /\ work' \in Controllers /\ work'.results = work.results
        /\ todo' \subseteq Devices \cup Servers
    BY <1>8, <2>0, ServerSwitches DEF ResetMonitor
  <2>2. /\ {pc, pc'} \subseteq {"reset", "leave"}
        /\ UNCHANGED <<op, reconnect, startTs, connected, ctl, runs, shown, now>>
    BY <1>8 DEF ResetMonitor, session
  <2> QED
    BY <2>1, <2>2, LoopType
<1>9. CASE MonitorIsReset
  <2>1. /\ work' = [work EXCEPT !.monitorStarted = FALSE] /\ todo' = work.connected
        /\ {pc, pc'} \subseteq {"reset", "leave"}
        /\ UNCHANGED <<op, reconnect, startTs, connected, ctl, runs, shown, now>>
    BY <1>9 DEF MonitorIsReset, session
  <2>2. work' \in Controllers /\ work'.results = work.results /\ todo' \subseteq Devices \cup Servers
    BY <1>0, <2>1, ControllerSwitches DEF Controllers
  <2> QED
    BY <2>1, <2>2, LoopType
<1>10. CASE Execute
  <2>1. /\ pc = "execute" /\ pc' = "end" /\ work' = Finally(work) /\ work' \in Controllers
        /\ work'.results = work.results
        /\ UNCHANGED <<op, reconnect, todo, startTs, connected, ctl, runs, shown, now>>
    BY <1>0, <1>10, ControllerSwitches DEF Execute, Finally, Controllers, session
  <2> QED
    BY <1>0, <2>1 DEF TypeInv, TypeOK, Ordered, Filled
<1>11. CASE ExperimentEnds
  <2>0. /\ pc = "end" /\ op = "run" /\ work.results = runs /\ runs > 0
        /\ UNCHANGED <<reconnect, startTs, work, connected, runs, now>>
    BY <1>0, <1>11 DEF ExperimentEnds, Ordered, Filled
  <2>1. CASE DisconnectAfterRun
    <3>1. pc' = "reset" /\ todo' = work.daqs /\ UNCHANGED <<op, ctl, shown>>
      BY <1>11, <2>1 DEF ExperimentEnds
    <3>2. todo' \subseteq Servers
      BY <1>0, <3>1, ControllerSwitches
    <3> QED
      BY <1>0, <2>0, <2>1, <3>1, <3>2 DEF TypeInv, TypeOK, Ordered, Filled
  <2>2. CASE ~DisconnectAfterRun
    <3>1. pc' = "ready" /\ op' = "none" /\ todo' = {} /\ ctl' = work /\ shown' = work.results
      BY <1>11, <2>2 DEF ExperimentEnds
    <3>2. work # None /\ shown' \in 1 .. MaxRuns
      BY <1>0, <2>0, <3>1, NoneAssumption DEF TypeOK
    <3>3. TypeOK'
      BY <1>0, <2>0, <3>1, <3>2 DEF TypeOK
    <3>4. Ordered' /\ Filled'
      BY <1>0, <2>0, <3>1, <3>2 DEF Ordered, Filled
    <3> QED
      BY <3>3, <3>4 DEF TypeInv
  <2> QED
    BY <2>1, <2>2
<1>12. CASE StartMonitorRaises \/ ConnectRaises \/ ExecuteRaises \/ ExperimentEndRaises
  <2>1. PICK c \in Controllers : Raise(c)
    BY <1>0, <1>12, ControllerSwitches
    DEF StartMonitorRaises, ConnectRaises, ExecuteRaises, ExperimentEndRaises
  <2>2. pc # "ready"
    BY <1>12 DEF StartMonitorRaises, ConnectRaises, ExecuteRaises, ExperimentEndRaises
  <2> QED
    BY <2>1, <2>2, RaiseType
<1>13. ASSUME NEW d \in Devices, DisconnectDeviceRaises(d) PROVE TypeInv'
  BY <1>0, <1>13, RaiseType, ControllerSwitches DEF DisconnectDeviceRaises
<1>14. ASSUME NEW s \in Servers, ResetMonitorRaises(s) PROVE TypeInv'
  <2>1. [work EXCEPT !.subscribed = @ \ Of(s)] \in Controllers
    BY <1>0 DEF TypeOK, Controllers
  <2> QED
    BY <1>14, <2>1, RaiseType DEF ResetMonitorRaises
<1>15. CASE Disconnected
  <2> DEFINE c == [work EXCEPT !.daqs = {}, !.checkTs = None]
  <2>1. c \in Controllers /\ c # None /\ c.results = work.results
    BY <1>0, ControllerSwitches, NoneAssumption DEF Controllers
  <2>2. pc = "leave" /\ UNCHANGED <<todo, connected, runs, now>>
    BY <1>15 DEF Disconnected
  <2>3. CASE op = "run"
    <3>1. /\ pc' = "ready" /\ op' = "none" /\ work' = c /\ ctl' = c
          /\ shown' = c.results /\ UNCHANGED <<reconnect, startTs>>
      BY <1>15, <2>3 DEF Disconnected
    <3>2. c.results = runs /\ c.results \in 1 .. MaxRuns
      BY <1>0, <2>1, <2>2, <2>3 DEF TypeOK, Ordered, Filled
    <3> HIDE DEF c
    <3>3. TypeOK'
      BY <1>0, <2>1, <2>2, <3>1, <3>2 DEF TypeOK
    <3>4. Ordered' /\ Filled'
      BY <1>0, <2>1, <2>2, <3>1, <3>2 DEF Ordered, Filled
    <3> QED
      BY <3>3, <3>4 DEF TypeInv
  <2>4. CASE op # "run"
    <3>1. op = "disconnect" /\ ~connected
      BY <1>0, <2>2, <2>4 DEF Ordered
    <3>2. ctl' = None /\ shown' = shown
      BY <1>15, <2>4 DEF Disconnected
    <3>3. CASE reconnect
      <4>1. BeginConnect
        BY <1>15, <2>4, <3>3 DEF Disconnected
      <4> QED
        BY <1>0, <2>2, <3>1, <3>2, <4>1, BeginConnectType DEF TypeOK
    <3>4. CASE ~reconnect
      <4>1. pc' = "ready" /\ op' = "none" /\ work' = c /\ UNCHANGED <<reconnect, startTs>>
        BY <1>15, <2>4, <3>4 DEF Disconnected
      <4> HIDE DEF c
      <4> QED
        BY <1>0, <2>1, <2>2, <3>1, <3>2, <4>1 DEF TypeInv, TypeOK, Ordered, Filled
    <3> QED
      BY <3>3, <3>4
  <2> QED
    BY <2>3, <2>4
<1>16. CASE Tick
  <2>1. /\ now' = now + 1 /\ now < MaxTime
        /\ UNCHANGED <<call, session>>
    BY <1>16 DEF Tick
  <2>2. now' \in 0 .. MaxTime
    BY <1>0, <2>1, BoundsAssumption DEF TypeOK, Ordered
  <2>3. TypeOK'
    BY <1>0, <2>1, <2>2 DEF TypeOK, call, session
  <2>4. Ordered' /\ Filled'
    BY <1>0, <2>1, <2>2 DEF Ordered, Filled, call, session
  <2> QED
    BY <2>3, <2>4 DEF TypeInv
<1>17. CASE UNCHANGED vars
  BY <1>0, <1>17 DEF vars, call, session, TypeInv, TypeOK, Ordered, Filled
<1> QED
  BY <1>1, <1>2, <1>3, <1>4, <1>5, <1>6, <1>7, <1>8, <1>9, <1>10, <1>11, <1>12, <1>13, <1>14,
     <1>15, <1>16, <1>17
  DEF Next

(* Every variable of a session has its type.                               *)
THEOREM Typing == Spec => []TypeOK
<1>1. TypeInv => TypeOK
  BY DEF TypeInv
<1> QED
  BY <1>1, InitType, StepType, PTL DEF Spec

(* What a session shows are the results of its last run                    *)
(* (ResultsOfLastRun), whatever has raised in the runs before it and with  *)
(* or without a disconnect at the end of each.                             *)
THEOREM Results == Spec => []ResultsOfLastRun
<1>1. TypeInv => ResultsOfLastRun
  BY DEF TypeInv, Filled, ResultsOfLastRun
<1> QED
  BY <1>1, InitType, StepType, PTL DEF Spec

-----------------------------------------------------------------------------
(***************************************************************************)
(* What a connection holds, when no run disconnects.                       *)
(***************************************************************************)

LEMMA InitHeld == Init => Held
  BY DEF Init, Held

LEMMA StepHeld ==
  ASSUME ~DisconnectAfterRun
  PROVE  TypeInv /\ Held /\ [Next]_vars => Held'
<1> SUFFICES ASSUME TypeInv, Held, [Next]_vars PROVE Held'
  OBVIOUS
<1>0. TypeOK /\ Ordered
  BY DEF TypeInv
\* The calls that change the controller of a session that is not connected.
<1>1. ASSUME ~connected', op' \in {"none", "disconnect"} PROVE Held'
  BY <1>1 DEF Held
<1>2. ASSUME op' = "connect", pc' = "connect", work' = NewController, connected => ctl' = ctl,
             connected' = connected
      PROVE  Held'
  BY <1>2 DEF Held, Arriving, NewController
\* A call that raises keeps the controller of a connected session usable.
<1>3. ASSUME NEW c \in Controllers, Raise(c), pc # "ready", op = "run" => Usable(c) PROVE Held'
  <2>1. op' = "none" /\ ctl' = (IF op = "connect" THEN ctl ELSE c) /\ connected' = connected
    BY <1>3 DEF Raise
  <2>2. connected => Usable(ctl')
    <3>1. CASE op \in {"connect", "run"}
      BY <1>3, <2>1, <3>1 DEF Held
    <3>2. CASE op = "disconnect"
      BY <1>0, <3>2 DEF Ordered
    <3>3. op \in {"none", "connect", "run", "disconnect"} /\ op # "none"
      BY <1>0, <1>3 DEF TypeOK, Ordered
    <3> QED
      BY <3>1, <3>2, <3>3
  <2> QED
    BY <2>1, <2>2 DEF Held
\* A step within a call that leaves the session as it is.
<1>4. ASSUME UNCHANGED <<op, connected, ctl>>, op = "run" => Usable(work'), op = "connect" => Arriving'
      PROVE  Held'
  BY <1>4 DEF Held, Usable
<1>5. ASSUME NEW same \in BOOLEAN, SessionConnect(same) PROVE Held'
  <2>1. CASE connected /\ ~same
    BY <1>1, <1>5, <2>1 DEF SessionConnect, BeginDisconnect
  <2>2. CASE ~(connected /\ ~same)
    BY <1>2, <1>5, <2>2 DEF SessionConnect, BeginConnect
  <2> QED
    BY <2>1, <2>2
<1>6. CASE SessionDisconnect
  BY <1>1, <1>6 DEF SessionDisconnect, BeginDisconnect
<1>7. CASE SessionRun
  BY <1>7 DEF SessionRun, Held, Usable
<1>8. CASE SessionCompile \/ UNCHANGED vars
  BY <1>8 DEF SessionCompile, vars, call, session, Held, Arriving, Usable
<1>9. CASE Tick
  BY <1>9 DEF Tick, call, session, Held, Arriving, Usable
<1>10. CASE SkipCheck \/ ConfigureSetup
  <2> DEFINE checked == [work EXCEPT !.checkTs = startTs]
  <2>1. ConnectReturns(work) /\ pc \in {"connect", "configure"} /\ op \in {"connect", "run"}
    BY <1>0, <1>10 DEF SkipCheck, ConfigureSetup, Ordered
  <2>2. Usable(work)
    <3>1. CASE SkipCheck
      BY <2>1, <3>1 DEF SkipCheck, CheckIsDue, Held, Arriving
    <3>2. CASE ConfigureSetup
      BY <2>1, <3>2 DEF ConfigureSetup, Held, Arriving
    <3> QED
      BY <1>10, <3>1, <3>2
  <2>3. Usable(checked) /\ Usable([checked EXCEPT !.results = runs])
    BY <1>0, <2>2 DEF Usable, TypeOK, Controllers
  <2> HIDE DEF checked
  <2>4. CASE op = "connect"
    <3>1. op' = "none" /\ ctl' = checked
      BY <2>1, <2>4 DEF ConnectReturns, checked
    <3> QED
      BY <2>3, <3>1 DEF Held
  <2>5. CASE op = "run"
    <3>1. op' = op /\ work' = [checked EXCEPT !.results = runs] /\ UNCHANGED <<ctl, connected>>
      BY <2>1, <2>5 DEF ConnectReturns, checked
    <3> QED
      BY <1>4, <2>3, <2>5, <3>1
  <2> QED
    BY <2>1, <2>4, <2>5
<1>11. CASE PrepareDaqs
  <2>1. /\ pc = "connect" /\ pc' = "devices" /\ todo' = Devices
        /\ work' = [work EXCEPT !.daqs = Servers] /\ UNCHANGED <<op, connected, ctl>>
    BY <1>11 DEF PrepareDaqs, session
  <2>2. op = "run" => Usable(work')
    BY <1>0, <2>1 DEF Held, Usable, TypeOK, Controllers
  <2>3. op = "connect" => Arriving'
    BY <1>0, <2>1 DEF Held, Arriving, TypeOK, Controllers
  <2> QED
    BY <1>4, <2>1, <2>2, <2>3
<1>12. ASSUME NEW d \in Devices, ConnectDevice(d) PROVE Held'
  <2>1. /\ pc = "devices" /\ pc' = pc /\ todo' = todo \ {d} /\ UNCHANGED <<op, connected, ctl>>
        /\ work' = [work EXCEPT !.connected = @ \cup {d}, !.monitored = @ \cup {d}]
    BY <1>12 DEF ConnectDevice, session
  <2>2. /\ work'.connected = work.connected \cup {d} /\ work'.monitored = work.monitored \cup {d}
        /\ work'.subscribed = work.subscribed /\ work'.monitorStarted = work.monitorStarted
    BY <1>0, <2>1 DEF TypeOK, Controllers
  <2>3. op = "run" => Usable(work')
    BY <2>2 DEF Held, Usable
  <2>4. op = "connect" => Arriving'
    BY <2>1, <2>2 DEF Held, Arriving
  <2> QED
    BY <1>4, <2>1, <2>3, <2>4
<1>13. CASE StartMonitor
  <2>1. /\ pc = "devices" /\ pc' = "configure" /\ todo = {} /\ UNCHANGED <<op, connected, ctl>>
    BY <1>13 DEF StartMonitor, session
  <2>2. op = "run" => Usable(work')
    BY <1>13 DEF StartMonitor, Held, Usable
  <2>3. op = "connect" => Usable(work')
    <3> SUFFICES ASSUME op = "connect" PROVE Usable(work')
      OBVIOUS
    <3>1. ~work.monitorStarted /\ Devices \subseteq work.connected \cap work.monitored
      BY <2>1 DEF Held, Arriving
    <3>2. work' = [work EXCEPT !.subscribed = work.monitored, !.monitorStarted = TRUE]
      BY <1>13, <3>1 DEF StartMonitor
    <3>3. work.connected = Devices /\ work.monitored = Devices
      BY <1>0, <3>1 DEF TypeOK, Controllers
    <3> QED
      BY <1>0, <3>2, <3>3 DEF Usable, TypeOK, Controllers
  <2> QED
    BY <1>4, <2>1, <2>2, <2>3 DEF Arriving
<1>14. CASE StartMonitorRaises
  <2>1. op # "run" /\ pc # "ready"
    BY <1>14 DEF StartMonitorRaises, Held, Usable
  <2> QED
    BY <1>0, <1>3, <1>14, <2>1, ControllerSwitches DEF StartMonitorRaises
<1>15. CASE ConnectRaises \/ ExperimentEndRaises
  BY <1>0, <1>3, <1>15 DEF ConnectRaises, ExperimentEndRaises, Held, TypeOK
<1>16. CASE Execute \/ ExecuteRaises
  <2>1. op = "run" /\ Finally(work) \in Controllers /\ pc # "ready"
    BY <1>0, <1>16, ControllerSwitches DEF Execute, ExecuteRaises, Ordered
  <2>2. Usable(Finally(work))
    BY <1>0, <2>1 DEF Held, Usable, Finally, TypeOK, Controllers
  <2>3. CASE Execute
    BY <1>4, <2>1, <2>2, <2>3 DEF Execute, session
  <2>4. CASE ExecuteRaises
    BY <1>3, <2>1, <2>2, <2>4 DEF ExecuteRaises
  <2> QED
    BY <1>16, <2>3, <2>4
<1>17. CASE ExperimentEnds
  <2>1. op = "run" /\ op' = "none" /\ ctl' = work
    BY <1>0, <1>17 DEF ExperimentEnds, Ordered
  <2> QED
    BY <2>1 DEF Held
\* A disconnect of the session: it is not connected any more.
<1>18. ASSUME pc \in {"reset", "leave"} PROVE op = "disconnect" /\ ~connected
  BY <1>0, <1>18 DEF Ordered
<1>19. CASE MonitorIsReset \/ \E s \in Servers : ResetMonitor(s)
  BY <1>1, <1>18, <1>19 DEF MonitorIsReset, ResetMonitor, session
<1>20. CASE \E d \in Devices : DisconnectDevice(d)
  BY <1>1, <1>18, <1>20 DEF DisconnectDevice, session
<1>21. CASE \/ \E d \in Devices : DisconnectDeviceRaises(d)
            \/ \E s \in Servers : ResetMonitorRaises(s)
  BY <1>1, <1>18, <1>21 DEF DisconnectDeviceRaises, ResetMonitorRaises, Raise
<1>22. CASE Disconnected
  <2>1. pc = "leave" /\ connected' = connected /\ op = "disconnect" /\ ~connected
    BY <1>18, <1>22 DEF Disconnected
  <2>2. CASE reconnect
    BY <1>2, <1>22, <2>1, <2>2 DEF Disconnected, BeginConnect
  <2>3. CASE ~reconnect
    BY <1>1, <1>22, <2>1, <2>3 DEF Disconnected
  <2> QED
    BY <2>2, <2>3
<1> QED
  BY <1>5, <1>6, <1>7, <1>8, <1>9, <1>10, <1>11, <1>12, <1>13, <1>14, <1>15, <1>16, <1>17,
     <1>19, <1>20, <1>21, <1>22
  DEF Next

(* Unless runs disconnect by themselves, an experiment is only executed on *)
(* devices that are connected and monitored (UsableWhenExecuting), after   *)
(* any sequence of calls of the session and any exceptions in them.        *)
THEOREM Execution ==
  ASSUME ~DisconnectAfterRun
  PROVE  Spec => []UsableWhenExecuting
<1>1. TypeInv /\ Held => UsableWhenExecuting
  BY DEF TypeInv, Ordered, Held, UsableWhenExecuting
<1>2. TypeInv /\ Held /\ [Next]_vars => Held'
  BY StepHeld
<1> QED
  BY <1>1, <1>2, InitType, StepType, InitHeld, PTL DEF Spec

(* Unless runs disconnect by themselves, a session that says that it is    *)
(* connected is (ConnectedIsUsable).                                       *)
THEOREM Connection ==
  ASSUME ~DisconnectAfterRun
  PROVE  Spec => []ConnectedIsUsable
<1>1. TypeInv /\ Held => ConnectedIsUsable
  BY DEF TypeInv, Ordered, Held, ConnectedIsUsable
<1>2. TypeInv /\ Held /\ [Next]_vars => Held'
  BY StepHeld
<1> QED
  BY <1>1, <1>2, InitType, StepType, InitHeld, PTL DEF Spec

=============================================================================
