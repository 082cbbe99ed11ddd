------------------------- MODULE ControllerSession -------------------------
(***************************************************************************)
(* The life of a connection: Session.connect, run and disconnect, the      *)
(* Controller behind them and the DeviceCollection behind that.            *)
(*                                                                         *)
(* Session.connect makes a new controller and keeps it once it has         *)
(* connected.  Every run begins with a connect of that controller, which   *)
(* checks the connection unless it was checked a short while ago, and ends *)
(* with the results being handed to the session.  Each of the calls to the *)
(* data servers in between may raise and leaves things as they are then.   *)
(***************************************************************************)
EXTENDS Naturals

CONSTANTS
  Devices,
  Servers,
  ServerOf,             \* the data server of a device
  ResetDevices,         \* run_parameters.reset_devices
  DisconnectAfterRun,   \* run_parameters.disconnect
  Holdoff,              \* CONNECT_CHECK_HOLDOFF
  MaxTime,              \* bound of the clock
  MaxRuns,              \* bound of the runs
  None

ASSUME ServersAssumption == ServerOf \in [Devices -> Servers]
ASSUME SwitchesAssumption == ResetDevices \in BOOLEAN /\ DisconnectAfterRun \in BOOLEAN
ASSUME BoundsAssumption == {Holdoff, MaxTime, MaxRuns} \subseteq Nat

(* A controller and its device collection.                                  *)
Controllers ==
  [checkTs : 0 .. MaxTime \cup {None},  \* _last_connect_check_ts
   daqs : SUBSET Servers,               \* _daqs
   connected : SUBSET Devices,          \* devices whose _connected is set
   monitored : SUBSET Devices,          \* devices with their nodes in the monitor
   subscribed : SUBSET Devices,         \* devices whose nodes are subscribed
   monitorStarted : BOOLEAN,            \* _monitor_started
   results : 0 .. MaxRuns]              \* _results: of which run

ASSUME NoneAssumption == None \notin Nat \cup Controllers

NewController ==
  [checkTs |-> None, daqs |-> {}, connected |-> {}, monitored |-> {},
   subscribed |-> {}, monitorStarted |-> FALSE, results |-> 0]

Of(s) == {d \in Devices : ServerOf[d] = s}

VARIABLES
  pc,         \* where the call is
  op,         \* which call of the session it is
  reconnect,  \* Session.connect goes on when the disconnect has succeeded
  todo,       \* the servers or devices the loop has still to visit
  startTs,    \* connect_async: now
  connected,  \* Session._connection_state.connected
  ctl,        \* Session._controller
  work,       \* the controller the call works on
  runs,       \* runs begun
  shown,      \* Session._last_results: the run that filled them, None if empty
  now         \* the clock

session == <<connected, ctl, runs, shown>>
call == <<pc, op, reconnect, todo, startTs, work>>
vars == <<call, session, now>>

Init ==
  /\ pc = "ready" /\ op = "none" /\ reconnect = FALSE /\ todo = {} /\ startTs = 0
  /\ connected = FALSE /\ ctl = None /\ work = NewController
  /\ runs = 0 /\ shown = None
  /\ now = 0

Tick ==
  /\ now < MaxTime /\ pc \in {"ready", "execute"}
  /\ now' = now + 1
  /\ UNCHANGED <<call, session>>

-----------------------------------------------------------------------------
(* The calls of the session.                                                *)

BeginConnect ==
  /\ op' = "connect" /\ work' = NewController /\ startTs' = now
  /\ pc' = "connect"
  /\ reconnect' = FALSE

\* LabOneQFacade.disconnect: the controller's disconnect, from reset_monitor on.
BeginDisconnect(c) ==
  /\ op' = "disconnect" /\ work' = c /\ pc' = "reset" /\ todo' = c.daqs

\* Seeded fault: the session counts as connected before it is.
SessionConnectEarly(sameMode) ==
  /\ pc = "ready"
  /\ IF connected /\ ~sameMode
     THEN /\ BeginDisconnect(ctl) /\ reconnect' = TRUE
          /\ UNCHANGED startTs
     ELSE BeginConnect /\ UNCHANGED todo
  /\ connected' = TRUE
  /\ UNCHANGED <<ctl, runs, shown, now>>

\* In the other mode the session disconnects first.
SessionConnect(sameMode) ==
  /\ pc = "ready"
  /\ IF connected /\ ~sameMode
     THEN /\ BeginDisconnect(ctl) /\ reconnect' = TRUE
          /\ connected' = FALSE
          /\ UNCHANGED startTs
     ELSE /\ BeginConnect
          /\ UNCHANGED <<connected, todo>>
  /\ UNCHANGED <<ctl, runs, shown, now>>

\* Seeded fault: the session counts as connected until it is disconnected.
SessionDisconnectLate ==
  /\ pc = "ready" /\ ctl # None
  /\ BeginDisconnect(ctl) /\ reconnect' = FALSE
  /\ UNCHANGED <<connected, startTs, ctl, runs, shown, now>>

\* Without a controller an AttributeError is raised, and nothing is changed.
SessionDisconnect ==
  /\ pc = "ready" /\ ctl # None
  /\ BeginDisconnect(ctl) /\ reconnect' = FALSE
  /\ connected' = FALSE
  /\ UNCHANGED <<startTs, ctl, runs, shown, now>>

SessionCompile ==
  /\ pc = "ready" /\ connected
  /\ shown' = None
  /\ UNCHANGED <<call, connected, ctl, runs, now>>

\* Seeded fault: the results of the run before are kept.
SessionRunKeepsResults ==
  /\ pc = "ready" /\ connected /\ runs < MaxRuns
  /\ runs' = runs + 1
  /\ op' = "run" /\ work' = ctl /\ startTs' = now /\ pc' = "connect"
  /\ UNCHANGED <<reconnect, todo, connected, ctl, shown, now>>

SessionRun ==
  /\ pc = "ready" /\ connected /\ runs < MaxRuns
  /\ runs' = runs + 1 /\ shown' = None
  /\ op' = "run" /\ work' = ctl /\ startTs' = now /\ pc' = "connect"
  /\ UNCHANGED <<reconnect, todo, connected, ctl, now>>

\* The exception reaches the caller.  The session's controller is the one
\* worked on, unless it is a new one that has not connected.
Raise(c) ==
  /\ pc' = "ready" /\ op' = "none" /\ reconnect' = FALSE /\ todo' = {}
  /\ work' = c
  /\ ctl' = IF op = "connect" THEN ctl ELSE c
  /\ UNCHANGED <<startTs, connected, runs, shown, now>>

-----------------------------------------------------------------------------
(* Controller.connect_async and DeviceCollection.connect.                   *)

\* Seeded fault: no new results are prepared.
ConnectReturnsUnprepared(c) ==
  LET checked == [c EXCEPT !.checkTs = startTs]
  IN  IF op = "connect"
      THEN /\ pc' = "ready" /\ op' = "none"
           /\ work' = checked /\ ctl' = checked /\ connected' = TRUE
      ELSE /\ pc' = "execute" /\ op' = op
           /\ work' = checked
           /\ UNCHANGED <<ctl, connected>>

ConnectReturns(c) ==
  LET checked == [c EXCEPT !.checkTs = startTs]
  IN  IF op = "connect"
      THEN /\ pc' = "ready" /\ op' = "none"
           /\ work' = checked /\ ctl' = checked /\ connected' = TRUE
      ELSE /\ pc' = "execute" /\ op' = op
           /\ work' = [checked EXCEPT !.results = runs]  \* _prepare_result_shapes
           /\ UNCHANGED <<ctl, connected>>

CheckIsDue == work.checkTs # None => now > work.checkTs + Holdoff

SkipCheck ==
  /\ pc = "connect" /\ ~CheckIsDue
  /\ ConnectReturns(work)
  /\ UNCHANGED <<reconnect, todo, startTs, runs, shown, now>>

\* _prepare_daqs and _prepare_devices.
PrepareDaqs ==
  /\ pc = "connect" /\ CheckIsDue
  /\ work' = [work EXCEPT !.daqs = Servers]
  /\ pc' = "devices" /\ todo' = Devices
  /\ UNCHANGED <<op, reconnect, startTs, session, now>>

\* DeviceZI.connect: _connect_to_data_server, and its nodes to the monitor.
ConnectDevice(d) ==
  /\ pc = "devices" /\ d \in todo
  /\ todo' = todo \ {d}
  /\ work' = [work EXCEPT !.connected = @ \cup {d}, !.monitored = @ \cup {d}]
  /\ UNCHANGED <<pc, op, reconnect, startTs, session, now>>

\* load_factory_preset, if it is asked for, and start_monitor.
StartMonitor ==
  /\ pc = "devices" /\ todo = {}
  /\ pc' = "configure"
  /\ work' = IF work.monitorStarted THEN work
             ELSE [work EXCEPT !.subscribed = work.monitored,
                               !.monitorStarted = TRUE]
  /\ UNCHANGED <<op, reconnect, todo, startTs, session, now>>

\* Subscribed, but some value does not arrive in time.
StartMonitorRaises ==
  /\ pc = "devices" /\ todo = {} /\ ~work.monitorStarted
  /\ Raise([work EXCEPT !.subscribed = work.monitored])

\* configure_device_setup has found, or made, everything right.
ConfigureSetup ==
  /\ pc = "configure"
  /\ ConnectReturns(work)
  /\ UNCHANGED <<reconnect, todo, startTs, runs, shown, now>>

ConnectRaises ==
  /\ \/ pc = "connect" /\ CheckIsDue
     \/ pc = "devices" /\ (todo # {} \/ ResetDevices)
     \/ pc = "configure"
  /\ Raise(work)

-----------------------------------------------------------------------------
(* Controller._execute_compiled_impl after connect_async.                   *)

\* finally: the clock of the connection check starts again.
Finally(c) == [c EXCEPT !.checkTs = now]

ExecuteRaises ==
  /\ pc = "execute"
  /\ Raise(Finally(work))

\* The near-time run has ended or was aborted by a callback.
Execute ==
  /\ pc = "execute"
  /\ pc' = "end"
  /\ work' = Finally(work)
  /\ UNCHANGED <<op, reconnect, todo, startTs, session, now>>

ExperimentEnds ==
  /\ pc = "end"
  /\ IF DisconnectAfterRun
     THEN /\ pc' = "reset" /\ todo' = work.daqs
          /\ UNCHANGED <<op, ctl, shown>>
     ELSE /\ pc' = "ready" /\ op' = "none" /\ todo' = {}
          /\ ctl' = work
          /\ shown' = work.results
  /\ UNCHANGED <<reconnect, startTs, work, connected, runs, now>>

ExperimentEndRaises ==
  /\ pc = "end"
  /\ Raise(work)

-----------------------------------------------------------------------------
(* DeviceCollection.disconnect: the monitors, then the devices.             *)

ResetMonitor(s) ==
  /\ pc = "reset" /\ s \in todo
  /\ todo' = todo \ {s}
  /\ work' = [work EXCEPT !.subscribed = @ \ Of(s), !.monitored = @ \ Of(s)]
  /\ UNCHANGED <<pc, op, reconnect, startTs, session, now>>

\* unsubscribe has worked, the poll of the flush after it raises.
ResetMonitorRaises(s) ==
  /\ pc = "reset" /\ s \in todo
  /\ Raise([work EXCEPT !.subscribed = @ \ Of(s)])

MonitorIsReset ==
  /\ pc = "reset" /\ todo = {}
  /\ work' = [work EXCEPT !.monitorStarted = FALSE]
  /\ pc' = "leave" /\ todo' = work.connected
  /\ UNCHANGED <<op, reconnect, startTs, session, now>>

DisconnectDevice(d) ==
  /\ pc = "leave" /\ d \in todo
  /\ todo' = todo \ {d}
  /\ work' = [work EXCEPT !.connected = @ \ {d}]
  /\ UNCHANGED <<pc, op, reconnect, startTs, session, now>>

DisconnectDeviceRaises(d) ==
  /\ pc = "leave" /\ d \in todo
  /\ Raise(work)

Disconnected ==
  /\ pc = "leave" /\ todo = {}
  /\ LET c == [work EXCEPT !.daqs = {}, !.checkTs = None]
     IN  IF op = "run"
         THEN /\ pc' = "ready" /\ op' = "none" /\ work' = c /\ ctl' = c
              /\ shown' = c.results /\ UNCHANGED <<reconnect, startTs>>
         ELSE /\ ctl' = None /\ UNCHANGED shown
              /\ IF reconnect THEN BeginConnect
                 ELSE /\ pc' = "ready" /\ op' = "none" /\ work' = c
                      /\ UNCHANGED <<reconnect, startTs>>
  /\ UNCHANGED <<todo, connected, runs, now>>

-----------------------------------------------------------------------------
Next ==
  \/ \E same \in BOOLEAN : SessionConnect(same)
  \/ SessionDisconnect \/ SessionCompile \/ SessionRun
  \/ SkipCheck \/ PrepareDaqs \/ StartMonitor \/ StartMonitorRaises
  \/ ConfigureSetup \/ ConnectRaises
  \/ \E d \in Devices :
       ConnectDevice(d) \/ DisconnectDevice(d) \/ DisconnectDeviceRaises(d)
  \/ Execute \/ ExecuteRaises \/ ExperimentEnds \/ ExperimentEndRaises
  \/ \E s \in Servers : ResetMonitor(s) \/ ResetMonitorRaises(s)
  \/ MonitorIsReset \/ Disconnected
  \/ Tick

Spec == Init /\ [][Next]_vars

-----------------------------------------------------------------------------
TypeOK ==
  /\ pc \in {"ready", "connect", "devices", "configure", "execute", "end",
             "reset", "leave"}
  /\ op \in {"none", "connect", "run", "disconnect"}
  /\ reconnect \in BOOLEAN /\ connected \in BOOLEAN
  /\ todo \subseteq Devices \cup Servers
  /\ startTs \in 0 .. MaxTime /\ now \in 0 .. MaxTime
  /\ ctl \in Controllers \cup {None}
  /\ work \in Controllers
  /\ runs \in 0 .. MaxRuns
  /\ shown \in 1 .. MaxRuns \cup {None}

Usable(c) ==
  /\ c.connected = Devices /\ c.subscribed = Devices /\ c.monitored = Devices
  /\ c.monitorStarted

(* An experiment is executed on connected devices whose status nodes are    *)
(* subscribed, whatever calls of the session have raised before.            *)
UsableWhenExecuting == pc = "execute" => Usable(work)

(* A session that says it is connected has a controller that is.            *)
ConnectedIsUsable == connected /\ pc = "ready" => ctl # None /\ Usable(ctl)

(* The results the session shows are those of its last run.                 *)
ResultsOfLastRun == shown # None => shown = runs
=============================================================================
