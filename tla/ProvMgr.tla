------------------------------ MODULE ProvMgr -------------------------------
(***************************************************************************)
(* The network provisioning manager (manager.c, Wi-Fi build): one context  *)
(* shared by application tasks, the task of the transport that serves the  *)
(* clients' requests ("host"), the default event loop ("loop") and the     *)
(* esp_timer task ("timer").  A section under prov_ctx_lock that does not  *)
(* wait is one step; what runs with the lock released, and the one wait    *)
(* with the lock held, are steps of their own.  A call that is refused     *)
(* changes nothing and is not a step.                                      *)
(***************************************************************************)
EXTENDS Naturals, Sequences, FiniteSets

CONSTANTS
  NULL,
  Apps,           \* application tasks
  Deiniters,      \* those that may call network_prov_mgr_deinit()
  Calls,          \* API calls they make: init, start, stop, wait, ...
  Requests,       \* what clients ask for: config, status, reset, reprov, app_stop
  Mode,           \* mgr_config.mode: FULL or SESSION_ONLY
  Securities,     \* sec0, nopop and pop (security 1), sec2
  ConnAttempts,   \* wifi_conn_attempts
  Failing,        \* which calls of the system may fail
  MaxFailures, MaxCalls, QueueSize,   \* bounds
  Overlaps        \* races let in, see Turn, MgrInit, DeleteLock, Serves

ASSUME ProvMgrAssumption ==
  /\ Deiniters \subseteq Apps
  /\ Apps \cap {"host", "loop", "timer"} = {}
  /\ Mode \in {"FULL", "SESSION_ONLY"}
  /\ Securities \subseteq {"sec0", "nopop", "pop", "sec2"}
  /\ ConnAttempts \in Nat /\ MaxFailures \in Nat /\ MaxCalls \in Nat
  /\ QueueSize \in Nat /\ QueueSize > 0
  /\ Overlaps \subseteq {"deletion", "event", "starting", "stopping"}

VARIABLES
  lock,         \* prov_ctx_lock: "none" before it is created, "free", or its holder
  prov_ctx,     \* the context, or NULL
  at,           \* where each task is
  event,        \* the event the loop task is handling
  queue,        \* events posted to the default loop that the manager handles
  registered,   \* its handlers in the event loop: "wifi" (with IP), "stop"
  timer,        \* esp_timer objects: none, idle or armed
  transport,    \* the transport runs
  link,         \* the Wi-Fi station: off, connecting, connected
  pops,         \* heap copies of the proof of possession
  endOwed,      \* NETWORK_PROV_END is still to be sent for a started service
  calls, failures

envVars == <<queue, registered, timer, transport, link, pops, endOwed>>
vars == <<lock, prov_ctx, at, event, envVars, calls, failures>>

Tasks == Apps \cup {"host", "loop", "timer"}
Timers == {"autostop", "wifi_connect", "cleanup"}

Running == {"STARTED", "CRED_RECV", "FAIL", "SUCCESS"}
CredRecvOrLater == {"CRED_RECV", "FAIL", "SUCCESS", "STOPPING"}

NewCtx ==
  [state |-> "IDLE", endpoints |-> Mode = "FULL", no_auto_stop |-> FALSE,
   pc |-> FALSE, session_pc |-> FALSE, handlers |-> FALSE, timers |-> {},
   security |-> 0, sec_params |-> FALSE,
   wifi_state |-> "CONNECTING", attempts |-> 0]

Init ==
  /\ lock = "none" /\ prov_ctx = NULL
  /\ at = [t \in Tasks |-> "idle"] /\ event = "none"
  /\ queue = <<>> /\ registered = {}
  /\ timer = [h \in Timers |-> "none"]
  /\ transport = FALSE /\ link = "off"
  /\ pops = 0 /\ endOwed = FALSE
  /\ calls = 0 /\ failures = 0

Goto(t, place) == at' = [at EXCEPT ![t] = place]

\* The event loop task has a higher priority than the callers: unless "event"
\* overlaps are let in, a handler it has entered gets the lock first.
Turn(t) == t = "loop" \/ at["loop"] # "handle" \/ "event" \in Overlaps

\* t can enter a section under the lock.
Locks(t) == lock = "free" /\ Turn(t)

Call(t, name) ==
  /\ t \in Apps /\ at[t] = "idle" /\ name \in Calls
  /\ calls < MaxCalls /\ calls' = calls + 1

Fail(what) ==
  /\ what \in Failing /\ failures < MaxFailures
  /\ failures' = failures + 1

InState(S) == prov_ctx # NULL /\ prov_ctx.state \in S

-----------------------------------------------------------------------------
(* Initialisation and the calls that configure an idle manager.            *)

\* A de-initialisation that has freed the context and not yet deleted the lock.
Deleting(t) == at[t] \in {"announce", "deinit_end", "deinit_lock"}

\* network_prov_mgr_init() ends in a callback with the lock released.  Unless
\* "deletion" overlaps are let in, it comes after the last de-initialisation.
MgrInit(t) ==
  /\ Call(t, "init") /\ lock \in {"none", "free"} /\ Turn(t)
  /\ "deletion" \in Overlaps \/ \A u \in Tasks : ~Deleting(u)
  /\ prov_ctx = NULL
  /\ lock' = "free"
  /\ \/ prov_ctx' = NewCtx /\ Goto(t, "callback") /\ UNCHANGED failures
     \/ Fail("init") /\ UNCHANGED <<prov_ctx, at>>
  /\ UNCHANGED <<event, envVars>>

\* The end of execute_event_cb() where nothing but a release follows.
CallbackDone(t) ==
  /\ at[t] = "callback" /\ Locks(t)
  /\ Goto(t, "idle")
  /\ UNCHANGED <<lock, prov_ctx, event, envVars, calls, failures>>

DisableAutoStop(t) ==
  /\ Call(t, "disable") /\ Locks(t) /\ InState({"IDLE"})
  /\ prov_ctx' = [prov_ctx EXCEPT !.no_auto_stop = TRUE]
  /\ UNCHANGED <<lock, at, event, envVars, failures>>

EnableProvisioning(t) ==
  /\ Call(t, "enable") /\ Locks(t) /\ InState({"IDLE"}) /\ ~prov_ctx.session_pc
  /\ \/ prov_ctx' = [prov_ctx EXCEPT !.endpoints = TRUE] /\ UNCHANGED failures
     \/ Fail("enable") /\ UNCHANGED prov_ctx
  /\ UNCHANGED <<lock, at, event, envVars>>

-----------------------------------------------------------------------------
(* network_prov_mgr_start_provisioning()                                   *)

\* The station is disconnected, which the Wi-Fi driver reports.
Disconnects ==
  IF link = "off" THEN UNCHANGED <<link, queue>>
  ELSE /\ link' = "off"
       /\ queue' = IF Len(queue) < QueueSize THEN Append(queue, "LOST") ELSE queue

WithSecurity(c, sec) ==
  [c EXCEPT !.security = CASE sec = "sec0" -> 0 [] sec = "sec2" -> 2 [] OTHER -> 1,
            !.sec_params = @ \/ sec \in {"pop", "sec2"}]

TimersOf(c) ==
  IF ~c.endpoints THEN {}
  ELSE {"wifi_connect", "cleanup"} \cup (IF c.no_auto_stop THEN {} ELSE {"autostop"})

Start(t, sec) ==
  /\ Call(t, "start") /\ Locks(t) /\ InState({"IDLE"}) /\ ~prov_ctx.session_pc
  /\ prov_ctx' = [WithSecurity(prov_ctx, sec)
                    EXCEPT !.state = "STARTING", !.timers = @ \cup TimersOf(prov_ctx)]
  /\ timer' = [h \in Timers |-> IF h \in TimersOf(prov_ctx) THEN "idle" ELSE timer[h]]
  /\ pops' = IF sec = "pop" THEN pops + 1 ELSE pops
  /\ IF prov_ctx.endpoints THEN Disconnects ELSE UNCHANGED <<link, queue>>
  /\ Goto(t, "start")
  /\ UNCHANGED <<lock, event, registered, transport, endOwed, failures>>

\* A Wi-Fi call or strdup() fails: the state goes to STARTING and back.
StartRefused(t) ==
  /\ Call(t, "start") /\ Locks(t) /\ InState({"IDLE"}) /\ ~prov_ctx.session_pc
  /\ Fail("wifi")
  /\ UNCHANGED <<lock, prov_ctx, at, event, envVars>>

\* The last timer cannot be created: the others are deleted, their handles stay.
StartWithoutTimers(t, sec) ==
  /\ Call(t, "start") /\ Locks(t) /\ InState({"IDLE"}) /\ ~prov_ctx.session_pc
  /\ prov_ctx.endpoints /\ Fail("timer")
  /\ prov_ctx' = [WithSecurity(prov_ctx, sec)
                    EXCEPT !.timers = @ \cup (TimersOf(prov_ctx) \ {"cleanup"})]
  /\ pops' = IF sec = "pop" THEN pops + 1 ELSE pops
  /\ Disconnects
  /\ UNCHANGED <<lock, at, event, registered, timer, transport, endOwed>>

\* start_service(), with the lock released.
ServiceUp(t) ==
  /\ at[t] = "start" /\ Goto(t, "started")
  /\ prov_ctx' = [prov_ctx EXCEPT !.pc = TRUE, !.handlers = prov_ctx.endpoints]
  /\ transport' = TRUE
  /\ registered' = IF prov_ctx.endpoints THEN {"wifi", "stop"} ELSE registered
  /\ UNCHANGED <<lock, event, queue, timer, link, pops, endOwed, calls, failures>>

\* Any step of it fails: everything is undone, the timers are deleted and their
\* handles stay.
ServiceFails(t) ==
  /\ at[t] = "start" /\ Fail("service") /\ Goto(t, "failed")
  /\ timer' = [h \in Timers |-> IF h \in prov_ctx.timers THEN "none" ELSE timer[h]]
  /\ UNCHANGED <<lock, prov_ctx, event, queue, registered, transport, link, pops,
                 endOwed, calls>>

StartEnds(t) ==
  /\ at[t] = "started" /\ Locks(t)
  /\ prov_ctx' = IF prov_ctx.endpoints
                   THEN [prov_ctx EXCEPT !.state = "STARTED"]
                   ELSE [prov_ctx EXCEPT !.state = "IDLE", !.pc = FALSE,
                                         !.session_pc = TRUE]
  /\ endOwed' = prov_ctx.endpoints
  /\ Goto(t, "callback")
  /\ UNCHANGED <<lock, event, queue, registered, timer, transport, link, pops,
                 calls, failures>>

\* The bug of leaving the state as it was.
StartFailedStuck(t) ==
  /\ at[t] = "failed" /\ Locks(t)
  /\ Goto(t, "idle")
  /\ UNCHANGED <<lock, prov_ctx, event, envVars, calls, failures>>

StartFailed(t) ==
  /\ at[t] = "failed" /\ Locks(t)
  /\ prov_ctx' = [prov_ctx EXCEPT !.state = "IDLE"]
  /\ Goto(t, "idle")
  /\ UNCHANGED <<lock, event, envVars, calls, failures>>

-----------------------------------------------------------------------------
(* network_prov_mgr_stop_service()                                         *)

Starting == InState({"STARTING"})

\* The bugs of keeping the transport in FULL mode, or in no mode.
KeepTransportAsync(blocking) == ~blocking
KeepTransportNever(blocking) == FALSE
KeepTransport(blocking) == Mode = "SESSION_ONLY" /\ ~blocking

\* The bug of waiting only for another stop.
MustWaitStopping == InState({"STOPPING"})
\* A blocking stop waits for whoever starts or stops the service.
MustWait == InState({"STARTING", "STOPPING"})

\* The bug of leaving the copy of the proof of possession behind.
FreeSecParamsNever == UNCHANGED pops
\* The bug of freeing a copy that was not made.
FreeSecParamsAlways == pops' = pops - 1
FreeSecParams ==
  pops' = IF prov_ctx.sec_params /\ prov_ctx.security = 1 THEN pops - 1 ELSE pops

\* The bug of leaving the Wi-Fi handlers behind.
UnregisterWifiNot == UNCHANGED registered
UnregisterWifi ==
  registered' = IF prov_ctx.endpoints THEN registered \ {"wifi"} ELSE registered

\* Under the lock: the service is running, its stop begins.  The asynchronous
\* stop starts the cleanup timer.
StopService(blocking) ==
  /\ InState(Running)
  /\ prov_ctx' = [prov_ctx EXCEPT !.state = "STOPPING",
                                  !.timers = @ \ {"autostop", "wifi_connect"},
                                  !.sec_params = @ /\ KeepTransport(blocking)]
  /\ timer' = [h \in Timers |-> IF h # "cleanup" THEN "none"
                                ELSE IF blocking \/ timer[h] = "none" THEN timer[h]
                                ELSE "armed"]
  /\ UnregisterWifi
  /\ IF KeepTransport(blocking) THEN UNCHANGED pops ELSE FreeSecParams

\* network_prov_mgr_stop_provisioning(), by the application, a timer or a
\* request handler; it polls while another task starts the service.
StopProvisioning(t) ==
  /\ \/ Call(t, "stop") /\ Locks(t)
     \/ at[t] \in {"stop", "stop_poll"} /\ Locks(t) /\ UNCHANGED calls
  /\ \/ StopService(FALSE) /\ Goto(t, "idle")
     \/ /\ ~Starting /\ ~InState(Running) /\ at[t] # "idle" /\ Goto(t, "idle")
        /\ UNCHANGED <<prov_ctx, timer, registered, pops>>
     \/ /\ Starting /\ at[t] # "stop_poll" /\ Goto(t, "stop_poll")
        /\ UNCHANGED <<prov_ctx, timer, registered, pops>>
  /\ UNCHANGED <<lock, event, queue, transport, link, endOwed, failures>>

\* The manager was de-initialised before the call looked at the lock.
StopTooLate(t) ==
  /\ at[t] = "stop" /\ lock = "none" /\ Goto(t, "idle")
  /\ UNCHANGED <<lock, prov_ctx, event, envVars, calls, failures>>

Wait(t) ==
  /\ Call(t, "wait") /\ Locks(t) /\ prov_ctx # NULL /\ ~InState({"IDLE"})
  /\ Goto(t, "wait")
  /\ UNCHANGED <<lock, prov_ctx, event, envVars, failures>>

WaitEnds(t) ==
  /\ at[t] = "wait" /\ Locks(t) /\ (prov_ctx = NULL \/ InState({"IDLE"}))
  /\ Goto(t, "idle")
  /\ UNCHANGED <<lock, prov_ctx, event, envVars, calls, failures>>

\* prov_stop_and_notify() up to the transport.
StopBegins ==
  /\ registered' = registered \ {"stop"}
  /\ timer' = [timer EXCEPT !["cleanup"] = "none"]
  /\ prov_ctx' = [prov_ctx EXCEPT !.timers = @ \ {"cleanup"}]

\* The rest of it.  scheme.prov_stop() waits for the handler the transport is in.
StopFinishes(blocking, state) ==
  LET keep == KeepTransport(blocking) IN
  /\ keep \/ at["host"] = "idle"
  /\ transport' = keep
  /\ prov_ctx' = [prov_ctx EXCEPT !.state = state, !.pc = FALSE,
                                  !.session_pc = IF keep THEN prov_ctx.pc ELSE @,
                                  !.handlers = FALSE,
                                  !.endpoints = @ /\ ~keep]

-----------------------------------------------------------------------------
(* network_prov_mgr_deinit()                                               *)

FreeCtx == prov_ctx' = NULL

\* The blocking stop has begun, is waited for, or there is a kept session to
\* close; otherwise the context is freed at once.
Deinit(t) ==
  /\ \/ t \in Deiniters /\ Call(t, "deinit")
     \/ at[t] = "deinit" /\ UNCHANGED calls
  /\ Locks(t) /\ prov_ctx # NULL
  /\ \/ at[t] # "deinit" /\ MustWait /\ Goto(t, "deinit")
        /\ UNCHANGED <<prov_ctx, timer, registered, pops>>
     \/ ~MustWait /\ StopService(TRUE) /\ Goto(t, "stop_begin")
     \/ /\ ~MustWait /\ ~InState(Running) /\ prov_ctx.session_pc
        /\ prov_ctx' = [prov_ctx EXCEPT !.session_pc = FALSE, !.state = "STOPPING"]
        /\ Goto(t, "close") /\ UNCHANGED <<timer, registered, pops>>
     \/ /\ ~MustWait /\ ~InState(Running) /\ ~prov_ctx.session_pc
        /\ FreeCtx
        /\ Goto(t, "deinit_end") /\ UNCHANGED <<timer, registered, pops>>
  /\ UNCHANGED <<lock, event, queue, transport, link, endOwed, failures>>

\* The manager is not initialised, or somebody else has freed the context.
DeinitNothing(t) ==
  /\ \/ t \in Deiniters /\ Call(t, "deinit")
     \/ at[t] = "deinit" /\ UNCHANGED calls
  /\ Locks(t) /\ prov_ctx = NULL
  /\ Goto(t, "deinit_lock")
  /\ UNCHANGED <<lock, prov_ctx, event, envVars, failures>>

BlockingStopBegins(t) ==
  /\ at[t] = "stop_begin" /\ Goto(t, "stop_finish")
  /\ StopBegins
  /\ UNCHANGED <<lock, event, queue, transport, link, pops, endOwed, calls, failures>>

BlockingStopFinishes(t) ==
  /\ at[t] = "stop_finish" /\ Goto(t, "stop_end")
  /\ StopFinishes(TRUE, prov_ctx.state)
  /\ UNCHANGED <<lock, event, queue, registered, timer, link, pops, endOwed,
                 calls, failures>>

\* The bug of not sending NETWORK_PROV_END.
BlockingStopEndsSilent(t) ==
  /\ at[t] = "stop_end" /\ Locks(t)
  /\ FreeCtx /\ Goto(t, "deinit_end")
  /\ UNCHANGED <<lock, event, envVars, calls, failures>>

BlockingStopEnds(t) ==
  /\ at[t] = "stop_end" /\ Locks(t)
  /\ FreeCtx /\ Goto(t, "announce")
  /\ UNCHANGED <<lock, event, envVars, calls, failures>>

\* The transport of a kept session, stopped with the lock released.
CloseSession(t) ==
  /\ at[t] = "close" /\ at["host"] = "idle"
  /\ transport' = FALSE /\ Goto(t, "closed")
  /\ UNCHANGED <<lock, prov_ctx, event, queue, registered, timer, link, pops,
                 endOwed, calls, failures>>

SessionClosed(t) ==
  /\ at[t] = "closed" /\ Locks(t)
  /\ FreeSecParams /\ FreeCtx
  /\ Goto(t, "deinit_end")
  /\ UNCHANGED <<lock, event, queue, registered, timer, transport, link, endOwed,
                 calls, failures>>

\* NETWORK_PROV_END; if posting it fails deinit returns.
Announce(t) ==
  /\ at[t] = "announce" /\ endOwed' = FALSE
  /\ \/ Goto(t, "deinit_end") /\ UNCHANGED failures
     \/ Fail("post") /\ Goto(t, "idle")
  /\ UNCHANGED <<lock, prov_ctx, event, queue, registered, timer, transport, link,
                 pops, calls>>

DeinitEnd(t) ==
  /\ at[t] = "deinit_end" /\ Goto(t, "deinit_lock")
  /\ UNCHANGED <<lock, prov_ctx, event, envVars, calls, failures>>

\* Tasks that will take the lock again without looking whether it is there.
NeedsLock(t) == at[t] \notin {"idle", "handle", "stop"}

\* vSemaphoreDelete(); unless "deletion" overlaps are let in, nobody needs it.
DeleteLock(t) ==
  /\ at[t] = "deinit_lock" /\ lock = "free"
  /\ "deletion" \in Overlaps \/ \A u \in Tasks \ {t} : ~NeedsLock(u)
  /\ lock' = "none" /\ Goto(t, "idle")
  /\ UNCHANGED <<prov_ctx, event, envVars, calls, failures>>

-----------------------------------------------------------------------------
(* The esp_timer task.                                                     *)

TimerFires(h) == timer[h] = "armed" /\ timer' = [timer EXCEPT ![h] = "idle"]

AutostopFires ==
  /\ at["timer"] = "idle" /\ TimerFires("autostop")
  /\ Goto("timer", "stop")
  /\ UNCHANGED <<lock, prov_ctx, event, queue, registered, transport, link, pops,
                 endOwed, calls, failures>>

\* The post waits 100 ms for room in the queue and may fail.
CleanupFires ==
  /\ at["timer"] = "idle" /\ TimerFires("cleanup")
  /\ \/ Len(queue) < QueueSize /\ queue' = Append(queue, "STOP") /\ UNCHANGED failures
     \/ Fail("queue") /\ UNCHANGED queue
  /\ UNCHANGED <<lock, prov_ctx, at, event, registered, transport, link, pops,
                 endOwed, calls>>

WifiConnectFires ==
  /\ at["timer"] = "idle" /\ TimerFires("wifi_connect")
  /\ link' = IF link = "off" THEN "connecting" ELSE link
  /\ UNCHANGED <<lock, prov_ctx, at, event, queue, registered, transport, pops,
                 endOwed, calls, failures>>

-----------------------------------------------------------------------------
(* The Wi-Fi driver (external) and the event loop task.                    *)

LinkUp ==
  /\ link = "connecting" /\ Len(queue) < QueueSize
  /\ link' = "connected" /\ queue' = Append(queue, "GOT_IP")
  /\ UNCHANGED <<lock, prov_ctx, at, event, registered, timer, transport, pops,
                 endOwed, calls, failures>>

\* REFUSED: authentication failed or no such access point; LOST: any other reason.
LinkDown ==
  /\ link \in {"connecting", "connected"} /\ Len(queue) < QueueSize
  /\ link' = "off"
  /\ \E e \in {"REFUSED", "LOST"} : queue' = Append(queue, e)
  /\ UNCHANGED <<lock, prov_ctx, at, event, registered, timer, transport, pops,
                 endOwed, calls, failures>>

\* The loop takes an event; one whose handler was unregistered goes nowhere.
Dispatch ==
  LET handler == IF Head(queue) = "STOP" THEN "stop" ELSE "wifi" IN
  /\ at["loop"] = "idle" /\ queue # <<>>
  /\ queue' = Tail(queue)
  /\ IF handler \in registered /\ lock # "none"
       THEN event' = Head(queue) /\ Goto("loop", "handle")
       ELSE UNCHANGED <<event, at>>
  /\ UNCHANGED <<lock, prov_ctx, registered, timer, transport, link, pops, endOwed,
                 calls, failures>>

\* network_prov_mgr_event_handler_internal() has the lock.
Handles(e) == at["loop"] = "handle" /\ event = e /\ Locks("loop")
HandlerDone == event' = "none" /\ Goto("loop", "idle")

\* Events are for a manager that has received credentials.
EventIgnored ==
  /\ at["loop"] = "handle"
  /\ \/ lock = "none"
     \/ Handles(event) /\ ~InState(CredRecvOrLater)
  /\ HandlerDone
  /\ UNCHANGED <<lock, prov_ctx, envVars, calls, failures>>

\* The bug of not scheduling the stop.
GotIpNoTimer ==
  /\ Handles("GOT_IP") /\ InState(CredRecvOrLater)
  /\ prov_ctx' = [prov_ctx EXCEPT !.state = "SUCCESS", !.wifi_state = "CONNECTED"]
  /\ event' = "none" /\ Goto("loop", "callback")
  /\ UNCHANGED <<lock, envVars, calls, failures>>

GotIp ==
  /\ Handles("GOT_IP") /\ InState(CredRecvOrLater)
  /\ prov_ctx' = [prov_ctx EXCEPT !.state = "SUCCESS", !.wifi_state = "CONNECTED"]
  /\ timer' = IF prov_ctx.no_auto_stop \/ timer["autostop"] = "none" THEN timer
              ELSE [timer EXCEPT !["autostop"] = "armed"]
  /\ event' = "none" /\ Goto("loop", "callback")
  /\ UNCHANGED <<lock, queue, registered, transport, link, pops, endOwed, calls,
                 failures>>

Disconnected(e) ==
  LET tried == IF prov_ctx.attempts < ConnAttempts THEN prov_ctx.attempts + 1
               ELSE ConnAttempts
      again == tried < ConnAttempts
      forever == ConnAttempts = 0 /\ e = "LOST"
  IN
  /\ Handles(e) /\ e \in {"REFUSED", "LOST"} /\ InState(CredRecvOrLater)
  /\ prov_ctx' = [prov_ctx EXCEPT
                    !.attempts = tried,
                    !.state = IF again THEN @ ELSE "FAIL",
                    !.wifi_state = IF again THEN "ATTEMPT_FAILED"
                                   ELSE IF forever THEN "CONNECTING"
                                   ELSE "DISCONNECTED"]
  /\ link' = IF (again \/ forever) /\ link = "off" THEN "connecting" ELSE link
  /\ event' = "none" /\ Goto("loop", IF again \/ forever THEN "idle" ELSE "callback")
  /\ UNCHANGED <<lock, queue, registered, timer, transport, pops, endOwed, calls,
                 failures>>

\* The asynchronous stop runs with the lock held.
AsyncStopBegins ==
  /\ Handles("STOP") /\ InState(CredRecvOrLater)
  /\ lock' = "loop" /\ StopBegins
  /\ event' = "none" /\ Goto("loop", "async")
  /\ UNCHANGED <<queue, transport, link, pops, endOwed, calls, failures>>

AsyncStopFinishes ==
  /\ at["loop"] = "async"
  /\ StopFinishes(FALSE, "IDLE")
  /\ endOwed' = FALSE
  /\ lock' = "free" /\ Goto("loop", "idle")
  /\ UNCHANGED <<event, queue, registered, timer, link, pops, calls, failures>>

-----------------------------------------------------------------------------
(* Requests of the clients, served by the transport's task.  A client needs *)
(* a session first: unless "starting" overlaps are let in, its first        *)
(* request comes after the manager is started; without "stopping", it asks  *)
(* for a new provisioning only while the service is not being stopped.      *)

Serves(r) ==
  /\ r \in Requests /\ transport /\ at["host"] = "idle"
  /\ r = "app_stop" \/ prov_ctx.handlers
  /\ "starting" \in Overlaps \/ ~Starting
  /\ r # "reprov" \/ "stopping" \in Overlaps \/ ~InState({"STOPPING"})

\* network_prov_mgr_configure_wifi_sta() up to its first callback.
Configure ==
  /\ Serves("config") /\ Locks("host") /\ prov_ctx # NULL
  /\ Goto("host", "configure")
  /\ UNCHANGED <<lock, prov_ctx, event, envVars, calls, failures>>

\* The rest, with the state as it is after the callback.
Configured ==
  /\ at["host"] = "configure" /\ Locks("host")
  /\ \/ /\ ~InState(CredRecvOrLater) /\ timer["wifi_connect"] = "idle"
        /\ timer' = [timer EXCEPT !["wifi_connect"] = "armed"]
        /\ prov_ctx' = [prov_ctx EXCEPT !.wifi_state = "CONNECTING",
                                        !.attempts = 0, !.state = "CRED_RECV"]
        /\ Goto("host", "callback") /\ UNCHANGED failures
     \/ /\ InState(CredRecvOrLater) \/ timer["wifi_connect"] # "idle"
        /\ Goto("host", "idle") /\ UNCHANGED <<prov_ctx, timer, failures>>
     \/ Fail("wifi") /\ Goto("host", "idle") /\ UNCHANGED <<prov_ctx, timer>>
  /\ UNCHANGED <<lock, event, queue, registered, transport, link, pops, endOwed, calls>>

\* A client that reads "connected" makes the manager stop, as may the handler
\* of an application's endpoint.
StatusRequest ==
  /\ Serves("status") /\ Locks("host")
  /\ prov_ctx.wifi_state = "CONNECTED" /\ ~prov_ctx.no_auto_stop
  /\ Goto("host", "stop")
  /\ UNCHANGED <<lock, prov_ctx, event, envVars, calls, failures>>

AppStopRequest ==
  /\ Serves("app_stop") /\ lock # "none"
  /\ Goto("host", "stop")
  /\ UNCHANGED <<lock, prov_ctx, event, envVars, calls, failures>>

\* The bug of resetting whatever the state is.
ResetRequestAlways ==
  /\ Serves("reset") /\ Locks("host")
  /\ prov_ctx' = [prov_ctx EXCEPT !.attempts = 0, !.state = "STARTED"]
  /\ UNCHANGED <<lock, at, event, envVars, calls, failures>>

ResetRequest ==
  /\ Serves("reset") /\ Locks("host") /\ InState({"FAIL"})
  /\ prov_ctx' = [prov_ctx EXCEPT !.attempts = 0, !.state = "STARTED"]
  /\ UNCHANGED <<lock, at, event, envVars, calls, failures>>

\* network_prov_mgr_reset_wifi_sm_state_for_reprovision() has no look at the state.
ReprovRequest ==
  /\ Serves("reprov") /\ Locks("host") /\ prov_ctx.no_auto_stop
  /\ \/ /\ prov_ctx' = [prov_ctx EXCEPT !.state = "STARTED"]
        /\ Disconnects /\ Goto("host", "callback") /\ UNCHANGED failures
     \/ Fail("wifi") /\ UNCHANGED <<prov_ctx, link, queue, at>>
  /\ UNCHANGED <<lock, event, registered, timer, transport, pops, endOwed, calls>>
-----------------------------------------------------------------------------
\* The steps of a call that is under way.
Continue(t) ==
  \/ CallbackDone(t) \/ ServiceUp(t) \/ StartEnds(t) \/ StartFailed(t)
  \/ at[t] # "idle" /\ StopProvisioning(t)
  \/ StopTooLate(t) \/ WaitEnds(t)
  \/ at[t] # "idle" /\ (Deinit(t) \/ DeinitNothing(t))
  \/ BlockingStopBegins(t) \/ BlockingStopFinishes(t) \/ BlockingStopEnds(t)
  \/ CloseSession(t) \/ SessionClosed(t) \/ Announce(t) \/ DeinitEnd(t)
  \/ DeleteLock(t)
  \/ t = "host" /\ Configured

AppCalls(t) ==
  \/ MgrInit(t) \/ DisableAutoStop(t) \/ EnableProvisioning(t)
  \/ \E sec \in Securities : Start(t, sec) \/ StartWithoutTimers(t, sec)
  \/ StartRefused(t) \/ ServiceFails(t)
  \/ at[t] = "idle" /\ StopProvisioning(t)
  \/ Wait(t)
  \/ at[t] = "idle" /\ (Deinit(t) \/ DeinitNothing(t))

TimerTask == AutostopFires \/ CleanupFires \/ WifiConnectFires

EventLoop ==
  \/ Dispatch \/ EventIgnored \/ GotIp
  \/ \E e \in {"REFUSED", "LOST"} : Disconnected(e)
  \/ AsyncStopBegins \/ AsyncStopFinishes

Clients ==
  \/ Configure \/ StatusRequest \/ AppStopRequest \/ ResetRequest
  \/ ReprovRequest

Next ==
  \/ \E t \in Tasks : Continue(t) \/ AppCalls(t)
  \/ TimerTask \/ EventLoop \/ Clients \/ LinkUp \/ LinkDown

Spec == Init /\ [][Next]_vars

\* Every task the scheduler serves goes on with what it is doing, armed timers
\* fire and the loop takes its events; nobody has to make a call or a request.
\* Fairness is strong where a step waits for something that comes and goes: the
\* mutex, which is given to its waiters in turn, room in the event queue, and a
\* transport that, once it is being stopped, takes no new request.
FairSpec ==
  /\ Spec
  /\ \A t \in Tasks : SF_vars(Continue(t))
  /\ WF_vars(AutostopFires) /\ SF_vars(CleanupFires) /\ SF_vars(EventLoop)

-----------------------------------------------------------------------------
Places == {"idle", "callback", "start", "started", "failed", "stop", "stop_poll",
           "wait", "deinit", "stop_begin", "stop_finish", "stop_end", "close",
           "closed", "announce", "deinit_end", "deinit_lock", "handle", "async",
           "configure"}

Contexts ==
  [state : {"IDLE", "STARTING", "STOPPING"} \cup Running,
   endpoints : BOOLEAN, no_auto_stop : BOOLEAN, pc : BOOLEAN, session_pc : BOOLEAN,
   handlers : BOOLEAN, timers : SUBSET Timers, security : 0..2,
   sec_params : BOOLEAN,
   wifi_state : {"CONNECTING", "CONNECTED", "ATTEMPT_FAILED", "DISCONNECTED"},
   attempts : 0..ConnAttempts]

ASSUME NullAssumption == NULL \notin Contexts

Events == {"GOT_IP", "REFUSED", "LOST", "STOP"}

\* Every variable holds a value of its type.
TypeOK ==
  /\ lock \in {"none", "free", "loop"}
  /\ prov_ctx \in Contexts \cup {NULL}
  /\ at \in [Tasks -> Places] /\ event \in Events \cup {"none"}
  /\ queue \in Seq(Events) /\ Len(queue) <= QueueSize
  /\ registered \subseteq {"wifi", "stop"}
  /\ timer \in [Timers -> {"none", "idle", "armed"}]
  /\ transport \in BOOLEAN /\ link \in {"off", "connecting", "connected"}
  /\ pops \in Nat /\ endOwed \in BOOLEAN
  /\ calls \in 0..MaxCalls /\ failures \in 0..MaxFailures

\* Code that uses the context without looking at the pointer runs only while it
\* exists: nobody frees it under a start, a stop or a request in progress
\* (network_prov_mgr_deinit() against execute_event_cb() and its callers).
UsesContext(t) ==
  at[t] \in {"start", "started", "failed", "stop_begin", "stop_finish", "stop_end",
             "close", "closed", "async", "configure"}
ContextAlive == \A t \in Tasks : UsesContext(t) => prov_ctx # NULL

\* One task at a time takes the service down, and it is there to be taken down
\* (network_prov_mgr_stop_service()).
Stoppers == {t \in Tasks : at[t] \in {"stop_begin", "stop_finish", "close", "async"}}
OneStopper ==
  /\ Cardinality(Stoppers) <= 1
  /\ \A t \in Stoppers : transport

\* The lock is there as long as the manager is, and for every task that will
\* take it without looking.
LockAlive ==
  lock = "none" => /\ prov_ctx = NULL
                   /\ \A t \in Tasks : ~NeedsLock(t)

\* The task that holds the lock does not wait for one that needs it.
StopNotBlocked ==
  ~ /\ lock = "loop" /\ ~KeepTransport(FALSE)
    /\ at["host"] \in {"callback", "configure", "stop", "stop_poll"}

\* While a client's request is served, what the handler works on is there: a
\* transport that is stopped first excludes the request. One that is kept
\* (SESSION_ONLY) does not.
RequestUsesHandlers ==
  at["host"] = "configure" => prov_ctx # NULL /\ prov_ctx.handlers

\* A manager that is gone has left nothing behind: no transport, timer, event
\* handler, nor the secret, unless a start failed after it had been copied
\* (network_prov_mgr_start_provisioning()).
NothingLeft ==
  prov_ctx = NULL =>
    /\ ~transport /\ registered = {} /\ (failures = 0 => pops = 0)
    /\ \A h \in Timers : timer[h] = "none"

\* In SESSION_ONLY mode only de-initialisation takes the transport down: the
\* application's session outlives auto-stop, done() and stop_provisioning().
OnlyDeinitStops ==
  [][transport /\ ~transport' =>
       \E t \in Deiniters : at[t] \in {"stop_finish", "close"}]_vars

Phase ==
  IF prov_ctx = NULL THEN "down"
  ELSE IF prov_ctx.state \in Running THEN "running"
  ELSE IF prov_ctx.state = "STARTING" THEN "starting"
  ELSE IF prov_ctx.state = "STOPPING" THEN "stopping"
  ELSE IF prov_ctx.session_pc THEN "session" ELSE "ready"

\* The manager keeps the promise of ProvLifecycle, whoever calls, asks and fails.
Lifecycle == INSTANCE ProvLifecycle WITH phase <- Phase
KeepsLifecycle == Lifecycle!Spec

\* A stop that has begun, in the background or by de-initialisation, leads to
\* NETWORK_PROV_END (prov_stop_and_notify()).
StopCompletes == InState({"STOPPING"}) /\ endOwed ~> ~endOwed

\* De-initialisation returns, and so does a call to stop, whatever it has to wait
\* for (network_prov_mgr_stop_service()).
DeinitReturns ==
  \A t \in Tasks : at[t] \in {"deinit", "stop_begin", "stop_poll"} ~> at[t] = "idle"

\* Once the station has its address the service stops by itself.
AutoStops ==
  (InState({"SUCCESS"}) /\ ~prov_ctx.no_auto_stop) ~> ~InState(Running)
=============================================================================
