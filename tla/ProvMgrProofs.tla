--------------------------- MODULE ProvMgrProofs ----------------------------
(***************************************************************************)
(* The safety of the provisioning manager, for any number of application   *)
(* tasks, calls, requests and failures, and its refinement of              *)
(* ProvLifecycle, up to a step that breaks its life (Calm).  The invariant *)
(* says who may work on the context: a task that starts the service, or    *)
(* one that stops it, and only one of them at a time; the rest of the      *)
(* state follows from what that task has done.                             *)
(***************************************************************************)
EXTENDS ProvMgr, FiniteSetTheorems, TLAPS

\* The steps of the manager that break its life.  A stop begins while the loop
\* task is in a handler of a Wi-Fi event, which then sets the state again.
StopMeetsEvent ==
  \E t \in Tasks :
    /\ StopProvisioning(t) \/ Deinit(t)
    /\ event \notin {"none", "STOP"}
    /\ ~InState({"STOPPING"}) /\ InState({"STOPPING"})'

\* A client is served by a manager that is still being started.
RequestInStart == (Configure \/ ReprovRequest) /\ InState({"STARTING"})

\* A client asks for a new provisioning, and the state leaves STOPPING under the
\* task that stops the service.
ReprovInStop == ReprovRequest /\ InState({"STOPPING"})

\* A behaviour has none of them; whatever else Overlaps lets in, it may have.
Calm == ~(StopMeetsEvent \/ RequestInStart \/ ReprovInStop)
Orderly == [][Calm]_vars

\* Without a start that fails late the security parameters of an earlier start
\* are gone; otherwise those of security 2 would be taken for a copy of the proof
\* of possession by a start of security 1 that has none.
SecretsApart ==
  {"sec2", "nopop"} \subseteq Securities => Failing \cap {"service", "timer"} = {}

-----------------------------------------------------------------------------
(* Who works on the context.                                               *)

Starters == {"start", "started", "failed"}
Blocking == {"stop_begin", "stop_finish", "stop_end"}
Closing == {"close", "closed"}
Stops == Blocking \cup Closing \cup {"async"}
Works == Starters \cup Stops
Leaving == {"deinit", "announce", "deinit_end", "deinit_lock"} \cup Blocking \cup Closing

\* Where each task may be.
PlacesOK ==
  /\ at \in [Tasks -> Places]
  /\ at["timer"] \in {"idle", "stop", "stop_poll"}
  /\ at["loop"] \in {"idle", "handle", "callback", "async"}
  /\ at["host"] \in {"idle", "configure", "callback", "stop", "stop_poll"}
  /\ \A t \in Apps : /\ at[t] \notin {"handle", "async", "configure"}
                     /\ at[t] \in Leaving => t \in Deiniters

\* The types of all variables, but that a copy of the secret is freed only once.
Typed ==
  /\ PlacesOK
  /\ lock \in {"none", "free", "loop"} /\ event \in Events \cup {"none"}
  /\ registered \subseteq {"wifi", "stop"}
  /\ timer \in [Timers -> {"none", "idle", "armed"}]
  /\ prov_ctx \in Contexts \cup {NULL}
  /\ queue \in Seq(Events) /\ Len(queue) <= QueueSize
  /\ transport \in BOOLEAN /\ link \in {"off", "connecting", "connected"}
  /\ endOwed \in BOOLEAN
  /\ calls \in 0..MaxCalls /\ failures \in 0..MaxFailures

OneWorker == \A t, u \in Tasks : at[t] \in Works /\ at[u] \in Works => t = u

\* Nothing of the service is left: no handlers, no timers.
NoTimers == \A h \in Timers : timer[h] = "none"
Down == registered = {} /\ NoTimers

\* What holds while a task starts or stops the service, step by step.
WorkOK(t) ==
  /\ at[t] \in Works => prov_ctx # NULL
  /\ at[t] \in Starters => prov_ctx.state = "STARTING"
  /\ at[t] \in Stops => prov_ctx.state = "STOPPING"
  /\ at[t] = "start" => /\ ~transport /\ ~prov_ctx.handlers /\ registered = {}
                        /\ \A h \in Timers : timer[h] = "none" \/ h \in prov_ctx.timers
                        /\ prov_ctx.endpoints \/ NoTimers
  /\ at[t] = "started" => /\ transport /\ prov_ctx.pc
                          /\ prov_ctx.handlers = prov_ctx.endpoints
                          /\ prov_ctx.endpoints \/ Down
  /\ at[t] = "failed" => ~transport /\ ~prov_ctx.handlers /\ Down
  /\ at[t] = "stop_begin" => transport
  /\ at[t] = "stop_finish" => transport /\ Down
  /\ at[t] = "stop_end" => ~transport /\ Down
  /\ at[t] = "async" => transport /\ Down /\ prov_ctx.pc /\ ~prov_ctx.session_pc
  /\ at[t] = "close" => transport /\ Down
  /\ at[t] = "closed" => ~transport /\ Down

\* What holds in each state of the manager, whoever works.
StateOK ==
  /\ prov_ctx = NULL => ~transport /\ Down
  /\ InState({"IDLE"}) => /\ transport = prov_ctx.session_pc
                          /\ ~prov_ctx.handlers /\ Down
  /\ InState({"STARTING"}) => ~prov_ctx.session_pc
  /\ InState(Running) => /\ transport /\ prov_ctx.pc /\ prov_ctx.endpoints
                         /\ ~prov_ctx.session_pc
  /\ InState({"STOPPING"}) =>
       /\ registered \subseteq {"stop"}
       /\ timer["autostop"] = "none" /\ timer["wifi_connect"] = "none"
       /\ \/ \E t \in Tasks : at[t] \in Works
          \/ transport /\ prov_ctx.pc /\ ~prov_ctx.session_pc

Core == OneWorker /\ (\A t \in Tasks : WorkOK(t)) /\ StateOK

\* The event that ends a stop in the background is on its way once at most, as the
\* armed timer, in the queue or with the loop, and only while nobody else works.
NoStop(q) == \A i \in 1..Len(q) : q[i] # "STOP"
OneStop(q) == \A i, j \in 1..Len(q) : q[i] = "STOP" /\ q[j] = "STOP" => i = j
Pending == timer["cleanup"] = "armed" \/ event = "STOP" \/ ~NoStop(queue)

StopOnce ==
  /\ timer["cleanup"] = "armed" => event # "STOP" /\ NoStop(queue)
  /\ event = "STOP" => NoStop(queue)
  /\ OneStop(queue)
  /\ Pending => InState({"STOPPING"}) /\ \A t \in Tasks : at[t] \notin Works

\* The loop handles an event or none, and no Wi-Fi event during a stop.
EventOK ==
  /\ at["loop"] = "handle" <=> event # "none"
  /\ InState({"STOPPING"}) => event \in {"STOP", "none"}

\* What a request to configure works on, between its two sections.
RequestOK ==
  at["host"] = "configure" =>
    /\ prov_ctx # NULL /\ transport
    /\ \/ InState(Running \cup {"STOPPING"})
       \/ InState({"IDLE"}) /\ prov_ctx.session_pc
    /\ Mode = "FULL" => prov_ctx.handlers /\ InState(Running \cup {"STOPPING"})

\* Whose copy of the proof of possession the context holds.
Holds == prov_ctx # NULL /\ prov_ctx.sec_params /\ prov_ctx.security = 1

CopyOK ==
  /\ pops \in Nat
  /\ Holds => pops > 0
  /\ prov_ctx # NULL /\ prov_ctx.sec_params /\ "sec2" \notin Securities => pops > 0
  /\ failures = 0 => pops = IF Holds THEN 1 ELSE 0

\* When the parameters of a start are gone: before the next one, and at the end of
\* a stop that leaves no session.
ParamsGone ==
  /\ InState({"IDLE"}) /\ ~prov_ctx.session_pc
     /\ (failures = 0 \/ {"sec2", "nopop"} \subseteq Securities) => ~prov_ctx.sec_params
  /\ \A t \in Tasks : /\ at[t] \in Blocking => ~prov_ctx.sec_params
                      /\ at[t] = "failed" => failures > 0 /\ "service" \in Failing
  /\ Mode = "FULL" /\ InState({"STOPPING"}) /\ prov_ctx.sec_params =>
       \E t \in Tasks : at[t] \in Closing

SecretOK == CopyOK /\ ParamsGone

\* What holds whatever becomes of the secret.
Safe == Typed /\ Core /\ StopOnce /\ EventOK /\ RequestOK

IInv == Safe /\ SecretOK

-----------------------------------------------------------------------------
(* The types.                                                              *)

\* What stop_provisioning() and deinit() come to.
LEMMA StopIs ==
  ASSUME NEW t \in Tasks, StopProvisioning(t)
  PROVE  /\ Locks(t) /\ UNCHANGED <<lock, event, queue, transport, link, endOwed, failures>>
         /\ at[t] \in {"idle", "stop", "stop_poll"} /\ (at[t] = "idle" => t \in Apps)
         /\ calls' = calls \/ (calls < MaxCalls /\ calls' = calls + 1)
         /\ \/ StopService(FALSE) /\ Goto(t, "idle")
            \/ /\ Goto(t, "idle") \/ Goto(t, "stop_poll")
               /\ UNCHANGED <<prov_ctx, timer, registered, pops>>
BY DEF StopProvisioning, Call

LEMMA DeinitIs ==
  ASSUME NEW t \in Tasks, Deinit(t)
  PROVE  /\ Locks(t) /\ UNCHANGED <<lock, event, queue, transport, link, endOwed, failures>>
         /\ prov_ctx # NULL
         /\ (at[t] = "idle" /\ t \in Apps /\ t \in Deiniters) \/ at[t] = "deinit"
         /\ calls' = calls \/ (calls < MaxCalls /\ calls' = calls + 1)
         /\ \/ Goto(t, "deinit") /\ UNCHANGED <<prov_ctx, timer, registered, pops>>
            \/ StopService(TRUE) /\ Goto(t, "stop_begin")
            \/ /\ ~MustWait /\ ~InState(Running) /\ prov_ctx.session_pc
               /\ prov_ctx' = [prov_ctx EXCEPT !.session_pc = FALSE, !.state = "STOPPING"]
               /\ Goto(t, "close") /\ UNCHANGED <<timer, registered, pops>>
            \/ /\ ~MustWait /\ ~InState(Running) /\ ~prov_ctx.session_pc
               /\ prov_ctx' = NULL /\ Goto(t, "deinit_end")
               /\ UNCHANGED <<timer, registered, pops>>
BY DEF Deinit, Call, FreeCtx

LEMMA PlacesStep ==
  ASSUME Safe, [Next]_vars
  PROVE  PlacesOK'
<1> USE ProvMgrAssumption
         DEF Safe, Typed, PlacesOK, Goto, envVars, Tasks, Places, Call, Leaving,
             Blocking, Closing, HandlerDone, Serves
<1>1. ASSUME NEW t \in Tasks, CallbackDone(t)
      PROVE  PlacesOK'
  BY <1>1
     DEF CallbackDone
<1>2. ASSUME NEW t \in Tasks, ServiceUp(t)
      PROVE  PlacesOK'
  BY <1>2
     DEF ServiceUp
<1>3. ASSUME NEW t \in Tasks, StartEnds(t)
      PROVE  PlacesOK'
  BY <1>3
     DEF StartEnds
<1>4. ASSUME NEW t \in Tasks, StartFailed(t)
      PROVE  PlacesOK'
  BY <1>4
     DEF StartFailed
<1>5. ASSUME NEW t \in Tasks, StopTooLate(t)
      PROVE  PlacesOK'
  BY <1>5
     DEF StopTooLate
<1>6. ASSUME NEW t \in Tasks, WaitEnds(t)
      PROVE  PlacesOK'
  BY <1>6
     DEF WaitEnds
<1>7. ASSUME NEW t \in Tasks, DeinitNothing(t)
      PROVE  PlacesOK'
  BY <1>7
     DEF DeinitNothing
<1>8. ASSUME NEW t \in Tasks, BlockingStopBegins(t)
      PROVE  PlacesOK'
  BY <1>8
     DEF BlockingStopBegins
<1>9. ASSUME NEW t \in Tasks, BlockingStopFinishes(t)
      PROVE  PlacesOK'
  BY <1>9
     DEF BlockingStopFinishes
<1>10. ASSUME NEW t \in Tasks, BlockingStopEnds(t)
      PROVE  PlacesOK'
  BY <1>10
     DEF BlockingStopEnds
<1>11. ASSUME NEW t \in Tasks, CloseSession(t)
      PROVE  PlacesOK'
  BY <1>11
     DEF CloseSession
<1>12. ASSUME NEW t \in Tasks, SessionClosed(t)
      PROVE  PlacesOK'
  BY <1>12
     DEF SessionClosed
<1>13. ASSUME NEW t \in Tasks, Announce(t)
      PROVE  PlacesOK'
  BY <1>13
     DEF Announce
<1>14. ASSUME NEW t \in Tasks, DeinitEnd(t)
      PROVE  PlacesOK'
  BY <1>14
     DEF DeinitEnd
<1>15. ASSUME NEW t \in Tasks, DeleteLock(t)
      PROVE  PlacesOK'
  BY <1>15
     DEF DeleteLock
<1>16. ASSUME NEW t \in Tasks, MgrInit(t)
      PROVE  PlacesOK'
  BY <1>16
     DEF MgrInit
<1>17. ASSUME NEW t \in Tasks, DisableAutoStop(t)
      PROVE  PlacesOK'
  BY <1>17
     DEF DisableAutoStop
<1>18. ASSUME NEW t \in Tasks, EnableProvisioning(t)
      PROVE  PlacesOK'
  BY <1>18
     DEF EnableProvisioning
<1>19. ASSUME NEW t \in Tasks, NEW sec \in Securities, Start(t, sec)
      PROVE  PlacesOK'
  BY <1>19
     DEF Start
<1>20. ASSUME NEW t \in Tasks, NEW sec \in Securities, StartWithoutTimers(t, sec)
      PROVE  PlacesOK'
  BY <1>20
     DEF StartWithoutTimers
<1>21. ASSUME NEW t \in Tasks, StartRefused(t)
      PROVE  PlacesOK'
  BY <1>21
     DEF StartRefused
<1>22. ASSUME NEW t \in Tasks, ServiceFails(t)
      PROVE  PlacesOK'
  BY <1>22
     DEF ServiceFails
<1>23. ASSUME NEW t \in Tasks, Wait(t)
      PROVE  PlacesOK'
  BY <1>23
     DEF Wait
<1>24. ASSUME Configured
      PROVE  PlacesOK'
  BY <1>24
     DEF Configured
<1>25. ASSUME AutostopFires
      PROVE  PlacesOK'
  BY <1>25
     DEF AutostopFires
<1>26. ASSUME CleanupFires
      PROVE  PlacesOK'
  BY <1>26
     DEF CleanupFires
<1>27. ASSUME WifiConnectFires
      PROVE  PlacesOK'
  BY <1>27
     DEF WifiConnectFires
<1>28. ASSUME Dispatch
      PROVE  PlacesOK'
  BY <1>28
     DEF Dispatch
<1>29. ASSUME EventIgnored
      PROVE  PlacesOK'
  BY <1>29
     DEF EventIgnored
<1>30. ASSUME GotIp
      PROVE  PlacesOK'
  BY <1>30
     DEF GotIp
<1>31. ASSUME NEW e \in {"REFUSED", "LOST"}, Disconnected(e)
      PROVE  PlacesOK'
  BY <1>31
     DEF Disconnected
<1>32. ASSUME AsyncStopBegins
      PROVE  PlacesOK'
  BY <1>32
     DEF AsyncStopBegins
<1>33. ASSUME AsyncStopFinishes
      PROVE  PlacesOK'
  BY <1>33
     DEF AsyncStopFinishes
<1>34. ASSUME Configure
      PROVE  PlacesOK'
  BY <1>34
     DEF Configure
<1>35. ASSUME StatusRequest
      PROVE  PlacesOK'
  BY <1>35
     DEF StatusRequest
<1>36. ASSUME AppStopRequest
      PROVE  PlacesOK'
  BY <1>36
     DEF AppStopRequest
<1>37. ASSUME ResetRequest
      PROVE  PlacesOK'
  BY <1>37
     DEF ResetRequest
<1>38. ASSUME ReprovRequest
      PROVE  PlacesOK'
  BY <1>38
     DEF ReprovRequest
<1>39. ASSUME LinkUp
      PROVE  PlacesOK'
  BY <1>39
     DEF LinkUp
<1>40. ASSUME LinkDown
      PROVE  PlacesOK'
  BY <1>40
     DEF LinkDown
<1>41. ASSUME NEW t \in Tasks, StopProvisioning(t)
      PROVE  PlacesOK'
  <2>1. t \in Apps \cup {"timer", "host"} /\ at[t] \in {"idle", "stop", "stop_poll"}
    BY <1>41, StopIs
  <2>2. Goto(t, "idle") \/ Goto(t, "stop_poll")
    BY <1>41, StopIs
  <2> QED
    BY <2>1, <2>2
<1>42. ASSUME NEW t \in Tasks, Deinit(t)
      PROVE  PlacesOK'
  <2>1. t \in Apps /\ t \in Deiniters
    BY <1>42, DeinitIs
  <2>2. \E p \in {"deinit", "stop_begin", "close", "deinit_end"} : Goto(t, p)
    BY <1>42, DeinitIs
  <2> QED
    BY <2>1, <2>2
<1>43. CASE UNCHANGED vars
  BY <1>43 DEF vars, envVars
<1> QED
  BY <1>1, <1>2, <1>3, <1>4, <1>5, <1>6, <1>7, <1>8, <1>9, <1>10, <1>11, <1>12, <1>13,
     <1>14, <1>15, <1>16, <1>17, <1>18, <1>19, <1>20, <1>21, <1>22, <1>23, <1>24, <1>25,
     <1>26, <1>27, <1>28, <1>29, <1>30, <1>31, <1>32, <1>33, <1>34, <1>35, <1>36, <1>37,
     <1>38, <1>39, <1>40, <1>41, <1>42, <1>43
     DEF Next, Continue, AppCalls, TimerTask, EventLoop, Clients

LEMMA ContextFields ==
  ASSUME Typed, prov_ctx # NULL
  PROVE  /\ prov_ctx \in Contexts
         /\ prov_ctx.state \in {"IDLE", "STARTING", "STOPPING"} \cup Running
         /\ prov_ctx.endpoints \in BOOLEAN /\ prov_ctx.no_auto_stop \in BOOLEAN
         /\ prov_ctx.pc \in BOOLEAN /\ prov_ctx.session_pc \in BOOLEAN
         /\ prov_ctx.handlers \in BOOLEAN /\ prov_ctx.timers \subseteq Timers
         /\ prov_ctx.security \in 0..2 /\ prov_ctx.sec_params \in BOOLEAN
         /\ prov_ctx.attempts \in 0..ConnAttempts
BY DEF Typed, Contexts

LEMMA NewContext ==
  /\ NewCtx \in Contexts /\ NewCtx # NULL
  /\ NewCtx.state = "IDLE" /\ NewCtx.endpoints = (Mode = "FULL")
  /\ NewCtx.pc = FALSE /\ NewCtx.session_pc = FALSE /\ NewCtx.handlers = FALSE
  /\ NewCtx.sec_params = FALSE /\ NewCtx.timers = {}
<1>1. PICK full : full \in BOOLEAN /\ full = (Mode = "FULL")
  OBVIOUS
<1>2. PICK A : A = 0..ConnAttempts /\ 0 \in A
  BY ProvMgrAssumption
<1>3. NewCtx \in Contexts
  BY <1>1, <1>2 DEF NewCtx, Contexts
<1> QED
  BY <1>3, NullAssumption DEF NewCtx

\* c and d agree in what the service is made of.
SameService(c, d) ==
  /\ d.pc = c.pc /\ d.session_pc = c.session_pc
  /\ d.endpoints = c.endpoints /\ d.handlers = c.handlers

SameSecret(c, d) == d.security = c.security /\ d.sec_params = c.sec_params

\* The stop under the lock.
LEMMA StopServiceIs ==
  ASSUME Typed, NEW blocking \in BOOLEAN, StopService(blocking)
  PROVE  /\ InState(Running) /\ prov_ctx' \in Contexts /\ prov_ctx' # NULL
         /\ prov_ctx'.state = "STOPPING" /\ SameService(prov_ctx, prov_ctx')
         /\ prov_ctx'.security = prov_ctx.security
         /\ prov_ctx'.sec_params = (prov_ctx.sec_params /\ KeepTransport(blocking))
<1>1. prov_ctx # NULL /\ InState(Running)
  BY DEF StopService, InState
<1>2. PICK b : b \in BOOLEAN /\ b = (prov_ctx.sec_params /\ KeepTransport(blocking))
  OBVIOUS
<1>3. PICK h : h \in SUBSET Timers /\ h = prov_ctx.timers \ {"autostop", "wifi_connect"}
  BY <1>1, ContextFields
<1>4. prov_ctx' = [prov_ctx EXCEPT !.state = "STOPPING", !.timers = h, !.sec_params = b]
  BY <1>2, <1>3 DEF StopService
<1>5. prov_ctx \in Contexts
  BY <1>1, ContextFields
<1>6. prov_ctx' \in Contexts
  BY <1>2, <1>3, <1>4, <1>5 DEF Contexts
<1> QED
  BY <1>1, <1>2, <1>4, <1>5, <1>6, NullAssumption DEF Contexts, SameService

\* The end of a stop.
LEMMA StopFinishesIs ==
  ASSUME Typed, prov_ctx # NULL, NEW blocking \in BOOLEAN,
         NEW state \in {"STOPPING", "IDLE"}, StopFinishes(blocking, state)
  PROVE  /\ prov_ctx' \in Contexts /\ prov_ctx' # NULL
         /\ prov_ctx'.state = state /\ prov_ctx'.pc = FALSE /\ prov_ctx'.handlers = FALSE
         /\ transport' = KeepTransport(blocking)
         /\ KeepTransport(blocking) \/ at["host"] = "idle"
         /\ prov_ctx'.session_pc = IF KeepTransport(blocking) THEN prov_ctx.pc
                                   ELSE prov_ctx.session_pc
         /\ SameSecret(prov_ctx, prov_ctx')
<1>1. PICK keep : keep \in BOOLEAN /\ keep = KeepTransport(blocking)
  BY DEF KeepTransport
<1>2. PICK b : b \in BOOLEAN /\ b = IF keep THEN prov_ctx.pc ELSE prov_ctx.session_pc
  BY ContextFields
<1>3. PICK e : e \in BOOLEAN /\ e = (prov_ctx.endpoints /\ ~keep)
  OBVIOUS
<1>4. /\ prov_ctx' = [prov_ctx EXCEPT !.state = state, !.pc = FALSE, !.session_pc = b,
                                      !.handlers = FALSE, !.endpoints = e]
      /\ transport' = keep /\ (keep \/ at["host"] = "idle")
  BY <1>1, <1>2, <1>3 DEF StopFinishes
<1>5. prov_ctx \in Contexts
  BY ContextFields
<1>6. prov_ctx' \in Contexts
  BY <1>2, <1>3, <1>4, <1>5 DEF Contexts
<1> QED
  BY <1>1, <1>2, <1>4, <1>5, <1>6, NullAssumption DEF Contexts, SameSecret

\* What a start writes down about security.
LEMMA SecurityIs ==
  ASSUME Typed, prov_ctx # NULL, NEW sec \in Securities,
         NEW c, c = WithSecurity(prov_ctx, sec)
  PROVE  /\ c \in Contexts /\ c.state = prov_ctx.state /\ SameService(prov_ctx, c)
         /\ c.security = IF sec = "sec0" THEN 0 ELSE IF sec = "sec2" THEN 2 ELSE 1
         /\ c.sec_params = (prov_ctx.sec_params \/ sec \in {"pop", "sec2"})
         /\ c.timers = prov_ctx.timers
<1>0. PICK Y : Y = 0..2
  OBVIOUS
<1>1. 0 \in Y /\ 1 \in Y /\ 2 \in Y
  BY <1>0
<1>2. PICK y : y \in Y /\ y = IF sec = "sec0" THEN 0 ELSE IF sec = "sec2" THEN 2 ELSE 1
  BY <1>1
<1>3. PICK b : b \in BOOLEAN /\ b = (prov_ctx.sec_params \/ sec \in {"pop", "sec2"})
  OBVIOUS
<1>4. c = [prov_ctx EXCEPT !.security = y, !.sec_params = b]
  BY <1>2, <1>3 DEF WithSecurity
<1>5. prov_ctx \in Contexts
  BY ContextFields
<1>6. c \in Contexts
  BY <1>0, <1>1, <1>2, <1>3, <1>4, <1>5 DEF Contexts
<1> QED
  BY <1>2, <1>3, <1>4, <1>5, <1>6 DEF Contexts, SameService

\* A request is served by a manager that exists.
LEMMA RequestIs ==
  ASSUME Safe, NEW r, Serves(r)
  PROVE  prov_ctx # NULL /\ transport
BY DEF Safe, Core, StateOK, Serves


\* A start has begun.
LEMMA StartIs ==
  ASSUME Typed, NEW t \in Tasks, NEW sec \in Securities, Start(t, sec)
  PROVE  /\ prov_ctx # NULL /\ prov_ctx' \in Contexts /\ prov_ctx' # NULL
         /\ InState({"IDLE"}) /\ ~prov_ctx.session_pc /\ prov_ctx'.state = "STARTING"
         /\ SameService(prov_ctx, prov_ctx')
         /\ prov_ctx'.timers = prov_ctx.timers \cup TimersOf(prov_ctx)
         /\ prov_ctx'.security = IF sec = "sec0" THEN 0 ELSE IF sec = "sec2" THEN 2 ELSE 1
         /\ prov_ctx'.sec_params = (prov_ctx.sec_params \/ sec \in {"pop", "sec2"})
<1>1. prov_ctx # NULL /\ InState({"IDLE"}) /\ ~prov_ctx.session_pc
  BY DEF Start, InState
<1>2. PICK c : c = WithSecurity(prov_ctx, sec)
  OBVIOUS
<1>3. PICK h : h \in SUBSET Timers /\ h = prov_ctx.timers \cup TimersOf(prov_ctx)
  BY <1>1, ContextFields DEF TimersOf, Timers
<1>4. c \in Contexts /\ c.timers = prov_ctx.timers
  BY <1>1, <1>2, SecurityIs
<1>5. prov_ctx' = [c EXCEPT !.state = "STARTING", !.timers = h]
  BY <1>2, <1>3, <1>4 DEF Start
<1>6. prov_ctx' \in Contexts
  BY <1>3, <1>4, <1>5 DEF Contexts
<1>7. /\ prov_ctx'.state = "STARTING" /\ prov_ctx'.timers = h /\ SameService(c, prov_ctx')
      /\ SameSecret(c, prov_ctx')
  BY <1>3, <1>4, <1>5 DEF Contexts, SameService, SameSecret
<1>8. /\ SameService(prov_ctx, c)
      /\ c.security = IF sec = "sec0" THEN 0 ELSE IF sec = "sec2" THEN 2 ELSE 1
      /\ c.sec_params = (prov_ctx.sec_params \/ sec \in {"pop", "sec2"})
  BY <1>1, <1>2, SecurityIs
<1> QED
  BY <1>1, <1>3, <1>6, <1>7, <1>8, NullAssumption DEF SameService, SameSecret

\* A start without its timers leaves an idle manager that knows what it was told.
LEMMA StartWithoutTimersIs ==
  ASSUME Typed, NEW t \in Tasks, NEW sec \in Securities, StartWithoutTimers(t, sec)
  PROVE  /\ prov_ctx # NULL /\ prov_ctx' \in Contexts /\ prov_ctx' # NULL
         /\ InState({"IDLE"}) /\ ~prov_ctx.session_pc /\ prov_ctx'.state = "IDLE"
         /\ SameService(prov_ctx, prov_ctx')
         /\ prov_ctx'.security = IF sec = "sec0" THEN 0 ELSE IF sec = "sec2" THEN 2 ELSE 1
         /\ prov_ctx'.sec_params = (prov_ctx.sec_params \/ sec \in {"pop", "sec2"})
<1>1. prov_ctx # NULL /\ InState({"IDLE"}) /\ ~prov_ctx.session_pc
  BY DEF StartWithoutTimers, InState
<1>2. PICK c : c = WithSecurity(prov_ctx, sec)
  OBVIOUS
<1>3. PICK h : /\ h \in SUBSET Timers
               /\ h = prov_ctx.timers \cup (TimersOf(prov_ctx) \ {"cleanup"})
  BY <1>1, ContextFields DEF TimersOf, Timers
<1>4. c \in Contexts /\ c.timers = prov_ctx.timers
  BY <1>1, <1>2, SecurityIs
<1>5. prov_ctx' = [c EXCEPT !.timers = h]
  BY <1>2, <1>3, <1>4 DEF StartWithoutTimers
<1>6. prov_ctx' \in Contexts
  BY <1>3, <1>4, <1>5 DEF Contexts
<1>7. prov_ctx'.state = c.state /\ SameService(c, prov_ctx') /\ SameSecret(c, prov_ctx')
  BY <1>3, <1>4, <1>5 DEF Contexts, SameService, SameSecret
<1>8. /\ SameService(prov_ctx, c) /\ c.state = prov_ctx.state
      /\ c.security = IF sec = "sec0" THEN 0 ELSE IF sec = "sec2" THEN 2 ELSE 1
      /\ c.sec_params = (prov_ctx.sec_params \/ sec \in {"pop", "sec2"})
  BY <1>1, <1>2, SecurityIs
<1> QED
  BY <1>1, <1>6, <1>7, <1>8, NullAssumption DEF SameService, SameSecret, InState

\* The service goes from one running state to another.
Serving ==
  /\ InState(Running) /\ InState(Running)' /\ prov_ctx' \in Contexts
  /\ SameService(prov_ctx, prov_ctx') /\ SameSecret(prov_ctx, prov_ctx')
  /\ UNCHANGED <<transport, registered>>
  /\ \A h \in Timers : timer'[h] = "none" <=> timer[h] = "none"
  /\ \A t \in Tasks : at'[t] \in Works \/ at[t] \in Works => at'[t] = at[t]

\* What becomes of the context in a step that moves on while the service runs.
LEMMA MovesOn ==
  ASSUME Typed, InState(Running), NEW s \in Running, NEW n \in 0..ConnAttempts,
         NEW w \in {"CONNECTING", "CONNECTED", "ATTEMPT_FAILED", "DISCONNECTED"},
         prov_ctx' = [prov_ctx EXCEPT !.state = s, !.attempts = n, !.wifi_state = w]
  PROVE  /\ InState(Running)' /\ prov_ctx' \in Contexts /\ prov_ctx'.state = s
         /\ SameService(prov_ctx, prov_ctx') /\ SameSecret(prov_ctx, prov_ctx')
<1>1. prov_ctx \in Contexts
  BY ContextFields DEF InState
<1>2. PICK A : A = 0..ConnAttempts
  OBVIOUS
<1>3. prov_ctx' \in Contexts
  BY <1>1, <1>2 DEF Contexts, Running
<1> QED
  BY <1>1, <1>3, NullAssumption DEF Contexts, InState, SameService, SameSecret, Running

\* The loop serves the Wi-Fi only while the service runs.
LEMMA LoopServes ==
  ASSUME Safe, NEW e \in {"GOT_IP", "REFUSED", "LOST"}, Handles(e), InState(CredRecvOrLater)
  PROVE  InState(Running)
BY DEF Safe, EventOK, Handles, InState, CredRecvOrLater, Running

LEMMA GotIpServes ==
  ASSUME Safe, GotIp
  PROVE  Serving /\ prov_ctx'.state = "SUCCESS"
<1>1. InState(Running)
  BY LoopServes DEF GotIp
<1>2. prov_ctx \in Contexts
  BY <1>1, ContextFields DEF InState, Safe
<1>3. prov_ctx' = [prov_ctx EXCEPT !.state = "SUCCESS", !.attempts = prov_ctx.attempts,
                                   !.wifi_state = "CONNECTED"]
  BY <1>2 DEF GotIp, Contexts
<1>4. prov_ctx.attempts \in 0..ConnAttempts
  BY <1>2 DEF Contexts
<1>5. /\ InState(Running)' /\ prov_ctx' \in Contexts /\ prov_ctx'.state = "SUCCESS"
      /\ SameService(prov_ctx, prov_ctx') /\ SameSecret(prov_ctx, prov_ctx')
  BY <1>1, <1>3, <1>4, MovesOn DEF Safe, Running
<1>6. /\ UNCHANGED <<transport, registered>>
      /\ \A h \in Timers : timer'[h] = "none" <=> timer[h] = "none"
  BY DEF GotIp, Safe, Typed, Timers
<1>7. \A t \in Tasks : at'[t] \in Works \/ at[t] \in Works => at'[t] = at[t]
  BY DEF GotIp, Safe, Typed, PlacesOK, Handles, Goto, Works, Starters, Stops, Blocking,
         Closing, Tasks
<1> QED
  BY <1>1, <1>5, <1>6, <1>7 DEF Serving

LEMMA DisconnectedServes ==
  ASSUME Safe, NEW e \in {"REFUSED", "LOST"}, Disconnected(e)
  PROVE  Serving
<1>1. InState(Running)
  BY LoopServes DEF Disconnected
<1>2. prov_ctx \in Contexts
  BY <1>1, ContextFields DEF InState, Safe
<1>3. PICK n : n = IF prov_ctx.attempts < ConnAttempts THEN prov_ctx.attempts + 1
                   ELSE ConnAttempts
  OBVIOUS
<1>4. n \in 0..ConnAttempts
  <2>1. prov_ctx.attempts \in 0..ConnAttempts
    BY <1>2 DEF Contexts
  <2> QED
    BY <1>3, <2>1, ProvMgrAssumption
<1>5. PICK again : again = (n < ConnAttempts)
  OBVIOUS
<1>6. PICK s : s = IF again THEN prov_ctx.state ELSE "FAIL"
  OBVIOUS
<1>7. PICK w : w = IF again THEN "ATTEMPT_FAILED"
                   ELSE IF ConnAttempts = 0 /\ e = "LOST" THEN "CONNECTING"
                   ELSE "DISCONNECTED"
  OBVIOUS
<1>8. prov_ctx' = [prov_ctx EXCEPT !.attempts = n, !.state = s, !.wifi_state = w]
  BY <1>3, <1>5, <1>6, <1>7 DEF Disconnected
<1>9. prov_ctx' = [prov_ctx EXCEPT !.state = s, !.attempts = n, !.wifi_state = w]
  BY <1>2, <1>8 DEF Contexts
<1>10. /\ s \in Running
       /\ w \in {"CONNECTING", "CONNECTED", "ATTEMPT_FAILED", "DISCONNECTED"}
  BY <1>1, <1>6, <1>7 DEF InState, Running
<1>11. /\ InState(Running)' /\ prov_ctx' \in Contexts
       /\ SameService(prov_ctx, prov_ctx') /\ SameSecret(prov_ctx, prov_ctx')
  BY <1>1, <1>4, <1>9, <1>10, MovesOn DEF Safe
<1>12. /\ UNCHANGED <<transport, registered, timer>>
       /\ at["loop"] = "handle" /\ (Goto("loop", "idle") \/ Goto("loop", "callback"))
  BY DEF Disconnected, Handles
<1>13. \A t \in Tasks : at'[t] \in Works \/ at[t] \in Works => at'[t] = at[t]
  BY <1>12 DEF Safe, Typed, PlacesOK, Goto, Works, Starters, Stops, Blocking, Closing, Tasks
<1> QED
  BY <1>1, <1>11, <1>12, <1>13 DEF Serving

LEMMA ResetServes ==
  ASSUME Safe, ResetRequest
  PROVE  Serving
<1>1. InState(Running)
  BY DEF ResetRequest, InState, Running
<1>2. prov_ctx \in Contexts
  BY <1>1, ContextFields DEF InState, Safe
<1>3. PICK w : w = prov_ctx.wifi_state
  OBVIOUS
<1>4. /\ prov_ctx' = [prov_ctx EXCEPT !.state = "STARTED", !.attempts = 0, !.wifi_state = w]
      /\ w \in {"CONNECTING", "CONNECTED", "ATTEMPT_FAILED", "DISCONNECTED"}
  BY <1>2, <1>3 DEF ResetRequest, Contexts
<1>5. 0 \in 0..ConnAttempts
  BY ProvMgrAssumption
<1>6. /\ InState(Running)' /\ prov_ctx' \in Contexts
      /\ SameService(prov_ctx, prov_ctx') /\ SameSecret(prov_ctx, prov_ctx')
  BY <1>1, <1>4, <1>5, MovesOn DEF Safe, Running
<1> QED
  BY <1>1, <1>6 DEF Serving, ResetRequest, envVars

\* A new provisioning: the credentials come from a client of a running service.
LEMMA ReprovServes ==
  ASSUME Calm, Safe, ReprovRequest
  PROVE  InState(Running) /\ (Serving \/ UNCHANGED vars \/ UNCHANGED <<prov_ctx, at, timer>>)
<1>1. InState(Running)
  <2>1. prov_ctx # NULL /\ prov_ctx.handlers /\ ~InState({"STARTING"}) /\ ~InState({"STOPPING"})
    BY RequestIs DEF ReprovRequest, Serves, Calm, RequestInStart, ReprovInStop
  <2>2. ~InState({"IDLE"})
    BY <2>1 DEF Safe, Core, StateOK
  <2> QED
    BY <2>1, <2>2, ContextFields DEF Safe, InState
<1>2. CASE UNCHANGED <<prov_ctx, at, timer>>
  BY <1>1, <1>2
<1>3. CASE prov_ctx' = [prov_ctx EXCEPT !.state = "STARTED"] /\ Goto("host", "callback")
  <2>1. prov_ctx \in Contexts
    BY <1>1, ContextFields DEF InState, Safe
  <2>2. PICK w, n : w = prov_ctx.wifi_state /\ n = prov_ctx.attempts
    OBVIOUS
  <2>3. /\ prov_ctx' = [prov_ctx EXCEPT !.state = "STARTED", !.attempts = n, !.wifi_state = w]
        /\ w \in {"CONNECTING", "CONNECTED", "ATTEMPT_FAILED", "DISCONNECTED"}
        /\ n \in 0..ConnAttempts
    BY <1>3, <2>1, <2>2 DEF Contexts
  <2>4. /\ InState(Running)' /\ prov_ctx' \in Contexts
        /\ SameService(prov_ctx, prov_ctx') /\ SameSecret(prov_ctx, prov_ctx')
    BY <1>1, <2>3, MovesOn DEF Safe, Running
  <2>5. UNCHANGED <<transport, registered, timer>>
    BY DEF ReprovRequest
  <2>6. \A t \in Tasks : at'[t] \in Works \/ at[t] \in Works => at'[t] = at[t]
    BY <1>3 DEF ReprovRequest, Serves, Safe, Typed, PlacesOK, Goto, Works, Starters, Stops,
         Blocking, Closing, Tasks
  <2> QED
    BY <1>1, <2>4, <2>5, <2>6 DEF Serving
<1> QED
  BY <1>2, <1>3 DEF ReprovRequest

\* A configuration is taken by a running service, or by none at all.
LEMMA ConfiguredServes ==
  ASSUME Calm, Safe, Configured
  PROVE  Serving \/ (UNCHANGED <<prov_ctx, timer>> /\ Goto("host", "idle"))
<1>1. CASE UNCHANGED <<prov_ctx, timer>> /\ Goto("host", "idle")
  BY <1>1
<1>2. CASE /\ ~InState(CredRecvOrLater) /\ timer["wifi_connect"] = "idle"
           /\ timer' = [timer EXCEPT !["wifi_connect"] = "armed"]
           /\ prov_ctx' = [prov_ctx EXCEPT !.wifi_state = "CONNECTING",
                                        !.attempts = 0, !.state = "CRED_RECV"]
           /\ Goto("host", "callback")
  <2>1. at["host"] = "configure"
    BY DEF Configured
  <2>2. InState(Running)
    <3>1. InState(Running) \/ InState({"STOPPING"}) \/ InState({"IDLE"})
      BY <2>1 DEF Safe, RequestOK, InState
    <3>2. ~InState({"STOPPING"})
      BY <1>2 DEF InState, CredRecvOrLater
    <3>3. ~InState({"IDLE"})
      BY <1>2 DEF Safe, Core, StateOK, Down, NoTimers, Timers
    <3> QED
      BY <3>1, <3>2, <3>3
  <2>3. prov_ctx \in Contexts
    BY <2>2, ContextFields DEF InState, Safe
  <2>4. prov_ctx' = [prov_ctx EXCEPT !.state = "CRED_RECV", !.attempts = 0,
                                     !.wifi_state = "CONNECTING"]
    BY <1>2, <2>3 DEF Contexts
  <2>5. 0 \in 0..ConnAttempts
    BY ProvMgrAssumption
  <2>6. /\ InState(Running)' /\ prov_ctx' \in Contexts
        /\ SameService(prov_ctx, prov_ctx') /\ SameSecret(prov_ctx, prov_ctx')
    BY <2>2, <2>4, <2>5, MovesOn DEF Safe, Running
  <2>7. /\ UNCHANGED <<transport, registered>>
        /\ \A h \in Timers : timer'[h] = "none" <=> timer[h] = "none"
    BY <1>2 DEF Configured, Safe, Typed, Timers
  <2>8. \A t \in Tasks : at'[t] \in Works \/ at[t] \in Works => at'[t] = at[t]
    BY <1>2, <2>1 DEF Safe, Typed, PlacesOK, Goto, Works, Starters, Stops, Blocking,
         Closing, Tasks
  <2>9. Serving
    BY <2>2, <2>6, <2>7, <2>8 DEF Serving
  <2> QED
    BY <2>9
<1> QED
  BY <1>1, <1>2 DEF Configured
LEMMA ContextStep ==
  ASSUME Calm, Safe, [Next]_vars
  PROVE  prov_ctx' \in Contexts \cup {NULL}
<1> USE ProvMgrAssumption
         DEF Safe, Typed, envVars
<1>1. ASSUME NEW t \in Tasks, CallbackDone(t) \/ StopTooLate(t) \/ WaitEnds(t) \/
            DeinitNothing(t) \/ CloseSession(t) \/ Announce(t) \/ DeinitEnd(t) \/
            DeleteLock(t) \/ StartRefused(t) \/ ServiceFails(t) \/ Wait(t)
      PROVE  prov_ctx' \in Contexts \cup {NULL}
  BY <1>1
     DEF CallbackDone, StopTooLate, WaitEnds, DeinitNothing, CloseSession, Announce,
         DeinitEnd, DeleteLock, StartRefused, ServiceFails, Wait
<1>2. ASSUME AutostopFires \/ CleanupFires \/ WifiConnectFires \/ Dispatch \/
            EventIgnored \/ Configure \/ StatusRequest \/ AppStopRequest \/ LinkUp \/
            LinkDown
      PROVE  prov_ctx' \in Contexts \cup {NULL}
  BY <1>2
     DEF AutostopFires, CleanupFires, WifiConnectFires, Dispatch, EventIgnored,
         Configure, StatusRequest, AppStopRequest, LinkUp, LinkDown
<1>3. ASSUME NEW t \in Tasks, ServiceUp(t)
      PROVE  prov_ctx' \in Contexts \cup {NULL}
  BY <1>3, ContextFields
     DEF ServiceUp, FreeCtx, StopBegins, InState, Core, WorkOK, Works, Starters, Stops,
         Blocking, Closing, Contexts, Timers, Running, Handles, CredRecvOrLater
<1>4. ASSUME NEW t \in Tasks, StartEnds(t)
      PROVE  prov_ctx' \in Contexts \cup {NULL}
  BY <1>4, ContextFields
     DEF StartEnds, FreeCtx, StopBegins, InState, Core, WorkOK, Works, Starters, Stops,
         Blocking, Closing, Contexts, Timers, Running, Handles, CredRecvOrLater
<1>5. ASSUME NEW t \in Tasks, StartFailed(t)
      PROVE  prov_ctx' \in Contexts \cup {NULL}
  BY <1>5, ContextFields
     DEF StartFailed, FreeCtx, StopBegins, InState, Core, WorkOK, Works, Starters,
         Stops, Blocking, Closing, Contexts, Timers, Running, Handles, CredRecvOrLater
<1>6. ASSUME NEW t \in Tasks, BlockingStopBegins(t)
      PROVE  prov_ctx' \in Contexts \cup {NULL}
  BY <1>6, ContextFields
     DEF BlockingStopBegins, FreeCtx, StopBegins, InState, Core, WorkOK, Works,
         Starters, Stops, Blocking, Closing, Contexts, Timers, Running, Handles,
         CredRecvOrLater
<1>7. ASSUME NEW t \in Tasks, BlockingStopEnds(t)
      PROVE  prov_ctx' \in Contexts \cup {NULL}
  BY <1>7, ContextFields
     DEF BlockingStopEnds, FreeCtx, StopBegins, InState, Core, WorkOK, Works, Starters,
         Stops, Blocking, Closing, Contexts, Timers, Running, Handles, CredRecvOrLater
<1>8. ASSUME NEW t \in Tasks, SessionClosed(t)
      PROVE  prov_ctx' \in Contexts \cup {NULL}
  BY <1>8, ContextFields
     DEF SessionClosed, FreeCtx, StopBegins, InState, Core, WorkOK, Works, Starters,
         Stops, Blocking, Closing, Contexts, Timers, Running, Handles, CredRecvOrLater
<1>9. ASSUME NEW t \in Tasks, DisableAutoStop(t)
      PROVE  prov_ctx' \in Contexts \cup {NULL}
  BY <1>9, ContextFields
     DEF DisableAutoStop, FreeCtx, StopBegins, InState, Core, WorkOK, Works, Starters,
         Stops, Blocking, Closing, Contexts, Timers, Running, Handles, CredRecvOrLater
<1>10. ASSUME NEW t \in Tasks, EnableProvisioning(t)
      PROVE  prov_ctx' \in Contexts \cup {NULL}
  BY <1>10, ContextFields
     DEF EnableProvisioning, FreeCtx, StopBegins, InState, Core, WorkOK, Works,
         Starters, Stops, Blocking, Closing, Contexts, Timers, Running, Handles,
         CredRecvOrLater
<1>11. ASSUME AsyncStopBegins
      PROVE  prov_ctx' \in Contexts \cup {NULL}
  BY <1>11, ContextFields
     DEF AsyncStopBegins, FreeCtx, StopBegins, InState, Core, WorkOK, Works, Starters,
         Stops, Blocking, Closing, Contexts, Timers, Running, Handles, CredRecvOrLater
<1>12. ASSUME NEW t \in Tasks, StopProvisioning(t)
      PROVE  prov_ctx' \in Contexts \cup {NULL}
  BY <1>12, StopIs, StopServiceIs
     DEF StopProvisioning
<1>13. ASSUME NEW t \in Tasks, Deinit(t)
      PROVE  prov_ctx' \in Contexts \cup {NULL}
  <2>1. CASE StopService(TRUE)
    BY <2>1, StopServiceIs
  <2>2. CASE prov_ctx' = [prov_ctx EXCEPT !.session_pc = FALSE, !.state = "STOPPING"]
    BY <1>13, <2>2, DeinitIs, ContextFields DEF Contexts
  <2> QED
    BY <1>13, <2>1, <2>2, DeinitIs
<1>14. ASSUME NEW t \in Tasks, MgrInit(t)
      PROVE  prov_ctx' \in Contexts \cup {NULL}
  BY <1>14, NewContext
     DEF MgrInit
<1>15. ASSUME NEW t \in Tasks, NEW sec \in Securities, Start(t, sec)
      PROVE  prov_ctx' \in Contexts \cup {NULL}
  BY <1>15, StartIs
     DEF Start
<1>16. ASSUME NEW t \in Tasks, NEW sec \in Securities, StartWithoutTimers(t, sec)
      PROVE  prov_ctx' \in Contexts \cup {NULL}
  BY <1>16, StartWithoutTimersIs
     DEF StartWithoutTimers
<1>17. ASSUME Configured
      PROVE  prov_ctx' \in Contexts \cup {NULL}
  BY <1>17, ConfiguredServes
     DEF Configured, Serving
<1>18. ASSUME GotIp
      PROVE  prov_ctx' \in Contexts \cup {NULL}
  BY <1>18, GotIpServes
     DEF GotIp, Serving
<1>19. ASSUME NEW e \in {"REFUSED", "LOST"}, Disconnected(e)
      PROVE  prov_ctx' \in Contexts \cup {NULL}
  BY <1>19, DisconnectedServes
     DEF Disconnected, Serving
<1>20. ASSUME ResetRequest
      PROVE  prov_ctx' \in Contexts \cup {NULL}
  BY <1>20, ResetServes
     DEF ResetRequest, Serving
<1>21. ASSUME ReprovRequest
      PROVE  prov_ctx' \in Contexts \cup {NULL}
  BY <1>21, ReprovServes
     DEF ReprovRequest, Serving, vars
<1>22. ASSUME NEW t \in Tasks, BlockingStopFinishes(t)
      PROVE  prov_ctx' \in Contexts \cup {NULL}
  <2>1. prov_ctx # NULL /\ prov_ctx.state = "STOPPING"
    BY <1>22 DEF BlockingStopFinishes, Core, WorkOK, Works, Stops, Blocking
  <2> QED
    BY <1>22, <2>1, StopFinishesIs DEF BlockingStopFinishes
<1>23. ASSUME AsyncStopFinishes
      PROVE  prov_ctx' \in Contexts \cup {NULL}
  <2>1. prov_ctx # NULL
    BY <1>23 DEF AsyncStopFinishes, Core, WorkOK, Works, Stops, Tasks
  <2> QED
    BY <1>23, <2>1, StopFinishesIs DEF AsyncStopFinishes
<1>24. CASE UNCHANGED vars
  BY <1>24 DEF vars, envVars
<1> QED
  BY <1>1, <1>2, <1>3, <1>4, <1>5, <1>6, <1>7, <1>8, <1>9, <1>10, <1>11, <1>12, <1>13,
     <1>14, <1>15, <1>16, <1>17, <1>18, <1>19, <1>20, <1>21, <1>22, <1>23, <1>24
     DEF Next, Continue, AppCalls, TimerTask, EventLoop, Clients


LEMMA DisconnectsIs ==
  ASSUME Typed, Disconnects
  PROVE  /\ link' = "off"
         /\ queue' = queue \/ (Len(queue) < QueueSize /\ queue' = Append(queue, "LOST"))
BY DEF Typed, Disconnects

LEMMA Posting ==
  ASSUME Typed, NEW e \in Events, Len(queue) < QueueSize
  PROVE  Append(queue, e) \in Seq(Events) /\ Len(Append(queue, e)) <= QueueSize
BY ProvMgrAssumption DEF Typed

QueueOK == queue \in Seq(Events) /\ Len(queue) <= QueueSize

LEMMA QueueStep ==
  ASSUME Typed, [Next]_vars
  PROVE  QueueOK'
<1> USE ProvMgrAssumption
         DEF QueueOK, Typed, envVars
<1>1. ASSUME NEW t \in Tasks, CallbackDone(t) \/ ServiceUp(t) \/ StartEnds(t) \/
            StartFailed(t) \/ StopProvisioning(t) \/ StopTooLate(t) \/ WaitEnds(t) \/
            Deinit(t) \/ DeinitNothing(t) \/ BlockingStopBegins(t) \/
            BlockingStopFinishes(t) \/ BlockingStopEnds(t) \/ CloseSession(t) \/
            SessionClosed(t) \/ Announce(t) \/ DeinitEnd(t) \/ DeleteLock(t) \/
            MgrInit(t) \/ DisableAutoStop(t) \/ EnableProvisioning(t) \/
            StartRefused(t) \/ ServiceFails(t) \/ Wait(t)
      PROVE  QueueOK'
  BY <1>1
     DEF CallbackDone, ServiceUp, StartEnds, StartFailed, StopProvisioning, StopTooLate,
         WaitEnds, Deinit, DeinitNothing, BlockingStopBegins, BlockingStopFinishes,
         BlockingStopEnds, CloseSession, SessionClosed, Announce, DeinitEnd, DeleteLock,
         MgrInit, DisableAutoStop, EnableProvisioning, StartRefused, ServiceFails, Wait
<1>2. ASSUME Configured \/ AutostopFires \/ WifiConnectFires \/ EventIgnored \/ GotIp \/
            AsyncStopBegins \/ AsyncStopFinishes \/ Configure \/ StatusRequest \/
            AppStopRequest \/ ResetRequest
      PROVE  QueueOK'
  BY <1>2
     DEF Configured, AutostopFires, WifiConnectFires, EventIgnored, GotIp,
         AsyncStopBegins, AsyncStopFinishes, Configure, StatusRequest, AppStopRequest,
         ResetRequest
<1>3. ASSUME NEW e \in {"REFUSED", "LOST"}, Disconnected(e)
      PROVE  QueueOK'
  BY <1>3
     DEF Disconnected
<1>4. ASSUME NEW t \in Tasks, NEW sec \in Securities, Start(t, sec)
      PROVE  QueueOK'
  <2>1. Disconnects \/ queue' = queue
    BY <1>4 DEF Start
  <2> QED
    BY <2>1, DisconnectsIs, Posting DEF Events, QueueOK
<1>5. ASSUME NEW t \in Tasks, NEW sec \in Securities, StartWithoutTimers(t, sec)
      PROVE  QueueOK'
  <2>1. Disconnects \/ queue' = queue
    BY <1>5 DEF StartWithoutTimers
  <2> QED
    BY <2>1, DisconnectsIs, Posting DEF Events, QueueOK
<1>6. ASSUME ReprovRequest
      PROVE  QueueOK'
  <2>1. Disconnects \/ queue' = queue
    BY <1>6 DEF ReprovRequest
  <2> QED
    BY <2>1, DisconnectsIs, Posting DEF Events, QueueOK
<1>7. ASSUME Dispatch
      PROVE  QueueOK'
  BY <1>7
     DEF Dispatch
<1>8. ASSUME CleanupFires
      PROVE  QueueOK'
  BY <1>8, Posting
     DEF CleanupFires, Events
<1>9. ASSUME LinkUp
      PROVE  QueueOK'
  BY <1>9, Posting
     DEF LinkUp, Events
<1>10. ASSUME LinkDown
      PROVE  QueueOK'
  BY <1>10, Posting
     DEF LinkDown, Events
<1>11. CASE UNCHANGED vars
  BY <1>11 DEF vars, envVars
<1> QED
  BY <1>1, <1>2, <1>3, <1>4, <1>5, <1>6, <1>7, <1>8, <1>9, <1>10, <1>11
     DEF Next, Continue, AppCalls, TimerTask, EventLoop, Clients

SystemOK ==
  /\ lock \in {"none", "free", "loop"} /\ event \in Events \cup {"none"}
  /\ registered \subseteq {"wifi", "stop"}
  /\ timer \in [Timers -> {"none", "idle", "armed"}]

CountsOK ==
  /\ transport \in BOOLEAN /\ link \in {"off", "connecting", "connected"}
  /\ endOwed \in BOOLEAN
  /\ calls \in 0..MaxCalls /\ failures \in 0..MaxFailures

LEMMA StopServiceSystem ==
  ASSUME Typed, NEW blocking, StopService(blocking)
  PROVE  /\ registered' \subseteq {"wifi", "stop"}
         /\ timer' \in [Timers -> {"none", "idle", "armed"}]
BY DEF Typed, StopService, UnregisterWifi, Timers

LEMMA Counted ==
  ASSUME NEW n \in Nat, NEW k \in 0..n, k < n
  PROVE  k + 1 \in 0..n
OBVIOUS

LEMMA CallIs ==
  ASSUME Typed, NEW t, NEW name, Call(t, name)
  PROVE  calls' \in 0..MaxCalls
BY Counted, ProvMgrAssumption DEF Typed, Call

LEMMA FailIs ==
  ASSUME Typed, NEW what, Fail(what)
  PROVE  failures' \in 0..MaxFailures
BY Counted, ProvMgrAssumption DEF Typed, Fail

LEMMA SystemStep ==
  ASSUME Typed, [Next]_vars
  PROVE  SystemOK'
<1> USE DEF SystemOK, Typed, envVars, Timers, Events, StopBegins, Handles, HandlerDone,
             TimerFires
<1>1. ASSUME NEW t \in Tasks, CallbackDone(t)
      PROVE  SystemOK'
  BY <1>1
     DEF CallbackDone
<1>2. ASSUME NEW t \in Tasks, ServiceUp(t)
      PROVE  SystemOK'
  BY <1>2
     DEF ServiceUp
<1>3. ASSUME NEW t \in Tasks, StartEnds(t)
      PROVE  SystemOK'
  BY <1>3
     DEF StartEnds
<1>4. ASSUME NEW t \in Tasks, StartFailed(t)
      PROVE  SystemOK'
  BY <1>4
     DEF StartFailed
<1>5. ASSUME NEW t \in Tasks, StopTooLate(t)
      PROVE  SystemOK'
  BY <1>5
     DEF StopTooLate
<1>6. ASSUME NEW t \in Tasks, WaitEnds(t)
      PROVE  SystemOK'
  BY <1>6
     DEF WaitEnds
<1>7. ASSUME NEW t \in Tasks, DeinitNothing(t)
      PROVE  SystemOK'
  BY <1>7
     DEF DeinitNothing
<1>8. ASSUME NEW t \in Tasks, BlockingStopBegins(t)
      PROVE  SystemOK'
  BY <1>8
     DEF BlockingStopBegins
<1>9. ASSUME NEW t \in Tasks, BlockingStopFinishes(t)
      PROVE  SystemOK'
  BY <1>9
     DEF BlockingStopFinishes
<1>10. ASSUME NEW t \in Tasks, BlockingStopEnds(t)
      PROVE  SystemOK'
  BY <1>10
     DEF BlockingStopEnds
<1>11. ASSUME NEW t \in Tasks, CloseSession(t)
      PROVE  SystemOK'
  BY <1>11
     DEF CloseSession
<1>12. ASSUME NEW t \in Tasks, SessionClosed(t)
      PROVE  SystemOK'
  BY <1>12
     DEF SessionClosed
<1>13. ASSUME NEW t \in Tasks, Announce(t)
      PROVE  SystemOK'
  BY <1>13
     DEF Announce
<1>14. ASSUME NEW t \in Tasks, DeinitEnd(t)
      PROVE  SystemOK'
  BY <1>14
     DEF DeinitEnd
<1>15. ASSUME NEW t \in Tasks, DeleteLock(t)
      PROVE  SystemOK'
  BY <1>15
     DEF DeleteLock
<1>16. ASSUME NEW t \in Tasks, MgrInit(t)
      PROVE  SystemOK'
  BY <1>16
     DEF MgrInit
<1>17. ASSUME NEW t \in Tasks, DisableAutoStop(t)
      PROVE  SystemOK'
  BY <1>17
     DEF DisableAutoStop
<1>18. ASSUME NEW t \in Tasks, EnableProvisioning(t)
      PROVE  SystemOK'
  BY <1>18
     DEF EnableProvisioning
<1>19. ASSUME NEW t \in Tasks, NEW sec \in Securities, Start(t, sec)
      PROVE  SystemOK'
  BY <1>19
     DEF Start
<1>20. ASSUME NEW t \in Tasks, NEW sec \in Securities, StartWithoutTimers(t, sec)
      PROVE  SystemOK'
  BY <1>20
     DEF StartWithoutTimers
<1>21. ASSUME NEW t \in Tasks, StartRefused(t)
      PROVE  SystemOK'
  BY <1>21
     DEF StartRefused
<1>22. ASSUME NEW t \in Tasks, ServiceFails(t)
      PROVE  SystemOK'
  BY <1>22
     DEF ServiceFails
<1>23. ASSUME NEW t \in Tasks, Wait(t)
      PROVE  SystemOK'
  BY <1>23
     DEF Wait
<1>24. ASSUME Configured
      PROVE  SystemOK'
  BY <1>24
     DEF Configured
<1>25. ASSUME AutostopFires
      PROVE  SystemOK'
  BY <1>25
     DEF AutostopFires
<1>26. ASSUME CleanupFires
      PROVE  SystemOK'
  BY <1>26
     DEF CleanupFires
<1>27. ASSUME WifiConnectFires
      PROVE  SystemOK'
  BY <1>27
     DEF WifiConnectFires
<1>28. ASSUME Dispatch
      PROVE  SystemOK'
  BY <1>28
     DEF Dispatch
<1>29. ASSUME EventIgnored
      PROVE  SystemOK'
  BY <1>29
     DEF EventIgnored
<1>30. ASSUME GotIp
      PROVE  SystemOK'
  BY <1>30
     DEF GotIp
<1>31. ASSUME NEW e \in {"REFUSED", "LOST"}, Disconnected(e)
      PROVE  SystemOK'
  BY <1>31
     DEF Disconnected
<1>32. ASSUME AsyncStopBegins
      PROVE  SystemOK'
  BY <1>32
     DEF AsyncStopBegins
<1>33. ASSUME AsyncStopFinishes
      PROVE  SystemOK'
  BY <1>33
     DEF AsyncStopFinishes
<1>34. ASSUME Configure
      PROVE  SystemOK'
  BY <1>34
     DEF Configure
<1>35. ASSUME StatusRequest
      PROVE  SystemOK'
  BY <1>35
     DEF StatusRequest
<1>36. ASSUME AppStopRequest
      PROVE  SystemOK'
  BY <1>36
     DEF AppStopRequest
<1>37. ASSUME ResetRequest
      PROVE  SystemOK'
  BY <1>37
     DEF ResetRequest
<1>38. ASSUME ReprovRequest
      PROVE  SystemOK'
  BY <1>38
     DEF ReprovRequest
<1>39. ASSUME LinkUp
      PROVE  SystemOK'
  BY <1>39
     DEF LinkUp
<1>40. ASSUME LinkDown
      PROVE  SystemOK'
  BY <1>40
     DEF LinkDown
<1>41. ASSUME NEW t \in Tasks, StopProvisioning(t)
      PROVE  SystemOK'
  BY <1>41, StopIs, StopServiceSystem
<1>42. ASSUME NEW t \in Tasks, Deinit(t)
      PROVE  SystemOK'
  BY <1>42, DeinitIs, StopServiceSystem
<1>43. CASE UNCHANGED vars
  BY <1>43 DEF vars, envVars
<1> QED
  BY <1>1, <1>2, <1>3, <1>4, <1>5, <1>6, <1>7, <1>8, <1>9, <1>10, <1>11, <1>12, <1>13,
     <1>14, <1>15, <1>16, <1>17, <1>18, <1>19, <1>20, <1>21, <1>22, <1>23, <1>24, <1>25,
     <1>26, <1>27, <1>28, <1>29, <1>30, <1>31, <1>32, <1>33, <1>34, <1>35, <1>36, <1>37,
     <1>38, <1>39, <1>40, <1>41, <1>42, <1>43
     DEF Next, Continue, AppCalls, TimerTask, EventLoop, Clients

LEMMA CountsStep ==
  ASSUME Safe, [Next]_vars
  PROVE  CountsOK'
<1> USE CallIs, FailIs
         DEF CountsOK, Safe, Typed, envVars
<1>1. ASSUME NEW t \in Tasks, CallbackDone(t)
      PROVE  CountsOK'
  BY <1>1
     DEF CallbackDone
<1>2. ASSUME NEW t \in Tasks, ServiceUp(t)
      PROVE  CountsOK'
  BY <1>2
     DEF ServiceUp
<1>3. ASSUME NEW t \in Tasks, StartFailed(t)
      PROVE  CountsOK'
  BY <1>3
     DEF StartFailed
<1>4. ASSUME NEW t \in Tasks, StopTooLate(t)
      PROVE  CountsOK'
  BY <1>4
     DEF StopTooLate
<1>5. ASSUME NEW t \in Tasks, WaitEnds(t)
      PROVE  CountsOK'
  BY <1>5
     DEF WaitEnds
<1>6. ASSUME NEW t \in Tasks, DeinitNothing(t)
      PROVE  CountsOK'
  BY <1>6
     DEF DeinitNothing
<1>7. ASSUME NEW t \in Tasks, BlockingStopBegins(t)
      PROVE  CountsOK'
  BY <1>7
     DEF BlockingStopBegins
<1>8. ASSUME NEW t \in Tasks, BlockingStopEnds(t)
      PROVE  CountsOK'
  BY <1>8
     DEF BlockingStopEnds
<1>9. ASSUME NEW t \in Tasks, CloseSession(t)
      PROVE  CountsOK'
  BY <1>9
     DEF CloseSession
<1>10. ASSUME NEW t \in Tasks, SessionClosed(t)
      PROVE  CountsOK'
  BY <1>10
     DEF SessionClosed
<1>11. ASSUME NEW t \in Tasks, DeinitEnd(t)
      PROVE  CountsOK'
  BY <1>11
     DEF DeinitEnd
<1>12. ASSUME NEW t \in Tasks, DeleteLock(t)
      PROVE  CountsOK'
  BY <1>12
     DEF DeleteLock
<1>13. ASSUME NEW t \in Tasks, MgrInit(t)
      PROVE  CountsOK'
  BY <1>13
     DEF MgrInit
<1>14. ASSUME NEW t \in Tasks, DisableAutoStop(t)
      PROVE  CountsOK'
  BY <1>14
     DEF DisableAutoStop
<1>15. ASSUME NEW t \in Tasks, EnableProvisioning(t)
      PROVE  CountsOK'
  BY <1>15
     DEF EnableProvisioning
<1>16. ASSUME NEW t \in Tasks, StartRefused(t)
      PROVE  CountsOK'
  BY <1>16
     DEF StartRefused
<1>17. ASSUME NEW t \in Tasks, ServiceFails(t)
      PROVE  CountsOK'
  BY <1>17
     DEF ServiceFails
<1>18. ASSUME NEW t \in Tasks, Wait(t)
      PROVE  CountsOK'
  BY <1>18
     DEF Wait
<1>19. ASSUME Configured
      PROVE  CountsOK'
  BY <1>19
     DEF Configured
<1>20. ASSUME AutostopFires
      PROVE  CountsOK'
  BY <1>20
     DEF AutostopFires
<1>21. ASSUME CleanupFires
      PROVE  CountsOK'
  BY <1>21
     DEF CleanupFires
<1>22. ASSUME WifiConnectFires
      PROVE  CountsOK'
  BY <1>22
     DEF WifiConnectFires
<1>23. ASSUME Dispatch
      PROVE  CountsOK'
  BY <1>23
     DEF Dispatch
<1>24. ASSUME EventIgnored
      PROVE  CountsOK'
  BY <1>24
     DEF EventIgnored
<1>25. ASSUME GotIp
      PROVE  CountsOK'
  BY <1>25
     DEF GotIp
<1>26. ASSUME NEW e \in {"REFUSED", "LOST"}, Disconnected(e)
      PROVE  CountsOK'
  BY <1>26
     DEF Disconnected
<1>27. ASSUME Configure
      PROVE  CountsOK'
  BY <1>27
     DEF Configure
<1>28. ASSUME StatusRequest
      PROVE  CountsOK'
  BY <1>28
     DEF StatusRequest
<1>29. ASSUME AppStopRequest
      PROVE  CountsOK'
  BY <1>29
     DEF AppStopRequest
<1>30. ASSUME ResetRequest
      PROVE  CountsOK'
  BY <1>30
     DEF ResetRequest
<1>31. ASSUME LinkUp
      PROVE  CountsOK'
  BY <1>31
     DEF LinkUp
<1>32. ASSUME LinkDown
      PROVE  CountsOK'
  BY <1>32
     DEF LinkDown
<1>33. ASSUME NEW t \in Tasks, BlockingStopFinishes(t)
      PROVE  CountsOK'
  BY <1>33
     DEF BlockingStopFinishes, StopFinishes, KeepTransport
<1>34. ASSUME AsyncStopFinishes
      PROVE  CountsOK'
  BY <1>34
     DEF AsyncStopFinishes, StopFinishes, KeepTransport
<1>35. ASSUME AsyncStopBegins
      PROVE  CountsOK'
  BY <1>35
     DEF AsyncStopBegins, StopBegins
<1>36. ASSUME NEW t \in Tasks, NEW sec \in Securities, Start(t, sec)
      PROVE  CountsOK'
  BY <1>36, DisconnectsIs
     DEF Start
<1>37. ASSUME NEW t \in Tasks, NEW sec \in Securities, StartWithoutTimers(t, sec)
      PROVE  CountsOK'
  BY <1>37, DisconnectsIs
     DEF StartWithoutTimers
<1>38. ASSUME ReprovRequest
      PROVE  CountsOK'
  BY <1>38, DisconnectsIs
     DEF ReprovRequest
<1>39. ASSUME NEW t \in Tasks, StopProvisioning(t)
      PROVE  CountsOK'
  BY <1>39, StopIs
     DEF StopProvisioning
<1>40. ASSUME NEW t \in Tasks, Deinit(t)
      PROVE  CountsOK'
  BY <1>40, DeinitIs
     DEF Deinit
<1>41. ASSUME NEW t \in Tasks, Announce(t)
      PROVE  CountsOK'
  BY <1>41
     DEF Announce
<1>42. ASSUME NEW t \in Tasks, StartEnds(t)
      PROVE  CountsOK'
  <2>1. PICK b : b \in BOOLEAN /\ b = prov_ctx.endpoints
    BY <1>42, ContextFields DEF StartEnds, Core, WorkOK, Works, Starters
  <2> QED
    BY <1>42, <2>1 DEF StartEnds
<1>43. CASE UNCHANGED vars
  BY <1>43 DEF vars, envVars
<1> QED
  BY <1>1, <1>2, <1>3, <1>4, <1>5, <1>6, <1>7, <1>8, <1>9, <1>10, <1>11, <1>12, <1>13,
     <1>14, <1>15, <1>16, <1>17, <1>18, <1>19, <1>20, <1>21, <1>22, <1>23, <1>24, <1>25,
     <1>26, <1>27, <1>28, <1>29, <1>30, <1>31, <1>32, <1>33, <1>34, <1>35, <1>36, <1>37,
     <1>38, <1>39, <1>40, <1>41, <1>42, <1>43
     DEF Next, Continue, AppCalls, TimerTask, EventLoop, Clients

LEMMA TypedStep ==
  ASSUME Calm, Safe, [Next]_vars
  PROVE  Typed'
BY ContextStep, PlacesStep, QueueStep, SystemStep, CountsStep
   DEF Typed, Safe, QueueOK, SystemOK, CountsOK


-----------------------------------------------------------------------------
(* Who works, and what is there.                                           *)

\* Nothing that the work on the service depends on changes.
Quiet ==
  /\ UNCHANGED <<prov_ctx, transport, registered>>
  /\ \A h \in Timers : timer'[h] = "none" <=> timer[h] = "none"
  /\ \A t \in Tasks : at'[t] \in Works \/ at[t] \in Works => at'[t] = at[t]

LEMMA NobodyWorks ==
  ASSUME Safe, ~InState({"STARTING", "STOPPING"})
  PROVE  \A u \in Tasks : at[u] \notin Works
BY DEF Safe, Core, WorkOK, InState, Works

LEMMA AloneAtWork ==
  ASSUME Safe, NEW t \in Tasks, at[t] \in Works
  PROVE  \A u \in Tasks \ {t} : at[u] \notin Works
BY DEF Safe, Core, OneWorker

\* A task goes on with its work, or starts it, while no other works.
LEMMA Worker ==
  ASSUME Typed, NEW t \in Tasks, NEW p, Goto(t, p),
         \A u \in Tasks \ {t} : at[u] \notin Works, WorkOK(t)', StateOK'
  PROVE  Core'
<1>1. \A u \in Tasks \ {t} : at'[u] \notin Works
  BY DEF Typed, PlacesOK, Goto
<1>2. OneWorker'
  BY <1>1 DEF OneWorker
<1>3. \A u \in Tasks \ {t} : WorkOK(u)'
  BY <1>1 DEF WorkOK, Works, Starters, Stops, Blocking, Closing
<1> QED
  BY <1>2, <1>3 DEF Core

\* Nobody works after the step.
LEMMA Rest ==
  ASSUME \A u \in Tasks : at'[u] \notin Works, StateOK'
  PROVE  Core'
BY DEF Core, OneWorker, WorkOK, Works, Starters, Stops, Blocking, Closing

\* A task ends its work, or did none, and no other works.
LEMMA Ends ==
  ASSUME Typed, NEW t \in Tasks, NEW p, p \notin Works, Goto(t, p),
         \A u \in Tasks \ {t} : at[u] \notin Works, StateOK'
  PROVE  Core'
<1>1. \A u \in Tasks : at'[u] \notin Works
  BY DEF Typed, PlacesOK, Goto
<1> QED
  BY <1>1, Rest

LEMMA QuietCore ==
  ASSUME Safe, Quiet
  PROVE  Core'
<1>1. Down' <=> Down
  BY DEF Quiet, Down, NoTimers
<1>2. NoTimers' <=> NoTimers
  BY DEF Quiet, NoTimers
<1>3. OneWorker'
  BY DEF Safe, Core, OneWorker, Quiet
<1>4. ASSUME NEW t \in Tasks
      PROVE  WorkOK(t)'
  <2>1. CASE at'[t] \in Works
    <3>1. at'[t] = at[t] /\ WorkOK(t)
      BY <2>1 DEF Safe, Core, Quiet
    <3> QED
      BY <1>1, <1>2, <3>1 DEF WorkOK, Quiet
  <2>2. CASE at'[t] \notin Works
    BY <2>2 DEF WorkOK, Works, Starters, Stops, Blocking, Closing
  <2> QED
    BY <2>1, <2>2
<1>5. \A S : InState(S)' <=> InState(S)
  BY DEF InState, Quiet
<1>6. StateOK'
  <2>1. StateOK
    BY DEF Safe, Core
  <2>2. \A h \in {"autostop", "wifi_connect"} : timer'[h] = "none" <=> timer[h] = "none"
    BY DEF Quiet, Timers
  <2>3. (\E t \in Tasks : at[t] \in Works) => \E t \in Tasks : at'[t] \in Works
    BY DEF Quiet
  <2> QED
    BY <1>1, <1>5, <2>1, <2>2, <2>3 DEF StateOK, Quiet
<1> QED
  BY <1>3, <1>4, <1>6 DEF Core

LEMMA ServingCore ==
  ASSUME Safe, Serving
  PROVE  Core'
<1>1. \A u \in Tasks : at'[u] \notin Works
  BY NobodyWorks DEF Serving, InState, Running
<1>2. StateOK'
  <2>1. InState(Running) /\ StateOK
    BY DEF Serving, Safe, Core
  <2>2. transport /\ prov_ctx.pc /\ prov_ctx.endpoints /\ ~prov_ctx.session_pc
    BY <2>1 DEF StateOK
  <2>3. transport' /\ prov_ctx'.pc /\ prov_ctx'.endpoints /\ ~prov_ctx'.session_pc
    BY <2>2 DEF Serving, SameService
  <2> QED
    BY <2>3 DEF Serving, StateOK, InState, Running
<1> QED
  BY <1>1, <1>2, Rest

\* What an idle manager has.
LEMMA IdleHas ==
  ASSUME Safe, InState({"IDLE"})
  PROVE  /\ prov_ctx # NULL /\ prov_ctx \in Contexts /\ transport = prov_ctx.session_pc
         /\ ~prov_ctx.handlers /\ Down /\ \A u \in Tasks : at[u] \notin Works
BY NobodyWorks, ContextFields DEF Safe, Core, StateOK, InState

\* What a step leaves that ends with an idle manager.
LEMMA IdleAfter ==
  ASSUME InState({"IDLE"})', transport' = prov_ctx'.session_pc, ~prov_ctx'.handlers, Down'
  PROVE  StateOK'
BY DEF StateOK, InState, Running

\* The manager is gone.
LEMMA GoneAfter ==
  ASSUME prov_ctx' = NULL, ~transport', Down'
  PROVE  StateOK'
BY DEF StateOK, InState

\* The service stops, in the background or not.
LEMMA StopServiceCore ==
  ASSUME Safe, NEW t \in Tasks, NEW blocking \in BOOLEAN, StopService(blocking),
         NEW p, Goto(t, p), p \notin Works \/ p = "stop_begin", UNCHANGED transport
  PROVE  Core'
<1>1. /\ prov_ctx # NULL /\ transport /\ prov_ctx.pc /\ prov_ctx.endpoints
      /\ ~prov_ctx.session_pc /\ \A u \in Tasks : at[u] \notin Works
  BY StopServiceIs, NobodyWorks DEF Safe, Core, StateOK, InState, Running
<1>2. /\ prov_ctx' # NULL /\ prov_ctx'.state = "STOPPING"
      /\ prov_ctx'.pc /\ ~prov_ctx'.session_pc
  BY <1>1, StopServiceIs DEF SameService, Safe
<1>3. /\ registered' \subseteq {"stop"}
      /\ timer'["autostop"] = "none" /\ timer'["wifi_connect"] = "none"
  BY <1>1 DEF StopService, UnregisterWifi, Safe, Typed, Timers
<1>4. StateOK'
  BY <1>1, <1>2, <1>3 DEF StateOK, InState, Running
<1>5. CASE p \notin Works
  BY <1>1, <1>4, <1>5, Ends DEF Safe
<1>6. CASE p = "stop_begin"
  <2>1. at'[t] = "stop_begin"
    BY <1>6 DEF Goto, Safe, Typed, PlacesOK
  <2>2. WorkOK(t)'
    BY <1>1, <1>2, <2>1 DEF WorkOK, Starters
  <2> QED
    BY <1>1, <1>4, <2>2, Worker DEF Safe
<1> QED
  BY <1>5, <1>6

LEMMA CoreStep ==
  ASSUME Calm, Safe, [Next]_vars
  PROVE  Core'
<1> USE ProvMgrAssumption
         DEF Safe, Typed, envVars
<1>1. ASSUME NEW t \in Tasks, CallbackDone(t)
      PROVE  Core'
  <2>1. Quiet
    BY <1>1 DEF CallbackDone, Quiet, PlacesOK, Goto, Call, Works, Starters, Stops, Blocking, Closing,
         HandlerDone, Serves, TimerFires, Timers, Tasks
  <2> QED
    BY <2>1, QuietCore
<1>2. ASSUME NEW t \in Tasks, StopTooLate(t)
      PROVE  Core'
  <2>1. Quiet
    BY <1>2 DEF StopTooLate, Quiet, PlacesOK, Goto, Call, Works, Starters, Stops, Blocking, Closing,
         HandlerDone, Serves, TimerFires, Timers, Tasks
  <2> QED
    BY <2>1, QuietCore
<1>3. ASSUME NEW t \in Tasks, WaitEnds(t)
      PROVE  Core'
  <2>1. Quiet
    BY <1>3 DEF WaitEnds, Quiet, PlacesOK, Goto, Call, Works, Starters, Stops, Blocking, Closing,
         HandlerDone, Serves, TimerFires, Timers, Tasks
  <2> QED
    BY <2>1, QuietCore
<1>4. ASSUME NEW t \in Tasks, DeinitNothing(t)
      PROVE  Core'
  <2>1. Quiet
    BY <1>4 DEF DeinitNothing, Quiet, PlacesOK, Goto, Call, Works, Starters, Stops, Blocking, Closing,
         HandlerDone, Serves, TimerFires, Timers, Tasks
  <2> QED
    BY <2>1, QuietCore
<1>5. ASSUME NEW t \in Tasks, Announce(t)
      PROVE  Core'
  <2>1. Quiet
    BY <1>5 DEF Announce, Quiet, PlacesOK, Goto, Call, Works, Starters, Stops, Blocking, Closing,
         HandlerDone, Serves, TimerFires, Timers, Tasks
  <2> QED
    BY <2>1, QuietCore
<1>6. ASSUME NEW t \in Tasks, DeinitEnd(t)
      PROVE  Core'
  <2>1. Quiet
    BY <1>6 DEF DeinitEnd, Quiet, PlacesOK, Goto, Call, Works, Starters, Stops, Blocking, Closing,
         HandlerDone, Serves, TimerFires, Timers, Tasks
  <2> QED
    BY <2>1, QuietCore
<1>7. ASSUME NEW t \in Tasks, DeleteLock(t)
      PROVE  Core'
  <2>1. Quiet
    BY <1>7 DEF DeleteLock, Quiet, PlacesOK, Goto, Call, Works, Starters, Stops, Blocking, Closing,
         HandlerDone, Serves, TimerFires, Timers, Tasks
  <2> QED
    BY <2>1, QuietCore
<1>8. ASSUME NEW t \in Tasks, StartRefused(t)
      PROVE  Core'
  <2>1. Quiet
    BY <1>8 DEF StartRefused, Quiet, PlacesOK, Goto, Call, Works, Starters, Stops, Blocking, Closing,
         HandlerDone, Serves, TimerFires, Timers, Tasks
  <2> QED
    BY <2>1, QuietCore
<1>9. ASSUME NEW t \in Tasks, Wait(t)
      PROVE  Core'
  <2>1. Quiet
    BY <1>9 DEF Wait, Quiet, PlacesOK, Goto, Call, Works, Starters, Stops, Blocking, Closing,
         HandlerDone, Serves, TimerFires, Timers, Tasks
  <2> QED
    BY <2>1, QuietCore
<1>10. ASSUME AutostopFires
      PROVE  Core'
  <2>1. Quiet
    BY <1>10 DEF AutostopFires, Quiet, PlacesOK, Goto, Call, Works, Starters, Stops, Blocking, Closing,
         HandlerDone, Serves, TimerFires, Timers, Tasks
  <2> QED
    BY <2>1, QuietCore
<1>11. ASSUME CleanupFires
      PROVE  Core'
  <2>1. Quiet
    BY <1>11 DEF CleanupFires, Quiet, PlacesOK, Goto, Call, Works, Starters, Stops, Blocking, Closing,
         HandlerDone, Serves, TimerFires, Timers, Tasks
  <2> QED
    BY <2>1, QuietCore
<1>12. ASSUME WifiConnectFires
      PROVE  Core'
  <2>1. Quiet
    BY <1>12 DEF WifiConnectFires, Quiet, PlacesOK, Goto, Call, Works, Starters, Stops, Blocking, Closing,
         HandlerDone, Serves, TimerFires, Timers, Tasks
  <2> QED
    BY <2>1, QuietCore
<1>13. ASSUME Dispatch
      PROVE  Core'
  <2>1. Quiet
    BY <1>13 DEF Dispatch, Quiet, PlacesOK, Goto, Call, Works, Starters, Stops, Blocking, Closing,
         HandlerDone, Serves, TimerFires, Timers, Tasks
  <2> QED
    BY <2>1, QuietCore
<1>14. ASSUME EventIgnored
      PROVE  Core'
  <2>1. Quiet
    BY <1>14 DEF EventIgnored, Quiet, PlacesOK, Goto, Call, Works, Starters, Stops, Blocking, Closing,
         HandlerDone, Serves, TimerFires, Timers, Tasks
  <2> QED
    BY <2>1, QuietCore
<1>15. ASSUME Configure
      PROVE  Core'
  <2>1. Quiet
    BY <1>15 DEF Configure, Quiet, PlacesOK, Goto, Call, Works, Starters, Stops, Blocking, Closing,
         HandlerDone, Serves, TimerFires, Timers, Tasks
  <2> QED
    BY <2>1, QuietCore
<1>16. ASSUME StatusRequest
      PROVE  Core'
  <2>1. Quiet
    BY <1>16 DEF StatusRequest, Quiet, PlacesOK, Goto, Call, Works, Starters, Stops, Blocking, Closing,
         HandlerDone, Serves, TimerFires, Timers, Tasks
  <2> QED
    BY <2>1, QuietCore
<1>17. ASSUME AppStopRequest
      PROVE  Core'
  <2>1. Quiet
    BY <1>17 DEF AppStopRequest, Quiet, PlacesOK, Goto, Call, Works, Starters, Stops, Blocking, Closing,
         HandlerDone, Serves, TimerFires, Timers, Tasks
  <2> QED
    BY <2>1, QuietCore
<1>18. ASSUME LinkUp
      PROVE  Core'
  <2>1. Quiet
    BY <1>18 DEF LinkUp, Quiet, PlacesOK, Goto, Call, Works, Starters, Stops, Blocking, Closing,
         HandlerDone, Serves, TimerFires, Timers, Tasks
  <2> QED
    BY <2>1, QuietCore
<1>19. ASSUME LinkDown
      PROVE  Core'
  <2>1. Quiet
    BY <1>19 DEF LinkDown, Quiet, PlacesOK, Goto, Call, Works, Starters, Stops, Blocking, Closing,
         HandlerDone, Serves, TimerFires, Timers, Tasks
  <2> QED
    BY <2>1, QuietCore
<1>20. ASSUME GotIp
      PROVE  Core'
  BY <1>20, GotIpServes, ServingCore
<1>21. ASSUME NEW e \in {"REFUSED", "LOST"}, Disconnected(e)
      PROVE  Core'
  BY <1>21, DisconnectedServes, ServingCore
<1>22. ASSUME ResetRequest
      PROVE  Core'
  BY <1>22, ResetServes, ServingCore
<1>23. ASSUME ReprovRequest
      PROVE  Core'
  <2>1. CASE Serving
    BY <2>1, ServingCore
  <2>2. CASE UNCHANGED <<prov_ctx, at, timer>>
    <3>1. Quiet
      BY <1>23, <2>2 DEF ReprovRequest, Quiet
    <3> QED
      BY <3>1, QuietCore
  <2>3. CASE UNCHANGED vars
    BY <2>2, <2>3 DEF vars
  <2> QED
    BY <1>23, <2>1, <2>2, <2>3, ReprovServes
<1>24. ASSUME Configured
      PROVE  Core'
  <2>1. CASE Serving
    BY <2>1, ServingCore
  <2>2. CASE UNCHANGED <<prov_ctx, timer>> /\ Goto("host", "idle")
    <3>1. Quiet
      BY <1>24, <2>2 DEF Configured, Quiet, Goto, Typed, PlacesOK, Works, Starters, Stops,
           Blocking, Closing
    <3> QED
      BY <3>1, QuietCore
  <2> QED
    BY <1>24, <2>1, <2>2, ConfiguredServes
<1>25. ASSUME NEW t \in Tasks, ServiceUp(t)
      PROVE  Core'
  <2>1. WorkOK(t) /\ StateOK /\ at[t] \in Works
    BY <1>25 DEF ServiceUp, Core, Works, Starters, Stops, Blocking, Closing, Tasks
  <2>2. \A u \in Tasks \ {t} : at[u] \notin Works
    BY <2>1, AloneAtWork DEF Tasks
  <2>3. at'[t] = "started"
    BY <1>25 DEF ServiceUp, Goto, Typed, PlacesOK
  <2>4. /\ prov_ctx # NULL /\ prov_ctx.state = "STARTING" /\ ~prov_ctx.session_pc
        /\ registered = {} /\ (prov_ctx.endpoints \/ NoTimers)
    BY <1>25, <2>1 DEF ServiceUp, WorkOK, StateOK, InState, Starters
  <2>5. PICK b : b \in BOOLEAN /\ b = prov_ctx.endpoints
    BY <2>4, ContextFields
  <2>6. prov_ctx' = [prov_ctx EXCEPT !.pc = TRUE, !.handlers = b] /\ transport' = TRUE
    BY <1>25, <2>5 DEF ServiceUp
  <2>7. /\ prov_ctx' # NULL /\ prov_ctx'.state = "STARTING" /\ ~prov_ctx'.session_pc
        /\ prov_ctx'.pc /\ prov_ctx'.handlers = b /\ prov_ctx'.endpoints = b
    BY <2>4, <2>5, <2>6, ContextFields, NullAssumption DEF Contexts
  <2>8. ~b => Down'
    BY <1>25, <2>4, <2>5 DEF ServiceUp, Down, NoTimers
  <2>9. WorkOK(t)'
    BY <2>3, <2>5, <2>6, <2>7, <2>8 DEF WorkOK, Stops, Blocking, Closing
  <2>10. StateOK'
    BY <2>7 DEF StateOK, InState, Running
  <2> QED
    BY <1>25, <2>2, <2>9, <2>10, Worker DEF ServiceUp
<1>26. ASSUME NEW t \in Tasks, ServiceFails(t)
      PROVE  Core'
  <2>1. WorkOK(t) /\ StateOK /\ at[t] \in Works
    BY <1>26 DEF ServiceFails, Core, Works, Starters, Stops, Blocking, Closing, Tasks
  <2>2. \A u \in Tasks \ {t} : at[u] \notin Works
    BY <2>1, AloneAtWork DEF Tasks
  <2>3. at'[t] = "failed"
    BY <1>26 DEF ServiceFails, Goto, Typed, PlacesOK
  <2>4. /\ prov_ctx # NULL /\ prov_ctx.state = "STARTING" /\ ~prov_ctx.session_pc
        /\ ~transport /\ ~prov_ctx.handlers
        /\ registered = {} /\ \A h \in Timers : timer[h] = "none" \/ h \in prov_ctx.timers
    BY <1>26, <2>1 DEF ServiceFails, WorkOK, StateOK, InState, Starters
  <2>5. Down' /\ UNCHANGED <<prov_ctx, transport>>
    BY <1>26, <2>4 DEF ServiceFails, Down, NoTimers
  <2>6. WorkOK(t)'
    BY <2>3, <2>4, <2>5 DEF WorkOK, Stops, Blocking, Closing
  <2>7. StateOK'
    BY <2>4, <2>5 DEF StateOK, InState, Running
  <2> QED
    BY <1>26, <2>2, <2>6, <2>7, Worker DEF ServiceFails
<1>27. ASSUME NEW t \in Tasks, StartEnds(t)
      PROVE  Core'
  <2>1. WorkOK(t) /\ StateOK /\ at[t] \in Works
    BY <1>27 DEF StartEnds, Core, Works, Starters, Stops, Blocking, Closing, Tasks
  <2>2. \A u \in Tasks \ {t} : at[u] \notin Works
    BY <2>1, AloneAtWork DEF Tasks
  <2>3. /\ prov_ctx # NULL /\ prov_ctx \in Contexts /\ ~prov_ctx.session_pc /\ transport
        /\ prov_ctx.pc /\ prov_ctx.handlers = prov_ctx.endpoints
        /\ (prov_ctx.endpoints \/ Down) /\ UNCHANGED <<transport, registered, timer>>
    BY <1>27, <2>1, ContextFields DEF StartEnds, WorkOK, StateOK, InState, Starters
  <2>4. StateOK'
    <3>1. CASE prov_ctx.endpoints
      <4>1. prov_ctx' = [prov_ctx EXCEPT !.state = "STARTED"]
        BY <1>27, <3>1 DEF StartEnds
      <4>2. /\ prov_ctx' \in Contexts /\ prov_ctx'.state = "STARTED"
            /\ SameService(prov_ctx, prov_ctx')
        BY <2>3, <4>1 DEF Contexts, SameService, Running
      <4> QED
        BY <2>3, <3>1, <4>2, NullAssumption DEF StateOK, InState, Running, SameService
    <3>2. CASE ~prov_ctx.endpoints
      <4>1. prov_ctx' = [prov_ctx EXCEPT !.state = "IDLE", !.pc = FALSE, !.session_pc = TRUE]
        BY <1>27, <3>2 DEF StartEnds
      <4>2. PICK b : b \in BOOLEAN /\ b = transport
        BY DEF Typed
      <4>3. /\ prov_ctx' \in Contexts /\ prov_ctx'.state = "IDLE"
            /\ prov_ctx'.session_pc = TRUE /\ prov_ctx'.handlers = prov_ctx.handlers
        BY <2>3, <4>1 DEF Contexts
      <4>4. ~prov_ctx'.handlers /\ Down'
        BY <2>3, <3>2, <4>3 DEF Down, NoTimers
      <4>5. transport' = prov_ctx'.session_pc
        BY <2>3, <4>2, <4>3
      <4> QED
        BY <4>3, <4>4, <4>5, IdleAfter, NullAssumption DEF InState
    <3> QED
      BY <3>1, <3>2
  <2> QED
    BY <1>27, <2>2, <2>4, Ends DEF StartEnds, Works, Starters, Stops, Blocking, Closing
<1>28. ASSUME NEW t \in Tasks, StartFailed(t)
      PROVE  Core'
  <2>1. WorkOK(t) /\ StateOK /\ at[t] \in Works
    BY <1>28 DEF StartFailed, Core, Works, Starters, Stops, Blocking, Closing, Tasks
  <2>2. \A u \in Tasks \ {t} : at[u] \notin Works
    BY <2>1, AloneAtWork DEF Tasks
  <2>3. /\ prov_ctx # NULL /\ prov_ctx \in Contexts /\ ~prov_ctx.session_pc /\ ~transport
        /\ ~prov_ctx.handlers /\ Down
    BY <1>28, <2>1, ContextFields DEF StartFailed, WorkOK, StateOK, InState, Starters
  <2>4. /\ prov_ctx' = [prov_ctx EXCEPT !.state = "IDLE"]
        /\ UNCHANGED <<transport, registered, timer>>
    BY <1>28 DEF StartFailed, envVars
  <2>5. /\ prov_ctx' \in Contexts /\ prov_ctx'.state = "IDLE"
        /\ SameService(prov_ctx, prov_ctx')
    BY <2>3, <2>4 DEF Contexts, SameService
  <2>6. ~prov_ctx'.session_pc /\ ~prov_ctx'.handlers /\ ~transport' /\ Down'
    BY <2>3, <2>4, <2>5 DEF SameService, Down, NoTimers
  <2>7. transport' = prov_ctx'.session_pc
    <3>1. prov_ctx'.session_pc \in BOOLEAN /\ transport' \in BOOLEAN
      BY <2>4, <2>5 DEF Contexts, Typed
    <3> QED
      BY <2>6, <3>1
  <2>8. StateOK'
    BY <2>5, <2>6, <2>7, IdleAfter, NullAssumption DEF InState
  <2> QED
    BY <1>28, <2>2, <2>8, Ends DEF StartFailed, Works, Starters, Stops, Blocking, Closing
<1>29. ASSUME NEW t \in Tasks, StopProvisioning(t)
      PROVE  Core'
  <2>1. UNCHANGED transport
    BY <1>29, StopIs
  <2>2. CASE StopService(FALSE) /\ Goto(t, "idle")
    BY <2>1, <2>2, StopServiceCore DEF Works, Starters, Stops, Blocking, Closing
  <2>3. CASE /\ Goto(t, "idle") \/ Goto(t, "stop_poll")
             /\ UNCHANGED <<prov_ctx, timer, registered, pops>>
    <3>1. at[t] \in {"idle", "stop", "stop_poll"}
      BY <1>29, StopIs
    <3>2. Quiet
      BY <2>1, <2>3, <3>1 DEF Quiet, Typed, PlacesOK, Goto, Works, Starters, Stops,
           Blocking, Closing
    <3> QED
      BY <3>2, QuietCore
  <2> QED
    BY <1>29, <2>2, <2>3, StopIs
<1>30. ASSUME NEW t \in Tasks, Deinit(t)
      PROVE  Core'
  <2>1. UNCHANGED transport /\ prov_ctx # NULL /\ at[t] \in {"idle", "deinit"}
    BY <1>30, DeinitIs
  <2>2. CASE Goto(t, "deinit") /\ UNCHANGED <<prov_ctx, timer, registered, pops>>
    <3>1. Quiet
      BY <2>1, <2>2 DEF Quiet, Typed, PlacesOK, Goto, Works, Starters, Stops, Blocking,
           Closing
    <3> QED
      BY <3>1, QuietCore
  <2>3. CASE StopService(TRUE) /\ Goto(t, "stop_begin")
    BY <2>1, <2>3, StopServiceCore
  <2>4. CASE ~MustWait /\ ~InState(Running)
    <3>1. InState({"IDLE"})
      BY <2>1, <2>4, ContextFields DEF MustWait, InState
    <3>2. /\ prov_ctx \in Contexts /\ transport = prov_ctx.session_pc
          /\ ~prov_ctx.handlers /\ Down /\ \A u \in Tasks : at[u] \notin Works
      BY <3>1, IdleHas
    <3>3. CASE /\ prov_ctx.session_pc /\ Goto(t, "close")
               /\ prov_ctx' = [prov_ctx EXCEPT !.session_pc = FALSE, !.state = "STOPPING"]
               /\ UNCHANGED <<timer, registered, pops>>
      <4>1. /\ prov_ctx' \in Contexts /\ prov_ctx' # NULL /\ prov_ctx'.state = "STOPPING"
        BY <3>2, <3>3, NullAssumption DEF Contexts
      <4>2. transport' /\ Down' /\ at'[t] = "close"
        BY <2>1, <3>2, <3>3 DEF Down, NoTimers, Goto, Typed, PlacesOK
      <4>3. WorkOK(t)'
        BY <4>1, <4>2 DEF WorkOK, Starters
      <4>4. at'[t] \in Works
        BY <4>2 DEF Works, Stops, Closing
      <4>5. StateOK'
        BY <4>1, <4>2, <4>4 DEF StateOK, InState, Running, Down, NoTimers, Timers
      <4> QED
        BY <3>2, <3>3, <4>3, <4>5, Worker
    <3>4. CASE /\ ~prov_ctx.session_pc /\ Goto(t, "deinit_end") /\ prov_ctx' = NULL
               /\ UNCHANGED <<timer, registered, pops>>
      <4>1. prov_ctx' = NULL /\ ~transport' /\ Down'
        BY <2>1, <3>2, <3>4 DEF Down, NoTimers
      <4> QED
        BY <3>2, <3>4, <4>1, GoneAfter, Ends DEF Works, Starters, Stops, Blocking, Closing
    <3>5. CASE StopService(TRUE)
      BY <2>4, <3>5, StopServiceIs
    <3> QED
      BY <1>30, <2>2, <3>3, <3>4, <3>5, DeinitIs
  <2> QED
    BY <1>30, <2>2, <2>3, <2>4, DeinitIs
<1>31. ASSUME NEW t \in Tasks, BlockingStopBegins(t)
      PROVE  Core'
  <2>1. WorkOK(t) /\ StateOK /\ at[t] \in Works
    BY <1>31 DEF BlockingStopBegins, Core, Works, Starters, Stops, Blocking, Closing, Tasks
  <2>2. \A u \in Tasks \ {t} : at[u] \notin Works
    BY <2>1, AloneAtWork DEF Tasks
  <2>3. at'[t] = "stop_finish"
    BY <1>31 DEF BlockingStopBegins, Goto, Typed, PlacesOK
  <2>4. /\ prov_ctx # NULL /\ prov_ctx \in Contexts /\ prov_ctx.state = "STOPPING" /\ transport
    BY <1>31, <2>1, ContextFields DEF BlockingStopBegins, WorkOK, Stops, Blocking
  <2>5. /\ registered \subseteq {"stop"}
        /\ timer["autostop"] = "none" /\ timer["wifi_connect"] = "none"
    BY <2>1, <2>4 DEF StateOK, InState
  <2>6. /\ UNCHANGED transport /\ Down'
    BY <1>31, <2>5 DEF BlockingStopBegins, StopBegins, Down, NoTimers, Timers, Typed
  <2>7. prov_ctx' \in Contexts /\ prov_ctx' # NULL /\ prov_ctx'.state = "STOPPING"
    <3>1. PICK h : h \in SUBSET Timers /\ h = prov_ctx.timers \ {"cleanup"}
      BY <2>4 DEF Contexts
    <3>2. prov_ctx' = [prov_ctx EXCEPT !.timers = h]
      BY <1>31, <3>1 DEF BlockingStopBegins, StopBegins
    <3> QED
      BY <2>4, <3>1, <3>2, NullAssumption DEF Contexts
  <2>8. WorkOK(t)'
    BY <2>3, <2>4, <2>6, <2>7 DEF WorkOK, Starters
  <2>9. at'[t] \in Works
    BY <2>3 DEF Works, Stops, Blocking
  <2>10. StateOK'
    BY <2>6, <2>7, <2>9 DEF StateOK, InState, Running, Down, NoTimers, Timers
  <2> QED
    BY <1>31, <2>2, <2>8, <2>10, Worker DEF BlockingStopBegins
<1>32. ASSUME NEW t \in Tasks, BlockingStopFinishes(t)
      PROVE  Core'
  <2>1. WorkOK(t) /\ StateOK /\ at[t] \in Works
    BY <1>32 DEF BlockingStopFinishes, Core, Works, Starters, Stops, Blocking, Closing, Tasks
  <2>2. \A u \in Tasks \ {t} : at[u] \notin Works
    BY <2>1, AloneAtWork DEF Tasks
  <2>3. at'[t] = "stop_end"
    BY <1>32 DEF BlockingStopFinishes, Goto, Typed, PlacesOK
  <2>4. /\ prov_ctx # NULL /\ prov_ctx \in Contexts /\ prov_ctx.state = "STOPPING" /\ Down
    BY <1>32, <2>1, ContextFields DEF BlockingStopFinishes, WorkOK, Stops, Blocking
  <2>5. StopFinishes(TRUE, "STOPPING") /\ UNCHANGED <<timer, registered>>
    BY <1>32, <2>4 DEF BlockingStopFinishes
  <2>6. prov_ctx' # NULL /\ prov_ctx'.state = "STOPPING" /\ transport' = KeepTransport(TRUE)
    BY <2>4, <2>5, StopFinishesIs
  <2>7. ~transport' /\ Down'
    BY <2>4, <2>5, <2>6 DEF KeepTransport, Down, NoTimers
  <2>8. WorkOK(t)'
    BY <2>3, <2>6, <2>7 DEF WorkOK, Starters
  <2>9. at'[t] \in Works
    BY <2>3 DEF Works, Stops, Blocking
  <2>10. StateOK'
    BY <2>6, <2>7, <2>9 DEF StateOK, InState, Running, Down, NoTimers, Timers
  <2> QED
    BY <1>32, <2>2, <2>8, <2>10, Worker DEF BlockingStopFinishes
<1>33. ASSUME NEW t \in Tasks, BlockingStopEnds(t)
      PROVE  Core'
  <2>1. WorkOK(t) /\ StateOK /\ at[t] \in Works
    BY <1>33 DEF BlockingStopEnds, Core, Works, Starters, Stops, Blocking, Closing, Tasks
  <2>2. \A u \in Tasks \ {t} : at[u] \notin Works
    BY <2>1, AloneAtWork DEF Tasks
  <2>3. prov_ctx' = NULL /\ ~transport' /\ Down'
    BY <1>33, <2>1 DEF BlockingStopEnds, WorkOK, FreeCtx, Down, NoTimers
  <2> QED
    BY <1>33, <2>2, <2>3, GoneAfter, Ends DEF BlockingStopEnds, Works, Starters, Stops, Blocking, Closing
<1>34. ASSUME NEW t \in Tasks, SessionClosed(t)
      PROVE  Core'
  <2>1. WorkOK(t) /\ StateOK /\ at[t] \in Works
    BY <1>34 DEF SessionClosed, Core, Works, Starters, Stops, Blocking, Closing, Tasks
  <2>2. \A u \in Tasks \ {t} : at[u] \notin Works
    BY <2>1, AloneAtWork DEF Tasks
  <2>3. prov_ctx' = NULL /\ ~transport' /\ Down'
    BY <1>34, <2>1 DEF SessionClosed, WorkOK, FreeCtx, Down, NoTimers
  <2> QED
    BY <1>34, <2>2, <2>3, GoneAfter, Ends DEF SessionClosed, Works, Starters, Stops, Blocking, Closing
<1>35. ASSUME NEW t \in Tasks, CloseSession(t)
      PROVE  Core'
  <2>1. WorkOK(t) /\ StateOK /\ at[t] \in Works
    BY <1>35 DEF CloseSession, Core, Works, Starters, Stops, Blocking, Closing, Tasks
  <2>2. \A u \in Tasks \ {t} : at[u] \notin Works
    BY <2>1, AloneAtWork DEF Tasks
  <2>3. at'[t] = "closed"
    BY <1>35 DEF CloseSession, Goto, Typed, PlacesOK
  <2>4. /\ prov_ctx' # NULL /\ prov_ctx'.state = "STOPPING" /\ ~transport' /\ Down'
    BY <1>35, <2>1 DEF CloseSession, WorkOK, Stops, Blocking, Closing, Down, NoTimers
  <2>5. WorkOK(t)'
    BY <2>3, <2>4 DEF WorkOK, Starters
  <2>6. at'[t] \in Works
    BY <2>3 DEF Works, Stops, Closing
  <2>7. StateOK'
    BY <2>4, <2>6 DEF StateOK, InState, Running, Down, NoTimers, Timers
  <2> QED
    BY <1>35, <2>2, <2>5, <2>7, Worker DEF CloseSession
<1>36. ASSUME NEW t \in Tasks, MgrInit(t)
      PROVE  Core'
  <2>1. prov_ctx = NULL /\ UNCHANGED envVars /\ at[t] = "idle"
    BY <1>36 DEF MgrInit, Call
  <2>2. ~transport /\ Down /\ \A u \in Tasks : at[u] \notin Works
    BY <2>1, NobodyWorks DEF Core, StateOK, InState
  <2>3. CASE prov_ctx' = NewCtx /\ Goto(t, "callback")
    <3>1. /\ prov_ctx' # NULL /\ prov_ctx'.state = "IDLE" /\ prov_ctx'.session_pc = FALSE
          /\ prov_ctx'.handlers = FALSE
      BY <2>3, NewContext
    <3>2. transport' = FALSE /\ Down'
      BY <2>1, <2>2 DEF Down, NoTimers, Typed
    <3>3. StateOK'
      BY <3>1, <3>2, IdleAfter DEF InState
    <3> QED
      BY <2>2, <2>3, <3>3, Ends DEF Works, Starters, Stops, Blocking, Closing
  <2>4. CASE UNCHANGED <<prov_ctx, at>>
    <3>1. Quiet
      BY <2>1, <2>4 DEF Quiet
    <3> QED
      BY <3>1, QuietCore
  <2> QED
    BY <1>36, <2>3, <2>4 DEF MgrInit
<1>37. ASSUME NEW t \in Tasks, DisableAutoStop(t)
      PROVE  Core'
  <2>1. UNCHANGED <<at, transport, timer, registered>> /\ InState({"IDLE"})
    BY <1>37 DEF DisableAutoStop, envVars, Call
  <2>2. /\ prov_ctx # NULL /\ prov_ctx \in Contexts /\ transport = prov_ctx.session_pc
        /\ ~prov_ctx.handlers /\ Down /\ \A u \in Tasks : at[u] \notin Works
    BY <2>1, IdleHas
  <2>3. CASE prov_ctx' = [prov_ctx EXCEPT !.no_auto_stop = TRUE]
    <3>1. /\ prov_ctx' \in Contexts /\ prov_ctx'.state = prov_ctx.state
          /\ prov_ctx'.session_pc = prov_ctx.session_pc
          /\ prov_ctx'.handlers = prov_ctx.handlers
      BY <2>2, <2>3 DEF Contexts
    <3>2. InState({"IDLE"})' /\ Down'
      BY <2>1, <2>2, <3>1, NullAssumption DEF InState, Down, NoTimers
    <3>3. StateOK'
      BY <2>1, <2>2, <3>1, <3>2, IdleAfter
    <3> QED
      BY <2>1, <2>2, <3>3, Rest
  <2>4. CASE UNCHANGED prov_ctx
    <3>1. Quiet
      BY <2>1, <2>4 DEF Quiet
    <3> QED
      BY <3>1, QuietCore
  <2> QED
    BY <1>37, <2>3, <2>4 DEF DisableAutoStop, envVars
<1>38. ASSUME NEW t \in Tasks, EnableProvisioning(t)
      PROVE  Core'
  <2>1. UNCHANGED <<at, transport, timer, registered>> /\ InState({"IDLE"})
    BY <1>38 DEF EnableProvisioning, envVars, Call
  <2>2. /\ prov_ctx # NULL /\ prov_ctx \in Contexts /\ transport = prov_ctx.session_pc
        /\ ~prov_ctx.handlers /\ Down /\ \A u \in Tasks : at[u] \notin Works
    BY <2>1, IdleHas
  <2>3. CASE prov_ctx' = [prov_ctx EXCEPT !.endpoints = TRUE]
    <3>1. /\ prov_ctx' \in Contexts /\ prov_ctx'.state = prov_ctx.state
          /\ prov_ctx'.session_pc = prov_ctx.session_pc
          /\ prov_ctx'.handlers = prov_ctx.handlers
      BY <2>2, <2>3 DEF Contexts
    <3>2. InState({"IDLE"})' /\ Down'
      BY <2>1, <2>2, <3>1, NullAssumption DEF InState, Down, NoTimers
    <3>3. StateOK'
      BY <2>1, <2>2, <3>1, <3>2, IdleAfter
    <3> QED
      BY <2>1, <2>2, <3>3, Rest
  <2>4. CASE UNCHANGED prov_ctx
    <3>1. Quiet
      BY <2>1, <2>4 DEF Quiet
    <3> QED
      BY <3>1, QuietCore
  <2> QED
    BY <1>38, <2>3, <2>4 DEF EnableProvisioning, envVars
<1>39. ASSUME NEW t \in Tasks, NEW sec \in Securities, StartWithoutTimers(t, sec)
      PROVE  Core'
  <2>1. UNCHANGED <<at, transport, timer, registered>>
    BY <1>39 DEF StartWithoutTimers, Call
  <2>2. /\ prov_ctx' # NULL /\ InState({"IDLE"}) /\ prov_ctx'.state = "IDLE"
        /\ SameService(prov_ctx, prov_ctx')
    BY <1>39, StartWithoutTimersIs
  <2>3. /\ transport = prov_ctx.session_pc
        /\ ~prov_ctx.handlers /\ Down /\ \A u \in Tasks : at[u] \notin Works
    BY <2>2, IdleHas
  <2>4. InState({"IDLE"})' /\ Down'
    BY <2>1, <2>2, <2>3 DEF InState, Down, NoTimers
  <2>5. StateOK'
    BY <2>1, <2>2, <2>3, <2>4, IdleAfter DEF SameService
  <2> QED
    BY <2>1, <2>3, <2>5, Rest
<1>40. ASSUME NEW t \in Tasks, NEW sec \in Securities, Start(t, sec)
      PROVE  Core'
  <2>1. /\ UNCHANGED <<transport, registered>> /\ Goto(t, "start")
        /\ timer' = [h \in Timers |-> IF h \in TimersOf(prov_ctx) THEN "idle" ELSE timer[h]]
    BY <1>40 DEF Start
  <2>2. /\ prov_ctx # NULL /\ prov_ctx' # NULL /\ InState({"IDLE"}) /\ ~prov_ctx.session_pc
        /\ prov_ctx'.state = "STARTING" /\ SameService(prov_ctx, prov_ctx')
        /\ prov_ctx'.timers = prov_ctx.timers \cup TimersOf(prov_ctx)
    BY <1>40, StartIs
  <2>3. /\ transport = prov_ctx.session_pc
        /\ ~prov_ctx.handlers /\ Down /\ \A u \in Tasks : at[u] \notin Works
    BY <2>2, IdleHas
  <2>4. at'[t] = "start"
    BY <2>1 DEF Goto, Typed, PlacesOK
  <2>5. /\ ~transport' /\ ~prov_ctx'.handlers /\ ~prov_ctx'.session_pc /\ registered' = {}
    BY <2>1, <2>2, <2>3 DEF SameService, Down
  <2>6. \A h \in Timers : timer'[h] = "none" \/ h \in prov_ctx'.timers
    BY <2>1, <2>2, <2>3 DEF Down, NoTimers
  <2>7. ~prov_ctx'.endpoints => NoTimers'
    <3>1. ~prov_ctx.endpoints => TimersOf(prov_ctx) = {}
      BY DEF TimersOf
    <3> QED
      BY <2>1, <2>2, <2>3, <3>1 DEF SameService, Down, NoTimers
  <2>8. WorkOK(t)'
    BY <2>2, <2>4, <2>5, <2>6, <2>7 DEF WorkOK, Stops, Blocking, Closing
  <2>9. StateOK'
    BY <2>2, <2>5 DEF StateOK, InState, Running
  <2> QED
    BY <2>1, <2>3, <2>8, <2>9, Worker
<1>41. ASSUME AsyncStopBegins
      PROVE  Core'
  <2>1. /\ "loop" \in Tasks /\ event = "STOP" /\ Goto("loop", "async") /\ UNCHANGED transport
    BY <1>41 DEF AsyncStopBegins, Handles, Tasks
  <2>2. InState({"STOPPING"}) /\ \A u \in Tasks : at[u] \notin Works
    BY <2>1 DEF StopOnce, Pending
  <2>3. /\ prov_ctx # NULL /\ prov_ctx \in Contexts
        /\ transport /\ prov_ctx.pc /\ ~prov_ctx.session_pc
        /\ registered \subseteq {"stop"}
        /\ timer["autostop"] = "none" /\ timer["wifi_connect"] = "none"
    BY <2>2, ContextFields DEF Core, StateOK, InState
  <2>4. at'["loop"] = "async" /\ at'["loop"] \in Works
    BY <2>1 DEF Goto, Typed, PlacesOK, Works, Stops
  <2>5. Down'
    BY <1>41, <2>3 DEF AsyncStopBegins, StopBegins, Down, NoTimers, Timers, Typed
  <2>6. /\ prov_ctx' \in Contexts /\ prov_ctx' # NULL /\ prov_ctx'.state = "STOPPING"
        /\ prov_ctx'.pc /\ ~prov_ctx'.session_pc
    <3>1. PICK h : h \in SUBSET Timers /\ h = prov_ctx.timers \ {"cleanup"}
      BY <2>3 DEF Contexts
    <3>2. prov_ctx' = [prov_ctx EXCEPT !.timers = h]
      BY <1>41, <3>1 DEF AsyncStopBegins, StopBegins
    <3> QED
      BY <2>2, <2>3, <3>1, <3>2, NullAssumption DEF Contexts, InState
  <2>7. WorkOK("loop")'
    BY <2>1, <2>3, <2>4, <2>5, <2>6 DEF WorkOK, Starters
  <2>8. StateOK'
    BY <2>1, <2>4, <2>5, <2>6 DEF StateOK, InState, Running, Down, NoTimers, Timers
  <2> QED
    BY <2>1, <2>2, <2>7, <2>8, Worker
<1>42. ASSUME AsyncStopFinishes
      PROVE  Core'
  <2>1. WorkOK("loop") /\ StateOK /\ at["loop"] \in Works
    BY <1>42 DEF AsyncStopFinishes, Core, Works, Starters, Stops, Blocking, Closing, Tasks
  <2>2. \A u \in Tasks \ {"loop"} : at[u] \notin Works
    BY <2>1, AloneAtWork DEF Tasks
  <2>3. /\ prov_ctx # NULL /\ prov_ctx \in Contexts /\ prov_ctx.pc /\ ~prov_ctx.session_pc
        /\ Down /\ "loop" \in Tasks
    BY <1>42, <2>1, ContextFields DEF AsyncStopFinishes, WorkOK, Stops, Tasks
  <2>4. /\ StopFinishes(FALSE, "IDLE") /\ UNCHANGED <<timer, registered>> /\ Goto("loop", "idle")
    BY <1>42 DEF AsyncStopFinishes
  <2>5. /\ prov_ctx' # NULL /\ prov_ctx' \in Contexts /\ prov_ctx'.state = "IDLE"
        /\ prov_ctx'.handlers = FALSE
        /\ transport' = KeepTransport(FALSE)
        /\ prov_ctx'.session_pc = IF KeepTransport(FALSE) THEN prov_ctx.pc
                                  ELSE prov_ctx.session_pc
    BY <2>3, <2>4, StopFinishesIs
  <2>6. transport' = prov_ctx'.session_pc
    <3>1. prov_ctx.pc = TRUE /\ prov_ctx.session_pc = FALSE /\ KeepTransport(FALSE) \in BOOLEAN
      BY <2>3 DEF Contexts, KeepTransport
    <3> QED
      BY <2>5, <3>1
  <2>7. Down' /\ InState({"IDLE"})'
    BY <2>3, <2>4, <2>5 DEF Down, NoTimers, InState
  <2>8. StateOK'
    BY <2>5, <2>6, <2>7, IdleAfter
  <2> QED
    BY <2>2, <2>3, <2>4, <2>8, Ends DEF Works, Starters, Stops, Blocking, Closing
<1>43. CASE UNCHANGED vars
  BY <1>43, QuietCore DEF vars, envVars, Quiet
<1> QED
  BY <1>1, <1>2, <1>3, <1>4, <1>5, <1>6, <1>7, <1>8, <1>9, <1>10, <1>11, <1>12, <1>13,
     <1>14, <1>15, <1>16, <1>17, <1>18, <1>19, <1>20, <1>21, <1>22, <1>23, <1>24, <1>25,
     <1>26, <1>27, <1>28, <1>29, <1>30, <1>31, <1>32, <1>33, <1>34, <1>35, <1>36, <1>37,
     <1>38, <1>39, <1>40, <1>41, <1>42, <1>43
     DEF Next, Continue, AppCalls, TimerTask, EventLoop, Clients

-----------------------------------------------------------------------------
(* The event that ends a stop.                                             *)

LEMMA AppendOther ==
  ASSUME NEW q \in Seq(Events), NEW e \in Events, e # "STOP"
  PROVE  /\ NoStop(q) => NoStop(Append(q, e))
         /\ OneStop(q) => OneStop(Append(q, e))
<1>1. /\ Len(Append(q, e)) = Len(q) + 1 /\ Append(q, e)[Len(q) + 1] = e
      /\ \A i \in 1..Len(q) : Append(q, e)[i] = q[i]
  OBVIOUS
<1>2. \A i \in 1..(Len(q) + 1) : i # Len(q) + 1 => i \in 1..Len(q)
  OBVIOUS
<1>3. \A i \in 1..(Len(q) + 1) : Append(q, e)[i] = "STOP" => i \in 1..Len(q)
  BY <1>1, <1>2
<1> QED
  BY <1>1, <1>3 DEF NoStop, OneStop

LEMMA AppendStop ==
  ASSUME NEW q \in Seq(Events), NoStop(q)
  PROVE  OneStop(Append(q, "STOP"))
<1>1. /\ Len(Append(q, "STOP")) = Len(q) + 1
      /\ \A i \in 1..Len(q) : Append(q, "STOP")[i] = q[i]
  BY DEF Events
<1>2. \A i \in 1..(Len(q) + 1) : i # Len(q) + 1 => i \in 1..Len(q)
  OBVIOUS
<1>3. \A i \in 1..(Len(q) + 1) : Append(q, "STOP")[i] = "STOP" => i = Len(q) + 1
  BY <1>1, <1>2 DEF NoStop
<1> QED
  BY <1>1, <1>3 DEF OneStop

LEMMA TailStop ==
  ASSUME NEW q \in Seq(Events), q # <<>>
  PROVE  /\ Head(q) \in Events /\ Tail(q) \in Seq(Events)
         /\ NoStop(q) => Head(q) # "STOP" /\ NoStop(Tail(q))
         /\ OneStop(q) => OneStop(Tail(q))
         /\ OneStop(q) /\ Head(q) = "STOP" => NoStop(Tail(q))
<1>1. /\ Head(q) \in Events /\ Tail(q) \in Seq(Events) /\ Head(q) = q[1] /\ Len(q) \in Nat
      /\ Len(q) > 0 /\ Len(Tail(q)) = Len(q) - 1
      /\ \A i \in 1..Len(Tail(q)) : Tail(q)[i] = q[i + 1]
  OBVIOUS
<1>2. 1 \in 1..Len(q) /\ \A i \in 1..Len(Tail(q)) : i + 1 \in 1..Len(q) /\ i + 1 # 1
  BY <1>1
<1>3. \A i, j \in 1..Len(Tail(q)) : i + 1 = j + 1 => i = j
  OBVIOUS
<1>4. NoStop(q) => Head(q) # "STOP" /\ NoStop(Tail(q))
  BY <1>1, <1>2 DEF NoStop
<1>5. OneStop(q) => OneStop(Tail(q))
  BY <1>1, <1>2, <1>3 DEF OneStop
<1>6. OneStop(q) /\ Head(q) = "STOP" => NoStop(Tail(q))
  BY <1>1, <1>2 DEF OneStop, NoStop
<1> QED
  BY <1>1, <1>4, <1>5, <1>6

Stopped == InState({"STOPPING"}) /\ \A t \in Tasks : at[t] \notin Works

\* The event does not come up in this step.
Still ==
  /\ timer'["cleanup"] = "armed" => timer["cleanup"] = "armed"
  /\ event' = "STOP" => event = "STOP"
  /\ NoStop(queue) => NoStop(queue')
  /\ OneStop(queue) => OneStop(queue')

LEMMA StillOnce ==
  ASSUME StopOnce, Still, Stopped => Stopped'
  PROVE  StopOnce'
BY DEF StopOnce, Still, Pending, Stopped

\* A step of a task that works, or while the service is not being stopped.
LEMMA NotStopped ==
  ASSUME Safe, ~InState({"STOPPING"}) \/ \E t \in Tasks : at[t] \in Works
  PROVE  ~Stopped /\ ~Pending
BY DEF Safe, StopOnce, Stopped

LEMMA QuietStopped ==
  ASSUME Quiet, Stopped
  PROVE  Stopped'
BY DEF Quiet, Stopped, InState

LEMMA DisconnectsStill ==
  ASSUME Typed, Disconnects
  PROVE  /\ NoStop(queue) => NoStop(queue')
         /\ OneStop(queue) => OneStop(queue')
BY DisconnectsIs, AppendOther DEF Typed, Events

\* A stop begins: the cleanup timer is armed by the one in the background.
LEMMA StopServiceOnce ==
  ASSUME Safe, NEW t \in Tasks, NEW blocking \in BOOLEAN, StopService(blocking),
         NEW p, Goto(t, p), p \notin Works \/ blocking, UNCHANGED <<event, queue>>
  PROVE  StopOnce'
<1>1. InState(Running) /\ prov_ctx' # NULL /\ prov_ctx'.state = "STOPPING"
  BY StopServiceIs DEF Safe
<1>2. ~Pending /\ \A u \in Tasks : at[u] \notin Works
  BY <1>1, NotStopped, NobodyWorks DEF InState, Running
<1>3. event # "STOP" /\ NoStop(queue) /\ OneStop(queue)
  BY <1>2 DEF Safe, StopOnce, Pending
<1>4. timer'["cleanup"] = "armed" => ~blocking
  BY <1>2 DEF StopService, Pending, Timers
<1>5. p \notin Works => \A u \in Tasks : at'[u] \notin Works
  BY <1>2 DEF Goto, Safe, Typed, PlacesOK
<1> QED
  BY <1>1, <1>3, <1>4, <1>5 DEF StopOnce, Pending, InState

LEMMA StopOnceStep ==
  ASSUME Calm, Safe, [Next]_vars
  PROVE  StopOnce'
<1> USE ProvMgrAssumption
         DEF Safe, Typed, envVars
<1>1. ASSUME NEW t \in Tasks, CallbackDone(t)
      PROVE  StopOnce'
  <2>1. Quiet
    BY <1>1 DEF CallbackDone, Quiet, PlacesOK, Goto, Call, Works, Starters, Stops, Blocking, Closing,
         HandlerDone, Serves, TimerFires, Timers, Tasks
  <2>2. Still
    BY <1>1 DEF CallbackDone, Still, TimerFires, Timers, HandlerDone
  <2> QED
    BY <2>1, <2>2, QuietStopped, StillOnce
<1>2. ASSUME NEW t \in Tasks, StopTooLate(t)
      PROVE  StopOnce'
  <2>1. Quiet
    BY <1>2 DEF StopTooLate, Quiet, PlacesOK, Goto, Call, Works, Starters, Stops, Blocking, Closing,
         HandlerDone, Serves, TimerFires, Timers, Tasks
  <2>2. Still
    BY <1>2 DEF StopTooLate, Still, TimerFires, Timers, HandlerDone
  <2> QED
    BY <2>1, <2>2, QuietStopped, StillOnce
<1>3. ASSUME NEW t \in Tasks, WaitEnds(t)
      PROVE  StopOnce'
  <2>1. Quiet
    BY <1>3 DEF WaitEnds, Quiet, PlacesOK, Goto, Call, Works, Starters, Stops, Blocking, Closing,
         HandlerDone, Serves, TimerFires, Timers, Tasks
  <2>2. Still
    BY <1>3 DEF WaitEnds, Still, TimerFires, Timers, HandlerDone
  <2> QED
    BY <2>1, <2>2, QuietStopped, StillOnce
<1>4. ASSUME NEW t \in Tasks, DeinitNothing(t)
      PROVE  StopOnce'
  <2>1. Quiet
    BY <1>4 DEF DeinitNothing, Quiet, PlacesOK, Goto, Call, Works, Starters, Stops, Blocking, Closing,
         HandlerDone, Serves, TimerFires, Timers, Tasks
  <2>2. Still
    BY <1>4 DEF DeinitNothing, Still, TimerFires, Timers, HandlerDone
  <2> QED
    BY <2>1, <2>2, QuietStopped, StillOnce
<1>5. ASSUME NEW t \in Tasks, Announce(t)
      PROVE  StopOnce'
  <2>1. Quiet
    BY <1>5 DEF Announce, Quiet, PlacesOK, Goto, Call, Works, Starters, Stops, Blocking, Closing,
         HandlerDone, Serves, TimerFires, Timers, Tasks
  <2>2. Still
    BY <1>5 DEF Announce, Still, TimerFires, Timers, HandlerDone
  <2> QED
    BY <2>1, <2>2, QuietStopped, StillOnce
<1>6. ASSUME NEW t \in Tasks, DeinitEnd(t)
      PROVE  StopOnce'
  <2>1. Quiet
    BY <1>6 DEF DeinitEnd, Quiet, PlacesOK, Goto, Call, Works, Starters, Stops, Blocking, Closing,
         HandlerDone, Serves, TimerFires, Timers, Tasks
  <2>2. Still
    BY <1>6 DEF DeinitEnd, Still, TimerFires, Timers, HandlerDone
  <2> QED
    BY <2>1, <2>2, QuietStopped, StillOnce
<1>7. ASSUME NEW t \in Tasks, DeleteLock(t)
      PROVE  StopOnce'
  <2>1. Quiet
    BY <1>7 DEF DeleteLock, Quiet, PlacesOK, Goto, Call, Works, Starters, Stops, Blocking, Closing,
         HandlerDone, Serves, TimerFires, Timers, Tasks
  <2>2. Still
    BY <1>7 DEF DeleteLock, Still, TimerFires, Timers, HandlerDone
  <2> QED
    BY <2>1, <2>2, QuietStopped, StillOnce
<1>8. ASSUME NEW t \in Tasks, StartRefused(t)
      PROVE  StopOnce'
  <2>1. Quiet
    BY <1>8 DEF StartRefused, Quiet, PlacesOK, Goto, Call, Works, Starters, Stops, Blocking, Closing,
         HandlerDone, Serves, TimerFires, Timers, Tasks
  <2>2. Still
    BY <1>8 DEF StartRefused, Still, TimerFires, Timers, HandlerDone
  <2> QED
    BY <2>1, <2>2, QuietStopped, StillOnce
<1>9. ASSUME NEW t \in Tasks, Wait(t)
      PROVE  StopOnce'
  <2>1. Quiet
    BY <1>9 DEF Wait, Quiet, PlacesOK, Goto, Call, Works, Starters, Stops, Blocking, Closing,
         HandlerDone, Serves, TimerFires, Timers, Tasks
  <2>2. Still
    BY <1>9 DEF Wait, Still, TimerFires, Timers, HandlerDone
  <2> QED
    BY <2>1, <2>2, QuietStopped, StillOnce
<1>10. ASSUME AutostopFires
      PROVE  StopOnce'
  <2>1. Quiet
    BY <1>10 DEF AutostopFires, Quiet, PlacesOK, Goto, Call, Works, Starters, Stops, Blocking, Closing,
         HandlerDone, Serves, TimerFires, Timers, Tasks
  <2>2. Still
    BY <1>10 DEF AutostopFires, Still, TimerFires, Timers, HandlerDone
  <2> QED
    BY <2>1, <2>2, QuietStopped, StillOnce
<1>11. ASSUME WifiConnectFires
      PROVE  StopOnce'
  <2>1. Quiet
    BY <1>11 DEF WifiConnectFires, Quiet, PlacesOK, Goto, Call, Works, Starters, Stops, Blocking, Closing,
         HandlerDone, Serves, TimerFires, Timers, Tasks
  <2>2. Still
    BY <1>11 DEF WifiConnectFires, Still, TimerFires, Timers, HandlerDone
  <2> QED
    BY <2>1, <2>2, QuietStopped, StillOnce
<1>12. ASSUME EventIgnored
      PROVE  StopOnce'
  <2>1. Quiet
    BY <1>12 DEF EventIgnored, Quiet, PlacesOK, Goto, Call, Works, Starters, Stops, Blocking, Closing,
         HandlerDone, Serves, TimerFires, Timers, Tasks
  <2>2. Still
    BY <1>12 DEF EventIgnored, Still, TimerFires, Timers, HandlerDone
  <2> QED
    BY <2>1, <2>2, QuietStopped, StillOnce
<1>13. ASSUME Configure
      PROVE  StopOnce'
  <2>1. Quiet
    BY <1>13 DEF Configure, Quiet, PlacesOK, Goto, Call, Works, Starters, Stops, Blocking, Closing,
         HandlerDone, Serves, TimerFires, Timers, Tasks
  <2>2. Still
    BY <1>13 DEF Configure, Still, TimerFires, Timers, HandlerDone
  <2> QED
    BY <2>1, <2>2, QuietStopped, StillOnce
<1>14. ASSUME StatusRequest
      PROVE  StopOnce'
  <2>1. Quiet
    BY <1>14 DEF StatusRequest, Quiet, PlacesOK, Goto, Call, Works, Starters, Stops, Blocking, Closing,
         HandlerDone, Serves, TimerFires, Timers, Tasks
  <2>2. Still
    BY <1>14 DEF StatusRequest, Still, TimerFires, Timers, HandlerDone
  <2> QED
    BY <2>1, <2>2, QuietStopped, StillOnce
<1>15. ASSUME AppStopRequest
      PROVE  StopOnce'
  <2>1. Quiet
    BY <1>15 DEF AppStopRequest, Quiet, PlacesOK, Goto, Call, Works, Starters, Stops, Blocking, Closing,
         HandlerDone, Serves, TimerFires, Timers, Tasks
  <2>2. Still
    BY <1>15 DEF AppStopRequest, Still, TimerFires, Timers, HandlerDone
  <2> QED
    BY <2>1, <2>2, QuietStopped, StillOnce
<1>16. ASSUME NEW t \in Tasks, ServiceUp(t)
      PROVE  StopOnce'
  <2>1. at[t] \in Works /\ t \in Tasks
    BY <1>16 DEF ServiceUp, Works, Starters, Stops, Blocking, Closing, Tasks
  <2>2. Still
    BY <1>16 DEF ServiceUp, StopBegins, Still, Timers
  <2> QED
    BY <2>1, <2>2, NotStopped, StillOnce
<1>17. ASSUME NEW t \in Tasks, ServiceFails(t)
      PROVE  StopOnce'
  <2>1. at[t] \in Works /\ t \in Tasks
    BY <1>17 DEF ServiceFails, Works, Starters, Stops, Blocking, Closing, Tasks
  <2>2. Still
    BY <1>17 DEF ServiceFails, StopBegins, Still, Timers
  <2> QED
    BY <2>1, <2>2, NotStopped, StillOnce
<1>18. ASSUME NEW t \in Tasks, StartEnds(t)
      PROVE  StopOnce'
  <2>1. at[t] \in Works /\ t \in Tasks
    BY <1>18 DEF StartEnds, Works, Starters, Stops, Blocking, Closing, Tasks
  <2>2. Still
    BY <1>18 DEF StartEnds, StopBegins, Still, Timers
  <2> QED
    BY <2>1, <2>2, NotStopped, StillOnce
<1>19. ASSUME NEW t \in Tasks, StartFailed(t)
      PROVE  StopOnce'
  <2>1. at[t] \in Works /\ t \in Tasks
    BY <1>19 DEF StartFailed, Works, Starters, Stops, Blocking, Closing, Tasks
  <2>2. Still
    BY <1>19 DEF StartFailed, StopBegins, Still, Timers
  <2> QED
    BY <2>1, <2>2, NotStopped, StillOnce
<1>20. ASSUME NEW t \in Tasks, BlockingStopBegins(t)
      PROVE  StopOnce'
  <2>1. at[t] \in Works /\ t \in Tasks
    BY <1>20 DEF BlockingStopBegins, Works, Starters, Stops, Blocking, Closing, Tasks
  <2>2. Still
    BY <1>20 DEF BlockingStopBegins, StopBegins, Still, Timers
  <2> QED
    BY <2>1, <2>2, NotStopped, StillOnce
<1>21. ASSUME NEW t \in Tasks, BlockingStopFinishes(t)
      PROVE  StopOnce'
  <2>1. at[t] \in Works /\ t \in Tasks
    BY <1>21 DEF BlockingStopFinishes, Works, Starters, Stops, Blocking, Closing, Tasks
  <2>2. Still
    BY <1>21 DEF BlockingStopFinishes, StopBegins, Still, Timers
  <2> QED
    BY <2>1, <2>2, NotStopped, StillOnce
<1>22. ASSUME NEW t \in Tasks, BlockingStopEnds(t)
      PROVE  StopOnce'
  <2>1. at[t] \in Works /\ t \in Tasks
    BY <1>22 DEF BlockingStopEnds, Works, Starters, Stops, Blocking, Closing, Tasks
  <2>2. Still
    BY <1>22 DEF BlockingStopEnds, StopBegins, Still, Timers
  <2> QED
    BY <2>1, <2>2, NotStopped, StillOnce
<1>23. ASSUME NEW t \in Tasks, CloseSession(t)
      PROVE  StopOnce'
  <2>1. at[t] \in Works /\ t \in Tasks
    BY <1>23 DEF CloseSession, Works, Starters, Stops, Blocking, Closing, Tasks
  <2>2. Still
    BY <1>23 DEF CloseSession, StopBegins, Still, Timers
  <2> QED
    BY <2>1, <2>2, NotStopped, StillOnce
<1>24. ASSUME NEW t \in Tasks, SessionClosed(t)
      PROVE  StopOnce'
  <2>1. at[t] \in Works /\ t \in Tasks
    BY <1>24 DEF SessionClosed, Works, Starters, Stops, Blocking, Closing, Tasks
  <2>2. Still
    BY <1>24 DEF SessionClosed, StopBegins, Still, Timers
  <2> QED
    BY <2>1, <2>2, NotStopped, StillOnce
<1>25. ASSUME AsyncStopFinishes
      PROVE  StopOnce'
  <2>1. at["loop"] \in Works /\ "loop" \in Tasks
    BY <1>25 DEF AsyncStopFinishes, Works, Starters, Stops, Blocking, Closing, Tasks
  <2>2. Still
    BY <1>25 DEF AsyncStopFinishes, StopBegins, Still, Timers
  <2> QED
    BY <2>1, <2>2, NotStopped, StillOnce
<1>26. ASSUME NEW t \in Tasks, MgrInit(t)
      PROVE  StopOnce'
  <2>1. ~InState({"STOPPING"})
    BY <1>26 DEF MgrInit, InState
  <2>2. Still
    BY <1>26 DEF MgrInit, Still
  <2> QED
    BY <2>1, <2>2, NotStopped, StillOnce
<1>27. ASSUME NEW t \in Tasks, DisableAutoStop(t)
      PROVE  StopOnce'
  <2>1. ~InState({"STOPPING"})
    BY <1>27 DEF DisableAutoStop, InState
  <2>2. Still
    BY <1>27 DEF DisableAutoStop, Still
  <2> QED
    BY <2>1, <2>2, NotStopped, StillOnce
<1>28. ASSUME NEW t \in Tasks, EnableProvisioning(t)
      PROVE  StopOnce'
  <2>1. ~InState({"STOPPING"})
    BY <1>28 DEF EnableProvisioning, InState
  <2>2. Still
    BY <1>28 DEF EnableProvisioning, Still
  <2> QED
    BY <2>1, <2>2, NotStopped, StillOnce
<1>29. ASSUME NEW t \in Tasks, NEW sec \in Securities, Start(t, sec)
      PROVE  StopOnce'
  <2>1. ~InState({"STOPPING"})
    BY <1>29 DEF Start, InState
  <2>2. Still
    BY <1>29, DisconnectsStill DEF Start, Still, Timers
  <2> QED
    BY <2>1, <2>2, NotStopped, StillOnce
<1>30. ASSUME NEW t \in Tasks, NEW sec \in Securities, StartWithoutTimers(t, sec)
      PROVE  StopOnce'
  <2>1. ~InState({"STOPPING"})
    BY <1>30 DEF StartWithoutTimers, InState
  <2>2. Still
    BY <1>30, DisconnectsStill DEF StartWithoutTimers, Still, Timers
  <2> QED
    BY <2>1, <2>2, NotStopped, StillOnce
<1>31. ASSUME GotIp
      PROVE  StopOnce'
  <2>1. ~InState({"STOPPING"})
    BY <1>31, GotIpServes DEF Serving, InState, Running
  <2>2. Still
    BY <1>31 DEF GotIp, Still, Timers
  <2> QED
    BY <2>1, <2>2, NotStopped, StillOnce
<1>32. ASSUME NEW e \in {"REFUSED", "LOST"}, Disconnected(e)
      PROVE  StopOnce'
  <2>1. ~InState({"STOPPING"})
    BY <1>32, DisconnectedServes DEF Serving, InState, Running
  <2>2. Still
    BY <1>32 DEF Disconnected, Still, Timers
  <2> QED
    BY <2>1, <2>2, NotStopped, StillOnce
<1>33. ASSUME ResetRequest
      PROVE  StopOnce'
  <2>1. ~InState({"STOPPING"})
    BY <1>33, ResetServes DEF Serving, InState, Running
  <2>2. Still
    BY <1>33 DEF ResetRequest, Still, Timers
  <2> QED
    BY <2>1, <2>2, NotStopped, StillOnce
<1>34. ASSUME ReprovRequest
      PROVE  StopOnce'
  <2>1. ~InState({"STOPPING"})
    BY <1>34, ReprovServes DEF InState, Running
  <2>2. Still
    BY <1>34, DisconnectsStill DEF ReprovRequest, Still
  <2> QED
    BY <2>1, <2>2, NotStopped, StillOnce
<1>35. ASSUME Configured
      PROVE  StopOnce'
  <2>1. Still
    BY <1>35 DEF Configured, Still, Timers
  <2>2. CASE Serving
    <3>1. ~InState({"STOPPING"})
      BY <2>2 DEF Serving, InState, Running
    <3> QED
      BY <2>1, <3>1, NotStopped, StillOnce
  <2>3. CASE UNCHANGED <<prov_ctx, timer>> /\ Goto("host", "idle")
    <3>1. Quiet
      BY <1>35, <2>3 DEF Configured, Quiet, Goto, PlacesOK, Works, Starters, Stops,
           Blocking, Closing
    <3> QED
      BY <2>1, <3>1, QuietStopped, StillOnce
  <2> QED
    BY <1>35, <2>2, <2>3, ConfiguredServes
<1>36. ASSUME NEW t \in Tasks, StopProvisioning(t)
      PROVE  StopOnce'
  <2>1. UNCHANGED <<transport, event, queue>>
    BY <1>36, StopIs
  <2>2. CASE StopService(FALSE) /\ Goto(t, "idle")
    BY <2>1, <2>2, StopServiceOnce DEF Works, Starters, Stops, Blocking, Closing
  <2>3. CASE /\ Goto(t, "idle") \/ Goto(t, "stop_poll")
             /\ UNCHANGED <<prov_ctx, timer, registered, pops>>
    <3>1. at[t] \in {"idle", "stop", "stop_poll"}
      BY <1>36, StopIs
    <3>2. Quiet
      BY <2>1, <2>3, <3>1 DEF Quiet, PlacesOK, Goto, Works, Starters, Stops,
           Blocking, Closing
    <3>3. Still
      BY <2>1, <2>3 DEF Still
    <3> QED
      BY <3>2, <3>3, QuietStopped, StillOnce
  <2> QED
    BY <1>36, <2>2, <2>3, StopIs
<1>37. ASSUME NEW t \in Tasks, Deinit(t)
      PROVE  StopOnce'
  <2>1. UNCHANGED <<transport, event, queue>> /\ prov_ctx # NULL /\ at[t] \in {"idle", "deinit"}
    BY <1>37, DeinitIs
  <2>2. CASE StopService(TRUE) /\ Goto(t, "stop_begin")
    BY <2>1, <2>2, StopServiceOnce
  <2>3. CASE UNCHANGED timer
    <3>1. Still
      BY <2>1, <2>3 DEF Still
    <3>2. CASE Goto(t, "deinit") /\ UNCHANGED <<prov_ctx, timer, registered, pops>>
      <4>1. Quiet
        BY <2>1, <3>2 DEF Quiet, PlacesOK, Goto, Works, Starters, Stops, Blocking, Closing
      <4> QED
        BY <3>1, <4>1, QuietStopped, StillOnce
    <3>3. CASE ~MustWait
      <4>1. ~InState({"STOPPING"})
        BY <3>3 DEF MustWait, InState
      <4> QED
        BY <3>1, <4>1, NotStopped, StillOnce
    <3>4. CASE StopService(TRUE) /\ Goto(t, "stop_begin")
      BY <2>2, <3>4
    <3> QED
      BY <1>37, <3>2, <3>3, <3>4, DeinitIs
  <2> QED
    BY <1>37, <2>2, <2>3, DeinitIs
<1>38. ASSUME CleanupFires
      PROVE  StopOnce'
  <2>1. /\ timer["cleanup"] = "armed" /\ timer'["cleanup"] # "armed"
        /\ UNCHANGED <<prov_ctx, at, event>>
    BY <1>38 DEF CleanupFires, TimerFires, Timers
  <2>2. event # "STOP" /\ NoStop(queue) /\ OneStop(queue) /\ Stopped
    BY <2>1 DEF StopOnce, Pending, Stopped
  <2>3. OneStop(queue')
    BY <1>38, <2>2, AppendStop DEF CleanupFires
  <2> QED
    BY <2>1, <2>2, <2>3 DEF StopOnce, Pending, Stopped, InState
<1>39. ASSUME Dispatch
      PROVE  StopOnce'
  <2>1. /\ queue' = Tail(queue) /\ queue # <<>> /\ UNCHANGED <<prov_ctx, timer>>
        /\ \/ event' = Head(queue)
           \/ UNCHANGED event
    BY <1>39 DEF Dispatch
  <2>2. Quiet
    BY <1>39 DEF Dispatch, Quiet, PlacesOK, Goto, Works, Starters, Stops, Blocking, Closing,
         Tasks
  <2>3. CASE NoStop(queue)
    <3>1. Still
      BY <2>1, <2>3, TailStop DEF Still
    <3> QED
      BY <2>2, <3>1, QuietStopped, StillOnce
  <2>4. CASE ~NoStop(queue)
    <3>1. Stopped'
      BY <2>2, <2>4, QuietStopped DEF StopOnce, Pending, Stopped
    <3>2. event # "STOP" /\ timer'["cleanup"] # "armed" /\ OneStop(queue)
      BY <2>1, <2>4 DEF StopOnce
    <3>3. OneStop(queue') /\ (Head(queue) = "STOP" => NoStop(queue'))
      BY <2>1, <3>2, TailStop
    <3> QED
      BY <2>1, <3>1, <3>2, <3>3 DEF StopOnce, Stopped
  <2> QED
    BY <2>3, <2>4
<1>40. ASSUME AsyncStopBegins
      PROVE  StopOnce'
  <2>1. /\ event = "STOP" /\ event' = "none" /\ UNCHANGED queue /\ timer'["cleanup"] = "none"
    BY <1>40 DEF AsyncStopBegins, Handles, StopBegins, Timers
  <2> QED
    BY <2>1 DEF StopOnce, Pending
<1>41. ASSUME LinkUp
      PROVE  StopOnce'
  <2>1. Quiet
    BY <1>41 DEF LinkUp, Quiet
  <2>2. Still
    BY <1>41, AppendOther DEF LinkUp, Still, Events
  <2> QED
    BY <2>1, <2>2, QuietStopped, StillOnce
<1>42. ASSUME LinkDown
      PROVE  StopOnce'
  <2>1. Quiet
    BY <1>42 DEF LinkDown, Quiet
  <2>2. Still
    BY <1>42, AppendOther DEF LinkDown, Still, Events
  <2> QED
    BY <2>1, <2>2, QuietStopped, StillOnce
<1>43. CASE UNCHANGED vars
  BY <1>43 DEF vars, envVars, StopOnce, Pending, InState
<1> QED
  BY <1>1, <1>2, <1>3, <1>4, <1>5, <1>6, <1>7, <1>8, <1>9, <1>10, <1>11, <1>12, <1>13,
     <1>14, <1>15, <1>16, <1>17, <1>18, <1>19, <1>20, <1>21, <1>22, <1>23, <1>24, <1>25,
     <1>26, <1>27, <1>28, <1>29, <1>30, <1>31, <1>32, <1>33, <1>34, <1>35, <1>36, <1>37,
     <1>38, <1>39, <1>40, <1>41, <1>42, <1>43
     DEF Next, Continue, AppCalls, TimerTask, EventLoop, Clients

-----------------------------------------------------------------------------
(* The events that the loop handles.                                       *)

Handling == at["loop"] = "handle" <=> event # "none"
NoWifiEvent == InState({"STOPPING"}) => event \in {"STOP", "none"}

LEMMA HandlingStep ==
  ASSUME Safe, [Next]_vars
  PROVE  Handling'
<1> USE ProvMgrAssumption
         DEF Handling, Safe, EventOK, Typed, PlacesOK, Tasks, Goto, Call, envVars,
             HandlerDone, Handles, Serves, Events
<1>1. ASSUME NEW t \in Tasks, CallbackDone(t)
      PROVE  Handling'
  BY <1>1
     DEF CallbackDone
<1>2. ASSUME NEW t \in Tasks, ServiceUp(t)
      PROVE  Handling'
  BY <1>2
     DEF ServiceUp
<1>3. ASSUME NEW t \in Tasks, StartEnds(t)
      PROVE  Handling'
  BY <1>3
     DEF StartEnds
<1>4. ASSUME NEW t \in Tasks, StartFailed(t)
      PROVE  Handling'
  BY <1>4
     DEF StartFailed
<1>5. ASSUME NEW t \in Tasks, StopTooLate(t)
      PROVE  Handling'
  BY <1>5
     DEF StopTooLate
<1>6. ASSUME NEW t \in Tasks, WaitEnds(t)
      PROVE  Handling'
  BY <1>6
     DEF WaitEnds
<1>7. ASSUME NEW t \in Tasks, DeinitNothing(t)
      PROVE  Handling'
  BY <1>7
     DEF DeinitNothing
<1>8. ASSUME NEW t \in Tasks, BlockingStopBegins(t)
      PROVE  Handling'
  BY <1>8
     DEF BlockingStopBegins
<1>9. ASSUME NEW t \in Tasks, BlockingStopFinishes(t)
      PROVE  Handling'
  BY <1>9
     DEF BlockingStopFinishes
<1>10. ASSUME NEW t \in Tasks, BlockingStopEnds(t)
      PROVE  Handling'
  BY <1>10
     DEF BlockingStopEnds
<1>11. ASSUME NEW t \in Tasks, CloseSession(t)
      PROVE  Handling'
  BY <1>11
     DEF CloseSession
<1>12. ASSUME NEW t \in Tasks, SessionClosed(t)
      PROVE  Handling'
  BY <1>12
     DEF SessionClosed
<1>13. ASSUME NEW t \in Tasks, Announce(t)
      PROVE  Handling'
  BY <1>13
     DEF Announce
<1>14. ASSUME NEW t \in Tasks, DeinitEnd(t)
      PROVE  Handling'
  BY <1>14
     DEF DeinitEnd
<1>15. ASSUME NEW t \in Tasks, DeleteLock(t)
      PROVE  Handling'
  BY <1>15
     DEF DeleteLock
<1>16. ASSUME NEW t \in Tasks, MgrInit(t)
      PROVE  Handling'
  BY <1>16
     DEF MgrInit
<1>17. ASSUME NEW t \in Tasks, DisableAutoStop(t)
      PROVE  Handling'
  BY <1>17
     DEF DisableAutoStop
<1>18. ASSUME NEW t \in Tasks, EnableProvisioning(t)
      PROVE  Handling'
  BY <1>18
     DEF EnableProvisioning
<1>19. ASSUME NEW t \in Tasks, NEW sec \in Securities, Start(t, sec)
      PROVE  Handling'
  BY <1>19
     DEF Start
<1>20. ASSUME NEW t \in Tasks, NEW sec \in Securities, StartWithoutTimers(t, sec)
      PROVE  Handling'
  BY <1>20
     DEF StartWithoutTimers
<1>21. ASSUME NEW t \in Tasks, StartRefused(t)
      PROVE  Handling'
  BY <1>21
     DEF StartRefused
<1>22. ASSUME NEW t \in Tasks, ServiceFails(t)
      PROVE  Handling'
  BY <1>22
     DEF ServiceFails
<1>23. ASSUME NEW t \in Tasks, Wait(t)
      PROVE  Handling'
  BY <1>23
     DEF Wait
<1>24. ASSUME Configured
      PROVE  Handling'
  BY <1>24
     DEF Configured
<1>25. ASSUME AutostopFires
      PROVE  Handling'
  BY <1>25
     DEF AutostopFires
<1>26. ASSUME CleanupFires
      PROVE  Handling'
  BY <1>26
     DEF CleanupFires
<1>27. ASSUME WifiConnectFires
      PROVE  Handling'
  BY <1>27
     DEF WifiConnectFires
<1>28. ASSUME Dispatch
      PROVE  Handling'
  BY <1>28
     DEF Dispatch
<1>29. ASSUME EventIgnored
      PROVE  Handling'
  BY <1>29
     DEF EventIgnored
<1>30. ASSUME GotIp
      PROVE  Handling'
  BY <1>30
     DEF GotIp
<1>31. ASSUME NEW e \in {"REFUSED", "LOST"}, Disconnected(e)
      PROVE  Handling'
  BY <1>31
     DEF Disconnected
<1>32. ASSUME AsyncStopBegins
      PROVE  Handling'
  BY <1>32
     DEF AsyncStopBegins
<1>33. ASSUME AsyncStopFinishes
      PROVE  Handling'
  BY <1>33
     DEF AsyncStopFinishes
<1>34. ASSUME Configure
      PROVE  Handling'
  BY <1>34
     DEF Configure
<1>35. ASSUME StatusRequest
      PROVE  Handling'
  BY <1>35
     DEF StatusRequest
<1>36. ASSUME AppStopRequest
      PROVE  Handling'
  BY <1>36
     DEF AppStopRequest
<1>37. ASSUME ResetRequest
      PROVE  Handling'
  BY <1>37
     DEF ResetRequest
<1>38. ASSUME ReprovRequest
      PROVE  Handling'
  BY <1>38
     DEF ReprovRequest
<1>39. ASSUME LinkUp
      PROVE  Handling'
  BY <1>39
     DEF LinkUp
<1>40. ASSUME LinkDown
      PROVE  Handling'
  BY <1>40
     DEF LinkDown
<1>41. ASSUME NEW t \in Tasks, StopProvisioning(t)
      PROVE  Handling'
  <2>1. /\ t # "loop" /\ (Goto(t, "idle") \/ Goto(t, "stop_poll")) /\ UNCHANGED event
    BY <1>41, StopIs
  <2> QED
    BY <2>1
<1>42. ASSUME NEW t \in Tasks, Deinit(t)
      PROVE  Handling'
  <2>1. /\ t # "loop" /\ UNCHANGED event
        /\ \E p \in {"deinit", "stop_begin", "close", "deinit_end"} : Goto(t, p)
    BY <1>42, DeinitIs
  <2> QED
    BY <2>1
<1>43. CASE UNCHANGED vars
  BY <1>43 DEF vars, envVars
<1> QED
  BY <1>1, <1>2, <1>3, <1>4, <1>5, <1>6, <1>7, <1>8, <1>9, <1>10, <1>11, <1>12, <1>13,
     <1>14, <1>15, <1>16, <1>17, <1>18, <1>19, <1>20, <1>21, <1>22, <1>23, <1>24, <1>25,
     <1>26, <1>27, <1>28, <1>29, <1>30, <1>31, <1>32, <1>33, <1>34, <1>35, <1>36, <1>37,
     <1>38, <1>39, <1>40, <1>41, <1>42, <1>43
     DEF Next, Continue, AppCalls, TimerTask, EventLoop, Clients

\* A stop begins when no Wi-Fi event is handled.
LEMMA BeginsBetweenEvents ==
  ASSUME Calm, Safe, NEW t \in Tasks, StopProvisioning(t) \/ Deinit(t), UNCHANGED event
  PROVE  NoWifiEvent'
<1>1. InState({"STOPPING"}) => event \in {"STOP", "none"}
  BY DEF Safe, EventOK
<1>2. ~InState({"STOPPING"}) /\ InState({"STOPPING"})' => event \in {"STOP", "none"}
  BY DEF Calm, StopMeetsEvent
<1> QED
  BY <1>1, <1>2 DEF NoWifiEvent

LEMMA NoWifiEventStep ==
  ASSUME Calm, Safe, [Next]_vars
  PROVE  NoWifiEvent'
<1> USE          DEF NoWifiEvent, Safe, EventOK, Typed, envVars
<1>1. ASSUME NEW t \in Tasks, CallbackDone(t) \/ StopTooLate(t) \/ WaitEnds(t) \/
            DeinitNothing(t) \/ Announce(t) \/ DeinitEnd(t) \/ DeleteLock(t) \/
            StartRefused(t) \/ Wait(t) \/ CloseSession(t) \/ ServiceFails(t)
      PROVE  NoWifiEvent'
  BY <1>1
     DEF CallbackDone, StopTooLate, WaitEnds, DeinitNothing, Announce, DeinitEnd,
         DeleteLock, StartRefused, Wait, CloseSession, ServiceFails, HandlerDone,
         InState
<1>2. ASSUME AutostopFires \/ CleanupFires \/ WifiConnectFires \/ EventIgnored \/
            Configure \/ StatusRequest \/ AppStopRequest \/ LinkUp \/ LinkDown
      PROVE  NoWifiEvent'
  BY <1>2
     DEF AutostopFires, CleanupFires, WifiConnectFires, EventIgnored, Configure,
         StatusRequest, AppStopRequest, LinkUp, LinkDown, HandlerDone, InState
<1>3. ASSUME NEW t \in Tasks, ServiceUp(t)
      PROVE  NoWifiEvent'
  BY <1>3, ContextFields
     DEF ServiceUp, InState, Core, WorkOK, Works, Starters, Contexts, Running
<1>4. ASSUME NEW t \in Tasks, StartEnds(t)
      PROVE  NoWifiEvent'
  BY <1>4, ContextFields
     DEF StartEnds, InState, Core, WorkOK, Works, Starters, Contexts, Running
<1>5. ASSUME NEW t \in Tasks, StartFailed(t)
      PROVE  NoWifiEvent'
  BY <1>5, ContextFields
     DEF StartFailed, InState, Core, WorkOK, Works, Starters, Contexts, Running
<1>6. ASSUME NEW t \in Tasks, BlockingStopEnds(t)
      PROVE  NoWifiEvent'
  BY <1>6
     DEF BlockingStopEnds, FreeCtx, InState
<1>7. ASSUME NEW t \in Tasks, SessionClosed(t)
      PROVE  NoWifiEvent'
  BY <1>7
     DEF SessionClosed, FreeCtx, InState
<1>8. ASSUME NEW t \in Tasks, BlockingStopBegins(t)
      PROVE  NoWifiEvent'
  BY <1>8
     DEF BlockingStopBegins, InState, Core, WorkOK, Works, Stops, Blocking, Closing
<1>9. ASSUME NEW t \in Tasks, BlockingStopFinishes(t)
      PROVE  NoWifiEvent'
  BY <1>9
     DEF BlockingStopFinishes, InState, Core, WorkOK, Works, Stops, Blocking, Closing
<1>10. ASSUME NEW t \in Tasks, MgrInit(t)
      PROVE  NoWifiEvent'
  BY <1>10, NewContext
     DEF MgrInit, InState
<1>11. ASSUME NEW t \in Tasks, DisableAutoStop(t)
      PROVE  NoWifiEvent'
  BY <1>11, ContextFields
     DEF DisableAutoStop, InState, Contexts
<1>12. ASSUME NEW t \in Tasks, EnableProvisioning(t)
      PROVE  NoWifiEvent'
  BY <1>12, ContextFields
     DEF EnableProvisioning, InState, Contexts
<1>13. ASSUME NEW t \in Tasks, NEW sec \in Securities, Start(t, sec)
      PROVE  NoWifiEvent'
  BY <1>13, StartIs
     DEF Start, InState
<1>14. ASSUME NEW t \in Tasks, NEW sec \in Securities, StartWithoutTimers(t, sec)
      PROVE  NoWifiEvent'
  BY <1>14, StartWithoutTimersIs
     DEF StartWithoutTimers, InState
<1>15. ASSUME GotIp
      PROVE  NoWifiEvent'
  BY <1>15
     DEF GotIp
<1>16. ASSUME NEW e \in {"REFUSED", "LOST"}, Disconnected(e)
      PROVE  NoWifiEvent'
  BY <1>16
     DEF Disconnected
<1>17. ASSUME AsyncStopBegins
      PROVE  NoWifiEvent'
  BY <1>17
     DEF AsyncStopBegins
<1>18. ASSUME ResetRequest
      PROVE  NoWifiEvent'
  BY <1>18, ResetServes
     DEF ResetRequest, Serving, InState, Running
<1>19. ASSUME ReprovRequest
      PROVE  NoWifiEvent'
  BY <1>19, ReprovServes
     DEF ReprovRequest, Serving, InState, Running, vars
<1>20. ASSUME Configured
      PROVE  NoWifiEvent'
  BY <1>20, ConfiguredServes
     DEF Configured, Serving, InState, Running
<1>21. ASSUME AsyncStopFinishes
      PROVE  NoWifiEvent'
  <2>1. at["loop"] = "async" /\ UNCHANGED event
    BY <1>21 DEF AsyncStopFinishes
  <2> QED
    BY <2>1 DEF EventOK
<1>22. ASSUME Dispatch
      PROVE  NoWifiEvent'
  <2>1. CASE InState({"STOPPING"})
    <3>1. registered \subseteq {"stop"}
      BY <2>1 DEF Core, StateOK
    <3> QED
      BY <1>22, <2>1, <3>1 DEF Dispatch, InState
  <2>2. CASE ~InState({"STOPPING"})
    BY <1>22, <2>2 DEF Dispatch, InState
  <2> QED
    BY <2>1, <2>2
<1>23. ASSUME NEW t \in Tasks, StopProvisioning(t)
      PROVE  NoWifiEvent'
  <2>1. UNCHANGED event
    BY <1>23, StopIs
  <2> QED
    BY <1>23, <2>1, BeginsBetweenEvents
<1>24. ASSUME NEW t \in Tasks, Deinit(t)
      PROVE  NoWifiEvent'
  <2>1. UNCHANGED event
    BY <1>24, DeinitIs
  <2> QED
    BY <1>24, <2>1, BeginsBetweenEvents
<1>25. CASE UNCHANGED vars
  BY <1>25 DEF vars, envVars, InState
<1> QED
  BY <1>1, <1>2, <1>3, <1>4, <1>5, <1>6, <1>7, <1>8, <1>9, <1>10, <1>11, <1>12, <1>13,
     <1>14, <1>15, <1>16, <1>17, <1>18, <1>19, <1>20, <1>21, <1>22, <1>23, <1>24, <1>25
     DEF Next, Continue, AppCalls, TimerTask, EventLoop, Clients

LEMMA EventStep ==
  ASSUME Calm, Safe, [Next]_vars
  PROVE  EventOK'
BY HandlingStep, NoWifiEventStep DEF EventOK, Handling, NoWifiEvent


-----------------------------------------------------------------------------
(* What a request works on.                                                *)

LEMMA Requested ==
  ASSUME Safe, at["host"] = "configure"
  PROVE  /\ prov_ctx # NULL /\ prov_ctx \in Contexts /\ transport
         /\ ~InState({"STARTING"}) /\ (InState({"IDLE"}) => prov_ctx.session_pc)
         /\ Mode = "FULL" => prov_ctx.handlers /\ ~InState({"IDLE"})
BY ContextFields DEF Safe, RequestOK, InState, Running

\* What a request works on outlives a step that stops the service or moves on.
LEMMA StillServed ==
  ASSUME Safe, at["host"] = "configure", ~InState({"IDLE"}), prov_ctx' # NULL,
         prov_ctx'.state \in Running \cup {"STOPPING"},
         prov_ctx'.handlers = prov_ctx.handlers, UNCHANGED transport
  PROVE  RequestOK'
BY Requested DEF RequestOK, InState

LEMMA RequestStep ==
  ASSUME Calm, Safe, [Next]_vars
  PROVE  RequestOK'
<1> USE ProvMgrAssumption
         DEF Safe, Typed, envVars, Goto, Tasks
<1>1. ASSUME NEW t \in Tasks, CallbackDone(t)
      PROVE  RequestOK'
  BY <1>1
     DEF CallbackDone, PlacesOK, Call, HandlerDone, InState, RequestOK
<1>2. ASSUME NEW t \in Tasks, StopTooLate(t)
      PROVE  RequestOK'
  BY <1>2
     DEF StopTooLate, PlacesOK, Call, HandlerDone, InState, RequestOK
<1>3. ASSUME NEW t \in Tasks, WaitEnds(t)
      PROVE  RequestOK'
  BY <1>3
     DEF WaitEnds, PlacesOK, Call, HandlerDone, InState, RequestOK
<1>4. ASSUME NEW t \in Tasks, DeinitNothing(t)
      PROVE  RequestOK'
  BY <1>4
     DEF DeinitNothing, PlacesOK, Call, HandlerDone, InState, RequestOK
<1>5. ASSUME NEW t \in Tasks, Announce(t)
      PROVE  RequestOK'
  BY <1>5
     DEF Announce, PlacesOK, Call, HandlerDone, InState, RequestOK
<1>6. ASSUME NEW t \in Tasks, DeinitEnd(t)
      PROVE  RequestOK'
  BY <1>6
     DEF DeinitEnd, PlacesOK, Call, HandlerDone, InState, RequestOK
<1>7. ASSUME NEW t \in Tasks, DeleteLock(t)
      PROVE  RequestOK'
  BY <1>7
     DEF DeleteLock, PlacesOK, Call, HandlerDone, InState, RequestOK
<1>8. ASSUME NEW t \in Tasks, StartRefused(t)
      PROVE  RequestOK'
  BY <1>8
     DEF StartRefused, PlacesOK, Call, HandlerDone, InState, RequestOK
<1>9. ASSUME NEW t \in Tasks, Wait(t)
      PROVE  RequestOK'
  BY <1>9
     DEF Wait, PlacesOK, Call, HandlerDone, InState, RequestOK
<1>10. ASSUME AutostopFires
      PROVE  RequestOK'
  BY <1>10
     DEF AutostopFires, PlacesOK, Call, HandlerDone, InState, RequestOK
<1>11. ASSUME CleanupFires
      PROVE  RequestOK'
  BY <1>11
     DEF CleanupFires, PlacesOK, Call, HandlerDone, InState, RequestOK
<1>12. ASSUME WifiConnectFires
      PROVE  RequestOK'
  BY <1>12
     DEF WifiConnectFires, PlacesOK, Call, HandlerDone, InState, RequestOK
<1>13. ASSUME EventIgnored
      PROVE  RequestOK'
  BY <1>13
     DEF EventIgnored, PlacesOK, Call, HandlerDone, InState, RequestOK
<1>14. ASSUME StatusRequest
      PROVE  RequestOK'
  BY <1>14
     DEF StatusRequest, PlacesOK, Call, HandlerDone, InState, RequestOK
<1>15. ASSUME AppStopRequest
      PROVE  RequestOK'
  BY <1>15
     DEF AppStopRequest, PlacesOK, Call, HandlerDone, InState, RequestOK
<1>16. ASSUME LinkUp
      PROVE  RequestOK'
  BY <1>16
     DEF LinkUp, PlacesOK, Call, HandlerDone, InState, RequestOK
<1>17. ASSUME LinkDown
      PROVE  RequestOK'
  BY <1>17
     DEF LinkDown, PlacesOK, Call, HandlerDone, InState, RequestOK
<1>18. ASSUME NEW t \in Tasks, ServiceFails(t)
      PROVE  RequestOK'
  BY <1>18
     DEF ServiceFails, PlacesOK, Call, HandlerDone, InState, RequestOK
<1>19. ASSUME Dispatch
      PROVE  RequestOK'
  BY <1>19
     DEF Dispatch, PlacesOK, Call, HandlerDone, InState, RequestOK
<1>20. ASSUME NEW t \in Tasks, ServiceUp(t)
      PROVE  RequestOK'
  <2>1. InState({"STARTING"})
    BY <1>20 DEF ServiceUp, Core, WorkOK, InState, Works, Starters
  <2> QED
    BY <1>20, <2>1, Requested DEF ServiceUp, RequestOK, PlacesOK
<1>21. ASSUME NEW t \in Tasks, StartEnds(t)
      PROVE  RequestOK'
  <2>1. InState({"STARTING"})
    BY <1>21 DEF StartEnds, Core, WorkOK, InState, Works, Starters
  <2> QED
    BY <1>21, <2>1, Requested DEF StartEnds, RequestOK, PlacesOK
<1>22. ASSUME NEW t \in Tasks, StartFailed(t)
      PROVE  RequestOK'
  <2>1. InState({"STARTING"})
    BY <1>22 DEF StartFailed, Core, WorkOK, InState, Works, Starters
  <2> QED
    BY <1>22, <2>1, Requested DEF StartFailed, RequestOK, PlacesOK
<1>23. ASSUME NEW t \in Tasks, BlockingStopFinishes(t)
      PROVE  RequestOK'
  <2>1. at["host"] = "idle"
    BY <1>23 DEF BlockingStopFinishes, StopFinishes, KeepTransport
  <2> QED
    BY <1>23, <2>1 DEF BlockingStopFinishes, RequestOK, PlacesOK
<1>24. ASSUME NEW t \in Tasks, CloseSession(t)
      PROVE  RequestOK'
  <2>1. at["host"] = "idle"
    BY <1>24 DEF CloseSession, StopFinishes, KeepTransport
  <2> QED
    BY <1>24, <2>1 DEF CloseSession, RequestOK, PlacesOK
<1>25. ASSUME NEW t \in Tasks, BlockingStopEnds(t)
      PROVE  RequestOK'
  <2>1. ~transport
    BY <1>25 DEF BlockingStopEnds, Core, WorkOK
  <2> QED
    BY <1>25, <2>1, Requested DEF BlockingStopEnds, RequestOK, PlacesOK
<1>26. ASSUME NEW t \in Tasks, SessionClosed(t)
      PROVE  RequestOK'
  <2>1. ~transport
    BY <1>26 DEF SessionClosed, Core, WorkOK
  <2> QED
    BY <1>26, <2>1, Requested DEF SessionClosed, RequestOK, PlacesOK
<1>27. ASSUME NEW t \in Tasks, MgrInit(t)
      PROVE  RequestOK'
  <2>1. prov_ctx = NULL /\ (at' = at \/ Goto(t, "callback"))
    BY <1>27 DEF MgrInit
  <2> QED
    BY <2>1, Requested DEF RequestOK, PlacesOK
<1>28. ASSUME NEW t \in Tasks, EnableProvisioning(t)
      PROVE  RequestOK'
  <2>1. InState({"IDLE"}) /\ ~prov_ctx.session_pc
    BY <1>28 DEF EnableProvisioning
  <2>2. at["host"] # "configure"
    BY <2>1, Requested
  <2> QED
    BY <1>28, <2>2 DEF EnableProvisioning, RequestOK, PlacesOK
<1>29. ASSUME NEW t \in Tasks, NEW sec \in Securities, Start(t, sec)
      PROVE  RequestOK'
  <2>1. InState({"IDLE"}) /\ ~prov_ctx.session_pc
    BY <1>29 DEF Start
  <2>2. at["host"] # "configure"
    BY <2>1, Requested
  <2> QED
    BY <1>29, <2>2 DEF Start, RequestOK, PlacesOK
<1>30. ASSUME NEW t \in Tasks, NEW sec \in Securities, StartWithoutTimers(t, sec)
      PROVE  RequestOK'
  <2>1. InState({"IDLE"}) /\ ~prov_ctx.session_pc
    BY <1>30 DEF StartWithoutTimers
  <2>2. at["host"] # "configure"
    BY <2>1, Requested
  <2> QED
    BY <1>30, <2>2 DEF StartWithoutTimers, RequestOK, PlacesOK
<1>31. ASSUME NEW t \in Tasks, DisableAutoStop(t)
      PROVE  RequestOK'
  <2> SUFFICES ASSUME at["host"] = "configure"
      PROVE  RequestOK'
    BY <1>31 DEF DisableAutoStop, RequestOK
  <2>1. /\ InState({"IDLE"}) /\ prov_ctx' = [prov_ctx EXCEPT !.no_auto_stop = TRUE]
        /\ UNCHANGED transport
    BY <1>31 DEF DisableAutoStop
  <2>2. /\ prov_ctx' \in Contexts /\ prov_ctx'.state = prov_ctx.state
        /\ prov_ctx'.session_pc = prov_ctx.session_pc
    BY <2>1, Requested DEF Contexts
  <2> QED
    BY <2>1, <2>2, Requested, NullAssumption DEF RequestOK, InState
<1>32. ASSUME GotIp
      PROVE  RequestOK'
  <2> SUFFICES ASSUME at["host"] = "configure"
      PROVE  RequestOK'
    BY <1>32 DEF GotIp, RequestOK, PlacesOK
  <2> QED
    BY <1>32, GotIpServes, StillServed DEF Serving, SameService, InState, Running
<1>33. ASSUME NEW e \in {"REFUSED", "LOST"}, Disconnected(e)
      PROVE  RequestOK'
  <2> SUFFICES ASSUME at["host"] = "configure"
      PROVE  RequestOK'
    BY <1>33 DEF Disconnected, RequestOK, PlacesOK
  <2> QED
    BY <1>33, DisconnectedServes, StillServed DEF Serving, SameService, InState, Running
<1>34. ASSUME ResetRequest
      PROVE  RequestOK'
  <2> SUFFICES ASSUME at["host"] = "configure"
      PROVE  RequestOK'
    BY <1>34 DEF ResetRequest, RequestOK, PlacesOK
  <2> QED
    BY <1>34, ResetServes, StillServed DEF Serving, SameService, InState, Running
<1>35. ASSUME ReprovRequest
      PROVE  RequestOK'
  BY <1>35 DEF ReprovRequest, Serves, RequestOK, PlacesOK
<1>36. ASSUME Configured
      PROVE  RequestOK'
  BY <1>36 DEF Configured, RequestOK, PlacesOK
<1>37. ASSUME Configure
      PROVE  RequestOK'
  <2>1. prov_ctx # NULL /\ prov_ctx.handlers /\ transport /\ ~InState({"STARTING"})
    BY <1>37, RequestIs DEF Configure, Serves, Calm, RequestInStart
  <2>2. ~InState({"IDLE"})
    BY <2>1 DEF Core, StateOK
  <2>3. prov_ctx.state \in Running \cup {"STOPPING"}
    BY <2>1, <2>2, ContextFields DEF InState
  <2> QED
    BY <1>37, <2>1, <2>3 DEF Configure, RequestOK, InState
<1>38. ASSUME NEW t \in Tasks, StopProvisioning(t)
      PROVE  RequestOK'
  <2>1. /\ UNCHANGED transport /\ at[t] # "configure"
        /\ (Goto(t, "idle") \/ Goto(t, "stop_poll"))
    BY <1>38, StopIs
  <2> SUFFICES ASSUME at["host"] = "configure"
      PROVE  RequestOK'
    BY <2>1 DEF RequestOK, PlacesOK
  <2>2. CASE StopService(FALSE)
    BY <2>1, <2>2, StopServiceIs, StillServed DEF SameService, InState, Running
  <2>3. CASE UNCHANGED prov_ctx
    BY <2>1, <2>3 DEF RequestOK, InState
  <2> QED
    BY <1>38, <2>2, <2>3, StopIs
<1>39. ASSUME NEW t \in Tasks, Deinit(t)
      PROVE  RequestOK'
  <2>1. /\ UNCHANGED transport /\ at[t] # "configure"
        /\ \E p \in {"deinit", "stop_begin", "close", "deinit_end"} : Goto(t, p)
    BY <1>39, DeinitIs
  <2> SUFFICES ASSUME at["host"] = "configure"
      PROVE  RequestOK'
    BY <2>1 DEF RequestOK, PlacesOK
  <2>2. CASE StopService(TRUE)
    BY <2>1, <2>2, StopServiceIs, StillServed DEF SameService, InState, Running
  <2>3. CASE UNCHANGED prov_ctx
    BY <2>1, <2>3 DEF RequestOK, InState
  <2>4. CASE ~MustWait /\ ~InState(Running)
    <3>1. InState({"IDLE"}) /\ prov_ctx.session_pc /\ Mode # "FULL" /\ transport
      BY <2>4, Requested, ContextFields DEF MustWait, InState
    <3>2. CASE prov_ctx' = [prov_ctx EXCEPT !.session_pc = FALSE, !.state = "STOPPING"]
      <4>1. prov_ctx' # NULL /\ prov_ctx'.state = "STOPPING"
        BY <3>2, Requested, NullAssumption DEF Contexts
      <4> QED
        BY <2>1, <3>1, <4>1 DEF RequestOK, InState
    <3> QED
      BY <1>39, <2>2, <2>3, <3>1, <3>2, DeinitIs
  <2> QED
    BY <1>39, <2>2, <2>3, <2>4, DeinitIs
<1>40. ASSUME NEW t \in Tasks, BlockingStopBegins(t)
      PROVE  RequestOK'
  <2> SUFFICES ASSUME at["host"] = "configure"
      PROVE  RequestOK'
    BY <1>40 DEF BlockingStopBegins, RequestOK, PlacesOK
  <2>1. prov_ctx \in Contexts /\ prov_ctx.state = "STOPPING"
    BY <1>40, Requested DEF BlockingStopBegins, StopOnce, Pending, Handles, InState, Core, WorkOK, Works, Stops,
         Blocking
  <2>2. prov_ctx' = [prov_ctx EXCEPT !.timers = prov_ctx.timers \ {"cleanup"}] /\ UNCHANGED transport
    BY <1>40 DEF BlockingStopBegins, StopBegins
  <2>3. prov_ctx' # NULL /\ prov_ctx'.state = "STOPPING" /\ prov_ctx'.handlers = prov_ctx.handlers
    <3>1. PICK h : h \in SUBSET Timers /\ h = prov_ctx.timers \ {"cleanup"}
      BY <2>1 DEF Contexts
    <3>2. prov_ctx' = [prov_ctx EXCEPT !.timers = h]
      BY <2>2, <3>1
    <3> QED
      BY <2>1, <3>1, <3>2, NullAssumption DEF Contexts
  <2> QED
    BY <2>1, <2>2, <2>3, StillServed DEF InState
<1>41. ASSUME AsyncStopBegins
      PROVE  RequestOK'
  <2> SUFFICES ASSUME at["host"] = "configure"
      PROVE  RequestOK'
    BY <1>41 DEF AsyncStopBegins, RequestOK, PlacesOK
  <2>1. prov_ctx \in Contexts /\ prov_ctx.state = "STOPPING"
    BY <1>41, Requested DEF AsyncStopBegins, StopOnce, Pending, Handles, InState, Core, WorkOK, Works, Stops,
         Blocking
  <2>2. prov_ctx' = [prov_ctx EXCEPT !.timers = prov_ctx.timers \ {"cleanup"}] /\ UNCHANGED transport
    BY <1>41 DEF AsyncStopBegins, StopBegins
  <2>3. prov_ctx' # NULL /\ prov_ctx'.state = "STOPPING" /\ prov_ctx'.handlers = prov_ctx.handlers
    <3>1. PICK h : h \in SUBSET Timers /\ h = prov_ctx.timers \ {"cleanup"}
      BY <2>1 DEF Contexts
    <3>2. prov_ctx' = [prov_ctx EXCEPT !.timers = h]
      BY <2>2, <3>1
    <3> QED
      BY <2>1, <3>1, <3>2, NullAssumption DEF Contexts
  <2> QED
    BY <2>1, <2>2, <2>3, StillServed DEF InState
<1>42. ASSUME AsyncStopFinishes
      PROVE  RequestOK'
  <2> SUFFICES ASSUME at["host"] = "configure"
      PROVE  RequestOK'
    BY <1>42 DEF AsyncStopFinishes, RequestOK, PlacesOK
  <2>1. /\ prov_ctx # NULL /\ prov_ctx.pc /\ StopFinishes(FALSE, "IDLE")
    BY <1>42, Requested DEF AsyncStopFinishes, Core, WorkOK
  <2>2. KeepTransport(FALSE)
    BY <2>1, StopFinishesIs
  <2>3. prov_ctx' # NULL /\ prov_ctx'.state = "IDLE" /\ prov_ctx'.session_pc /\ transport'
    BY <2>1, <2>2, StopFinishesIs
  <2>4. Mode # "FULL"
    BY <2>2 DEF KeepTransport
  <2> QED
    BY <2>3, <2>4 DEF RequestOK, InState
<1>43. CASE UNCHANGED vars
  BY <1>43 DEF vars, envVars, RequestOK, InState
<1> QED
  BY <1>1, <1>2, <1>3, <1>4, <1>5, <1>6, <1>7, <1>8, <1>9, <1>10, <1>11, <1>12, <1>13,
     <1>14, <1>15, <1>16, <1>17, <1>18, <1>19, <1>20, <1>21, <1>22, <1>23, <1>24, <1>25,
     <1>26, <1>27, <1>28, <1>29, <1>30, <1>31, <1>32, <1>33, <1>34, <1>35, <1>36, <1>37,
     <1>38, <1>39, <1>40, <1>41, <1>42, <1>43
     DEF Next, Continue, AppCalls, TimerTask, EventLoop, Clients

LEMMA SafeStep ==
  ASSUME Calm, Safe, [Next]_vars
  PROVE  Safe'
BY TypedStep, CoreStep, StopOnceStep, EventStep, RequestStep DEF Safe


-----------------------------------------------------------------------------
(* The copy of the proof of possession.                                    *)

LEMMA Keeps ==
  ASSUME Typed, CopyOK, UNCHANGED pops, failures' = 0 => failures = 0,
         prov_ctx # NULL, prov_ctx' # NULL, SameSecret(prov_ctx, prov_ctx')
  PROVE  CopyOK'
BY DEF CopyOK, Holds, SameSecret

LEMMA KeepsContext ==
  ASSUME CopyOK, UNCHANGED <<pops, prov_ctx>>, failures' = 0 => failures = 0
  PROVE  CopyOK'
BY DEF CopyOK, Holds

\* Failures are counted, never forgotten.
Recorded == (failures' = 0 => failures = 0) /\ (failures > 0 => failures' > 0)

LEMMA FailRecorded ==
  ASSUME Typed, NEW what, Fail(what)
  PROVE  Recorded /\ failures' > 0
BY ProvMgrAssumption DEF Typed, Fail, Recorded

LEMMA RecordedStep ==
  ASSUME Safe, [Next]_vars
  PROVE  Recorded
<1> USE FailRecorded
         DEF Safe, Recorded, envVars
<1>1. ASSUME NEW t \in Tasks, CallbackDone(t)
      PROVE  Recorded
  BY <1>1
     DEF CallbackDone
<1>2. ASSUME NEW t \in Tasks, ServiceUp(t)
      PROVE  Recorded
  BY <1>2
     DEF ServiceUp
<1>3. ASSUME NEW t \in Tasks, StartEnds(t)
      PROVE  Recorded
  BY <1>3
     DEF StartEnds
<1>4. ASSUME NEW t \in Tasks, StartFailed(t)
      PROVE  Recorded
  BY <1>4
     DEF StartFailed
<1>5. ASSUME NEW t \in Tasks, StopTooLate(t)
      PROVE  Recorded
  BY <1>5
     DEF StopTooLate
<1>6. ASSUME NEW t \in Tasks, WaitEnds(t)
      PROVE  Recorded
  BY <1>6
     DEF WaitEnds
<1>7. ASSUME NEW t \in Tasks, DeinitNothing(t)
      PROVE  Recorded
  BY <1>7
     DEF DeinitNothing
<1>8. ASSUME NEW t \in Tasks, BlockingStopBegins(t)
      PROVE  Recorded
  BY <1>8
     DEF BlockingStopBegins
<1>9. ASSUME NEW t \in Tasks, BlockingStopFinishes(t)
      PROVE  Recorded
  BY <1>9
     DEF BlockingStopFinishes
<1>10. ASSUME NEW t \in Tasks, BlockingStopEnds(t)
      PROVE  Recorded
  BY <1>10
     DEF BlockingStopEnds
<1>11. ASSUME NEW t \in Tasks, CloseSession(t)
      PROVE  Recorded
  BY <1>11
     DEF CloseSession
<1>12. ASSUME NEW t \in Tasks, SessionClosed(t)
      PROVE  Recorded
  BY <1>12
     DEF SessionClosed
<1>13. ASSUME NEW t \in Tasks, Announce(t)
      PROVE  Recorded
  BY <1>13
     DEF Announce
<1>14. ASSUME NEW t \in Tasks, DeinitEnd(t)
      PROVE  Recorded
  BY <1>14
     DEF DeinitEnd
<1>15. ASSUME NEW t \in Tasks, DeleteLock(t)
      PROVE  Recorded
  BY <1>15
     DEF DeleteLock
<1>16. ASSUME NEW t \in Tasks, MgrInit(t)
      PROVE  Recorded
  BY <1>16
     DEF MgrInit
<1>17. ASSUME NEW t \in Tasks, DisableAutoStop(t)
      PROVE  Recorded
  BY <1>17
     DEF DisableAutoStop
<1>18. ASSUME NEW t \in Tasks, EnableProvisioning(t)
      PROVE  Recorded
  BY <1>18
     DEF EnableProvisioning
<1>19. ASSUME NEW t \in Tasks, NEW sec \in Securities, Start(t, sec)
      PROVE  Recorded
  BY <1>19
     DEF Start
<1>20. ASSUME NEW t \in Tasks, NEW sec \in Securities, StartWithoutTimers(t, sec)
      PROVE  Recorded
  BY <1>20
     DEF StartWithoutTimers
<1>21. ASSUME NEW t \in Tasks, StartRefused(t)
      PROVE  Recorded
  BY <1>21
     DEF StartRefused
<1>22. ASSUME NEW t \in Tasks, ServiceFails(t)
      PROVE  Recorded
  BY <1>22
     DEF ServiceFails
<1>23. ASSUME NEW t \in Tasks, Wait(t)
      PROVE  Recorded
  BY <1>23
     DEF Wait
<1>24. ASSUME Configured
      PROVE  Recorded
  BY <1>24
     DEF Configured
<1>25. ASSUME AutostopFires
      PROVE  Recorded
  BY <1>25
     DEF AutostopFires
<1>26. ASSUME CleanupFires
      PROVE  Recorded
  BY <1>26
     DEF CleanupFires
<1>27. ASSUME WifiConnectFires
      PROVE  Recorded
  BY <1>27
     DEF WifiConnectFires
<1>28. ASSUME Dispatch
      PROVE  Recorded
  BY <1>28
     DEF Dispatch
<1>29. ASSUME EventIgnored
      PROVE  Recorded
  BY <1>29
     DEF EventIgnored
<1>30. ASSUME GotIp
      PROVE  Recorded
  BY <1>30
     DEF GotIp
<1>31. ASSUME NEW e \in {"REFUSED", "LOST"}, Disconnected(e)
      PROVE  Recorded
  BY <1>31
     DEF Disconnected
<1>32. ASSUME AsyncStopBegins
      PROVE  Recorded
  BY <1>32
     DEF AsyncStopBegins
<1>33. ASSUME AsyncStopFinishes
      PROVE  Recorded
  BY <1>33
     DEF AsyncStopFinishes
<1>34. ASSUME Configure
      PROVE  Recorded
  BY <1>34
     DEF Configure
<1>35. ASSUME StatusRequest
      PROVE  Recorded
  BY <1>35
     DEF StatusRequest
<1>36. ASSUME AppStopRequest
      PROVE  Recorded
  BY <1>36
     DEF AppStopRequest
<1>37. ASSUME ResetRequest
      PROVE  Recorded
  BY <1>37
     DEF ResetRequest
<1>38. ASSUME ReprovRequest
      PROVE  Recorded
  BY <1>38
     DEF ReprovRequest
<1>39. ASSUME LinkUp
      PROVE  Recorded
  BY <1>39
     DEF LinkUp
<1>40. ASSUME LinkDown
      PROVE  Recorded
  BY <1>40
     DEF LinkDown
<1>41. ASSUME NEW t \in Tasks, StopProvisioning(t)
      PROVE  Recorded
  BY <1>41, StopIs
     DEF StopProvisioning
<1>42. ASSUME NEW t \in Tasks, Deinit(t)
      PROVE  Recorded
  BY <1>42, DeinitIs
     DEF Deinit
<1>43. CASE UNCHANGED vars
  BY <1>43 DEF vars, envVars
<1> QED
  BY <1>1, <1>2, <1>3, <1>4, <1>5, <1>6, <1>7, <1>8, <1>9, <1>10, <1>11, <1>12, <1>13,
     <1>14, <1>15, <1>16, <1>17, <1>18, <1>19, <1>20, <1>21, <1>22, <1>23, <1>24, <1>25,
     <1>26, <1>27, <1>28, <1>29, <1>30, <1>31, <1>32, <1>33, <1>34, <1>35, <1>36, <1>37,
     <1>38, <1>39, <1>40, <1>41, <1>42, <1>43
     DEF Next, Continue, AppCalls, TimerTask, EventLoop, Clients

\* A context without parameters, or none, after a copy was freed.
LEMMA Freed ==
  ASSUME Safe, CopyOK, prov_ctx # NULL, FreeSecParams, UNCHANGED failures,
         prov_ctx' = NULL \/ ~prov_ctx'.sec_params
  PROVE  CopyOK'
<1>1. pops' = IF Holds THEN pops - 1 ELSE pops
  BY DEF FreeSecParams, Holds
<1>2. ~Holds'
  BY DEF Holds
<1>3. pops' \in Nat /\ (failures = 0 => pops' = 0)
  BY <1>1 DEF CopyOK
<1> QED
  BY <1>2, <1>3 DEF CopyOK

\* The service stops and its parameters go, unless the transport is kept.
LEMMA StopServiceCopy ==
  ASSUME Safe, CopyOK, NEW blocking \in BOOLEAN, StopService(blocking), UNCHANGED failures
  PROVE  CopyOK'
<1>1. /\ prov_ctx # NULL /\ prov_ctx' # NULL
      /\ prov_ctx'.security = prov_ctx.security
      /\ prov_ctx'.sec_params = (prov_ctx.sec_params /\ KeepTransport(blocking))
  BY StopServiceIs DEF Safe, InState
<1>2. CASE KeepTransport(blocking)
  <2>1. prov_ctx.sec_params \in BOOLEAN /\ prov_ctx'.sec_params = prov_ctx.sec_params
    BY <1>1, <1>2, ContextFields DEF Safe
  <2> QED
    BY <1>1, <1>2, <2>1, Keeps DEF StopService, SameSecret, Safe
<1>3. CASE ~KeepTransport(blocking)
  BY <1>1, <1>3, Freed DEF StopService
<1> QED
  BY <1>2, <1>3

\* The copy that a start makes.
LEMMA StartCopy ==
  ASSUME Safe, SecretOK, NEW sec \in Securities, InState({"IDLE"}), ~prov_ctx.session_pc,
         prov_ctx' # NULL, prov_ctx' \in Contexts, Recorded,
         prov_ctx'.security = IF sec = "sec0" THEN 0 ELSE IF sec = "sec2" THEN 2 ELSE 1,
         prov_ctx'.sec_params = (prov_ctx.sec_params \/ sec \in {"pop", "sec2"}),
         pops' = IF sec = "pop" THEN pops + 1 ELSE pops
  PROVE  CopyOK'
<1>1. prov_ctx # NULL /\ pops \in Nat /\ pops' \in Nat /\ sec \in {"sec0", "nopop", "pop", "sec2"}
  BY ProvMgrAssumption DEF InState, SecretOK, CopyOK
<1>2. CASE prov_ctx.sec_params
  <2>1. failures # 0 /\ ~({"sec2", "nopop"} \subseteq Securities)
    BY <1>2 DEF SecretOK, ParamsGone
  <2>2. failures' # 0
    BY <2>1 DEF Recorded
  <2>3. "sec2" \notin Securities => pops' > 0
    BY <1>1, <1>2 DEF SecretOK, CopyOK
  <2>4. sec = "pop" => pops' > 0
    BY <1>1
  <2>5. Holds' => sec \in {"pop", "nopop"}
    BY <1>1 DEF Holds
  <2> QED
    BY <1>1, <2>1, <2>2, <2>3, <2>4, <2>5 DEF CopyOK
<1>3. CASE ~prov_ctx.sec_params
  <2>0. prov_ctx'.sec_params \in BOOLEAN /\ prov_ctx.sec_params \in BOOLEAN
    BY <1>1, ContextFields DEF Contexts, Safe
  <2>1. prov_ctx'.sec_params <=> sec \in {"pop", "sec2"}
    BY <1>3, <2>0
  <2>2. Holds' <=> sec = "pop"
    <3>1. prov_ctx'.security = 1 <=> sec \in {"pop", "nopop"}
      BY <1>1
    <3> QED
      BY <1>1, <2>1, <3>1 DEF Holds
  <2>3. failures' = 0 => pops = 0
    BY <1>3 DEF SecretOK, CopyOK, Holds, Recorded
  <2>4. sec = "pop" => pops' > 0
    BY <1>1
  <2>5. "sec2" \notin Securities /\ prov_ctx'.sec_params => pops' > 0
    BY <2>1, <2>4
  <2> QED
    BY <1>1, <2>2, <2>3, <2>4, <2>5 DEF CopyOK
<1> QED
  BY <1>2, <1>3

LEMMA CopyStep ==
  ASSUME Calm, IInv, [Next]_vars, Recorded
  PROVE  CopyOK'
<1> USE ProvMgrAssumption
         DEF IInv, Safe, Typed, SecretOK, Recorded, envVars
<1>1. ASSUME NEW t \in Tasks, CallbackDone(t)
      PROVE  CopyOK'
  BY <1>1, KeepsContext
     DEF CallbackDone
<1>2. ASSUME NEW t \in Tasks, StopTooLate(t)
      PROVE  CopyOK'
  BY <1>2, KeepsContext
     DEF StopTooLate
<1>3. ASSUME NEW t \in Tasks, WaitEnds(t)
      PROVE  CopyOK'
  BY <1>3, KeepsContext
     DEF WaitEnds
<1>4. ASSUME NEW t \in Tasks, DeinitNothing(t)
      PROVE  CopyOK'
  BY <1>4, KeepsContext
     DEF DeinitNothing
<1>5. ASSUME NEW t \in Tasks, Announce(t)
      PROVE  CopyOK'
  BY <1>5, KeepsContext
     DEF Announce
<1>6. ASSUME NEW t \in Tasks, DeinitEnd(t)
      PROVE  CopyOK'
  BY <1>6, KeepsContext
     DEF DeinitEnd
<1>7. ASSUME NEW t \in Tasks, DeleteLock(t)
      PROVE  CopyOK'
  BY <1>7, KeepsContext
     DEF DeleteLock
<1>8. ASSUME NEW t \in Tasks, StartRefused(t)
      PROVE  CopyOK'
  BY <1>8, KeepsContext
     DEF StartRefused
<1>9. ASSUME NEW t \in Tasks, Wait(t)
      PROVE  CopyOK'
  BY <1>9, KeepsContext
     DEF Wait
<1>10. ASSUME AutostopFires
      PROVE  CopyOK'
  BY <1>10, KeepsContext
     DEF AutostopFires
<1>11. ASSUME CleanupFires
      PROVE  CopyOK'
  BY <1>11, KeepsContext
     DEF CleanupFires
<1>12. ASSUME WifiConnectFires
      PROVE  CopyOK'
  BY <1>12, KeepsContext
     DEF WifiConnectFires
<1>13. ASSUME EventIgnored
      PROVE  CopyOK'
  BY <1>13, KeepsContext
     DEF EventIgnored
<1>14. ASSUME StatusRequest
      PROVE  CopyOK'
  BY <1>14, KeepsContext
     DEF StatusRequest
<1>15. ASSUME AppStopRequest
      PROVE  CopyOK'
  BY <1>15, KeepsContext
     DEF AppStopRequest
<1>16. ASSUME Configure
      PROVE  CopyOK'
  BY <1>16, KeepsContext
     DEF Configure
<1>17. ASSUME LinkUp
      PROVE  CopyOK'
  BY <1>17, KeepsContext
     DEF LinkUp
<1>18. ASSUME LinkDown
      PROVE  CopyOK'
  BY <1>18, KeepsContext
     DEF LinkDown
<1>19. ASSUME NEW t \in Tasks, ServiceFails(t)
      PROVE  CopyOK'
  BY <1>19, KeepsContext
     DEF ServiceFails
<1>20. ASSUME Dispatch
      PROVE  CopyOK'
  BY <1>20, KeepsContext
     DEF Dispatch
<1>21. ASSUME NEW t \in Tasks, CloseSession(t)
      PROVE  CopyOK'
  BY <1>21, KeepsContext
     DEF CloseSession
<1>22. ASSUME NEW t \in Tasks, ServiceUp(t)
      PROVE  CopyOK'
  <2>1. prov_ctx # NULL /\ prov_ctx \in Contexts
    BY <1>22, ContextFields DEF ServiceUp, Core, WorkOK, Works, Starters, Stops, Blocking
  <2>2. prov_ctx' # NULL /\ SameSecret(prov_ctx, prov_ctx')
    BY <1>22, <2>1, NullAssumption DEF ServiceUp, StopBegins, SameSecret, Contexts
  <2> QED
    BY <1>22, <2>1, <2>2, Keeps DEF ServiceUp
<1>23. ASSUME NEW t \in Tasks, StartFailed(t)
      PROVE  CopyOK'
  <2>1. prov_ctx # NULL /\ prov_ctx \in Contexts
    BY <1>23, ContextFields DEF StartFailed, Core, WorkOK, Works, Starters, Stops, Blocking
  <2>2. prov_ctx' # NULL /\ SameSecret(prov_ctx, prov_ctx')
    BY <1>23, <2>1, NullAssumption DEF StartFailed, StopBegins, SameSecret, Contexts
  <2> QED
    BY <1>23, <2>1, <2>2, Keeps DEF StartFailed
<1>24. ASSUME NEW t \in Tasks, BlockingStopBegins(t)
      PROVE  CopyOK'
  <2>1. prov_ctx # NULL /\ prov_ctx \in Contexts
    BY <1>24, ContextFields DEF BlockingStopBegins, Core, WorkOK, Works, Starters, Stops, Blocking
  <2>2. prov_ctx' # NULL /\ SameSecret(prov_ctx, prov_ctx')
    BY <1>24, <2>1, NullAssumption DEF BlockingStopBegins, StopBegins, SameSecret, Contexts
  <2> QED
    BY <1>24, <2>1, <2>2, Keeps DEF BlockingStopBegins
<1>25. ASSUME NEW t \in Tasks, BlockingStopFinishes(t)
      PROVE  CopyOK'
  <2>1. prov_ctx # NULL /\ prov_ctx.state = "STOPPING" /\ UNCHANGED pops
    BY <1>25 DEF BlockingStopFinishes, Core, WorkOK, Works, Stops, Blocking
  <2>2. prov_ctx' # NULL /\ SameSecret(prov_ctx, prov_ctx')
    BY <1>25, <2>1, StopFinishesIs DEF BlockingStopFinishes
  <2> QED
    BY <2>1, <2>2, Keeps
<1>26. ASSUME AsyncStopFinishes
      PROVE  CopyOK'
  <2>1. prov_ctx # NULL /\ UNCHANGED pops
    BY <1>26 DEF AsyncStopFinishes, Core, WorkOK, Works, Stops, Tasks
  <2>2. prov_ctx' # NULL /\ SameSecret(prov_ctx, prov_ctx')
    BY <1>26, <2>1, StopFinishesIs DEF AsyncStopFinishes
  <2> QED
    BY <2>1, <2>2, Keeps
<1>27. ASSUME AsyncStopBegins
      PROVE  CopyOK'
  <2>1. prov_ctx # NULL /\ prov_ctx \in Contexts /\ UNCHANGED pops
    BY <1>27, ContextFields DEF AsyncStopBegins, InState
  <2>2. prov_ctx' # NULL /\ SameSecret(prov_ctx, prov_ctx')
    BY <1>27, <2>1, NullAssumption DEF AsyncStopBegins, StopBegins, SameSecret, Contexts
  <2> QED
    BY <2>1, <2>2, Keeps
<1>28. ASSUME NEW t \in Tasks, DisableAutoStop(t)
      PROVE  CopyOK'
  <2>1. prov_ctx # NULL /\ prov_ctx \in Contexts /\ UNCHANGED pops
    BY <1>28, ContextFields DEF DisableAutoStop, InState
  <2>2. prov_ctx' # NULL /\ SameSecret(prov_ctx, prov_ctx')
    BY <1>28, <2>1, NullAssumption DEF DisableAutoStop, SameSecret, Contexts
  <2> QED
    BY <2>1, <2>2, Keeps
<1>29. ASSUME NEW t \in Tasks, EnableProvisioning(t)
      PROVE  CopyOK'
  <2>1. prov_ctx # NULL /\ prov_ctx \in Contexts /\ UNCHANGED pops
    BY <1>29, ContextFields DEF EnableProvisioning, InState
  <2>2. CASE prov_ctx' = [prov_ctx EXCEPT !.endpoints = TRUE]
    <3>1. prov_ctx' # NULL /\ SameSecret(prov_ctx, prov_ctx')
      BY <2>1, <2>2, NullAssumption DEF SameSecret, Contexts
    <3> QED
      BY <2>1, <3>1, Keeps
  <2>3. CASE UNCHANGED prov_ctx
    BY <2>1, <2>3, KeepsContext
  <2> QED
    BY <1>29, <2>2, <2>3 DEF EnableProvisioning
<1>30. ASSUME NEW t \in Tasks, StartEnds(t)
      PROVE  CopyOK'
  <2>1. prov_ctx # NULL /\ prov_ctx \in Contexts /\ UNCHANGED pops
    BY <1>30, ContextFields DEF StartEnds, Core, WorkOK, Works, Starters
  <2>2. CASE prov_ctx' = [prov_ctx EXCEPT !.state = "STARTED"]
    <3>1. prov_ctx' # NULL /\ SameSecret(prov_ctx, prov_ctx')
      BY <2>1, <2>2, NullAssumption DEF SameSecret, Contexts, Running
    <3> QED
      BY <2>1, <3>1, Keeps
  <2>3. CASE prov_ctx' = [prov_ctx EXCEPT !.state = "IDLE", !.pc = FALSE, !.session_pc = TRUE]
    <3>1. prov_ctx' # NULL /\ SameSecret(prov_ctx, prov_ctx')
      BY <2>1, <2>3, NullAssumption DEF SameSecret, Contexts
    <3> QED
      BY <2>1, <3>1, Keeps
  <2> QED
    BY <1>30, <2>2, <2>3 DEF StartEnds
<1>31. ASSUME NEW t \in Tasks, BlockingStopEnds(t)
      PROVE  CopyOK'
  <2>1. ~Holds /\ ~Holds' /\ prov_ctx' = NULL /\ UNCHANGED pops
    BY <1>31 DEF BlockingStopEnds, FreeCtx, ParamsGone, Blocking, Holds
  <2> QED
    BY <2>1 DEF CopyOK, Recorded
<1>32. ASSUME NEW t \in Tasks, SessionClosed(t)
      PROVE  CopyOK'
  <2>1. prov_ctx # NULL
    BY <1>32 DEF SessionClosed, Core, WorkOK, Works, Stops, Closing
  <2> QED
    BY <1>32, <2>1, Freed DEF SessionClosed, FreeCtx
<1>33. ASSUME NEW t \in Tasks, MgrInit(t)
      PROVE  CopyOK'
  <2>1. ~Holds /\ UNCHANGED pops
    BY <1>33 DEF MgrInit, Holds
  <2>2. CASE prov_ctx' = NewCtx
    <3>1. prov_ctx'.sec_params = FALSE
      BY <2>2, NewContext
    <3> QED
      BY <2>1, <3>1 DEF CopyOK, Holds, Recorded
  <2>3. CASE UNCHANGED prov_ctx
    BY <2>1, <2>3, KeepsContext
  <2> QED
    BY <1>33, <2>2, <2>3 DEF MgrInit
<1>34. ASSUME NEW t \in Tasks, NEW sec \in Securities, Start(t, sec)
      PROVE  CopyOK'
  BY <1>34, StartIs, StartCopy DEF Start
<1>35. ASSUME NEW t \in Tasks, NEW sec \in Securities, StartWithoutTimers(t, sec)
      PROVE  CopyOK'
  BY <1>35, StartWithoutTimersIs, StartCopy DEF StartWithoutTimers
<1>36. ASSUME GotIp
      PROVE  CopyOK'
  BY <1>36, GotIpServes, Keeps DEF GotIp, Serving, InState
<1>37. ASSUME NEW e \in {"REFUSED", "LOST"}, Disconnected(e)
      PROVE  CopyOK'
  BY <1>37, DisconnectedServes, Keeps DEF Disconnected, Serving, InState
<1>38. ASSUME ResetRequest
      PROVE  CopyOK'
  BY <1>38, ResetServes, Keeps DEF ResetRequest, Serving, InState
<1>39. ASSUME ReprovRequest
      PROVE  CopyOK'
  BY <1>39, ReprovServes, Keeps, KeepsContext DEF ReprovRequest, Serving, InState, vars
<1>40. ASSUME Configured
      PROVE  CopyOK'
  BY <1>40, ConfiguredServes, Keeps, KeepsContext DEF Configured, Serving, InState
<1>41. ASSUME NEW t \in Tasks, StopProvisioning(t)
      PROVE  CopyOK'
  BY <1>41, StopIs, StopServiceCopy, KeepsContext
<1>42. ASSUME NEW t \in Tasks, Deinit(t)
      PROVE  CopyOK'
  <2>1. UNCHANGED failures /\ prov_ctx # NULL /\ prov_ctx \in Contexts
    BY <1>42, DeinitIs, ContextFields
  <2>2. CASE UNCHANGED <<prov_ctx, pops>>
    BY <2>1, <2>2, KeepsContext
  <2>3. CASE StopService(TRUE)
    BY <2>1, <2>3, StopServiceCopy
  <2>4. CASE /\ prov_ctx' = [prov_ctx EXCEPT !.session_pc = FALSE, !.state = "STOPPING"]
             /\ UNCHANGED pops
    <3>1. prov_ctx' # NULL /\ SameSecret(prov_ctx, prov_ctx')
      BY <2>1, <2>4, NullAssumption DEF SameSecret, Contexts
    <3> QED
      BY <2>1, <2>4, <3>1, Keeps
  <2>5. CASE /\ ~MustWait /\ ~InState(Running) /\ ~prov_ctx.session_pc
             /\ prov_ctx' = NULL /\ UNCHANGED pops
    <3>1. InState({"IDLE"})
      BY <2>1, <2>5 DEF MustWait, InState, Contexts
    <3>2. failures = 0 => ~Holds
      BY <2>5, <3>1 DEF ParamsGone, Holds
    <3> QED
      BY <2>1, <2>5, <3>2 DEF CopyOK, Holds
  <2> QED
    BY <1>42, <2>2, <2>3, <2>4, <2>5, DeinitIs
<1>43. CASE UNCHANGED vars
  BY <1>43, KeepsContext DEF vars, envVars
<1> QED
  BY <1>1, <1>2, <1>3, <1>4, <1>5, <1>6, <1>7, <1>8, <1>9, <1>10, <1>11, <1>12, <1>13,
     <1>14, <1>15, <1>16, <1>17, <1>18, <1>19, <1>20, <1>21, <1>22, <1>23, <1>24, <1>25,
     <1>26, <1>27, <1>28, <1>29, <1>30, <1>31, <1>32, <1>33, <1>34, <1>35, <1>36, <1>37,
     <1>38, <1>39, <1>40, <1>41, <1>42, <1>43
     DEF Next, Continue, AppCalls, TimerTask, EventLoop, Clients

\* The context stays, and so does whoever stops it.
LEMMA KeepsGone ==
  ASSUME ParamsGone, Recorded, UNCHANGED prov_ctx,
         \A u \in Tasks : /\ at'[u] \in Blocking => at[u] \in Blocking
                          /\ at'[u] = "failed" => at[u] = "failed"
                          /\ at[u] \in Closing => at'[u] \in Closing
  PROVE  ParamsGone'
BY DEF ParamsGone, Recorded, InState

\* A step after which nobody stops the service in earnest.
LEMMA NobodyGone ==
  ASSUME \A u \in Tasks : at'[u] \notin Works, ~InState({"IDLE"})', ~InState({"STOPPING"})'
  PROVE  ParamsGone'
BY DEF ParamsGone, Works, Starters, Stops, Blocking

LEMMA EndsGone ==
  ASSUME Typed, NEW t \in Tasks, NEW p, p \notin Works, Goto(t, p),
         \A u \in Tasks \ {t} : at[u] \notin Works
  PROVE  \A u \in Tasks : at'[u] \notin Works
BY DEF Typed, PlacesOK, Goto

\* A task that works, while no other does, and what it leaves.
LEMMA WorkerGone ==
  ASSUME Typed, NEW t \in Tasks, NEW p, Goto(t, p), p \in Works,
         \A u \in Tasks \ {t} : at[u] \notin Works, ~InState({"IDLE"})',
         p \in Blocking => ~prov_ctx'.sec_params,
         p = "failed" => failures' > 0 /\ "service" \in Failing,
         InState({"STOPPING"})' /\ prov_ctx'.sec_params => p \in Closing \/ Mode # "FULL"
  PROVE  ParamsGone'
<1>1. at'[t] = p /\ \A u \in Tasks \ {t} : at'[u] \notin Works
  BY DEF Typed, PlacesOK, Goto
<1> QED
  BY <1>1 DEF ParamsGone, Works, Starters, Stops, Blocking, Closing

LEMMA ServingGone ==
  ASSUME Safe, Serving
  PROVE  ParamsGone'
<1>1. \A u \in Tasks : at'[u] \notin Works
  BY NobodyWorks DEF Serving, InState, Running
<1> QED
  BY <1>1, NobodyGone DEF Serving, InState, Running

LEMMA GoneStep ==
  ASSUME Calm, SecretsApart, IInv, [Next]_vars, Recorded
  PROVE  ParamsGone'
<1> USE ProvMgrAssumption
         DEF IInv, Safe, Typed, SecretOK, envVars
<1>1. ASSUME NEW t \in Tasks, CallbackDone(t)
      PROVE  ParamsGone'
  BY <1>1, KeepsGone
     DEF CallbackDone, PlacesOK, Goto, Tasks, Call, Serves, HandlerDone, Blocking,
         Closing
<1>2. ASSUME NEW t \in Tasks, StopTooLate(t)
      PROVE  ParamsGone'
  BY <1>2, KeepsGone
     DEF StopTooLate, PlacesOK, Goto, Tasks, Call, Serves, HandlerDone, Blocking,
         Closing
<1>3. ASSUME NEW t \in Tasks, WaitEnds(t)
      PROVE  ParamsGone'
  BY <1>3, KeepsGone
     DEF WaitEnds, PlacesOK, Goto, Tasks, Call, Serves, HandlerDone, Blocking, Closing
<1>4. ASSUME NEW t \in Tasks, DeinitNothing(t)
      PROVE  ParamsGone'
  BY <1>4, KeepsGone
     DEF DeinitNothing, PlacesOK, Goto, Tasks, Call, Serves, HandlerDone, Blocking,
         Closing
<1>5. ASSUME NEW t \in Tasks, Announce(t)
      PROVE  ParamsGone'
  BY <1>5, KeepsGone
     DEF Announce, PlacesOK, Goto, Tasks, Call, Serves, HandlerDone, Blocking, Closing
<1>6. ASSUME NEW t \in Tasks, DeinitEnd(t)
      PROVE  ParamsGone'
  BY <1>6, KeepsGone
     DEF DeinitEnd, PlacesOK, Goto, Tasks, Call, Serves, HandlerDone, Blocking, Closing
<1>7. ASSUME NEW t \in Tasks, DeleteLock(t)
      PROVE  ParamsGone'
  BY <1>7, KeepsGone
     DEF DeleteLock, PlacesOK, Goto, Tasks, Call, Serves, HandlerDone, Blocking, Closing
<1>8. ASSUME NEW t \in Tasks, StartRefused(t)
      PROVE  ParamsGone'
  BY <1>8, KeepsGone
     DEF StartRefused, PlacesOK, Goto, Tasks, Call, Serves, HandlerDone, Blocking,
         Closing
<1>9. ASSUME NEW t \in Tasks, Wait(t)
      PROVE  ParamsGone'
  BY <1>9, KeepsGone
     DEF Wait, PlacesOK, Goto, Tasks, Call, Serves, HandlerDone, Blocking, Closing
<1>10. ASSUME AutostopFires
      PROVE  ParamsGone'
  BY <1>10, KeepsGone
     DEF AutostopFires, PlacesOK, Goto, Tasks, Call, Serves, HandlerDone, Blocking,
         Closing
<1>11. ASSUME CleanupFires
      PROVE  ParamsGone'
  BY <1>11, KeepsGone
     DEF CleanupFires, PlacesOK, Goto, Tasks, Call, Serves, HandlerDone, Blocking,
         Closing
<1>12. ASSUME WifiConnectFires
      PROVE  ParamsGone'
  BY <1>12, KeepsGone
     DEF WifiConnectFires, PlacesOK, Goto, Tasks, Call, Serves, HandlerDone, Blocking,
         Closing
<1>13. ASSUME EventIgnored
      PROVE  ParamsGone'
  BY <1>13, KeepsGone
     DEF EventIgnored, PlacesOK, Goto, Tasks, Call, Serves, HandlerDone, Blocking,
         Closing
<1>14. ASSUME StatusRequest
      PROVE  ParamsGone'
  BY <1>14, KeepsGone
     DEF StatusRequest, PlacesOK, Goto, Tasks, Call, Serves, HandlerDone, Blocking,
         Closing
<1>15. ASSUME AppStopRequest
      PROVE  ParamsGone'
  BY <1>15, KeepsGone
     DEF AppStopRequest, PlacesOK, Goto, Tasks, Call, Serves, HandlerDone, Blocking,
         Closing
<1>16. ASSUME Configure
      PROVE  ParamsGone'
  BY <1>16, KeepsGone
     DEF Configure, PlacesOK, Goto, Tasks, Call, Serves, HandlerDone, Blocking, Closing
<1>17. ASSUME LinkUp
      PROVE  ParamsGone'
  BY <1>17, KeepsGone
     DEF LinkUp, PlacesOK, Goto, Tasks, Call, Serves, HandlerDone, Blocking, Closing
<1>18. ASSUME LinkDown
      PROVE  ParamsGone'
  BY <1>18, KeepsGone
     DEF LinkDown, PlacesOK, Goto, Tasks, Call, Serves, HandlerDone, Blocking, Closing
<1>19. ASSUME Dispatch
      PROVE  ParamsGone'
  BY <1>19, KeepsGone
     DEF Dispatch, PlacesOK, Goto, Tasks, Call, Serves, HandlerDone, Blocking, Closing
<1>20. ASSUME NEW t \in Tasks, CloseSession(t)
      PROVE  ParamsGone'
  BY <1>20, KeepsGone
     DEF CloseSession, PlacesOK, Goto, Tasks, Call, Serves, HandlerDone, Blocking,
         Closing
<1>21. ASSUME NEW t \in Tasks, ServiceUp(t)
      PROVE  ParamsGone'
  <2>1. at[t] \in Works /\ WorkOK(t) /\ t \in Tasks
    BY <1>21 DEF ServiceUp, Core, Works, Starters, Stops, Blocking, Closing, Tasks
  <2>2. \A u \in Tasks \ {t} : at[u] \notin Works
    BY <2>1, AloneAtWork
  <2>3. prov_ctx # NULL /\ prov_ctx \in Contexts /\ prov_ctx.state = "STARTING"
    BY <1>21, <2>1, ContextFields DEF ServiceUp, WorkOK, Starters
  <2>4. prov_ctx' # NULL /\ prov_ctx'.state = "STARTING"
    BY <1>21, <2>3, NullAssumption DEF ServiceUp, Contexts
  <2> QED
    BY <1>21, <2>2, <2>4, WorkerGone DEF ServiceUp, InState, Works, Starters, Blocking
<1>22. ASSUME NEW t \in Tasks, ServiceFails(t)
      PROVE  ParamsGone'
  <2>1. at[t] \in Works /\ WorkOK(t) /\ t \in Tasks
    BY <1>22 DEF ServiceFails, Core, Works, Starters, Stops, Blocking, Closing, Tasks
  <2>2. \A u \in Tasks \ {t} : at[u] \notin Works
    BY <2>1, AloneAtWork
  <2>3. prov_ctx # NULL /\ prov_ctx.state = "STARTING" /\ UNCHANGED prov_ctx
    BY <1>22, <2>1 DEF ServiceFails, WorkOK, Starters
  <2>4. failures' > 0 /\ "service" \in Failing
    BY <1>22, FailRecorded DEF ServiceFails, Fail
  <2> QED
    BY <1>22, <2>2, <2>3, <2>4, WorkerGone DEF ServiceFails, InState, Works, Starters, Blocking
<1>23. ASSUME NEW t \in Tasks, StartEnds(t)
      PROVE  ParamsGone'
  <2>1. at[t] \in Works /\ WorkOK(t) /\ t \in Tasks
    BY <1>23 DEF StartEnds, Core, Works, Starters, Stops, Blocking, Closing, Tasks
  <2>2. \A u \in Tasks \ {t} : at[u] \notin Works
    BY <2>1, AloneAtWork
  <2>3. prov_ctx # NULL /\ prov_ctx \in Contexts
    BY <1>23, <2>1, ContextFields DEF StartEnds, WorkOK
  <2>4. \A u \in Tasks : at'[u] \notin Works
    BY <1>23, <2>2, EndsGone DEF StartEnds, Works, Starters, Stops, Blocking, Closing
  <2>5. CASE prov_ctx' = [prov_ctx EXCEPT !.state = "STARTED"]
    <3>1. prov_ctx'.state = "STARTED"
      BY <2>3, <2>5 DEF Contexts
    <3> QED
      BY <2>4, <3>1, NobodyGone DEF InState
  <2>6. CASE prov_ctx' = [prov_ctx EXCEPT !.state = "IDLE", !.pc = FALSE, !.session_pc = TRUE]
    <3>1. prov_ctx'.state = "IDLE" /\ prov_ctx'.session_pc
      BY <2>3, <2>6 DEF Contexts
    <3> QED
      BY <2>4, <3>1 DEF ParamsGone, InState, Works, Starters, Stops, Blocking
  <2> QED
    BY <1>23, <2>5, <2>6 DEF StartEnds
<1>24. ASSUME NEW t \in Tasks, StartFailed(t)
      PROVE  ParamsGone'
  <2>1. at[t] \in Works /\ WorkOK(t) /\ t \in Tasks
    BY <1>24 DEF StartFailed, Core, Works, Starters, Stops, Blocking, Closing, Tasks
  <2>2. \A u \in Tasks \ {t} : at[u] \notin Works
    BY <2>1, AloneAtWork
  <2>3. prov_ctx # NULL /\ prov_ctx \in Contexts
    BY <1>24, <2>1, ContextFields DEF StartFailed, WorkOK, Works, Starters
  <2>4. \A u \in Tasks : at'[u] \notin Works
    BY <1>24, <2>2, EndsGone DEF StartFailed, Works, Starters, Stops, Blocking, Closing
  <2>5. failures' > 0 /\ ~({"sec2", "nopop"} \subseteq Securities)
    BY <1>24, <2>1 DEF StartFailed, ParamsGone, SecretsApart
  <2>6. prov_ctx'.state = "IDLE"
    BY <1>24, <2>3 DEF StartFailed, Contexts
  <2> QED
    BY <2>4, <2>5, <2>6 DEF ParamsGone, InState, Works, Starters, Stops, Blocking
<1>25. ASSUME NEW t \in Tasks, StopProvisioning(t)
      PROVE  ParamsGone'
  <2>1. at[t] \in {"idle", "stop", "stop_poll"}
    BY <1>25, StopIs
  <2>2. CASE StopService(FALSE) /\ Goto(t, "idle")
    <3>1. \A u \in Tasks : at[u] \notin Works
      BY <2>2, StopServiceIs, NobodyWorks DEF InState, Running
    <3>2. \A u \in Tasks : at'[u] \notin Works
      BY <2>2, <3>1, EndsGone DEF Works, Starters, Stops, Blocking, Closing
    <3>3. /\ prov_ctx'.state = "STOPPING"
          /\ prov_ctx'.sec_params = (prov_ctx.sec_params /\ KeepTransport(FALSE))
      BY <2>2, StopServiceIs
    <3>4. Mode = "FULL" => ~prov_ctx'.sec_params
      BY <3>3 DEF KeepTransport
    <3> QED
      BY <3>2, <3>3, <3>4 DEF ParamsGone, InState, Works, Starters, Stops, Blocking
  <2>3. CASE /\ Goto(t, "idle") \/ Goto(t, "stop_poll")
             /\ UNCHANGED <<prov_ctx, timer, registered, pops>>
    BY <2>1, <2>3, KeepsGone DEF PlacesOK, Goto, Blocking, Closing
  <2> QED
    BY <1>25, <2>2, <2>3, StopIs
<1>26. ASSUME NEW t \in Tasks, Deinit(t)
      PROVE  ParamsGone'
  <2>1. prov_ctx # NULL /\ prov_ctx \in Contexts /\ at[t] \in {"idle", "deinit"}
    BY <1>26, DeinitIs, ContextFields
  <2>2. CASE Goto(t, "deinit") /\ UNCHANGED <<prov_ctx, timer, registered, pops>>
    BY <2>1, <2>2, KeepsGone DEF PlacesOK, Goto, Blocking, Closing
  <2>3. CASE StopService(TRUE) /\ Goto(t, "stop_begin")
    <3>1. \A u \in Tasks : at[u] \notin Works
      BY <2>3, StopServiceIs, NobodyWorks DEF InState, Running
    <3>2. /\ prov_ctx'.state = "STOPPING"
          /\ prov_ctx'.sec_params = (prov_ctx.sec_params /\ KeepTransport(TRUE))
      BY <2>3, StopServiceIs
    <3>3. ~prov_ctx'.sec_params
      BY <3>2 DEF KeepTransport
    <3> QED
      BY <2>3, <3>1, <3>2, <3>3, WorkerGone DEF InState, Works, Stops, Blocking
  <2>4. CASE ~MustWait /\ ~InState(Running)
    <3>1. \A u \in Tasks : at[u] \notin Works
      BY <2>4, NobodyWorks DEF MustWait, InState
    <3>2. CASE /\ prov_ctx' = [prov_ctx EXCEPT !.session_pc = FALSE, !.state = "STOPPING"]
               /\ Goto(t, "close")
      <4>1. prov_ctx'.state = "STOPPING"
        BY <2>1, <3>2 DEF Contexts
      <4> QED
        BY <3>1, <3>2, <4>1, WorkerGone DEF InState, Works, Stops, Blocking, Closing
    <3>3. CASE prov_ctx' = NULL /\ Goto(t, "deinit_end")
      <4>1. \A u \in Tasks : at'[u] \notin Works
        BY <3>1, <3>3, EndsGone DEF Works, Starters, Stops, Blocking, Closing
      <4> QED
        BY <3>3, <4>1, NobodyGone DEF InState
    <3> QED
      BY <1>26, <2>2, <2>3, <3>2, <3>3, DeinitIs
  <2> QED
    BY <1>26, <2>2, <2>3, <2>4, DeinitIs
<1>27. ASSUME NEW t \in Tasks, BlockingStopBegins(t)
      PROVE  ParamsGone'
  <2>1. at[t] \in Works /\ WorkOK(t) /\ t \in Tasks
    BY <1>27 DEF BlockingStopBegins, Core, Works, Starters, Stops, Blocking, Closing, Tasks
  <2>2. \A u \in Tasks \ {t} : at[u] \notin Works
    BY <2>1, AloneAtWork
  <2>3. /\ prov_ctx # NULL /\ prov_ctx \in Contexts /\ prov_ctx.state = "STOPPING"
        /\ ~prov_ctx.sec_params
    BY <1>27, <2>1, ContextFields DEF BlockingStopBegins, WorkOK, Stops, Blocking, ParamsGone
  <2>4. prov_ctx'.state = "STOPPING" /\ ~prov_ctx'.sec_params
    BY <1>27, <2>3 DEF BlockingStopBegins, StopBegins, Contexts
  <2> QED
    BY <1>27, <2>2, <2>4, WorkerGone DEF BlockingStopBegins, InState, Works, Stops, Blocking
<1>28. ASSUME NEW t \in Tasks, BlockingStopFinishes(t)
      PROVE  ParamsGone'
  <2>1. at[t] \in Works /\ WorkOK(t) /\ t \in Tasks
    BY <1>28 DEF BlockingStopFinishes, Core, Works, Starters, Stops, Blocking, Closing, Tasks
  <2>2. \A u \in Tasks \ {t} : at[u] \notin Works
    BY <2>1, AloneAtWork
  <2>3. /\ prov_ctx # NULL /\ prov_ctx.state = "STOPPING" /\ ~prov_ctx.sec_params
    BY <1>28, <2>1 DEF BlockingStopFinishes, WorkOK, Stops, Blocking, ParamsGone
  <2>4. prov_ctx'.state = "STOPPING" /\ ~prov_ctx'.sec_params
    BY <1>28, <2>3, StopFinishesIs DEF BlockingStopFinishes, SameSecret
  <2> QED
    BY <1>28, <2>2, <2>4, WorkerGone DEF BlockingStopFinishes, InState, Works, Stops, Blocking
<1>29. ASSUME NEW t \in Tasks, BlockingStopEnds(t)
      PROVE  ParamsGone'
  <2>1. at[t] \in Works /\ WorkOK(t) /\ t \in Tasks
    BY <1>29 DEF BlockingStopEnds, Core, Works, Starters, Stops, Blocking, Closing, Tasks
  <2>2. \A u \in Tasks \ {t} : at[u] \notin Works
    BY <2>1, AloneAtWork
  <2>3. \A u \in Tasks : at'[u] \notin Works
    BY <1>29, <2>2, EndsGone DEF BlockingStopEnds, Works, Starters, Stops, Blocking, Closing
  <2> QED
    BY <1>29, <2>3, NobodyGone DEF BlockingStopEnds, FreeCtx, InState
<1>30. ASSUME NEW t \in Tasks, SessionClosed(t)
      PROVE  ParamsGone'
  <2>1. at[t] \in Works /\ WorkOK(t) /\ t \in Tasks
    BY <1>30 DEF SessionClosed, Core, Works, Starters, Stops, Blocking, Closing, Tasks
  <2>2. \A u \in Tasks \ {t} : at[u] \notin Works
    BY <2>1, AloneAtWork
  <2>3. \A u \in Tasks : at'[u] \notin Works
    BY <1>30, <2>2, EndsGone DEF SessionClosed, Works, Starters, Stops, Blocking, Closing
  <2> QED
    BY <1>30, <2>3, NobodyGone DEF SessionClosed, FreeCtx, InState
<1>31. ASSUME NEW t \in Tasks, MgrInit(t)
      PROVE  ParamsGone'
  <2>1. \A u \in Tasks : at[u] \notin Works
    BY <1>31, NobodyWorks DEF MgrInit, InState
  <2>2. CASE prov_ctx' = NewCtx /\ Goto(t, "callback")
    <3>1. \A u \in Tasks : at'[u] \notin Works
      BY <2>1, <2>2, EndsGone DEF Works, Starters, Stops, Blocking, Closing
    <3>2. ~prov_ctx'.sec_params
      BY <2>2, NewContext
    <3> QED
      BY <3>1, <3>2 DEF ParamsGone, Works, Starters, Stops, Blocking
  <2>3. CASE UNCHANGED <<prov_ctx, at>>
    BY <2>3, KeepsGone
  <2> QED
    BY <1>31, <2>2, <2>3 DEF MgrInit
<1>32. ASSUME NEW t \in Tasks, DisableAutoStop(t)
      PROVE  ParamsGone'
  <2>1. UNCHANGED at /\ InState({"IDLE"}) /\ prov_ctx \in Contexts
    BY <1>32, ContextFields DEF DisableAutoStop, Call, InState
  <2>2. \A u \in Tasks : at[u] \notin Works
    BY <2>1, NobodyWorks DEF InState
  <2>3. CASE prov_ctx' = [prov_ctx EXCEPT !.no_auto_stop = TRUE]
    <3>1. /\ prov_ctx'.state = "IDLE" /\ prov_ctx'.session_pc = prov_ctx.session_pc
          /\ prov_ctx'.sec_params = prov_ctx.sec_params
      BY <2>1, <2>3 DEF Contexts, InState
    <3> QED
      BY <2>1, <2>2, <3>1 DEF ParamsGone, InState, Works, Starters, Stops, Blocking, Recorded
  <2>4. CASE UNCHANGED prov_ctx
    BY <2>1, <2>4, KeepsGone
  <2> QED
    BY <1>32, <2>3, <2>4 DEF DisableAutoStop
<1>33. ASSUME NEW t \in Tasks, EnableProvisioning(t)
      PROVE  ParamsGone'
  <2>1. UNCHANGED at /\ InState({"IDLE"}) /\ prov_ctx \in Contexts
    BY <1>33, ContextFields DEF EnableProvisioning, Call, InState
  <2>2. \A u \in Tasks : at[u] \notin Works
    BY <2>1, NobodyWorks DEF InState
  <2>3. CASE prov_ctx' = [prov_ctx EXCEPT !.endpoints = TRUE]
    <3>1. /\ prov_ctx'.state = "IDLE" /\ prov_ctx'.session_pc = prov_ctx.session_pc
          /\ prov_ctx'.sec_params = prov_ctx.sec_params
      BY <2>1, <2>3 DEF Contexts, InState
    <3> QED
      BY <2>1, <2>2, <3>1 DEF ParamsGone, InState, Works, Starters, Stops, Blocking, Recorded
  <2>4. CASE UNCHANGED prov_ctx
    BY <2>1, <2>4, KeepsGone
  <2> QED
    BY <1>33, <2>3, <2>4 DEF EnableProvisioning
<1>34. ASSUME NEW t \in Tasks, NEW sec \in Securities, Start(t, sec)
      PROVE  ParamsGone'
  <2>1. InState({"IDLE"}) /\ prov_ctx'.state = "STARTING" /\ Goto(t, "start")
    BY <1>34, StartIs DEF Start
  <2>2. \A u \in Tasks : at[u] \notin Works
    BY <2>1, NobodyWorks DEF InState
  <2> QED
    BY <2>1, <2>2, WorkerGone DEF InState, Works, Starters, Blocking
<1>35. ASSUME NEW t \in Tasks, NEW sec \in Securities, StartWithoutTimers(t, sec)
      PROVE  ParamsGone'
  <2>1. UNCHANGED at /\ InState({"IDLE"}) /\ prov_ctx'.state = "IDLE"
    BY <1>35, StartWithoutTimersIs DEF StartWithoutTimers, Call
  <2>2. \A u \in Tasks : at[u] \notin Works
    BY <2>1, NobodyWorks DEF InState
  <2>3. failures' > 0 /\ ~({"sec2", "nopop"} \subseteq Securities)
    BY <1>35, FailRecorded DEF StartWithoutTimers, Fail, SecretsApart
  <2> QED
    BY <2>1, <2>2, <2>3 DEF ParamsGone, InState, Works, Starters, Stops, Blocking
<1>36. ASSUME GotIp
      PROVE  ParamsGone'
  BY <1>36, GotIpServes, ServingGone
<1>37. ASSUME NEW e \in {"REFUSED", "LOST"}, Disconnected(e)
      PROVE  ParamsGone'
  BY <1>37, DisconnectedServes, ServingGone
<1>38. ASSUME ResetRequest
      PROVE  ParamsGone'
  BY <1>38, ResetServes, ServingGone
<1>39. ASSUME ReprovRequest
      PROVE  ParamsGone'
  BY <1>39, ReprovServes, ServingGone, KeepsGone DEF vars
<1>40. ASSUME Configured
      PROVE  ParamsGone'
  <2>1. UNCHANGED prov_ctx /\ Goto("host", "idle") /\ at["host"] = "configure" => ParamsGone'
    BY KeepsGone DEF PlacesOK, Goto, Tasks, Blocking, Closing
  <2> QED
    BY <1>40, <2>1, ConfiguredServes, ServingGone DEF Configured
<1>41. ASSUME AsyncStopBegins
      PROVE  ParamsGone'
  <2>1. /\ "loop" \in Tasks /\ event = "STOP" /\ Goto("loop", "async")
    BY <1>41 DEF AsyncStopBegins, Handles, Tasks
  <2>2. InState({"STOPPING"}) /\ \A u \in Tasks : at[u] \notin Works
    BY <2>1 DEF StopOnce, Pending
  <2>3. prov_ctx \in Contexts /\ (Mode = "FULL" => ~prov_ctx.sec_params)
    BY <2>2, ContextFields DEF ParamsGone, InState, Works, Stops
  <2>4. prov_ctx'.state = "STOPPING" /\ prov_ctx'.sec_params = prov_ctx.sec_params
    BY <1>41, <2>2, <2>3 DEF AsyncStopBegins, StopBegins, Contexts, InState
  <2> QED
    BY <2>1, <2>2, <2>3, <2>4, WorkerGone DEF InState, Works, Stops, Blocking, Closing
<1>42. ASSUME AsyncStopFinishes
      PROVE  ParamsGone'
  <2>1. at["loop"] \in Works /\ WorkOK("loop") /\ "loop" \in Tasks
    BY <1>42 DEF AsyncStopFinishes, Core, Works, Starters, Stops, Blocking, Closing, Tasks
  <2>2. \A u \in Tasks \ {"loop"} : at[u] \notin Works
    BY <2>1, AloneAtWork
  <2>3. /\ prov_ctx # NULL /\ prov_ctx.state = "STOPPING" /\ prov_ctx.pc
        /\ StopFinishes(FALSE, "IDLE") /\ Goto("loop", "idle")
    BY <1>42, <2>1 DEF AsyncStopFinishes, WorkOK, Stops
  <2>4. \A u \in Tasks : at'[u] \notin Works
    BY <2>1, <2>2, <2>3, EndsGone DEF Works, Starters, Stops, Blocking, Closing
  <2>5. /\ prov_ctx'.state = "IDLE" /\ prov_ctx'.sec_params = prov_ctx.sec_params
        /\ (KeepTransport(FALSE) => prov_ctx'.session_pc)
    BY <2>3, StopFinishesIs DEF SameSecret
  <2>6. Mode = "FULL" => ~prov_ctx.sec_params
    BY <1>42, <2>1, <2>2, <2>3 DEF AsyncStopFinishes, ParamsGone, InState, Works, Stops, Closing
  <2>7. Mode # "FULL" => KeepTransport(FALSE)
    BY ProvMgrAssumption DEF KeepTransport
  <2> QED
    BY <2>4, <2>5, <2>6, <2>7 DEF ParamsGone, InState, Works, Starters, Stops, Blocking
<1>43. CASE UNCHANGED vars
  BY <1>43, KeepsGone DEF vars, envVars
<1> QED
  BY <1>1, <1>2, <1>3, <1>4, <1>5, <1>6, <1>7, <1>8, <1>9, <1>10, <1>11, <1>12, <1>13,
     <1>14, <1>15, <1>16, <1>17, <1>18, <1>19, <1>20, <1>21, <1>22, <1>23, <1>24, <1>25,
     <1>26, <1>27, <1>28, <1>29, <1>30, <1>31, <1>32, <1>33, <1>34, <1>35, <1>36, <1>37,
     <1>38, <1>39, <1>40, <1>41, <1>42, <1>43
     DEF Next, Continue, AppCalls, TimerTask, EventLoop, Clients

LEMMA InvStep ==
  ASSUME Calm, SecretsApart, IInv, [Next]_vars
  PROVE  IInv'
BY SafeStep, RecordedStep, CopyStep, GoneStep DEF IInv, SecretOK


-----------------------------------------------------------------------------
(* The theorems.                                                           *)

LEMMA InitInv == Init => IInv
<1> SUFFICES ASSUME Init
             PROVE  IInv
  OBVIOUS
<1>1. Typed
  <2>1. PlacesOK
    BY DEF Init, PlacesOK, Places, Tasks, Leaving, Blocking, Closing
  <2>2. 0 \in 0..MaxCalls /\ 0 \in 0..MaxFailures /\ <<>> \in Seq(Events) /\ Len(<<>>) <= QueueSize
    BY ProvMgrAssumption
  <2> QED
    BY <2>1, <2>2 DEF Init, Typed
<1>2. \A u \in Tasks : at[u] = "idle"
  BY DEF Init
<1>3. \A u \in Tasks : at[u] \notin Works
  BY <1>2 DEF Works, Starters, Stops, Blocking, Closing
<1>4. Core
  <2>1. StateOK
    BY DEF Init, StateOK, InState, Down, NoTimers
  <2>2. \A u \in Tasks : WorkOK(u)
    BY <1>3 DEF WorkOK, Works, Starters, Stops, Blocking, Closing
  <2> QED
    BY <1>3, <2>1, <2>2 DEF Core, OneWorker
<1>5. StopOnce
  BY DEF Init, StopOnce, Pending, NoStop, OneStop, Timers
<1>6. EventOK /\ RequestOK
  BY <1>2 DEF Init, EventOK, RequestOK, InState, Tasks
<1>7. SecretOK
  BY <1>2 DEF Init, SecretOK, CopyOK, ParamsGone, Holds, InState, Blocking
<1> QED
  BY <1>1, <1>4, <1>5, <1>6, <1>7 DEF IInv, Safe

\* A step that is not calm changes something.
LEMMA CalmStep ==
  ASSUME Safe, [Calm]_vars
  PROVE  Calm
<1> SUFFICES ASSUME UNCHANGED vars
             PROVE  Calm
  OBVIOUS
<1>1. UNCHANGED <<prov_ctx, at, failures>>
  BY DEF vars
<1>2. at \in [Tasks -> Places] /\ "host" \in Tasks /\ failures \in Nat
  BY ProvMgrAssumption DEF Safe, Typed, PlacesOK, Tasks
<1>3. ~StopMeetsEvent
  BY <1>1 DEF StopMeetsEvent, InState
<1>4. ~Configure
  BY <1>1, <1>2 DEF Configure, Serves, Goto
<1>5. ~ReprovRequest
  BY <1>1, <1>2 DEF ReprovRequest, Serves, Goto, Fail
<1> QED
  BY <1>3, <1>4, <1>5 DEF Calm, RequestInStart, ReprovInStop

\* The invariant: who works on the context, and what is there for it, at every
\* step of init, start, stop, wait, deinit, of a request and of a callback, until
\* a step that is not calm (manager.c).
THEOREM Safety == Spec /\ Orderly => []Safe
<1>1. Init => Safe
  BY InitInv DEF IInv
<1>2. Safe /\ [Next]_vars /\ [Calm]_vars => Safe'
  BY CalmStep, SafeStep
<1> QED
  BY <1>1, <1>2, PTL DEF Spec, Orderly

\* With it the copies of the proof of possession: there is one where the context
\* says so, and none is freed twice (free_sec_params(), start_provisioning()).
THEOREM SecretSafety ==
  ASSUME SecretsApart
  PROVE  Spec /\ Orderly => []IInv
<1>1. IInv /\ [Next]_vars /\ [Calm]_vars => IInv'
  BY CalmStep, InvStep DEF IInv
<1> QED
  BY <1>1, InitInv, PTL DEF Spec, Orderly

\* Every variable holds a value of its type, and no task is at a place that is
\* not one of its calls (the context struct of manager.c and the tasks in it).
THEOREM TypeCorrect ==
  ASSUME SecretsApart
  PROVE  Spec /\ Orderly => []TypeOK
<1>1. IInv => TypeOK
  BY DEF IInv, Safe, Typed, PlacesOK, SecretOK, CopyOK, TypeOK
<1> QED
  BY <1>1, SecretSafety, PTL

\* Nobody frees the context under a start, a stop or a request in progress
\* (network_prov_mgr_deinit() against the calls that release the lock).
THEOREM LiveContext == Spec /\ Orderly => []ContextAlive
<1>1. Safe => ContextAlive
  <2> SUFFICES ASSUME Safe, NEW t \in Tasks, UsesContext(t)
               PROVE  prov_ctx # NULL
    BY DEF ContextAlive
  <2>1. CASE at[t] \in Works
    BY <2>1 DEF Safe, Core, WorkOK
  <2>2. CASE at[t] = "configure"
    <3>1. t = "host"
      BY <2>2 DEF Safe, Typed, PlacesOK, Tasks
    <3> QED
      BY <2>2, <3>1, Requested
  <2> QED
    BY <2>1, <2>2 DEF UsesContext, Works, Starters, Stops, Blocking, Closing
<1> QED
  BY <1>1, Safety, PTL

\* One task at a time takes the service down, and it is there to be taken down
\* (network_prov_mgr_stop_service()).
THEOREM OneStops == Spec /\ Orderly => []OneStopper
<1>1. Safe => OneStopper
  <2> SUFFICES ASSUME Safe
               PROVE  OneStopper
    OBVIOUS
  <2>1. \A t \in Stoppers : t \in Tasks /\ at[t] \in Works /\ transport
    BY DEF Safe, Core, WorkOK, Stoppers, Works, Stops, Blocking, Closing
  <2>2. \A t, u \in Stoppers : t = u
    BY <2>1 DEF Safe, Core, OneWorker
  <2>3. Cardinality(Stoppers) <= 1
    <3>1. CASE Stoppers = {}
      BY <3>1, FS_EmptySet
    <3>2. CASE Stoppers # {}
      <4>1. PICK t : t \in Stoppers
        BY <3>2
      <4>2. Stoppers = {t}
        BY <2>2, <4>1
      <4> QED
        BY <4>2, FS_Singleton
    <3> QED
      BY <3>1, <3>2
  <2> QED
    BY <2>1, <2>3 DEF OneStopper
<1> QED
  BY <1>1, Safety, PTL

\* Where the provisioning stops with its transport, what the handler of a request
\* works on is there as long as it works (handlers.c against stop_service()).
THEOREM RequestHasHandlers ==
  ASSUME Mode = "FULL"
  PROVE  Spec /\ Orderly => []RequestUsesHandlers
<1>1. Safe => RequestUsesHandlers
  BY Requested DEF RequestUsesHandlers
<1> QED
  BY <1>1, Safety, PTL

\* A manager that is gone has left no timer, no event handler, no transport and,
\* unless a start failed, no copy of a secret behind (network_prov_mgr_deinit()).
THEOREM LeavesNothing ==
  ASSUME SecretsApart
  PROVE  Spec /\ Orderly => []NothingLeft
<1>1. IInv => NothingLeft
  BY DEF IInv, Safe, Core, StateOK, SecretOK, CopyOK, Holds, NothingLeft, Down, NoTimers
<1> QED
  BY <1>1, SecretSafety, PTL

\* What takes the transport down: the end of a stop, and of a kept session.
LEMMA TransportStep ==
  ASSUME Safe, [Next]_vars, Mode = "SESSION_ONLY", transport, ~transport'
  PROVE  \E d \in Deiniters : at[d] \in {"stop_finish", "close"}
<1> USE DEF envVars
<1>1. ASSUME NEW t \in Tasks, CallbackDone(t)
      PROVE  \E d \in Deiniters : at[d] \in {"stop_finish", "close"}
  BY <1>1
     DEF CallbackDone
<1>2. ASSUME NEW t \in Tasks, StartEnds(t)
      PROVE  \E d \in Deiniters : at[d] \in {"stop_finish", "close"}
  BY <1>2
     DEF StartEnds
<1>3. ASSUME NEW t \in Tasks, StartFailed(t)
      PROVE  \E d \in Deiniters : at[d] \in {"stop_finish", "close"}
  BY <1>3
     DEF StartFailed
<1>4. ASSUME NEW t \in Tasks, StopTooLate(t)
      PROVE  \E d \in Deiniters : at[d] \in {"stop_finish", "close"}
  BY <1>4
     DEF StopTooLate
<1>5. ASSUME NEW t \in Tasks, WaitEnds(t)
      PROVE  \E d \in Deiniters : at[d] \in {"stop_finish", "close"}
  BY <1>5
     DEF WaitEnds
<1>6. ASSUME NEW t \in Tasks, DeinitNothing(t)
      PROVE  \E d \in Deiniters : at[d] \in {"stop_finish", "close"}
  BY <1>6
     DEF DeinitNothing
<1>7. ASSUME NEW t \in Tasks, BlockingStopBegins(t)
      PROVE  \E d \in Deiniters : at[d] \in {"stop_finish", "close"}
  BY <1>7
     DEF BlockingStopBegins
<1>8. ASSUME NEW t \in Tasks, BlockingStopEnds(t)
      PROVE  \E d \in Deiniters : at[d] \in {"stop_finish", "close"}
  BY <1>8
     DEF BlockingStopEnds
<1>9. ASSUME NEW t \in Tasks, SessionClosed(t)
      PROVE  \E d \in Deiniters : at[d] \in {"stop_finish", "close"}
  BY <1>9
     DEF SessionClosed
<1>10. ASSUME NEW t \in Tasks, Announce(t)
      PROVE  \E d \in Deiniters : at[d] \in {"stop_finish", "close"}
  BY <1>10
     DEF Announce
<1>11. ASSUME NEW t \in Tasks, DeinitEnd(t)
      PROVE  \E d \in Deiniters : at[d] \in {"stop_finish", "close"}
  BY <1>11
     DEF DeinitEnd
<1>12. ASSUME NEW t \in Tasks, DeleteLock(t)
      PROVE  \E d \in Deiniters : at[d] \in {"stop_finish", "close"}
  BY <1>12
     DEF DeleteLock
<1>13. ASSUME NEW t \in Tasks, MgrInit(t)
      PROVE  \E d \in Deiniters : at[d] \in {"stop_finish", "close"}
  BY <1>13
     DEF MgrInit
<1>14. ASSUME NEW t \in Tasks, DisableAutoStop(t)
      PROVE  \E d \in Deiniters : at[d] \in {"stop_finish", "close"}
  BY <1>14
     DEF DisableAutoStop
<1>15. ASSUME NEW t \in Tasks, EnableProvisioning(t)
      PROVE  \E d \in Deiniters : at[d] \in {"stop_finish", "close"}
  BY <1>15
     DEF EnableProvisioning
<1>16. ASSUME NEW t \in Tasks, StartRefused(t)
      PROVE  \E d \in Deiniters : at[d] \in {"stop_finish", "close"}
  BY <1>16
     DEF StartRefused
<1>17. ASSUME NEW t \in Tasks, ServiceFails(t)
      PROVE  \E d \in Deiniters : at[d] \in {"stop_finish", "close"}
  BY <1>17
     DEF ServiceFails
<1>18. ASSUME NEW t \in Tasks, Wait(t)
      PROVE  \E d \in Deiniters : at[d] \in {"stop_finish", "close"}
  BY <1>18
     DEF Wait
<1>19. ASSUME Configured
      PROVE  \E d \in Deiniters : at[d] \in {"stop_finish", "close"}
  BY <1>19
     DEF Configured
<1>20. ASSUME AutostopFires
      PROVE  \E d \in Deiniters : at[d] \in {"stop_finish", "close"}
  BY <1>20
     DEF AutostopFires
<1>21. ASSUME CleanupFires
      PROVE  \E d \in Deiniters : at[d] \in {"stop_finish", "close"}
  BY <1>21
     DEF CleanupFires
<1>22. ASSUME WifiConnectFires
      PROVE  \E d \in Deiniters : at[d] \in {"stop_finish", "close"}
  BY <1>22
     DEF WifiConnectFires
<1>23. ASSUME Dispatch
      PROVE  \E d \in Deiniters : at[d] \in {"stop_finish", "close"}
  BY <1>23
     DEF Dispatch
<1>24. ASSUME EventIgnored
      PROVE  \E d \in Deiniters : at[d] \in {"stop_finish", "close"}
  BY <1>24
     DEF EventIgnored
<1>25. ASSUME GotIp
      PROVE  \E d \in Deiniters : at[d] \in {"stop_finish", "close"}
  BY <1>25
     DEF GotIp
<1>26. ASSUME NEW e \in {"REFUSED", "LOST"}, Disconnected(e)
      PROVE  \E d \in Deiniters : at[d] \in {"stop_finish", "close"}
  BY <1>26
     DEF Disconnected
<1>27. ASSUME AsyncStopBegins
      PROVE  \E d \in Deiniters : at[d] \in {"stop_finish", "close"}
  BY <1>27
     DEF AsyncStopBegins
<1>28. ASSUME Configure
      PROVE  \E d \in Deiniters : at[d] \in {"stop_finish", "close"}
  BY <1>28
     DEF Configure
<1>29. ASSUME StatusRequest
      PROVE  \E d \in Deiniters : at[d] \in {"stop_finish", "close"}
  BY <1>29
     DEF StatusRequest
<1>30. ASSUME AppStopRequest
      PROVE  \E d \in Deiniters : at[d] \in {"stop_finish", "close"}
  BY <1>30
     DEF AppStopRequest
<1>31. ASSUME ResetRequest
      PROVE  \E d \in Deiniters : at[d] \in {"stop_finish", "close"}
  BY <1>31
     DEF ResetRequest
<1>32. ASSUME LinkUp
      PROVE  \E d \in Deiniters : at[d] \in {"stop_finish", "close"}
  BY <1>32
     DEF LinkUp
<1>33. ASSUME LinkDown
      PROVE  \E d \in Deiniters : at[d] \in {"stop_finish", "close"}
  BY <1>33
     DEF LinkDown
<1>34. ASSUME NEW t \in Tasks, ServiceUp(t)
      PROVE  \E d \in Deiniters : at[d] \in {"stop_finish", "close"}
  BY <1>34
     DEF ServiceUp
<1>35. ASSUME NEW t \in Tasks, StopProvisioning(t)
      PROVE  \E d \in Deiniters : at[d] \in {"stop_finish", "close"}
  BY <1>35, StopIs
<1>36. ASSUME NEW t \in Tasks, Deinit(t)
      PROVE  \E d \in Deiniters : at[d] \in {"stop_finish", "close"}
  BY <1>36, DeinitIs
<1>37. ASSUME NEW t \in Tasks, NEW sec \in Securities, Start(t, sec)
      PROVE  \E d \in Deiniters : at[d] \in {"stop_finish", "close"}
  BY <1>37
     DEF Start
<1>38. ASSUME NEW t \in Tasks, NEW sec \in Securities, StartWithoutTimers(t, sec)
      PROVE  \E d \in Deiniters : at[d] \in {"stop_finish", "close"}
  BY <1>38
     DEF StartWithoutTimers
<1>39. ASSUME ReprovRequest
      PROVE  \E d \in Deiniters : at[d] \in {"stop_finish", "close"}
  BY <1>39
     DEF ReprovRequest
<1>40. ASSUME NEW t \in Tasks, BlockingStopFinishes(t)
      PROVE  \E d \in Deiniters : at[d] \in {"stop_finish", "close"}
  <2>1. t \in Apps /\ at[t] \in Leaving /\ at[t] \in {"stop_finish", "close"}
    BY <1>40 DEF BlockingStopFinishes, Safe, Typed, PlacesOK, Tasks, Leaving, Blocking, Closing
  <2> QED
    BY <2>1 DEF Safe, Typed, PlacesOK
<1>41. ASSUME NEW t \in Tasks, CloseSession(t)
      PROVE  \E d \in Deiniters : at[d] \in {"stop_finish", "close"}
  <2>1. t \in Apps /\ at[t] \in Leaving /\ at[t] \in {"stop_finish", "close"}
    BY <1>41 DEF CloseSession, Safe, Typed, PlacesOK, Tasks, Leaving, Blocking, Closing
  <2> QED
    BY <2>1 DEF Safe, Typed, PlacesOK
<1>42. ASSUME AsyncStopFinishes
      PROVE  \E d \in Deiniters : at[d] \in {"stop_finish", "close"}
  BY <1>42 DEF AsyncStopFinishes, StopFinishes, KeepTransport
<1>43. CASE UNCHANGED vars
  BY <1>43 DEF vars, envVars
<1> QED
  BY <1>1, <1>2, <1>3, <1>4, <1>5, <1>6, <1>7, <1>8, <1>9, <1>10, <1>11, <1>12, <1>13,
     <1>14, <1>15, <1>16, <1>17, <1>18, <1>19, <1>20, <1>21, <1>22, <1>23, <1>24, <1>25,
     <1>26, <1>27, <1>28, <1>29, <1>30, <1>31, <1>32, <1>33, <1>34, <1>35, <1>36, <1>37,
     <1>38, <1>39, <1>40, <1>41, <1>42, <1>43
     DEF Next, Continue, AppCalls, TimerTask, EventLoop, Clients

\* In SESSION_ONLY mode only de-initialisation takes the transport down
\* (network_prov_mgr_stop_service(), scheme.prov_stop()).
THEOREM DeinitStops ==
  ASSUME Mode = "SESSION_ONLY"
  PROVE  Spec /\ Orderly => OnlyDeinitStops
<1>1. Safe /\ [Next]_vars =>
        [transport /\ ~transport' =>
           \E t \in Deiniters : at[t] \in {"stop_finish", "close"}]_vars
  BY TransportStep
<1> QED
  BY <1>1, Safety, PTL DEF Spec, OnlyDeinitStops


-----------------------------------------------------------------------------
(* The refinement of ProvLifecycle.                                        *)

\* A step of the life of the manager, or none.
LifeStep == [Lifecycle!Next]_(Lifecycle!lifeVars)

LEMMA NoLifeStep ==
  ASSUME UNCHANGED <<prov_ctx, transport>>
  PROVE  LifeStep
BY DEF LifeStep, Lifecycle!lifeVars, Phase

LEMMA SamePhase ==
  ASSUME prov_ctx # NULL, prov_ctx' # NULL, UNCHANGED transport,
         prov_ctx'.state = prov_ctx.state, prov_ctx'.session_pc = prov_ctx.session_pc
  PROVE  LifeStep
BY DEF LifeStep, Lifecycle!lifeVars, Phase

LEMMA ServingLife ==
  ASSUME Serving
  PROVE  LifeStep
BY DEF LifeStep, Lifecycle!lifeVars, Phase, Serving, InState

LEMMA StopServiceLife ==
  ASSUME Typed, NEW blocking \in BOOLEAN, StopService(blocking), UNCHANGED transport
  PROVE  LifeStep
<1>1. /\ prov_ctx # NULL /\ prov_ctx.state \in Running
      /\ prov_ctx' # NULL /\ prov_ctx'.state = "STOPPING"
  BY StopServiceIs DEF InState
<1>2. Phase = "running" /\ Phase' = "stopping"
  BY <1>1 DEF Phase, Running
<1> QED
  BY <1>2 DEF LifeStep, Lifecycle!Next, Lifecycle!Stop

LEMMA LifecycleStep ==
  ASSUME Calm, Safe, [Next]_vars
  PROVE  LifeStep
<1> USE ProvMgrAssumption
         DEF Safe, Typed, envVars
<1>1. ASSUME NEW t \in Tasks, CallbackDone(t)
      PROVE  LifeStep
  BY <1>1, NoLifeStep
     DEF CallbackDone
<1>2. ASSUME NEW t \in Tasks, StopTooLate(t)
      PROVE  LifeStep
  BY <1>2, NoLifeStep
     DEF StopTooLate
<1>3. ASSUME NEW t \in Tasks, WaitEnds(t)
      PROVE  LifeStep
  BY <1>3, NoLifeStep
     DEF WaitEnds
<1>4. ASSUME NEW t \in Tasks, DeinitNothing(t)
      PROVE  LifeStep
  BY <1>4, NoLifeStep
     DEF DeinitNothing
<1>5. ASSUME NEW t \in Tasks, Announce(t)
      PROVE  LifeStep
  BY <1>5, NoLifeStep
     DEF Announce
<1>6. ASSUME NEW t \in Tasks, DeinitEnd(t)
      PROVE  LifeStep
  BY <1>6, NoLifeStep
     DEF DeinitEnd
<1>7. ASSUME NEW t \in Tasks, DeleteLock(t)
      PROVE  LifeStep
  BY <1>7, NoLifeStep
     DEF DeleteLock
<1>8. ASSUME NEW t \in Tasks, StartRefused(t)
      PROVE  LifeStep
  BY <1>8, NoLifeStep
     DEF StartRefused
<1>9. ASSUME NEW t \in Tasks, Wait(t)
      PROVE  LifeStep
  BY <1>9, NoLifeStep
     DEF Wait
<1>10. ASSUME AutostopFires
      PROVE  LifeStep
  BY <1>10, NoLifeStep
     DEF AutostopFires
<1>11. ASSUME CleanupFires
      PROVE  LifeStep
  BY <1>11, NoLifeStep
     DEF CleanupFires
<1>12. ASSUME WifiConnectFires
      PROVE  LifeStep
  BY <1>12, NoLifeStep
     DEF WifiConnectFires
<1>13. ASSUME EventIgnored
      PROVE  LifeStep
  BY <1>13, NoLifeStep
     DEF EventIgnored
<1>14. ASSUME StatusRequest
      PROVE  LifeStep
  BY <1>14, NoLifeStep
     DEF StatusRequest
<1>15. ASSUME AppStopRequest
      PROVE  LifeStep
  BY <1>15, NoLifeStep
     DEF AppStopRequest
<1>16. ASSUME Configure
      PROVE  LifeStep
  BY <1>16, NoLifeStep
     DEF Configure
<1>17. ASSUME LinkUp
      PROVE  LifeStep
  BY <1>17, NoLifeStep
     DEF LinkUp
<1>18. ASSUME LinkDown
      PROVE  LifeStep
  BY <1>18, NoLifeStep
     DEF LinkDown
<1>19. ASSUME Dispatch
      PROVE  LifeStep
  BY <1>19, NoLifeStep
     DEF Dispatch
<1>20. ASSUME NEW t \in Tasks, ServiceFails(t)
      PROVE  LifeStep
  BY <1>20, NoLifeStep
     DEF ServiceFails
<1>21. ASSUME NEW t \in Tasks, ServiceUp(t)
      PROVE  LifeStep
  <2>1. WorkOK(t) /\ StateOK /\ at[t] \in Works /\ prov_ctx # NULL /\ prov_ctx \in Contexts
    BY <1>21, ContextFields DEF ServiceUp, Core, WorkOK, Works, Starters, Stops, Blocking, Closing
  <2>2. prov_ctx.state = "STARTING" /\ ~transport /\ transport' = TRUE
    BY <1>21, <2>1 DEF ServiceUp, WorkOK, Starters
  <2>3. prov_ctx' # NULL /\ prov_ctx'.state = "STARTING"
    BY <1>21, <2>1, <2>2, NullAssumption DEF ServiceUp, Contexts
  <2>4. Phase = "starting" /\ Phase' = "starting"
    BY <2>1, <2>2, <2>3 DEF Phase, Running
  <2> QED
    BY <2>2, <2>4 DEF LifeStep, Lifecycle!Next, Lifecycle!TransportUp
<1>22. ASSUME NEW t \in Tasks, StartEnds(t)
      PROVE  LifeStep
  <2>1. WorkOK(t) /\ StateOK /\ at[t] \in Works /\ prov_ctx # NULL /\ prov_ctx \in Contexts
    BY <1>22, ContextFields DEF StartEnds, Core, WorkOK, Works, Starters, Stops, Blocking, Closing
  <2>2. prov_ctx.state = "STARTING" /\ transport /\ UNCHANGED transport
    BY <1>22, <2>1 DEF StartEnds, WorkOK, Starters
  <2>3. CASE prov_ctx' = [prov_ctx EXCEPT !.state = "STARTED"]
    <3>1. prov_ctx' # NULL /\ prov_ctx'.state = "STARTED"
      BY <2>1, <2>3, NullAssumption DEF Contexts, Running
    <3>2. Phase = "starting" /\ Phase' = "running"
      BY <2>1, <2>2, <3>1 DEF Phase, Running
    <3> QED
      BY <2>2, <3>2 DEF LifeStep, Lifecycle!Next, Lifecycle!Started
  <2>4. CASE prov_ctx' = [prov_ctx EXCEPT !.state = "IDLE", !.pc = FALSE, !.session_pc = TRUE]
    <3>1. prov_ctx' # NULL /\ prov_ctx'.state = "IDLE" /\ prov_ctx'.session_pc
      BY <2>1, <2>4, NullAssumption DEF Contexts
    <3>2. Phase = "starting" /\ Phase' = "session"
      BY <2>1, <2>2, <3>1 DEF Phase, Running
    <3> QED
      BY <2>2, <3>2 DEF LifeStep, Lifecycle!Next, Lifecycle!Started
  <2> QED
    BY <1>22, <2>3, <2>4 DEF StartEnds
<1>23. ASSUME NEW t \in Tasks, StartFailed(t)
      PROVE  LifeStep
  <2>1. WorkOK(t) /\ StateOK /\ at[t] \in Works /\ prov_ctx # NULL /\ prov_ctx \in Contexts
    BY <1>23, ContextFields DEF StartFailed, Core, WorkOK, Works, Starters, Stops, Blocking, Closing
  <2>2. prov_ctx.state = "STARTING" /\ ~transport /\ UNCHANGED transport /\ ~prov_ctx.session_pc
    BY <1>23, <2>1 DEF StartFailed, WorkOK, StateOK, InState, Starters
  <2>3. prov_ctx' # NULL /\ prov_ctx'.state = "IDLE" /\ ~prov_ctx'.session_pc
    BY <1>23, <2>1, <2>2, NullAssumption DEF StartFailed, Contexts
  <2>4. Phase = "starting" /\ Phase' = "ready"
    BY <2>1, <2>2, <2>3 DEF Phase, Running
  <2> QED
    BY <2>2, <2>4 DEF LifeStep, Lifecycle!Next, Lifecycle!StartFailed
<1>24. ASSUME NEW t \in Tasks, StopProvisioning(t)
      PROVE  LifeStep
  BY <1>24, StopIs, StopServiceLife, NoLifeStep
<1>25. ASSUME NEW t \in Tasks, Deinit(t)
      PROVE  LifeStep
  <2>1. prov_ctx # NULL /\ prov_ctx \in Contexts /\ UNCHANGED transport
    BY <1>25, DeinitIs, ContextFields
  <2>2. CASE StopService(TRUE) \/ UNCHANGED prov_ctx
    BY <2>1, <2>2, StopServiceLife, NoLifeStep
  <2>3. CASE ~MustWait /\ ~InState(Running)
    <3>1. InState({"IDLE"}) /\ prov_ctx.state = "IDLE"
      BY <2>1, <2>3 DEF MustWait, InState, Contexts
    <3>2. CASE /\ prov_ctx.session_pc
               /\ prov_ctx' = [prov_ctx EXCEPT !.session_pc = FALSE, !.state = "STOPPING"]
      <4>1. prov_ctx' # NULL /\ prov_ctx'.state = "STOPPING"
        BY <2>1, <3>2, NullAssumption DEF Contexts
      <4>2. Phase = "session" /\ Phase' = "stopping"
        BY <2>1, <3>1, <3>2, <4>1 DEF Phase, Running
      <4> QED
        BY <2>1, <4>2 DEF LifeStep, Lifecycle!Next, Lifecycle!Stop
    <3>3. CASE ~prov_ctx.session_pc /\ prov_ctx' = NULL
      <4>1. Phase = "ready" /\ Phase' = "down"
        BY <2>1, <3>1, <3>3 DEF Phase, Running
      <4> QED
        BY <2>1, <4>1 DEF LifeStep, Lifecycle!Next, Lifecycle!Down
    <3> QED
      BY <1>25, <2>2, <3>2, <3>3, DeinitIs
  <2> QED
    BY <1>25, <2>2, <2>3, DeinitIs
<1>26. ASSUME NEW t \in Tasks, BlockingStopBegins(t)
      PROVE  LifeStep
  <2>1. WorkOK(t) /\ StateOK /\ at[t] \in Works /\ prov_ctx # NULL /\ prov_ctx \in Contexts
    BY <1>26, ContextFields DEF BlockingStopBegins, Core, WorkOK, Works, Starters, Stops, Blocking, Closing
  <2>2. /\ prov_ctx' # NULL /\ UNCHANGED transport
        /\ prov_ctx'.state = prov_ctx.state /\ prov_ctx'.session_pc = prov_ctx.session_pc
    BY <1>26, <2>1, NullAssumption DEF BlockingStopBegins, StopBegins, Contexts
  <2> QED
    BY <2>1, <2>2, SamePhase
<1>27. ASSUME NEW t \in Tasks, BlockingStopFinishes(t)
      PROVE  LifeStep
  <2>1. WorkOK(t) /\ StateOK /\ at[t] \in Works /\ prov_ctx # NULL /\ prov_ctx \in Contexts
    BY <1>27, ContextFields DEF BlockingStopFinishes, Core, WorkOK, Works, Starters, Stops, Blocking, Closing
  <2>2. prov_ctx.state = "STOPPING" /\ transport
    BY <1>27, <2>1 DEF BlockingStopFinishes, WorkOK, Stops, Blocking
  <2>3. /\ prov_ctx' # NULL /\ prov_ctx'.state = "STOPPING" /\ transport' = KeepTransport(TRUE)
    BY <1>27, <2>1, <2>2, StopFinishesIs DEF BlockingStopFinishes
  <2>4. transport' = FALSE
    BY <2>3 DEF KeepTransport
  <2>5. Phase = "stopping" /\ Phase' = "stopping"
    BY <2>1, <2>2, <2>3 DEF Phase, Running
  <2> QED
    BY <2>2, <2>4, <2>5 DEF LifeStep, Lifecycle!Next, Lifecycle!TransportDown
<1>28. ASSUME NEW t \in Tasks, BlockingStopEnds(t)
      PROVE  LifeStep
  <2>1. WorkOK(t) /\ StateOK /\ at[t] \in Works /\ prov_ctx # NULL /\ prov_ctx \in Contexts
    BY <1>28, ContextFields DEF BlockingStopEnds, Core, WorkOK, Works, Starters, Stops, Blocking, Closing
  <2>2. /\ prov_ctx.state = "STOPPING" /\ ~transport /\ UNCHANGED transport
        /\ prov_ctx' = NULL
    BY <1>28, <2>1 DEF BlockingStopEnds, WorkOK, Stops, Blocking, Closing, FreeCtx
  <2>3. Phase = "stopping" /\ Phase' = "down"
    BY <2>1, <2>2 DEF Phase, Running
  <2> QED
    BY <2>2, <2>3 DEF LifeStep, Lifecycle!Next, Lifecycle!Stopped
<1>29. ASSUME NEW t \in Tasks, SessionClosed(t)
      PROVE  LifeStep
  <2>1. WorkOK(t) /\ StateOK /\ at[t] \in Works /\ prov_ctx # NULL /\ prov_ctx \in Contexts
    BY <1>29, ContextFields DEF SessionClosed, Core, WorkOK, Works, Starters, Stops, Blocking, Closing
  <2>2. /\ prov_ctx.state = "STOPPING" /\ ~transport /\ UNCHANGED transport
        /\ prov_ctx' = NULL
    BY <1>29, <2>1 DEF SessionClosed, WorkOK, Stops, Blocking, Closing, FreeCtx
  <2>3. Phase = "stopping" /\ Phase' = "down"
    BY <2>1, <2>2 DEF Phase, Running
  <2> QED
    BY <2>2, <2>3 DEF LifeStep, Lifecycle!Next, Lifecycle!Stopped
<1>30. ASSUME NEW t \in Tasks, CloseSession(t)
      PROVE  LifeStep
  <2>1. WorkOK(t) /\ StateOK /\ at[t] \in Works /\ prov_ctx # NULL /\ prov_ctx \in Contexts
    BY <1>30, ContextFields DEF CloseSession, Core, WorkOK, Works, Starters, Stops, Blocking, Closing
  <2>2. prov_ctx.state = "STOPPING" /\ transport /\ transport' = FALSE /\ UNCHANGED prov_ctx
    BY <1>30, <2>1 DEF CloseSession, WorkOK, Stops, Closing
  <2>3. Phase = "stopping" /\ Phase' = "stopping"
    BY <2>1, <2>2 DEF Phase, Running
  <2> QED
    BY <2>2, <2>3 DEF LifeStep, Lifecycle!Next, Lifecycle!TransportDown
<1>31. ASSUME NEW t \in Tasks, MgrInit(t)
      PROVE  LifeStep
  <2>1. prov_ctx = NULL /\ UNCHANGED transport
    BY <1>31 DEF MgrInit
  <2>2. CASE prov_ctx' = NewCtx
    <3>1. prov_ctx' # NULL /\ prov_ctx'.state = "IDLE" /\ prov_ctx'.session_pc = FALSE
      BY <2>2, NewContext
    <3>2. Phase = "down" /\ Phase' = "ready"
      BY <2>1, <3>1 DEF Phase, Running
    <3> QED
      BY <2>1, <3>2 DEF LifeStep, Lifecycle!Next, Lifecycle!Up
  <2> QED
    BY <1>31, <2>1, <2>2, NoLifeStep DEF MgrInit
<1>32. ASSUME NEW t \in Tasks, DisableAutoStop(t)
      PROVE  LifeStep
  <2>1. prov_ctx # NULL /\ prov_ctx \in Contexts /\ UNCHANGED transport
    BY <1>32, ContextFields DEF DisableAutoStop, InState
  <2>2. CASE prov_ctx' = [prov_ctx EXCEPT !.no_auto_stop = TRUE]
    <3>1. /\ prov_ctx' # NULL /\ prov_ctx'.state = prov_ctx.state
          /\ prov_ctx'.session_pc = prov_ctx.session_pc
      BY <2>1, <2>2, NullAssumption DEF Contexts
    <3> QED
      BY <2>1, <3>1, SamePhase
  <2> QED
    BY <1>32, <2>1, <2>2, NoLifeStep DEF DisableAutoStop
<1>33. ASSUME NEW t \in Tasks, EnableProvisioning(t)
      PROVE  LifeStep
  <2>1. prov_ctx # NULL /\ prov_ctx \in Contexts /\ UNCHANGED transport
    BY <1>33, ContextFields DEF EnableProvisioning, InState
  <2>2. CASE prov_ctx' = [prov_ctx EXCEPT !.endpoints = TRUE]
    <3>1. /\ prov_ctx' # NULL /\ prov_ctx'.state = prov_ctx.state
          /\ prov_ctx'.session_pc = prov_ctx.session_pc
      BY <2>1, <2>2, NullAssumption DEF Contexts
    <3> QED
      BY <2>1, <3>1, SamePhase
  <2> QED
    BY <1>33, <2>1, <2>2, NoLifeStep DEF EnableProvisioning
<1>34. ASSUME NEW t \in Tasks, NEW sec \in Securities, StartWithoutTimers(t, sec)
      PROVE  LifeStep
  <2>1. UNCHANGED transport
    BY <1>34 DEF StartWithoutTimers
  <2>2. /\ prov_ctx # NULL /\ prov_ctx' # NULL /\ prov_ctx.state = "IDLE"
        /\ prov_ctx'.state = "IDLE" /\ prov_ctx'.session_pc = prov_ctx.session_pc
    BY <1>34, StartWithoutTimersIs DEF InState, SameService
  <2> QED
    BY <2>1, <2>2, SamePhase
<1>35. ASSUME NEW t \in Tasks, NEW sec \in Securities, Start(t, sec)
      PROVE  LifeStep
  <2>1. UNCHANGED transport
    BY <1>35 DEF Start
  <2>2. /\ prov_ctx # NULL /\ prov_ctx' # NULL /\ prov_ctx.state = "IDLE"
        /\ ~prov_ctx.session_pc /\ prov_ctx'.state = "STARTING"
    BY <1>35, StartIs DEF InState
  <2>3. Phase = "ready" /\ Phase' = "starting"
    BY <2>2 DEF Phase, Running
  <2> QED
    BY <2>1, <2>3 DEF LifeStep, Lifecycle!Next, Lifecycle!Start
<1>36. ASSUME GotIp
      PROVE  LifeStep
  BY <1>36, GotIpServes, ServingLife
<1>37. ASSUME NEW e \in {"REFUSED", "LOST"}, Disconnected(e)
      PROVE  LifeStep
  BY <1>37, DisconnectedServes, ServingLife
<1>38. ASSUME ResetRequest
      PROVE  LifeStep
  BY <1>38, ResetServes, ServingLife
<1>39. ASSUME ReprovRequest
      PROVE  LifeStep
  BY <1>39, ReprovServes, ServingLife, NoLifeStep DEF ReprovRequest, vars
<1>40. ASSUME Configured
      PROVE  LifeStep
  BY <1>40, ConfiguredServes, ServingLife, NoLifeStep DEF Configured
<1>41. ASSUME AsyncStopBegins
      PROVE  LifeStep
  <2>1. prov_ctx # NULL /\ prov_ctx \in Contexts /\ UNCHANGED transport
    BY <1>41, ContextFields DEF AsyncStopBegins, InState
  <2>2. /\ prov_ctx' # NULL /\ prov_ctx'.state = prov_ctx.state
        /\ prov_ctx'.session_pc = prov_ctx.session_pc
    BY <1>41, <2>1, NullAssumption DEF AsyncStopBegins, StopBegins, Contexts
  <2> QED
    BY <2>1, <2>2, SamePhase
<1>42. ASSUME AsyncStopFinishes
      PROVE  LifeStep
  <2>1. WorkOK("loop") /\ StateOK /\ prov_ctx # NULL
    BY <1>42 DEF AsyncStopFinishes, Core, WorkOK, Works, Stops, Tasks
  <2>2. /\ prov_ctx.state = "STOPPING" /\ transport /\ prov_ctx.pc /\ ~prov_ctx.session_pc
        /\ StopFinishes(FALSE, "IDLE")
    BY <1>42, <2>1 DEF AsyncStopFinishes, WorkOK, Stops
  <2>3. /\ prov_ctx' # NULL /\ prov_ctx'.state = "IDLE" /\ transport' = KeepTransport(FALSE)
        /\ prov_ctx'.session_pc = IF KeepTransport(FALSE) THEN prov_ctx.pc
                                  ELSE prov_ctx.session_pc
    BY <2>1, <2>2, StopFinishesIs
  <2>4. Phase = "stopping"
    BY <2>1, <2>2 DEF Phase, Running
  <2>5. CASE KeepTransport(FALSE)
    <3>1. Phase' = "session"
      BY <2>2, <2>3, <2>5 DEF Phase, Running
    <3>2. UNCHANGED transport
      <4>1. transport \in BOOLEAN /\ transport' \in BOOLEAN
        BY <2>3 DEF Typed, KeepTransport
      <4> QED
        BY <2>2, <2>3, <2>5, <4>1
    <3> QED
      BY <2>2, <2>4, <3>1, <3>2 DEF LifeStep, Lifecycle!Next, Lifecycle!Stopped
  <2>6. CASE ~KeepTransport(FALSE)
    <3>1. Phase' = "ready"
      BY <2>2, <2>3, <2>6 DEF Phase, Running
    <3>2. transport' = FALSE
      BY <2>3, <2>6 DEF KeepTransport
    <3> QED
      BY <2>4, <3>1, <3>2 DEF LifeStep, Lifecycle!Next, Lifecycle!Stopped
  <2> QED
    BY <2>5, <2>6
<1>43. CASE UNCHANGED vars
  BY <1>43, NoLifeStep DEF vars, envVars
<1> QED
  BY <1>1, <1>2, <1>3, <1>4, <1>5, <1>6, <1>7, <1>8, <1>9, <1>10, <1>11, <1>12, <1>13,
     <1>14, <1>15, <1>16, <1>17, <1>18, <1>19, <1>20, <1>21, <1>22, <1>23, <1>24, <1>25,
     <1>26, <1>27, <1>28, <1>29, <1>30, <1>31, <1>32, <1>33, <1>34, <1>35, <1>36, <1>37,
     <1>38, <1>39, <1>40, <1>41, <1>42, <1>43
     DEF Next, Continue, AppCalls, TimerTask, EventLoop, Clients

\* The manager implements ProvLifecycle until a step that is not calm: init, start,
\* stop, END and deinit come in its order, whatever the tasks, calls, failures and
\* overlaps.  The three steps are named because they do break it; prov_reprov shows
\* the last (network_prov_mgr_reset_wifi_sm_state_for_reprovision()).
THEOREM Refines == Spec /\ Orderly => KeepsLifecycle
<1>1. Init => Lifecycle!Init
  BY DEF Init, Lifecycle!Init, Phase
<1>2. Safe /\ [Next]_vars /\ [Calm]_vars => [Lifecycle!Next]_(Lifecycle!lifeVars)
  BY CalmStep, LifecycleStep DEF LifeStep
<1> QED
  BY <1>1, <1>2, Safety, PTL DEF Spec, Orderly, KeepsLifecycle, Lifecycle!Spec

\* Where only the lock may be deleted under a task, every step is calm: the loop
\* task gets the lock first, and no request comes in a start or a stop (Turn,
\* Serves).
LEMMA NoOverlap ==
  ASSUME Overlaps \subseteq {"deletion"}, Safe
  PROVE  Calm
<1>1. "event" \notin Overlaps /\ "starting" \notin Overlaps /\ "stopping" \notin Overlaps
  OBVIOUS
<1>2. ~StopMeetsEvent
  <2> SUFFICES ASSUME NEW t \in Tasks, StopProvisioning(t) \/ Deinit(t)
               PROVE  event = "none"
    BY DEF StopMeetsEvent
  <2>1. Locks(t) /\ t # "loop"
    BY StopIs, DeinitIs, ProvMgrAssumption DEF Safe, Typed, PlacesOK
  <2> QED
    BY <1>1, <2>1 DEF Locks, Turn, Safe, EventOK
<1>3. ~RequestInStart
  BY <1>1 DEF RequestInStart, Configure, ReprovRequest, Serves, Starting
<1>4. ~ReprovInStop
  BY <1>1 DEF ReprovInStop, ReprovRequest, Serves
<1> QED
  BY <1>2, <1>3, <1>4 DEF Calm

\* So the specification that the passing runs check is orderly, and all of the
\* theorems hold of it (Overlaps).
THEOREM RunsAreOrderly ==
  ASSUME Overlaps \subseteq {"deletion"}
  PROVE  Spec => Orderly
<1>1. Init => Safe
  BY InitInv DEF IInv
<1>2. Safe => [Calm]_vars
  BY NoOverlap
<1>3. Safe /\ [Next]_vars => Safe'
  BY NoOverlap, SafeStep
<1> QED
  BY <1>1, <1>2, <1>3, PTL DEF Spec, Orderly

=============================================================================
