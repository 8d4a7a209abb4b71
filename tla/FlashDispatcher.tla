-------------------------- MODULE FlashDispatcher ---------------------------
(***************************************************************************)
(* esp_flash_dispatcher: flash calls made on a stack in PSRAM are handed   *)
(* to one worker task whose stack is in internal RAM.  The caller and the  *)
(* worker share one request slot and one result slot; dispatch_mutex       *)
(* serialises the callers, request_sem and result_sem are binary           *)
(* semaphores.  Every step below is a point between two accesses of the    *)
(* shared context at which another task may run.                           *)
(***************************************************************************)
EXTENDS Integers

CONSTANTS
  Callers,         \* tasks that call the flash API
  DramCallers,     \* those whose stack is in internal RAM: they bypass
  Requests,        \* operation (read, write, erase, mmap, ...) and arguments
  FlashStates,
  Errors, Data,    \* esp_err_t values, contents of a caller's buffer
  Driver(_, _),    \* external: the real driver, a set of <<flash, <<err, data>>>>
  InvalidState,    \* ESP_ERR_INVALID_STATE
  NoData, None

NoOutcome == <<None, NoData>>
Refused == <<InvalidState, NoData>>

ASSUME CallersAssumption ==
  /\ None \notin Callers
  /\ None \notin Requests
  /\ DramCallers \subseteq Callers

ASSUME DriverAssumption ==
  /\ InvalidState \in Errors /\ None \notin Errors
  /\ NoData \in Data
  /\ \A f \in FlashStates, r \in Requests :
       /\ Driver(f, r) # {}
       /\ Driver(f, r) \subseteq FlashStates \X (Errors \X Data)

VARIABLES
  mode,                    \* scheduler state: not_running, running, no_os
  survivor,                \* the context that runs after a panic
  initStep,                \* progress of esp_flash_dispatcher_init()
  resources,               \* what init has created and not deleted
  dispatcher_initialized,
  dispatch_mutex,          \* its holder, or None
  request_sem, result_sem, \* binary semaphores
  request,                 \* request slot: <<caller whose buffer it names, r>>
  result,                  \* result slot
  workerPc, workerResult,  \* the worker and its local "result"
  pc,                      \* where each caller is in its call
  req,                     \* the request a caller built on its stack
  buffer,                  \* the caller's buffer, which the driver fills
  operation_result,        \* the caller's local copy of the result slot
  flash,
  outcome,                 \* history: what the driver did for the call
  returned                 \* history: the last reply, <<caller, outcome>>

initVars == <<initStep, resources, dispatcher_initialized>>
workerVars == <<workerPc, workerResult>>
slotVars == <<request_sem, result_sem, request, result>>
callVars == <<pc, req, operation_result, returned>>
vars == <<mode, survivor, initVars, dispatch_mutex, slotVars, workerVars,
          callVars, buffer, flash, outcome>>

AllResources == {"dispatch_mutex", "request_sem", "result_sem", "task"}

Init ==
  /\ mode = "not_running" /\ survivor = None
  /\ initStep = "off" /\ resources = {} /\ dispatcher_initialized = FALSE
  /\ dispatch_mutex = None
  /\ request_sem = 0 /\ result_sem = 0
  /\ request = <<None, None>> /\ result = None
  /\ workerPc = "wait" /\ workerResult = None
  /\ pc = [c \in Callers |-> "idle"]
  /\ req = [c \in Callers |-> None]
  /\ buffer = [c \in Callers |-> NoData]
  /\ operation_result = [c \in Callers |-> None]
  /\ flash \in FlashStates
  /\ outcome = [c \in Callers |-> NoOutcome]
  /\ returned = <<None, NoOutcome>>

-----------------------------------------------------------------------------
(* The environment: the scheduler starts once; a panic stops every task   *)
(* and leaves one context running without an OS (core dump, panic handler).*)

StartScheduler ==
  /\ mode = "not_running" /\ \A c \in Callers : pc[c] = "idle"
  /\ mode' = "running"
  /\ UNCHANGED <<survivor, initVars, dispatch_mutex, slotVars, workerVars,
                 callVars, buffer, flash, outcome>>

Panic(c) ==
  /\ mode = "running"
  /\ mode' = "no_os" /\ survivor' = c
  /\ pc' = [pc EXCEPT ![c] = "idle"]
  /\ req' = [req EXCEPT ![c] = None]
  /\ outcome' = [outcome EXCEPT ![c] = NoOutcome]
  /\ UNCHANGED <<initVars, dispatch_mutex, slotVars, workerVars, buffer,
                 operation_result, returned, flash>>

\* Who can run: every task under the scheduler, one context without it.
Runs(c) == mode # "no_os" \/ survivor = c

-----------------------------------------------------------------------------
(* esp_flash_dispatcher_init(), called by one start-up task.               *)

InitBegin ==
  /\ mode = "running" /\ initStep = "off" /\ ~dispatcher_initialized
  /\ initStep' = "dispatch_mutex"
  /\ UNCHANGED <<mode, survivor, resources, dispatcher_initialized,
                 dispatch_mutex, slotVars, workerVars, callVars, buffer, flash,
                 outcome>>

NextResource(r) ==
  CASE r = "dispatch_mutex" -> "request_sem"
    [] r = "request_sem"    -> "result_sem"
    [] r = "result_sem"     -> "task"
    [] r = "task"           -> "publish"

InitCreate ==
  /\ mode = "running" /\ initStep \in AllResources
  /\ resources' = resources \cup {initStep}
  /\ initStep' = NextResource(initStep)
  /\ UNCHANGED <<mode, survivor, dispatcher_initialized, dispatch_mutex,
                 slotVars, workerVars, callVars, buffer, flash, outcome>>

\* The bug a forgotten vSemaphoreDeleteWithCaps() would be.
InitFailLeaking ==
  /\ mode = "running" /\ initStep \in AllResources
  /\ resources' = resources \ {"dispatch_mutex", "request_sem"}
  /\ initStep' = "off"
  /\ UNCHANGED <<mode, survivor, dispatcher_initialized, dispatch_mutex,
                 slotVars, workerVars, callVars, buffer, flash, outcome>>

\* A creation fails: everything created before it is deleted.
InitFail ==
  /\ mode = "running" /\ initStep \in AllResources
  /\ resources' = resources \ {"dispatch_mutex", "request_sem", "result_sem"}
  /\ initStep' = "off"
  /\ UNCHANGED <<mode, survivor, dispatcher_initialized, dispatch_mutex,
                 slotVars, workerVars, callVars, buffer, flash, outcome>>

InitPublish ==
  /\ mode = "running" /\ initStep = "publish"
  /\ dispatcher_initialized' = TRUE
  /\ initStep' = "off"
  /\ UNCHANGED <<mode, survivor, resources, dispatch_mutex, slotVars,
                 workerVars, callVars, buffer, flash, outcome>>

-----------------------------------------------------------------------------
(* The worker, flash_dispatcher_task().                                    *)

WorkerRuns == mode = "running" /\ "task" \in resources

WorkerTake ==
  /\ WorkerRuns /\ workerPc = "wait" /\ request_sem = 1
  /\ request_sem' = 0
  /\ workerPc' = "execute"
  /\ UNCHANGED <<mode, survivor, initVars, dispatch_mutex, result_sem, request,
                 result, workerResult, callVars, buffer, flash, outcome>>

\* The worker reads the slot through a pointer, not a copy; data goes straight
\* to the buffer the slot names, the error code to a local.
WorkerExecute ==
  /\ WorkerRuns /\ workerPc = "execute"
  /\ \E d \in Driver(flash, request[2]) :
       /\ flash' = d[1]
       /\ workerResult' = d[2][1]
       /\ buffer' = [buffer EXCEPT ![request[1]] = d[2][2]]
       /\ outcome' = [outcome EXCEPT ![request[1]] = d[2]]
  /\ workerPc' = "publish"
  /\ UNCHANGED <<mode, survivor, initVars, dispatch_mutex, slotVars, callVars>>

\* The bug of waking the caller with whatever the result slot held before.
WorkerPublishNothing ==
  /\ WorkerRuns /\ workerPc = "publish"
  /\ workerPc' = "give"
  /\ UNCHANGED <<mode, survivor, initVars, dispatch_mutex, slotVars,
                 workerResult, callVars, buffer, flash, outcome>>

WorkerPublish ==
  /\ WorkerRuns /\ workerPc = "publish"
  /\ result' = workerResult
  /\ workerPc' = "give"
  /\ UNCHANGED <<mode, survivor, initVars, dispatch_mutex, request_sem,
                 result_sem, request, workerResult, callVars, buffer, flash,
                 outcome>>

WorkerGive ==
  /\ WorkerRuns /\ workerPc = "give"
  /\ result_sem' = 1
  /\ workerPc' = "wait"
  /\ UNCHANGED <<mode, survivor, initVars, dispatch_mutex, request_sem,
                 request, result, workerResult, callVars, buffer, flash,
                 outcome>>

Worker == WorkerTake \/ WorkerExecute \/ WorkerPublish \/ WorkerGive

-----------------------------------------------------------------------------
(* The callers: __wrap_esp_flash_*() and flash_dispatcher_execute().       *)

\* The bug of not testing for the no-OS context.
BypassDramOnly(c) == mode = "not_running" \/ c \in DramCallers

\* flash_dispatcher_should_bypass(): no OS, no scheduler, or a stack that
\* stays accessible while the cache is off.
Bypass(c) == mode # "running" \/ c \in DramCallers

Step(c, from, to) ==
  /\ Runs(c) /\ pc[c] = from
  /\ pc' = [pc EXCEPT ![c] = to]

Call(c, r) ==
  /\ Step(c, "idle", IF Bypass(c) THEN "direct" ELSE "check")
  /\ req' = [req EXCEPT ![c] = r]
  /\ buffer' = [buffer EXCEPT ![c] = NoData]
  /\ UNCHANGED <<mode, survivor, initVars, dispatch_mutex, slotVars, workerVars,
                 operation_result, returned, flash, outcome>>

Direct(c) ==
  /\ Step(c, "direct", "return")
  /\ \E d \in Driver(flash, req[c]) :
       /\ flash' = d[1]
       /\ operation_result' = [operation_result EXCEPT ![c] = d[2][1]]
       /\ buffer' = [buffer EXCEPT ![c] = d[2][2]]
       /\ outcome' = [outcome EXCEPT ![c] = d[2]]
  /\ UNCHANGED <<mode, survivor, initVars, dispatch_mutex, slotVars, workerVars,
                 req, returned>>

\* The bug of not testing dispatcher_initialized.
CheckNothing(c) ==
  /\ Step(c, "check", "lock")
  /\ UNCHANGED <<mode, survivor, initVars, dispatch_mutex, slotVars, workerVars,
                 req, operation_result, returned, buffer, flash, outcome>>

Check(c) ==
  /\ dispatcher_initialized
  /\ Step(c, "check", "lock")
  /\ UNCHANGED <<mode, survivor, initVars, dispatch_mutex, slotVars, workerVars,
                 req, operation_result, returned, buffer, flash, outcome>>

Finish(c, o) ==
  /\ req' = [req EXCEPT ![c] = None]
  /\ operation_result' = [operation_result EXCEPT ![c] = None]
  /\ buffer' = [buffer EXCEPT ![c] = NoData]
  /\ outcome' = [outcome EXCEPT ![c] = NoOutcome]
  /\ returned' = <<c, o>>
  /\ UNCHANGED <<mode, survivor, initVars, slotVars, workerVars, flash>>

Refuse(c) ==
  /\ ~dispatcher_initialized
  /\ Step(c, "check", "idle")
  /\ Finish(c, Refused)
  /\ UNCHANGED dispatch_mutex

\* The bug of sharing the slot between callers without dispatch_mutex.
LockShared(c) ==
  /\ Step(c, "lock", "post")
  /\ dispatch_mutex' = c
  /\ UNCHANGED <<mode, survivor, initVars, slotVars, workerVars, req,
                 operation_result, returned, buffer, flash, outcome>>

Lock(c) ==
  /\ dispatch_mutex = None
  /\ Step(c, "lock", "post")
  /\ dispatch_mutex' = c
  /\ UNCHANGED <<mode, survivor, initVars, slotVars, workerVars, req,
                 operation_result, returned, buffer, flash, outcome>>

Post(c) ==
  /\ Step(c, "post", "signal")
  /\ request' = <<c, req[c]>>
  /\ UNCHANGED <<mode, survivor, initVars, dispatch_mutex, request_sem,
                 result_sem, result, workerVars, req, operation_result,
                 returned, buffer, flash, outcome>>

Signal(c) ==
  /\ Step(c, "signal", "await")
  /\ request_sem' = 1
  /\ UNCHANGED <<mode, survivor, initVars, dispatch_mutex, result_sem, request,
                 result, workerVars, req, operation_result, returned, buffer,
                 flash, outcome>>

\* The bug of going on without the semaphore, as a take with timeout 0 would.
AwaitNothing(c) ==
  /\ Step(c, "await", "fetch")
  /\ result_sem' = result_sem - 1
  /\ UNCHANGED <<mode, survivor, initVars, dispatch_mutex, request_sem, request,
                 result, workerVars, req, operation_result, returned, buffer,
                 flash, outcome>>

\* Taken with portMAX_DELAY: the timeout branch that follows it is dead.
Await(c) ==
  /\ result_sem = 1
  /\ Step(c, "await", "fetch")
  /\ result_sem' = 0
  /\ UNCHANGED <<mode, survivor, initVars, dispatch_mutex, request_sem, request,
                 result, workerVars, req, operation_result, returned, buffer,
                 flash, outcome>>

Fetch(c) ==
  /\ Step(c, "fetch", "unlock")
  /\ operation_result' = [operation_result EXCEPT ![c] = result]
  /\ UNCHANGED <<mode, survivor, initVars, dispatch_mutex, slotVars, workerVars,
                 req, returned, buffer, flash, outcome>>

\* The bug of returning without giving the mutex back.
UnlockNothing(c) ==
  /\ Step(c, "unlock", "return")
  /\ UNCHANGED <<mode, survivor, initVars, dispatch_mutex, slotVars, workerVars,
                 req, operation_result, returned, buffer, flash, outcome>>

Unlock(c) ==
  /\ Step(c, "unlock", "return")
  /\ dispatch_mutex' = None
  /\ UNCHANGED <<mode, survivor, initVars, slotVars, workerVars, req,
                 operation_result, returned, buffer, flash, outcome>>

Return(c) ==
  /\ Step(c, "return", "idle")
  /\ Finish(c, <<operation_result[c], buffer[c]>>)
  /\ UNCHANGED dispatch_mutex

Caller(c) ==
  \/ Direct(c) \/ Check(c) \/ Refuse(c) \/ Lock(c) \/ Post(c) \/ Signal(c)
  \/ Await(c) \/ Fetch(c) \/ Unlock(c) \/ Return(c)

Next ==
  \/ StartScheduler
  \/ InitBegin \/ InitCreate \/ InitFail \/ InitPublish
  \/ Worker
  \/ \E c \in Callers :
       \/ Panic(c)
       \/ \E r \in Requests : Call(c, r)
       \/ Caller(c)

Spec == Init /\ [][Next]_vars

\* FreeRTOS runs every ready task eventually, and the tasks waiting for a
\* mutex get it in turn (equal priorities are served first come, first served).
FairSpec ==
  /\ Spec
  /\ WF_vars(Worker)
  /\ \A c \in Callers : WF_vars(Caller(c)) /\ SF_vars(Lock(c))

-----------------------------------------------------------------------------
CallerPcs == {"idle", "direct", "check", "lock", "post", "signal", "await",
              "fetch", "unlock", "return"}

\* Every variable holds a value of its C type.
TypeOK ==
  /\ mode \in {"not_running", "running", "no_os"}
  /\ survivor \in Callers \cup {None}
  /\ initStep \in AllResources \cup {"off", "publish"}
  /\ resources \subseteq AllResources
  /\ dispatcher_initialized \in BOOLEAN
  /\ dispatch_mutex \in Callers \cup {None}
  /\ request_sem \in {0, 1} /\ result_sem \in {0, 1}
  /\ request \in (Callers \cup {None}) \X (Requests \cup {None})
  /\ result \in Errors \cup {None}
  /\ workerPc \in {"wait", "execute", "publish", "give"}
  /\ workerResult \in Errors \cup {None}
  /\ pc \in [Callers -> CallerPcs]
  /\ req \in [Callers -> Requests \cup {None}]
  /\ buffer \in [Callers -> Data]
  /\ operation_result \in [Callers -> Errors \cup {None}]
  /\ flash \in FlashStates
  /\ outcome \in [Callers -> (Errors \cup {None}) \X Data]
  /\ returned \in (Callers \cup {None}) \X ((Errors \cup {None}) \X Data)

\* esp_flash_dispatcher_init() is all or nothing: while it is not running, what
\* exists is everything (and the dispatcher says so) or nothing.
InitAllOrNothing ==
  initStep = "off" =>
    resources = IF dispatcher_initialized THEN AllResources ELSE {}

\* A caller past the dispatcher_initialized test finds the mutex, both
\* semaphores and the worker in place.
UsesOnlyWhatExists ==
  \A c \in Callers :
    pc[c] \in {"lock", "post", "signal", "await", "fetch", "unlock"} =>
      resources = AllResources

\* The worker reads the request through a pointer into the slot: from the
\* moment it is woken until it has answered, nobody may rewrite the slot.
SlotStable == [][request_sem = 1 \/ workerPc # "wait" => request' = request]_vars

InCall(c) == pc[c] # "idle"
Returned(c) == pc[c] = "idle" \/ (mode = "no_os" /\ survivor # c)

\* A call made through the wrappers always returns, whatever the other callers
\* do, and after a panic in the one context that still runs.
CallReturns == \A c \in Callers : InCall(c) ~> Returned(c)

\* The dispatcher implements the flash service its callers believe in: each
\* call executed at most once, between invocation and return, and returning
\* the error code and the data of its own execution.
Phase(c) ==
  IF pc[c] = "idle" THEN "idle"
  ELSE IF outcome[c] = NoOutcome THEN "pending" ELSE "executed"

Service == INSTANCE FlashService WITH
  NoRequest <- None, Outcomes <- (Errors \cup {None}) \X Data,
  phase <- [c \in Callers |-> Phase(c)]

Refines == Service!Spec
=============================================================================
