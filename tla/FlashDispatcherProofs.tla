----------------------- MODULE FlashDispatcherProofs ------------------------
(***************************************************************************)
(* Theorems about FlashDispatcher for any set of callers, any requests and *)
(* any driver: type correctness, the protection of the request slot, the   *)
(* all-or-nothing initialisation, and that the dispatcher implements       *)
(* FlashService.                                                           *)
(***************************************************************************)
EXTENDS FlashDispatcher, TLAPS

Dispatching == {"lock", "post", "signal", "await", "fetch", "unlock"}
Holding == {"post", "signal", "await", "fetch", "unlock"}

\* esp_flash_dispatcher_init(): what exists at each of its steps, and that
\* only callers of an initialised dispatcher go past the first test.
InitInv ==
  /\ initStep = "off" =>
       resources = IF dispatcher_initialized THEN AllResources ELSE {}
  /\ initStep # "off" => ~dispatcher_initialized
  /\ initStep = "dispatch_mutex" => resources = {}
  /\ initStep = "request_sem" => resources = {"dispatch_mutex"}
  /\ initStep = "result_sem" => resources = {"dispatch_mutex", "request_sem"}
  /\ initStep = "task" => resources = AllResources \ {"task"}
  /\ initStep = "publish" => resources = AllResources
  /\ \A c \in Callers : pc[c] \in Dispatching => dispatcher_initialized

\* Who may be inside the dispatcher: nobody without a scheduler, and never
\* the context that survives a panic.
ModeInv ==
  /\ mode = "not_running" => \A c \in Callers : pc[c] \in {"idle", "direct", "return"}
  /\ mode = "no_os" => /\ survivor \in Callers
                       /\ pc[survivor] \in {"idle", "direct", "return"}

Quiet == request_sem = 0 /\ result_sem = 0 /\ workerPc = "wait"

\* The four places where the one request in flight can be.
Handoff(c) ==
  \/ /\ request_sem = 1 /\ result_sem = 0 /\ workerPc = "wait"
     /\ outcome[c] = NoOutcome
  \/ /\ request_sem = 0 /\ result_sem = 0 /\ workerPc = "execute"
     /\ outcome[c] = NoOutcome
  \/ /\ request_sem = 0 /\ result_sem = 0 /\ workerPc = "publish"
     /\ workerResult \in Errors /\ outcome[c] = <<workerResult, buffer[c]>>
  \/ /\ request_sem = 0 /\ result_sem = 0 /\ workerPc = "give"
     /\ result \in Errors /\ outcome[c] = <<result, buffer[c]>>
  \/ /\ request_sem = 0 /\ result_sem = 1 /\ workerPc = "wait"
     /\ result \in Errors /\ outcome[c] = <<result, buffer[c]>>

\* Outside a panic: the mutex is held exactly by the caller between its take
\* and its give, and the semaphores and the worker move only on its behalf.
HandoffInv ==
  mode # "no_os" =>
    /\ \A c \in Callers : dispatch_mutex = c <=> pc[c] \in Holding
    /\ dispatch_mutex = None => Quiet
    /\ \A c \in Callers :
         /\ pc[c] \in {"post", "signal", "fetch", "unlock"} => Quiet
         /\ pc[c] \in {"signal", "await"} => request = <<c, req[c]>>
         /\ pc[c] = "await" => Handoff(c)
         /\ pc[c] = "fetch" => result \in Errors /\ outcome[c] = <<result, buffer[c]>>

\* What a caller's own variables say of its call.
CallInv ==
  \A c \in Callers :
    /\ pc[c] = "idle" => req[c] = None
    /\ pc[c] # "idle" => req[c] \in Requests
    /\ pc[c] \in {"idle", "direct", "check", "lock", "post", "signal"} =>
         outcome[c] = NoOutcome
    /\ (mode # "no_os" \/ survivor = c) /\ pc[c] \in {"unlock", "return"} =>
         /\ operation_result[c] \in Errors
         /\ outcome[c] = <<operation_result[c], buffer[c]>>

IInv == TypeOK /\ InitInv /\ ModeInv /\ HandoffInv /\ CallInv

Vars == <<mode, survivor, initVars, dispatch_mutex, slotVars, workerVars,
          callVars, buffer, flash, outcome>>

-----------------------------------------------------------------------------
(* Type correctness.                                                       *)

LEMMA TypeInit == Init => TypeOK
<1> SUFFICES ASSUME Init PROVE TypeOK
  OBVIOUS
<1>1. NoOutcome \in (Errors \cup {None}) \X Data
  BY DriverAssumption DEF NoOutcome
<1>2. /\ outcome \in [Callers -> (Errors \cup {None}) \X Data]
      /\ returned \in (Callers \cup {None}) \X ((Errors \cup {None}) \X Data)
  BY <1>1 DEF Init
<1>3. /\ pc \in [Callers -> CallerPcs]
      /\ req \in [Callers -> Requests \cup {None}]
      /\ buffer \in [Callers -> Data]
      /\ operation_result \in [Callers -> Errors \cup {None}]
  BY DriverAssumption DEF Init, CallerPcs
<1>4. QED
  BY <1>2, <1>3 DEF Init, TypeOK

\* What the driver does is a flash state and an outcome.
LEMMA DriverTyped ==
  ASSUME NEW f \in FlashStates, NEW r \in Requests, NEW d \in Driver(f, r)
  PROVE  /\ d[1] \in FlashStates /\ d[2] \in Errors \X Data
         /\ d[2][1] \in Errors /\ d[2][2] \in Data /\ d[2] = <<d[2][1], d[2][2]>>
         /\ d[2] # NoOutcome
<1>1. d \in FlashStates \X (Errors \X Data)
  BY DriverAssumption
<1>2. QED
  BY <1>1, DriverAssumption DEF NoOutcome

\* A busy worker, or a semaphore that is given, belongs to one waiting caller.
LEMMA InFlight ==
  ASSUME IInv, mode # "no_os", ~Quiet
  PROVE  /\ dispatch_mutex \in Callers
         /\ pc[dispatch_mutex] = "await"
         /\ request = <<dispatch_mutex, req[dispatch_mutex]>>
         /\ req[dispatch_mutex] \in Requests
         /\ Handoff(dispatch_mutex)
<1>1. dispatch_mutex \in Callers
  BY DEF IInv, TypeOK, HandoffInv
<1>2. pc[dispatch_mutex] = "await"
  BY <1>1 DEF IInv, HandoffInv, Holding
<1>3. QED
  BY <1>1, <1>2 DEF IInv, HandoffInv, CallInv

LEMMA TypeStep == IInv /\ [Next]_vars => TypeOK'
<1> SUFFICES ASSUME IInv, [Next]_vars PROVE TypeOK'
  OBVIOUS
<1> USE DEF initVars, workerVars, slotVars, callVars
<1>0. TypeOK
  BY DEF IInv
<1>1. CASE StartScheduler
  BY <1>0, <1>1 DEF StartScheduler, TypeOK
<1>2. CASE InitBegin
  BY <1>0, <1>2 DEF InitBegin, TypeOK, AllResources
<1>3. CASE InitCreate
  BY <1>0, <1>3 DEF InitCreate, TypeOK, AllResources, NextResource
<1>4. CASE InitFail
  BY <1>0, <1>4 DEF InitFail, TypeOK
<1>5. CASE InitPublish
  BY <1>0, <1>5 DEF InitPublish, TypeOK
<1>6. CASE WorkerTake
  BY <1>0, <1>6 DEF WorkerTake, TypeOK
<1>7. CASE WorkerExecute
  <2>1. request[1] \in Callers /\ request[2] \in Requests
    BY <1>0, <1>7, InFlight DEF WorkerExecute, WorkerRuns, Quiet
  <2>2. PICK d \in Driver(flash, request[2]) :
          /\ flash' = d[1]
          /\ workerResult' = d[2][1]
          /\ buffer' = [buffer EXCEPT ![request[1]] = d[2][2]]
          /\ outcome' = [outcome EXCEPT ![request[1]] = d[2]]
    BY <1>0, <1>7 DEF WorkerExecute
  <2>3. /\ d[1] \in FlashStates /\ d[2] \in (Errors \cup {None}) \X Data
        /\ d[2][1] \in Errors /\ d[2][2] \in Data
    BY <1>0, <2>1, DriverTyped DEF TypeOK
  <2>4. QED
    BY <1>0, <1>7, <2>1, <2>2, <2>3 DEF WorkerExecute, TypeOK
<1>8. CASE WorkerPublish
  BY <1>0, <1>8 DEF WorkerPublish, TypeOK
<1>9. CASE WorkerGive
  BY <1>0, <1>9 DEF WorkerGive, TypeOK
<1>10. ASSUME NEW c \in Callers, Panic(c) PROVE TypeOK'
  <2>1. NoOutcome \in (Errors \cup {None}) \X Data
    BY DriverAssumption DEF NoOutcome
  <2>3. QED
    BY <1>0, <1>10, <2>1, DriverAssumption DEF Panic, TypeOK, CallerPcs
<1>11. ASSUME NEW c \in Callers, NEW r \in Requests, Call(c, r) PROVE TypeOK'
  BY <1>0, <1>11, DriverAssumption DEF Call, Step, TypeOK, CallerPcs
<1>12. ASSUME NEW c \in Callers, Direct(c) PROVE TypeOK'
  <2>1. req[c] \in Requests
    BY <1>0, <1>12 DEF Direct, Step, IInv, CallInv
  <2>2. PICK d \in Driver(flash, req[c]) :
          /\ flash' = d[1]
          /\ operation_result' = [operation_result EXCEPT ![c] = d[2][1]]
          /\ buffer' = [buffer EXCEPT ![c] = d[2][2]]
          /\ outcome' = [outcome EXCEPT ![c] = d[2]]
    BY <1>0, <1>12 DEF Direct
  <2>3. /\ d[1] \in FlashStates /\ d[2] \in (Errors \cup {None}) \X Data
        /\ d[2][1] \in Errors /\ d[2][2] \in Data
    BY <1>0, <2>1, DriverTyped DEF TypeOK
  <2>4. QED
    BY <1>0, <1>12, <2>1, <2>2, <2>3 DEF Direct, Step, TypeOK, CallerPcs
<1>13. ASSUME NEW c \in Callers, Check(c) PROVE TypeOK'
  BY <1>0, <1>13 DEF Check, Step, TypeOK, CallerPcs
<1>14. ASSUME NEW c \in Callers, Refuse(c) PROVE TypeOK'
  <2>1. NoOutcome \in (Errors \cup {None}) \X Data
    BY DriverAssumption DEF NoOutcome
  <2>2. Refused \in (Errors \cup {None}) \X Data
    BY DriverAssumption DEF Refused
  <2>3. QED
    BY <1>0, <1>14, <2>1, <2>2, DriverAssumption DEF Refuse, Step, Finish, TypeOK, CallerPcs
<1>15. ASSUME NEW c \in Callers, Lock(c) PROVE TypeOK'
  BY <1>0, <1>15 DEF Lock, Step, TypeOK, CallerPcs
<1>16. ASSUME NEW c \in Callers, Post(c) PROVE TypeOK'
  BY <1>0, <1>16 DEF Post, Step, TypeOK, CallerPcs
<1>17. ASSUME NEW c \in Callers, Signal(c) PROVE TypeOK'
  BY <1>0, <1>17 DEF Signal, Step, TypeOK, CallerPcs
<1>18. ASSUME NEW c \in Callers, Await(c) PROVE TypeOK'
  BY <1>0, <1>18 DEF Await, Step, TypeOK, CallerPcs
<1>19. ASSUME NEW c \in Callers, Fetch(c) PROVE TypeOK'
  BY <1>0, <1>19 DEF Fetch, Step, TypeOK, CallerPcs
<1>20. ASSUME NEW c \in Callers, Unlock(c) PROVE TypeOK'
  BY <1>0, <1>20 DEF Unlock, Step, TypeOK, CallerPcs
<1>21. ASSUME NEW c \in Callers, Return(c) PROVE TypeOK'
  <2>1. NoOutcome \in (Errors \cup {None}) \X Data
    BY DriverAssumption DEF NoOutcome
  <2>2. <<operation_result[c], buffer[c]>> \in (Errors \cup {None}) \X Data
    BY <1>0 DEF TypeOK
  <2>3. QED
    BY <1>0, <1>21, <2>1, <2>2, DriverAssumption DEF Return, Step, Finish, TypeOK, CallerPcs
<1>22. CASE UNCHANGED vars
  BY <1>0, <1>22 DEF vars, TypeOK
<1>23. QED
  BY <1>1, <1>2, <1>3, <1>4, <1>5, <1>6, <1>7, <1>8, <1>9, <1>10, <1>11, <1>12, <1>13, <1>14, <1>15, <1>16, <1>17, <1>18, <1>19, <1>20, <1>21, <1>22
  DEF Next, Worker, Caller

LEMMA InitStep == IInv /\ [Next]_vars => InitInv'
<1> SUFFICES ASSUME IInv, [Next]_vars PROVE InitInv'
  OBVIOUS
<1> USE DEF initVars, workerVars, slotVars, callVars
<1>0. TypeOK /\ InitInv
  BY DEF IInv
<1>1. CASE StartScheduler
  BY <1>0, <1>1
  DEF StartScheduler, InitInv, TypeOK, CallerPcs
<1>2. CASE InitBegin
  BY <1>0, <1>2
  DEF InitBegin, InitInv, TypeOK, CallerPcs, AllResources
<1>3. CASE InitCreate
  BY <1>0, <1>3
  DEF InitCreate, InitInv, TypeOK, CallerPcs, NextResource, AllResources
<1>4. CASE InitFail
  BY <1>0, <1>4
  DEF InitFail, InitInv, TypeOK, CallerPcs, AllResources
<1>5. CASE InitPublish
  BY <1>0, <1>5
  DEF InitPublish, InitInv, TypeOK, CallerPcs, AllResources
<1>6. CASE WorkerTake
  BY <1>0, <1>6
  DEF WorkerTake, WorkerRuns, InitInv, TypeOK, CallerPcs
<1>7. CASE WorkerExecute
  BY <1>0, <1>7
  DEF WorkerExecute, WorkerRuns, InitInv, TypeOK, CallerPcs
<1>8. CASE WorkerPublish
  BY <1>0, <1>8
  DEF WorkerPublish, WorkerRuns, InitInv, TypeOK, CallerPcs
<1>9. CASE WorkerGive
  BY <1>0, <1>9
  DEF WorkerGive, WorkerRuns, InitInv, TypeOK, CallerPcs
<1>10. ASSUME NEW c \in Callers, Panic(c) PROVE InitInv'
  BY <1>0, <1>10
  DEF Panic, InitInv, TypeOK, CallerPcs, Dispatching
<1>11. ASSUME NEW c \in Callers, NEW r \in Requests, Call(c, r) PROVE InitInv'
  BY <1>0, <1>11
  DEF Call, Step, Runs, Bypass, InitInv, TypeOK, CallerPcs, Dispatching
<1>12. ASSUME NEW c \in Callers, Direct(c) PROVE InitInv'
  BY <1>0, <1>12
  DEF Direct, Step, Runs, InitInv, TypeOK, CallerPcs, Dispatching
<1>13. ASSUME NEW c \in Callers, Check(c) PROVE InitInv'
  BY <1>0, <1>13
  DEF Check, Step, Runs, InitInv, TypeOK, CallerPcs, Dispatching
<1>14. ASSUME NEW c \in Callers, Refuse(c) PROVE InitInv'
  BY <1>0, <1>14
  DEF Refuse, Step, Runs, Finish, InitInv, TypeOK, CallerPcs, Dispatching
<1>15. ASSUME NEW c \in Callers, Lock(c) PROVE InitInv'
  BY <1>0, <1>15
  DEF Lock, Step, Runs, InitInv, TypeOK, CallerPcs, Dispatching
<1>16. ASSUME NEW c \in Callers, Post(c) PROVE InitInv'
  BY <1>0, <1>16
  DEF Post, Step, Runs, InitInv, TypeOK, CallerPcs, Dispatching
<1>17. ASSUME NEW c \in Callers, Signal(c) PROVE InitInv'
  BY <1>0, <1>17
  DEF Signal, Step, Runs, InitInv, TypeOK, CallerPcs, Dispatching
<1>18. ASSUME NEW c \in Callers, Await(c) PROVE InitInv'
  BY <1>0, <1>18
  DEF Await, Step, Runs, InitInv, TypeOK, CallerPcs, Dispatching
<1>19. ASSUME NEW c \in Callers, Fetch(c) PROVE InitInv'
  BY <1>0, <1>19
  DEF Fetch, Step, Runs, InitInv, TypeOK, CallerPcs, Dispatching
<1>20. ASSUME NEW c \in Callers, Unlock(c) PROVE InitInv'
  BY <1>0, <1>20
  DEF Unlock, Step, Runs, InitInv, TypeOK, CallerPcs, Dispatching
<1>21. ASSUME NEW c \in Callers, Return(c) PROVE InitInv'
  BY <1>0, <1>21
  DEF Return, Step, Runs, Finish, InitInv, TypeOK, CallerPcs, Dispatching
<1>22. CASE UNCHANGED vars
  BY <1>0, <1>22 DEF vars, InitInv, TypeOK, CallerPcs
<1>23. QED
  BY <1>1, <1>2, <1>3, <1>4, <1>5, <1>6, <1>7, <1>8, <1>9, <1>10, <1>11, <1>12, <1>13, <1>14, <1>15, <1>16, <1>17, <1>18, <1>19, <1>20, <1>21, <1>22
  DEF Next, Worker, Caller

LEMMA ModeStep == IInv /\ [Next]_vars => ModeInv'
<1> SUFFICES ASSUME IInv, [Next]_vars PROVE ModeInv'
  OBVIOUS
<1> USE DEF initVars, workerVars, slotVars, callVars
<1>0. TypeOK /\ ModeInv
  BY DEF IInv
<1>1. CASE StartScheduler
  BY <1>0, <1>1
  DEF StartScheduler, ModeInv, TypeOK, CallerPcs
<1>2. CASE InitBegin
  BY <1>0, <1>2
  DEF InitBegin, ModeInv, TypeOK, CallerPcs
<1>3. CASE InitCreate
  BY <1>0, <1>3
  DEF InitCreate, ModeInv, TypeOK, CallerPcs
<1>4. CASE InitFail
  BY <1>0, <1>4
  DEF InitFail, ModeInv, TypeOK, CallerPcs
<1>5. CASE InitPublish
  BY <1>0, <1>5
  DEF InitPublish, ModeInv, TypeOK, CallerPcs
<1>6. CASE WorkerTake
  BY <1>0, <1>6
  DEF WorkerTake, WorkerRuns, ModeInv, TypeOK, CallerPcs
<1>7. CASE WorkerExecute
  BY <1>0, <1>7
  DEF WorkerExecute, WorkerRuns, ModeInv, TypeOK, CallerPcs
<1>8. CASE WorkerPublish
  BY <1>0, <1>8
  DEF WorkerPublish, WorkerRuns, ModeInv, TypeOK, CallerPcs
<1>9. CASE WorkerGive
  BY <1>0, <1>9
  DEF WorkerGive, WorkerRuns, ModeInv, TypeOK, CallerPcs
<1>10. ASSUME NEW c \in Callers, Panic(c) PROVE ModeInv'
  BY <1>0, <1>10, CallersAssumption
  DEF Panic, ModeInv, TypeOK, CallerPcs
<1>11. ASSUME NEW c \in Callers, NEW r \in Requests, Call(c, r) PROVE ModeInv'
  BY <1>0, <1>11
  DEF Call, Step, Runs, Bypass, ModeInv, TypeOK, CallerPcs
<1>12. ASSUME NEW c \in Callers, Direct(c) PROVE ModeInv'
  BY <1>0, <1>12
  DEF Direct, Step, Runs, ModeInv, TypeOK, CallerPcs
<1>13. ASSUME NEW c \in Callers, Check(c) PROVE ModeInv'
  BY <1>0, <1>13
  DEF Check, Step, Runs, ModeInv, TypeOK, CallerPcs
<1>14. ASSUME NEW c \in Callers, Refuse(c) PROVE ModeInv'
  BY <1>0, <1>14
  DEF Refuse, Step, Runs, Finish, ModeInv, TypeOK, CallerPcs
<1>15. ASSUME NEW c \in Callers, Lock(c) PROVE ModeInv'
  BY <1>0, <1>15
  DEF Lock, Step, Runs, ModeInv, TypeOK, CallerPcs
<1>16. ASSUME NEW c \in Callers, Post(c) PROVE ModeInv'
  BY <1>0, <1>16
  DEF Post, Step, Runs, ModeInv, TypeOK, CallerPcs
<1>17. ASSUME NEW c \in Callers, Signal(c) PROVE ModeInv'
  BY <1>0, <1>17
  DEF Signal, Step, Runs, ModeInv, TypeOK, CallerPcs
<1>18. ASSUME NEW c \in Callers, Await(c) PROVE ModeInv'
  BY <1>0, <1>18
  DEF Await, Step, Runs, ModeInv, TypeOK, CallerPcs
<1>19. ASSUME NEW c \in Callers, Fetch(c) PROVE ModeInv'
  BY <1>0, <1>19
  DEF Fetch, Step, Runs, ModeInv, TypeOK, CallerPcs
<1>20. ASSUME NEW c \in Callers, Unlock(c) PROVE ModeInv'
  BY <1>0, <1>20
  DEF Unlock, Step, Runs, ModeInv, TypeOK, CallerPcs
<1>21. ASSUME NEW c \in Callers, Return(c) PROVE ModeInv'
  BY <1>0, <1>21
  DEF Return, Step, Runs, Finish, ModeInv, TypeOK, CallerPcs
<1>22. CASE UNCHANGED vars
  BY <1>0, <1>22 DEF vars, ModeInv, TypeOK, CallerPcs
<1>23. QED
  BY <1>1, <1>2, <1>3, <1>4, <1>5, <1>6, <1>7, <1>8, <1>9, <1>10, <1>11, <1>12, <1>13, <1>14, <1>15, <1>16, <1>17, <1>18, <1>19, <1>20, <1>21, <1>22
  DEF Next, Worker, Caller

LEMMA CallStep == IInv /\ [Next]_vars => CallInv'
<1> SUFFICES ASSUME IInv, [Next]_vars PROVE CallInv'
  OBVIOUS
<1> USE DEF initVars, workerVars, slotVars, callVars
<1>0. TypeOK /\ CallInv /\ HandoffInv /\ ModeInv
  BY DEF IInv
<1>1. CASE StartScheduler
  BY <1>0, <1>1
  DEF StartScheduler, CallInv, TypeOK, CallerPcs
<1>2. CASE InitBegin
  BY <1>0, <1>2
  DEF InitBegin, CallInv, TypeOK, CallerPcs
<1>3. CASE InitCreate
  BY <1>0, <1>3
  DEF InitCreate, CallInv, TypeOK, CallerPcs
<1>4. CASE InitFail
  BY <1>0, <1>4
  DEF InitFail, CallInv, TypeOK, CallerPcs
<1>5. CASE InitPublish
  BY <1>0, <1>5
  DEF InitPublish, CallInv, TypeOK, CallerPcs
<1>6. CASE WorkerTake
  BY <1>0, <1>6
  DEF WorkerTake, WorkerRuns, CallInv, TypeOK, CallerPcs
<1>7. CASE WorkerExecute
  <2>1. /\ request[1] \in Callers /\ request[2] \in Requests
        /\ pc[request[1]] = "await"
    BY <1>0, <1>7, InFlight DEF WorkerExecute, WorkerRuns, Quiet
  <2>2. QED
    BY <1>0, <1>7, <2>1 DEF WorkerExecute, WorkerRuns, CallInv, TypeOK
<1>8. CASE WorkerPublish
  BY <1>0, <1>8
  DEF WorkerPublish, WorkerRuns, CallInv, TypeOK, CallerPcs
<1>9. CASE WorkerGive
  BY <1>0, <1>9
  DEF WorkerGive, WorkerRuns, CallInv, TypeOK, CallerPcs
<1>10. ASSUME NEW c \in Callers, Panic(c) PROVE CallInv'
  BY <1>0, <1>10
  DEF Panic, CallInv, TypeOK, CallerPcs
<1>11. ASSUME NEW c \in Callers, NEW r \in Requests, Call(c, r) PROVE CallInv'
  BY <1>0, <1>11
  DEF Call, Step, Runs, Bypass, CallInv, TypeOK, CallerPcs
<1>12. ASSUME NEW c \in Callers, Direct(c) PROVE CallInv'
  <2>1. req[c] \in Requests /\ flash \in FlashStates
    BY <1>0, <1>12 DEF Direct, Step, CallInv, TypeOK
  <2>2. PICK d \in Driver(flash, req[c]) :
          /\ operation_result' = [operation_result EXCEPT ![c] = d[2][1]]
          /\ buffer' = [buffer EXCEPT ![c] = d[2][2]]
          /\ outcome' = [outcome EXCEPT ![c] = d[2]]
    BY <1>12 DEF Direct
  <2>3. d[2][1] \in Errors /\ d[2] = <<d[2][1], d[2][2]>>
    BY <2>1, DriverTyped
  <2>4. QED
    BY <1>0, <1>12, <2>1, <2>2, <2>3 DEF Direct, Step, CallInv, TypeOK
<1>13. ASSUME NEW c \in Callers, Check(c) PROVE CallInv'
  BY <1>0, <1>13
  DEF Check, Step, Runs, CallInv, TypeOK, CallerPcs
<1>14. ASSUME NEW c \in Callers, Refuse(c) PROVE CallInv'
  BY <1>0, <1>14
  DEF Refuse, Step, Runs, Finish, CallInv, TypeOK, CallerPcs
<1>15. ASSUME NEW c \in Callers, Lock(c) PROVE CallInv'
  BY <1>0, <1>15
  DEF Lock, Step, Runs, CallInv, TypeOK, CallerPcs
<1>16. ASSUME NEW c \in Callers, Post(c) PROVE CallInv'
  BY <1>0, <1>16
  DEF Post, Step, Runs, CallInv, TypeOK, CallerPcs
<1>17. ASSUME NEW c \in Callers, Signal(c) PROVE CallInv'
  BY <1>0, <1>17
  DEF Signal, Step, Runs, CallInv, TypeOK, CallerPcs
<1>18. ASSUME NEW c \in Callers, Await(c) PROVE CallInv'
  BY <1>0, <1>18
  DEF Await, Step, Runs, CallInv, TypeOK, CallerPcs
<1>19. ASSUME NEW c \in Callers, Fetch(c) PROVE CallInv'
  <2>1. mode # "no_os"
    BY <1>0, <1>19 DEF Fetch, Step, Runs, ModeInv
  <2>2. result \in Errors /\ outcome[c] = <<result, buffer[c]>>
    BY <1>0, <1>19, <2>1 DEF Fetch, Step, HandoffInv
  <2>3. QED
    BY <1>0, <1>19, <2>2 DEF Fetch, Step, CallInv, TypeOK
<1>20. ASSUME NEW c \in Callers, Unlock(c) PROVE CallInv'
  BY <1>0, <1>20
  DEF Unlock, Step, Runs, CallInv, TypeOK, CallerPcs
<1>21. ASSUME NEW c \in Callers, Return(c) PROVE CallInv'
  BY <1>0, <1>21
  DEF Return, Step, Runs, Finish, CallInv, TypeOK, CallerPcs
<1>22. CASE UNCHANGED vars
  BY <1>0, <1>22 DEF vars, CallInv, TypeOK, CallerPcs
<1>23. QED
  BY <1>1, <1>2, <1>3, <1>4, <1>5, <1>6, <1>7, <1>8, <1>9, <1>10, <1>11, <1>12, <1>13, <1>14, <1>15, <1>16, <1>17, <1>18, <1>19, <1>20, <1>21, <1>22
  DEF Next, Worker, Caller

LEMMA HandoffStep == IInv /\ [Next]_vars => HandoffInv'
<1> SUFFICES ASSUME IInv, [Next]_vars PROVE HandoffInv'
  OBVIOUS
<1> USE DEF initVars, workerVars, slotVars, callVars
<1>0. TypeOK /\ CallInv /\ HandoffInv /\ ModeInv /\ InitInv
  BY DEF IInv
<1>1. CASE StartScheduler
  BY <1>0, <1>1
  DEF StartScheduler, HandoffInv, Handoff, Holding, Quiet, TypeOK, CallerPcs
<1>2. CASE InitBegin
  BY <1>0, <1>2
  DEF InitBegin, HandoffInv, Handoff, Holding, Quiet, TypeOK, CallerPcs
<1>3. CASE InitCreate
  BY <1>0, <1>3
  DEF InitCreate, HandoffInv, Handoff, Holding, Quiet, TypeOK, CallerPcs
<1>4. CASE InitFail
  BY <1>0, <1>4
  DEF InitFail, HandoffInv, Handoff, Holding, Quiet, TypeOK, CallerPcs
<1>5. CASE InitPublish
  BY <1>0, <1>5
  DEF InitPublish, HandoffInv, Handoff, Holding, Quiet, TypeOK, CallerPcs
<1>6. CASE WorkerTake
  BY <1>0, <1>6
  DEF WorkerTake, WorkerRuns, HandoffInv, Handoff, Holding, Quiet, TypeOK, CallerPcs
<1>7. CASE WorkerExecute
  <2>1. /\ request[1] \in Callers /\ request[2] \in Requests
        /\ dispatch_mutex = request[1] /\ pc[request[1]] = "await"
    BY <1>0, <1>7, InFlight DEF WorkerExecute, WorkerRuns, Quiet
  <2>2. PICK d \in Driver(flash, request[2]) :
          /\ workerResult' = d[2][1]
          /\ buffer' = [buffer EXCEPT ![request[1]] = d[2][2]]
          /\ outcome' = [outcome EXCEPT ![request[1]] = d[2]]
    BY <1>7 DEF WorkerExecute
  <2>3. d[2][1] \in Errors /\ d[2] = <<d[2][1], d[2][2]>>
    BY <1>0, <2>1, DriverTyped DEF TypeOK
  <2>4. \A c \in Callers : pc[c] \in Holding => c = request[1]
    BY <1>0, <1>7, <2>1 DEF WorkerExecute, WorkerRuns, HandoffInv
  <2>5. Handoff(request[1])'
    BY <1>0, <1>7, <2>1, <2>2, <2>3, InFlight
    DEF WorkerExecute, WorkerRuns, Handoff, Quiet, TypeOK
  <2>6. QED
    BY <1>0, <1>7, <2>1, <2>4, <2>5
    DEF WorkerExecute, WorkerRuns, HandoffInv, Holding, Quiet, TypeOK
<1>8. CASE WorkerPublish
  BY <1>0, <1>8
  DEF WorkerPublish, WorkerRuns, HandoffInv, Handoff, Holding, Quiet, TypeOK, CallerPcs
<1>9. CASE WorkerGive
  BY <1>0, <1>9
  DEF WorkerGive, WorkerRuns, HandoffInv, Handoff, Holding, Quiet, TypeOK, CallerPcs
<1>10. ASSUME NEW c \in Callers, Panic(c) PROVE HandoffInv'
  BY <1>0, <1>10
  DEF Panic, HandoffInv, Handoff, Holding, Quiet, TypeOK, CallerPcs
<1>11. ASSUME NEW c \in Callers, NEW r \in Requests, Call(c, r) PROVE HandoffInv'
  BY <1>0, <1>11
  DEF Call, Step, Runs, Bypass, HandoffInv, Handoff, Holding, Quiet, TypeOK, CallerPcs
<1>12. ASSUME NEW c \in Callers, Direct(c) PROVE HandoffInv'
  BY <1>0, <1>12
  DEF Direct, Step, Runs, HandoffInv, Handoff, Holding, Quiet, TypeOK, CallerPcs
<1>13. ASSUME NEW c \in Callers, Check(c) PROVE HandoffInv'
  BY <1>0, <1>13
  DEF Check, Step, Runs, HandoffInv, Handoff, Holding, Quiet, TypeOK, CallerPcs
<1>14. ASSUME NEW c \in Callers, Refuse(c) PROVE HandoffInv'
  BY <1>0, <1>14
  DEF Refuse, Step, Runs, Finish, HandoffInv, Handoff, Holding, Quiet, TypeOK, CallerPcs
<1>15. ASSUME NEW c \in Callers, Lock(c) PROVE HandoffInv'
  BY <1>0, <1>15, CallersAssumption
  DEF Lock, Step, Runs, HandoffInv, Handoff, Holding, Quiet, TypeOK, CallerPcs
<1>16. ASSUME NEW c \in Callers, Post(c) PROVE HandoffInv'
  BY <1>0, <1>16
  DEF Post, Step, Runs, HandoffInv, Handoff, Holding, Quiet, TypeOK, CallerPcs
<1>17. ASSUME NEW c \in Callers, Signal(c) PROVE HandoffInv'
  <2>1. mode # "no_os"
    BY <1>0, <1>17 DEF Signal, Step, Runs, ModeInv
  <2>2. /\ dispatch_mutex = c /\ request = <<c, req[c]>> /\ Quiet
        /\ outcome[c] = NoOutcome
    BY <1>0, <1>17, <2>1 DEF Signal, Step, HandoffInv, Holding, CallInv
  <2>3. \A k \in Callers : pc[k] \in Holding => k = c
    BY <1>0, <2>1, <2>2 DEF HandoffInv
  <2>4. pc' = [pc EXCEPT ![c] = "await"] /\ dispatch_mutex # None
    BY <1>17, <2>2, CallersAssumption DEF Signal, Step
  <2>5. \A k \in Callers : dispatch_mutex' = k <=> pc'[k] \in Holding
    BY <1>0, <1>17, <2>1, <2>4 DEF Signal, Step, HandoffInv, Holding, TypeOK
  <2>6. Handoff(c)'
    BY <1>0, <1>17, <2>2 DEF Signal, Handoff, Quiet
  <2>7. QED
    BY <1>0, <1>17, <2>2, <2>3, <2>4, <2>5, <2>6
    DEF Signal, HandoffInv, Holding, TypeOK
<1>18. ASSUME NEW c \in Callers, Await(c) PROVE HandoffInv'
  BY <1>0, <1>18
  DEF Await, Step, Runs, HandoffInv, Handoff, Holding, Quiet, TypeOK, CallerPcs
<1>19. ASSUME NEW c \in Callers, Fetch(c) PROVE HandoffInv'
  BY <1>0, <1>19
  DEF Fetch, Step, Runs, HandoffInv, Handoff, Holding, Quiet, TypeOK, CallerPcs
<1>20. ASSUME NEW c \in Callers, Unlock(c) PROVE HandoffInv'
  BY <1>0, <1>20, CallersAssumption
  DEF Unlock, Step, Runs, HandoffInv, Handoff, Holding, Quiet, TypeOK, CallerPcs
<1>21. ASSUME NEW c \in Callers, Return(c) PROVE HandoffInv'
  BY <1>0, <1>21
  DEF Return, Step, Runs, Finish, HandoffInv, Handoff, Holding, Quiet, TypeOK, CallerPcs
<1>22. CASE UNCHANGED vars
  BY <1>0, <1>22 DEF vars, HandoffInv, Handoff, Holding, Quiet, TypeOK, CallerPcs
<1>23. QED
  BY <1>1, <1>2, <1>3, <1>4, <1>5, <1>6, <1>7, <1>8, <1>9, <1>10, <1>11, <1>12, <1>13, <1>14, <1>15, <1>16, <1>17, <1>18, <1>19, <1>20, <1>21, <1>22
  DEF Next, Worker, Caller

-----------------------------------------------------------------------------
(* The invariants.                                                         *)

LEMMA IInvInit == Init => IInv
<1> SUFFICES ASSUME Init PROVE IInv
  OBVIOUS
<1>1. TypeOK
  BY TypeInit
<1>2. InitInv /\ ModeInv
  BY DEF Init, InitInv, ModeInv, AllResources, Dispatching
<1>3. HandoffInv
  BY CallersAssumption DEF Init, HandoffInv, Handoff, Holding, Quiet
<1>4. CallInv
  BY DEF Init, CallInv
<1>5. QED
  BY <1>1, <1>2, <1>3, <1>4 DEF IInv

\* The whole invariant is kept by every step of init, worker and callers.
THEOREM Inductive == Spec => []IInv
<1>1. IInv /\ [Next]_vars => IInv'
  BY TypeStep, InitStep, ModeStep, CallStep, HandoffStep DEF IInv
<1>2. QED
  BY IInvInit, <1>1, PTL DEF Spec

\* Every variable keeps its C type.
THEOREM TypeCorrect == Spec => []TypeOK
<1>1. IInv => TypeOK
  BY DEF IInv
<1>2. QED
  BY Inductive, <1>1, PTL

\* esp_flash_dispatcher_init() creates everything or leaves nothing behind.
THEOREM InitSafe == Spec => []InitAllOrNothing
<1>1. IInv => InitAllOrNothing
  BY DEF IInv, InitInv, InitAllOrNothing
<1>2. QED
  BY Inductive, <1>1, PTL

\* A caller inside flash_dispatcher_execute() never uses an object that does
\* not exist.
THEOREM NoUseBeforeInit == Spec => []UsesOnlyWhatExists
<1>1. IInv => UsesOnlyWhatExists
  BY DEF IInv, InitInv, UsesOnlyWhatExists, Dispatching
<1>2. QED
  BY Inductive, <1>1, PTL

\* The request slot does not change under the worker that reads it.
THEOREM SlotSafe == Spec => SlotStable
<1>1. IInv /\ [Next]_vars =>
        [request_sem = 1 \/ workerPc # "wait" => request' = request]_vars
  <2> SUFFICES ASSUME IInv, Next, request' # request
               PROVE  request_sem # 1 /\ workerPc = "wait"
    BY DEF vars, slotVars
  <2>1. PICK c \in Callers : Post(c)
    BY DEF Next, StartScheduler, InitBegin, InitCreate, InitFail, InitPublish,
           Worker, WorkerTake, WorkerExecute, WorkerPublish, WorkerGive, Panic,
           Call, Caller, Direct, Check, Refuse, Finish, Lock, Signal, Await,
           Fetch, Unlock, Return, slotVars
  <2>2. mode # "no_os"
    BY <2>1 DEF Post, Step, Runs, IInv, ModeInv
  <2>3. QED
    BY <2>1, <2>2 DEF Post, Step, IInv, HandoffInv, Quiet
<1>2. QED
  BY Inductive, <1>1, PTL DEF Spec, SlotStable

-----------------------------------------------------------------------------
(* The dispatcher implements FlashService.                                 *)

PhaseOf == [c \in Callers |-> Phase(c)]

\* A step that touches neither the history nor the place of a call stutters.
LEMMA Stutter ==
  ASSUME TypeOK, UNCHANGED <<flash, req, outcome, returned>>, TypeOK',
         \A c \in Callers : pc[c] = "idle" <=> pc'[c] = "idle"
  PROVE  UNCHANGED Service!svcVars
<1>1. \A c \in Callers : Phase(c)' = Phase(c)
  BY DEF Phase
<1>2. QED
  BY <1>1 DEF Service!svcVars

LEMMA ServiceInit == Init => Service!Init
<1> SUFFICES ASSUME Init PROVE Service!Init
  OBVIOUS
<1>1. \A c \in Callers : Phase(c) = "idle"
  BY DEF Init, Phase
<1>2. QED
  BY <1>1 DEF Init, Service!Init

LEMMA ServiceStep == IInv /\ IInv' /\ [Next]_vars => [Service!Next]_Service!svcVars
<1> SUFFICES ASSUME IInv, IInv', [Next]_vars
             PROVE  [Service!Next]_Service!svcVars
  OBVIOUS
<1> USE DEF initVars, workerVars, slotVars, callVars
<1>0. TypeOK /\ TypeOK' /\ CallInv /\ HandoffInv /\ ModeInv
  BY DEF IInv
<1>1. CASE StartScheduler
  BY <1>0, <1>1, Stutter DEF StartScheduler
<1>2. CASE InitBegin
  BY <1>0, <1>2, Stutter DEF InitBegin
<1>3. CASE InitCreate
  BY <1>0, <1>3, Stutter DEF InitCreate
<1>4. CASE InitFail
  BY <1>0, <1>4, Stutter DEF InitFail
<1>5. CASE InitPublish
  BY <1>0, <1>5, Stutter DEF InitPublish
<1>6. CASE WorkerTake
  BY <1>0, <1>6, Stutter DEF WorkerTake
<1>7. CASE WorkerExecute
  <2> DEFINE c == request[1]
  <2>1. /\ c \in Callers /\ pc[c] = "await" /\ outcome[c] = NoOutcome
        /\ request[2] = req[c] /\ req[c] \in Requests
    BY <1>0, <1>7, InFlight DEF WorkerExecute, WorkerRuns, Quiet, Handoff
  <2>2. PICK d \in Driver(flash, req[c]) :
          flash' = d[1] /\ outcome' = [outcome EXCEPT ![c] = d[2]]
    BY <1>7, <2>1 DEF WorkerExecute
  <2>3. d[2] # NoOutcome
    BY <1>0, <2>1, DriverTyped DEF TypeOK
  <2>4. PhaseOf' = [PhaseOf EXCEPT ![c] = "executed"] /\ PhaseOf[c] = "pending"
    BY <1>0, <1>7, <2>1, <2>2, <2>3 DEF WorkerExecute, PhaseOf, Phase, TypeOK
  <2>5. Service!Execute(c)
    BY <1>7, <2>2, <2>4 DEF WorkerExecute, Service!Execute, PhaseOf
  <2>6. QED
    BY <2>1, <2>5 DEF Service!Next
<1>8. CASE WorkerPublish
  BY <1>0, <1>8, Stutter DEF WorkerPublish
<1>9. CASE WorkerGive
  BY <1>0, <1>9, Stutter DEF WorkerGive
<1>10. ASSUME NEW c \in Callers, Panic(c) PROVE [Service!Next]_Service!svcVars
  <2>1. CASE pc[c] = "idle"
    <3>1. req[c] = None /\ outcome[c] = NoOutcome
      BY <1>0, <2>1 DEF CallInv
    <3>2. pc' = pc /\ req' = req /\ outcome' = outcome
      BY <1>0, <1>10, <2>1, <3>1 DEF Panic, TypeOK
    <3>3. QED
      BY <1>0, <1>10, <3>2, Stutter DEF Panic
  <2>2. CASE pc[c] # "idle"
    <3>1. PhaseOf' = [PhaseOf EXCEPT ![c] = "idle"] /\ PhaseOf[c] # "idle"
      BY <1>0, <1>10, <2>2 DEF Panic, PhaseOf, Phase, TypeOK
    <3>2. Service!Abandon(c)
      BY <1>10, <3>1 DEF Panic, Service!Abandon, PhaseOf
    <3>3. QED
      BY <3>2 DEF Service!Next
  <2>3. QED
    BY <2>1, <2>2
<1>11. ASSUME NEW c \in Callers, NEW r \in Requests, Call(c, r) PROVE [Service!Next]_Service!svcVars
  <2>1. outcome[c] = NoOutcome /\ pc[c] = "idle"
    BY <1>0, <1>11 DEF Call, Step, CallInv
  <2>2. PhaseOf' = [PhaseOf EXCEPT ![c] = "pending"] /\ PhaseOf[c] = "idle"
    BY <1>0, <1>11, <2>1 DEF Call, Step, PhaseOf, Phase, TypeOK
  <2>3. Service!Invoke(c, r)
    BY <1>11, <2>2 DEF Call, Service!Invoke, PhaseOf
  <2>4. QED
    BY <2>3 DEF Service!Next
<1>12. ASSUME NEW c \in Callers, Direct(c) PROVE [Service!Next]_Service!svcVars
  <2>1. req[c] \in Requests /\ outcome[c] = NoOutcome
    BY <1>0, <1>12 DEF Direct, Step, CallInv
  <2>2. PICK d \in Driver(flash, req[c]) :
          flash' = d[1] /\ outcome' = [outcome EXCEPT ![c] = d[2]]
    BY <1>12 DEF Direct
  <2>3. d[2] # NoOutcome
    BY <1>0, <2>1, DriverTyped DEF TypeOK
  <2>4. PhaseOf' = [PhaseOf EXCEPT ![c] = "executed"] /\ PhaseOf[c] = "pending"
    BY <1>0, <1>12, <2>1, <2>2, <2>3 DEF Direct, Step, PhaseOf, Phase, TypeOK
  <2>5. Service!Execute(c)
    BY <1>12, <2>2, <2>4 DEF Direct, Service!Execute, PhaseOf
  <2>6. QED
    BY <2>5 DEF Service!Next
<1>13. ASSUME NEW c \in Callers, Check(c) PROVE [Service!Next]_Service!svcVars
  BY <1>0, <1>13, Stutter DEF Check, Step, TypeOK
<1>14. ASSUME NEW c \in Callers, Refuse(c) PROVE [Service!Next]_Service!svcVars
  <2>1. outcome[c] = NoOutcome /\ pc[c] = "check"
    BY <1>0, <1>14 DEF Refuse, Step, CallInv
  <2>2. PhaseOf' = [PhaseOf EXCEPT ![c] = "idle"] /\ PhaseOf[c] = "pending"
    BY <1>0, <1>14, <2>1 DEF Refuse, Step, Finish, PhaseOf, Phase, TypeOK
  <2>3. Service!Refuse(c)
    BY <1>14, <2>2 DEF Refuse, Finish, Service!Refuse, Service!Reply, PhaseOf
  <2>4. QED
    BY <2>3 DEF Service!Next
<1>15. ASSUME NEW c \in Callers, Lock(c) PROVE [Service!Next]_Service!svcVars
  BY <1>0, <1>15, Stutter DEF Lock, Step, TypeOK
<1>16. ASSUME NEW c \in Callers, Post(c) PROVE [Service!Next]_Service!svcVars
  BY <1>0, <1>16, Stutter DEF Post, Step, TypeOK
<1>17. ASSUME NEW c \in Callers, Signal(c) PROVE [Service!Next]_Service!svcVars
  BY <1>0, <1>17, Stutter DEF Signal, Step, TypeOK
<1>18. ASSUME NEW c \in Callers, Await(c) PROVE [Service!Next]_Service!svcVars
  BY <1>0, <1>18, Stutter DEF Await, Step, TypeOK
<1>19. ASSUME NEW c \in Callers, Fetch(c) PROVE [Service!Next]_Service!svcVars
  BY <1>0, <1>19, Stutter DEF Fetch, Step, TypeOK
<1>20. ASSUME NEW c \in Callers, Unlock(c) PROVE [Service!Next]_Service!svcVars
  BY <1>0, <1>20, Stutter DEF Unlock, Step, TypeOK
<1>21. ASSUME NEW c \in Callers, Return(c) PROVE [Service!Next]_Service!svcVars
  <2>1. /\ pc[c] = "return" /\ outcome[c] = <<operation_result[c], buffer[c]>>
        /\ operation_result[c] \in Errors
    BY <1>0, <1>21 DEF Return, Step, Runs, CallInv
  <2>2. outcome[c] # NoOutcome
    BY <2>1, DriverAssumption DEF NoOutcome
  <2>3. PhaseOf' = [PhaseOf EXCEPT ![c] = "idle"] /\ PhaseOf[c] = "executed"
    BY <1>0, <1>21, <2>1, <2>2 DEF Return, Step, Finish, PhaseOf, Phase, TypeOK
  <2>4. Service!Return(c)
    BY <1>21, <2>1, <2>3
    DEF Return, Finish, Service!Return, Service!Reply, PhaseOf
  <2>5. QED
    BY <2>4 DEF Service!Next
<1>22. CASE UNCHANGED vars
  BY <1>0, <1>22, Stutter DEF vars
<1>23. QED
  BY <1>1, <1>2, <1>3, <1>4, <1>5, <1>6, <1>7, <1>8, <1>9, <1>10, <1>11, <1>12, <1>13, <1>14, <1>15, <1>16, <1>17, <1>18, <1>19, <1>20, <1>21, <1>22
  DEF Next, Worker, Caller

\* Every call the dispatcher returns from was executed exactly once, between
\* its invocation and its return, and returns what that execution produced.
THEOREM Refinement == Spec => Refines
<1>1. IInv /\ [Next]_vars => IInv'
  BY TypeStep, InitStep, ModeStep, CallStep, HandoffStep DEF IInv
<1>2. QED
  BY <1>1, Inductive, ServiceInit, ServiceStep, PTL DEF Spec, Refines, Service!Spec

=============================================================================
