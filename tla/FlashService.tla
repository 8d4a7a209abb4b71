---------------------------- MODULE FlashService ----------------------------
(***************************************************************************)
(* What esp_flash_dispatcher promises to the callers of the flash API: a   *)
(* call is executed by the real driver at most once, at one point between  *)
(* its invocation and its return, and the value it returns is the outcome  *)
(* of that very execution.  Which task runs the driver, and how requests   *)
(* travel to it, is left to FlashDispatcher, which implements this module. *)
(***************************************************************************)
CONSTANTS
  Callers,        \* tasks and contexts that call the flash API
  Requests,       \* operation and arguments of a call
  FlashStates,    \* contents and mappings of the flash chip
  Outcomes,       \* what a call gives back: error code and data
  NoRequest, NoOutcome,
  Refused,        \* the outcome ESP_ERR_INVALID_STATE, nothing executed
  Driver(_, _)    \* Driver(f, r): the pairs <<flash', outcome>> of r run on f

VARIABLES
  flash,          \* the chip
  phase,          \* phase[c]: how far the call of c has come
  req,            \* req[c]: the request of the call
  outcome,        \* outcome[c]: what the execution of the call produced
  returned        \* the last reply: <<caller, outcome>>

svcVars == <<flash, phase, req, outcome, returned>>

Init ==
  /\ flash \in FlashStates
  /\ phase = [c \in Callers |-> "idle"]
  /\ req = [c \in Callers |-> NoRequest]
  /\ outcome = [c \in Callers |-> NoOutcome]
  /\ returned = <<NoRequest, NoOutcome>>

Invoke(c, r) ==
  /\ phase[c] = "idle"
  /\ phase' = [phase EXCEPT ![c] = "pending"]
  /\ req' = [req EXCEPT ![c] = r]
  /\ UNCHANGED <<flash, outcome, returned>>

\* The one point at which the call takes effect.
Execute(c) ==
  /\ phase[c] = "pending"
  /\ \E d \in Driver(flash, req[c]) :
       /\ flash' = d[1]
       /\ outcome' = [outcome EXCEPT ![c] = d[2]]
  /\ phase' = [phase EXCEPT ![c] = "executed"]
  /\ UNCHANGED <<req, returned>>

Reply(c, o) ==
  /\ phase' = [phase EXCEPT ![c] = "idle"]
  /\ req' = [req EXCEPT ![c] = NoRequest]
  /\ outcome' = [outcome EXCEPT ![c] = NoOutcome]
  /\ returned' = <<c, o>>
  /\ UNCHANGED flash

Return(c) == phase[c] = "executed" /\ Reply(c, outcome[c])

Refuse(c) == phase[c] = "pending" /\ Reply(c, Refused)

\* The context of c dies in a panic; its call never returns.
Abandon(c) ==
  /\ phase[c] # "idle"
  /\ phase' = [phase EXCEPT ![c] = "idle"]
  /\ req' = [req EXCEPT ![c] = NoRequest]
  /\ outcome' = [outcome EXCEPT ![c] = NoOutcome]
  /\ UNCHANGED <<flash, returned>>

Next ==
  \E c \in Callers :
    \/ \E r \in Requests : Invoke(c, r)
    \/ Execute(c) \/ Return(c) \/ Refuse(c) \/ Abandon(c)

Spec == Init /\ [][Next]_svcVars
=============================================================================
