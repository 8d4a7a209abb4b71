--------------------------- MODULE ProvLifecycle ----------------------------
(***************************************************************************)
(* What the provisioning manager promises about its life: it is started    *)
(* only when nothing runs, a service that is being stopped is stopped and  *)
(* nothing else, and the transport is up exactly while the service runs or *)
(* a session is kept.                                                      *)
(***************************************************************************)

VARIABLES
  phase,       \* down, ready, starting, running, stopping, session
  transport    \* TRUE while the BLE or SoftAP transport runs

lifeVars == <<phase, transport>>

Init == phase = "down" /\ transport = FALSE

Up == phase = "down" /\ phase' = "ready" /\ UNCHANGED transport
Start == phase = "ready" /\ phase' = "starting" /\ UNCHANGED transport

TransportUp ==
  /\ phase = "starting" /\ ~transport
  /\ transport' = TRUE /\ UNCHANGED phase

Started ==
  /\ phase = "starting" /\ transport
  /\ phase' \in {"running", "session"} /\ UNCHANGED transport

StartFailed ==
  /\ phase = "starting" /\ ~transport
  /\ phase' = "ready" /\ UNCHANGED transport

Stop ==
  /\ phase \in {"running", "session"}
  /\ phase' = "stopping" /\ UNCHANGED transport

TransportDown ==
  /\ phase = "stopping" /\ transport
  /\ transport' = FALSE /\ UNCHANGED phase

\* A stop in the background ends in one step with the transport down, or kept.
Stopped ==
  /\ phase = "stopping"
  /\ \/ phase' = "ready" /\ transport' = FALSE
     \/ phase' = "session" /\ transport /\ UNCHANGED transport
     \/ phase' = "down" /\ ~transport /\ UNCHANGED transport

Down ==
  /\ phase = "ready" /\ phase' = "down" /\ UNCHANGED transport

Next ==
  \/ Up \/ Start \/ TransportUp \/ Started \/ StartFailed
  \/ Stop \/ TransportDown \/ Stopped \/ Down

Spec == Init /\ [][Next]_lifeVars
=============================================================================
