------------------------- MODULE MCFlashDispatcher --------------------------
(* Two tasks on PSRAM stacks and one on an internal stack share a one-page    *)
(* chip.  A write reaches it and then fails, so that the code a caller gets   *)
(* tells which call it is from; what is read tells when.                      *)
EXTENDS FlashDispatcher

CONSTANTS c1, c2, d1  \* the tasks

MCRequests ==
  {[op |-> "read"], [op |-> "write", data |-> "A"]}

MCFlashStates == {"erased", "A"}

MCDriver(f, r) ==
  CASE r.op = "read"         -> {<<f, <<"ok", f>>>>}
    [] r.op = "write"        -> {<<r.data, <<"fail", NoData>>>>}
=============================================================================
