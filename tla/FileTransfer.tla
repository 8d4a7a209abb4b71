---------------------------- MODULE FileTransfer ----------------------------
(***************************************************************************)
(* What xmodem_send() and xmodem_recv() promise together: the receiver's   *)
(* sink gets the blocks of the file one at a time, in order and without    *)
(* repetition; the receiver returns ESP_OK only with the whole file, and   *)
(* the sender only after the receiver.                                     *)
(***************************************************************************)
EXTENDS Naturals, Sequences

CONSTANTS
  MaxBlocks,
  Failures        \* error codes either side may return

VARIABLES
  file,           \* number of blocks the source holds
  delivered,      \* blocks written to the sink
  senderResult, receiverResult   \* "none" while running, "OK" or a failure

xferVars == <<file, delivered, senderResult, receiverResult>>

Init ==
  /\ file \in 0..MaxBlocks
  /\ delivered = <<>>
  /\ senderResult = "none" /\ receiverResult = "none"

Deliver ==
  /\ receiverResult = "none" /\ Len(delivered) < file
  /\ delivered' = Append(delivered, Len(delivered) + 1)
  /\ UNCHANGED <<file, senderResult, receiverResult>>

ReceiverReturns ==
  /\ receiverResult = "none"
  /\ receiverResult' \in Failures \cup {"OK"}
  /\ receiverResult' = "OK" => Len(delivered) = file
  /\ UNCHANGED <<file, delivered, senderResult>>

SenderReturns ==
  /\ senderResult = "none"
  /\ senderResult' \in Failures \cup {"OK"}
  /\ senderResult' = "OK" => receiverResult = "OK"
  /\ UNCHANGED <<file, delivered, receiverResult>>

Next == Deliver \/ ReceiverReturns \/ SenderReturns

Spec == Init /\ [][Next]_xferVars
=============================================================================
