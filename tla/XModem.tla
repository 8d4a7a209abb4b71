------------------------------- MODULE XModem -------------------------------
(***************************************************************************)
(* xmodem_send() and xmodem_recv() over a serial link that may lose or     *)
(* garble what it carries.  Two tasks, two FIFO lines.  A packet or a      *)
(* control byte is one message; its payload is the index of the block of   *)
(* the file it carries; sizes (128 or 1024 bytes), padding and checksums   *)
(* are abstracted to "the check matches or it does not".                   *)
(***************************************************************************)
EXTENDS Integers, Sequences

CONSTANTS
  MaxBlocks,      \* bound on the length of the file, in blocks
  SinkBlocks,     \* blocks the sink takes before it answers ESP_ERR_NO_MEM
  BlkMod,         \* packet numbers are uint8_t in the code: 256
  CheckType,      \* the receiver's config->check_type
  MaxRetry,       \* max_retry_cnt of both sides
  CanCount,       \* cancel_can_count of both sides
  MaxFaults,      \* bound on link faults and failing callbacks
  Prompt,         \* TRUE: answers beat the timeouts, as the docs ask for
  LineNoise       \* TRUE: garbage may appear on the receiver's line

ASSUME XModemAssumption ==
  /\ MaxBlocks \in Nat /\ SinkBlocks \in Nat /\ MaxRetry \in Nat
  /\ MaxFaults \in Nat
  /\ BlkMod \in Nat /\ BlkMod > 2
  /\ CanCount \in Nat /\ CanCount >= 2
  /\ CheckType \in {"AUTO", "SUM8", "CRC16"}
  /\ Prompt \in BOOLEAN /\ LineNoise \in BOOLEAN

VARIABLES
  file,                            \* number of blocks the source holds
  toReceiver, toSender, faults,    \* the link
  spc,                             \* where xmodem_send() is
  sendCheck,                       \* its check_type
  sent,                            \* blocks read from the source; blk is sent % BlkMod
  attempt,                         \* retry counter of the sender's current loop
  senderResult,
  rpc,                             \* where xmodem_recv() is
  handshaking,                     \* before its main receive loop
  recvCheck,                       \* check_type recv_packet() is called with
  request, packet_started, tries,  \* locals of recv_packet()
  blk, last_blk,
  delivered,                       \* what sink->write() has taken
  receiverResult

linkVars == <<toReceiver, toSender, faults>>
sendVars == <<spc, sendCheck, sent, attempt, senderResult>>
loopVars == <<request, packet_started, tries>>
sinkVars == <<blk, last_blk, delivered>>
recvVars == <<rpc, handshaking, recvCheck, loopVars, sinkVars, receiverResult>>
vars == <<file, linkVars, sendVars, recvVars>>

Byte(b) == [type |-> b]
Packet(n) ==
  [type |-> "SOH", blk |-> n % BlkMod, data |-> n, check |-> sendCheck]
Noise == Byte("noise")
Cancel == [i \in 1..CanCount |-> Byte("CAN")]

\* The packet counter is a uint8_t.
NextBlkWide(b) == b + 1
NextBlk(b) == (b + 1) % BlkMod

Init ==
  /\ file \in 0..MaxBlocks
  /\ toReceiver = <<>> /\ toSender = <<>> /\ faults = 0
  /\ spc = "off" /\ sendCheck = "none" /\ sent = 0 /\ attempt = 0
  /\ senderResult = "none"
  /\ rpc = "off" /\ handshaking = TRUE
  /\ recvCheck = IF CheckType = "SUM8" THEN "SUM8" ELSE "CRC16"
  /\ request = IF CheckType = "SUM8" THEN "NAK" ELSE "CRC"
  /\ packet_started = FALSE /\ tries = 0
  /\ blk = 1 /\ last_blk = 1 /\ delivered = <<>>
  /\ receiverResult = "none"

\* purge_rx() takes what has arrived by the time the line is idle: a prefix.
Purge(q) == {SubSeq(q, k, Len(q)) : k \in 1..(Len(q) + 1)}

-----------------------------------------------------------------------------
(* The link.                                                               *)

LinkFault == faults < MaxFaults /\ faults' = faults + 1
             /\ UNCHANGED <<file, sendVars, recvVars>>

LosePacket ==
  /\ toReceiver # <<>> /\ toReceiver' = Tail(toReceiver)
  /\ LinkFault /\ UNCHANGED toSender

GarblePacket ==
  /\ toReceiver # <<>> /\ Head(toReceiver) # Noise
  /\ toReceiver' = <<Noise>> \o Tail(toReceiver)
  /\ LinkFault /\ UNCHANGED toSender

LoseReply ==
  /\ toSender # <<>> /\ toSender' = Tail(toSender)
  /\ LinkFault /\ UNCHANGED toReceiver

GarbleReply ==
  /\ toSender # <<>> /\ Head(toSender) # Noise
  /\ toSender' = <<Noise>> \o Tail(toSender)
  /\ LinkFault /\ UNCHANGED toReceiver

StrayNoise ==
  /\ LineNoise /\ toReceiver' = Append(toReceiver, Noise)
  /\ LinkFault /\ UNCHANGED toSender

\* A receive timeout on a prompt link means that nothing is under way.  The
\* sender's is several times the receiver's: it expires when the receiver is gone.
ReceiverTimesOut ==
  Prompt => /\ toReceiver = <<>>
            /\ \/ spc \in {"off", "done"}
               \/ spc \in {"handshake", "await", "can"} /\ toSender = <<>>

SenderTimesOut == Prompt => toSender = <<>> /\ rpc \in {"off", "done"}

-----------------------------------------------------------------------------
(* xmodem_send()                                                           *)

SenderStart ==
  /\ spc = "off" /\ spc' = "handshake"
  /\ UNCHANGED <<file, linkVars, sendCheck, sent, attempt, senderResult, recvVars>>

SenderEnds(result) == spc' = "done" /\ senderResult' = result

\* cleanup: an error other than the peer's cancel is announced with CANs.
SenderAborts(result) ==
  /\ SenderEnds(result)
  /\ toReceiver' = toReceiver \o Cancel

\* A valid handshake byte; what is behind it on the line stays there.
Handshake ==
  /\ spc = "handshake" /\ toSender # <<>>
  /\ Head(toSender).type \in {"NAK", "CRC"}
  /\ sendCheck' = IF Head(toSender).type = "NAK" THEN "SUM8" ELSE "CRC16"
  /\ spc' = "read" /\ attempt' = 0
  /\ toSender' = Tail(toSender)
  /\ UNCHANGED <<file, toReceiver, faults, sent, senderResult, recvVars>>

HandshakeUnknown ==
  /\ spc = "handshake" /\ toSender # <<>>
  /\ Head(toSender).type \notin {"NAK", "CRC"}
  /\ toSender' \in Purge(Tail(toSender))
  /\ IF attempt < MaxRetry
       THEN attempt' = attempt + 1 /\ UNCHANGED <<spc, senderResult>>
       ELSE SenderEnds("RETRY_EXCEEDED") /\ UNCHANGED attempt
  /\ UNCHANGED <<file, toReceiver, faults, sendCheck, sent, recvVars>>

HandshakeTimeout ==
  /\ spc = "handshake" /\ SenderTimesOut
  /\ SenderEnds("NO_RESPONSE")
  /\ UNCHANGED <<file, linkVars, sendCheck, sent, attempt, recvVars>>

\* source->read(): the next block, or the end of the file.
Read ==
  /\ spc = "read" /\ spc' = "send"
  /\ sent' = sent + 1 /\ attempt' = 0
  /\ UNCHANGED <<file, linkVars, sendCheck, senderResult, recvVars>>

Send ==
  /\ spc = "send" /\ spc' = "await"
  /\ toReceiver' = Append(toReceiver,
                          IF sent <= file THEN Packet(sent) ELSE Byte("EOT"))
  /\ UNCHANGED <<file, toSender, faults, sendCheck, sent, attempt,
                 senderResult, recvVars>>

Listening == spc \in {"await", "can"} /\ toSender # <<>>

\* The bug of taking whatever is no NAK for an acknowledgement.
IsAckLax(m) == m.type \notin {"NAK", "CAN"}
IsAck(m) == m.type = "ACK"

GotAck ==
  /\ Listening /\ IsAck(Head(toSender))
  /\ toSender' = Tail(toSender)
  /\ IF sent <= file
       THEN spc' = "read" /\ UNCHANGED senderResult
       ELSE SenderEnds("OK")
  /\ UNCHANGED <<file, toReceiver, faults, sendCheck, sent, attempt, recvVars>>

GotNak ==
  /\ Listening /\ Head(toSender).type = "NAK"
  /\ toSender' = Tail(toSender)
  /\ IF attempt < MaxRetry
       THEN /\ spc' = "send" /\ attempt' = attempt + 1
            /\ UNCHANGED <<toReceiver, senderResult>>
       ELSE SenderAborts("RETRY_EXCEEDED") /\ UNCHANGED attempt
  /\ UNCHANGED <<file, faults, sendCheck, sent, recvVars>>

\* Two CANs in a row cancel; a single one is noise.
GotCan ==
  /\ Listening /\ Head(toSender).type = "CAN"
  /\ toSender' = Tail(toSender)
  /\ IF spc = "await"
       THEN spc' = "can" /\ UNCHANGED senderResult
       ELSE SenderEnds("CANCEL_BY_PEER")
  /\ UNCHANGED <<file, toReceiver, faults, sendCheck, sent, attempt, recvVars>>

GotUnknown ==
  /\ Listening /\ ~IsAck(Head(toSender)) /\ Head(toSender).type \notin {"NAK", "CAN"}
  /\ toSender' = Tail(toSender)
  /\ spc' = "await"
  /\ UNCHANGED <<file, toReceiver, faults, sendCheck, sent, attempt,
                 senderResult, recvVars>>

LoneCan ==
  /\ spc = "can" /\ (Prompt => toSender = <<>>)
  /\ spc' = "await"
  /\ UNCHANGED <<file, linkVars, sendCheck, sent, attempt, senderResult, recvVars>>

\* The bug of waiting for a response for ever.
ResponseTimeoutNever == FALSE /\ UNCHANGED vars

ResponseTimeout ==
  /\ spc = "await" /\ SenderTimesOut
  /\ SenderAborts("NO_RESPONSE")
  /\ UNCHANGED <<file, toSender, faults, sendCheck, sent, attempt, recvVars>>

\* A transport or source callback, or malloc, fails.  Before the packets the
\* function just returns; the CANs of an abort may fail to leave as well.
SenderFails ==
  /\ spc \in {"handshake", "read", "send", "await", "can"}
  /\ SenderEnds("ERROR")
  /\ faults < MaxFaults /\ faults' = faults + 1
  /\ toReceiver' \in {toReceiver} \cup
       (IF spc = "handshake" THEN {} ELSE {toReceiver \o Cancel})
  /\ UNCHANGED <<file, toSender, sendCheck, sent, attempt, recvVars>>

Sender ==
  \/ Handshake \/ HandshakeUnknown \/ HandshakeTimeout \/ Read \/ Send
  \/ GotAck \/ GotNak \/ GotCan \/ GotUnknown \/ LoneCan \/ ResponseTimeout

-----------------------------------------------------------------------------
(* xmodem_recv()                                                           *)

ReceiverStart ==
  /\ rpc = "off" /\ rpc' = "request"
  /\ UNCHANGED <<file, linkVars, sendVars, handshaking, recvCheck, loopVars,
                 sinkVars, receiverResult>>

ReceiverEnds(result) == rpc' = "done" /\ receiverResult' = result

ReceiverAborts(result) ==
  /\ ReceiverEnds(result)
  /\ toSender' = toSender \o Cancel

\* The start of a recv_packet() call.
CallRecvPacket(initial_request, check) ==
  /\ rpc' = "request" /\ request' = initial_request /\ recvCheck' = check
  /\ packet_started' = FALSE /\ tries' = 0

\* recv_packet() sends its request and waits.
Request ==
  /\ rpc = "request" /\ rpc' = "await"
  /\ toSender' = Append(toSender, Byte(request))
  /\ UNCHANGED <<file, toReceiver, faults, sendVars, handshaking, recvCheck,
                 loopVars, sinkVars, receiverResult>>

Arrived == toReceiver # <<>>

GotEot ==
  /\ rpc = "await" /\ Arrived /\ Head(toReceiver).type = "EOT"
  /\ toReceiver' = Tail(toReceiver)
  /\ rpc' = "ack_eot"
  /\ UNCHANGED <<file, toSender, faults, sendVars, handshaking, recvCheck,
                 loopVars, sinkVars, receiverResult>>

AckEot ==
  /\ rpc = "ack_eot"
  /\ ReceiverEnds("OK")
  /\ toSender' = Append(toSender, Byte("ACK"))
  /\ UNCHANGED <<file, toReceiver, faults, sendVars, handshaking, recvCheck,
                 loopVars, sinkVars>>

\* A complete packet whose number, complement and check are right.
GoodPacket(m) == m.type = "SOH" /\ m.check = recvCheck

\* The bug of delivering a repeated packet again.
IsNewOrLast(m) == m.blk \in {blk, last_blk}
IsNew(m) == m.blk = blk

\* One turn of the main loop: deliver a new block, ignore a repeated one.
Accept ==
  LET m == Head(toReceiver) IN
  /\ rpc = "await" /\ Arrived /\ GoodPacket(m)
  /\ \/ /\ IsNew(m) /\ Len(delivered) < SinkBlocks
        /\ delivered' = Append(delivered, m.data)
        /\ last_blk' = blk /\ blk' = NextBlk(blk)
     \/ ~IsNew(m) /\ m.blk = last_blk /\ UNCHANGED sinkVars
  /\ toReceiver' = Tail(toReceiver)
  /\ handshaking' = FALSE
  /\ CallRecvPacket("ACK", recvCheck)
  /\ UNCHANGED <<file, toSender, faults, sendVars, receiverResult>>

\* The sink is full, or the number is neither the expected nor the last one.
Reject ==
  LET m == Head(toReceiver) IN
  /\ rpc = "await" /\ Arrived /\ GoodPacket(m)
  /\ \/ IsNew(m) /\ Len(delivered) >= SinkBlocks /\ ReceiverAborts("NO_MEM")
     \/ ~IsNew(m) /\ m.blk # last_blk /\ ReceiverAborts("OUT_OF_SYNC")
  /\ toReceiver' = Tail(toReceiver)
  /\ handshaking' = FALSE
  /\ UNCHANGED <<file, faults, sendVars, recvCheck, loopVars, sinkVars>>

GotFirstCan ==
  /\ rpc = "await" /\ Arrived /\ Head(toReceiver).type = "CAN"
  /\ toReceiver' = Tail(toReceiver)
  /\ rpc' = "can"
  /\ UNCHANGED <<file, toSender, faults, sendVars, handshaking, recvCheck,
                 loopVars, sinkVars, receiverResult>>

GotSecondCan ==
  /\ rpc = "can" /\ Arrived /\ Head(toReceiver).type = "CAN"
  /\ toReceiver' = Tail(toReceiver)
  /\ ReceiverEnds("CANCEL_BY_PEER")
  /\ UNCHANGED <<file, toSender, faults, sendVars, handshaking, recvCheck,
                 loopVars, sinkVars>>

\* What recv_packet() does with a bad packet: purge, then NAK or give up.
Retry(rest) ==
  /\ toReceiver' \in Purge(rest)
  /\ packet_started' = TRUE
  /\ IF tries < MaxRetry
       THEN /\ rpc' = "request" /\ request' = "NAK" /\ tries' = tries + 1
            /\ UNCHANGED <<toSender, receiverResult>>
       ELSE ReceiverAborts("RETRY_EXCEEDED") /\ UNCHANGED <<request, tries>>
  /\ UNCHANGED <<file, faults, sendVars, handshaking, recvCheck, sinkVars>>

BadPacket ==
  LET m == Head(toReceiver) IN
  /\ rpc = "await" /\ Arrived
  /\ m.type \notin {"EOT", "CAN"} /\ ~GoodPacket(m)
  /\ Retry(Tail(toReceiver))

\* One byte is read after a CAN: the rest of a packet it starts is garbage.
SpuriousCan ==
  /\ rpc = "can"
  /\ \/ ~Arrived /\ Retry(<<>>)
     \/ ~Prompt /\ Retry(toReceiver)
     \/ /\ Arrived /\ Head(toReceiver).type # "CAN"
        /\ Retry((IF Head(toReceiver).type = "SOH" THEN <<Noise>> ELSE <<>>)
                   \o Tail(toReceiver))

\* The bug of repeating the last ACK when the next packet is late.
IdleRequestAck == IF handshaking THEN (IF recvCheck = "CRC16" THEN "CRC" ELSE "NAK")
                  ELSE "ACK"

\* The idle_request recv_packet() is called with.
IdleRequest == IF handshaking /\ recvCheck = "CRC16" THEN "CRC" ELSE "NAK"

PacketTimeout ==
  /\ rpc = "await" /\ ReceiverTimesOut
  /\ \/ /\ tries < MaxRetry
        /\ rpc' = "request" /\ tries' = tries + 1
        /\ request' = IF packet_started THEN "NAK" ELSE IdleRequest
        /\ UNCHANGED <<toSender, packet_started, recvCheck, receiverResult>>
     \/ /\ tries = MaxRetry
        /\ handshaking /\ CheckType = "AUTO" /\ recvCheck = "CRC16" /\ ~packet_started
        /\ CallRecvPacket("NAK", "SUM8")
        /\ UNCHANGED <<toSender, receiverResult>>
     \/ /\ tries = MaxRetry
        /\ ~(handshaking /\ CheckType = "AUTO" /\ recvCheck = "CRC16" /\ ~packet_started)
        /\ ReceiverAborts(IF packet_started THEN "RETRY_EXCEEDED" ELSE "NO_RESPONSE")
        /\ UNCHANGED <<recvCheck, loopVars>>
  /\ UNCHANGED <<file, toReceiver, faults, sendVars, handshaking, sinkVars>>

\* A transport or sink callback fails; the CANs may fail to leave as well.
ReceiverFails ==
  /\ rpc \in {"request", "await", "can", "ack_eot"}
  /\ ReceiverEnds("ERROR")
  /\ faults < MaxFaults /\ faults' = faults + 1
  /\ toSender' \in {toSender, toSender \o Cancel}
  /\ UNCHANGED <<file, toReceiver, sendVars, handshaking, recvCheck, loopVars,
                 sinkVars>>

Receiver ==
  \/ Request \/ GotEot \/ AckEot \/ Accept \/ Reject \/ GotFirstCan
  \/ GotSecondCan \/ BadPacket \/ SpuriousCan \/ PacketTimeout

Done == spc = "done" /\ rpc = "done" /\ UNCHANGED vars

Next ==
  \/ LosePacket \/ GarblePacket \/ LoseReply \/ GarbleReply \/ StrayNoise
  \/ SenderStart \/ Sender \/ SenderFails
  \/ ReceiverStart \/ Receiver \/ ReceiverFails
  \/ Done

Spec == Init /\ [][Next]_vars

\* Both functions run in tasks the scheduler serves, and recv() returns when
\* its timeout expires.
FairSpec == Spec /\ WF_vars(Sender) /\ WF_vars(Receiver)

-----------------------------------------------------------------------------
Failures == {"NO_RESPONSE", "CANCEL_BY_PEER", "RETRY_EXCEEDED", "OUT_OF_SYNC",
             "NO_MEM", "ERROR"}

Messages ==
  [type : {"EOT", "ACK", "NAK", "CAN", "CRC", "noise"}] \cup
  [type : {"SOH"}, blk : 0..(BlkMod - 1), data : 1..MaxBlocks, check : {"SUM8", "CRC16"}]

\* Every variable holds a value of its C type, and the counters stay in range.
TypeOK ==
  /\ file \in 0..MaxBlocks
  /\ toReceiver \in Seq(Messages) /\ toSender \in Seq(Messages)
  /\ faults \in 0..MaxFaults
  /\ spc \in {"off", "handshake", "read", "send", "await", "can", "done"}
  /\ sendCheck \in {"none", "SUM8", "CRC16"}
  /\ sent \in 0..(file + 1) /\ attempt \in 0..MaxRetry
  /\ senderResult \in Failures \cup {"none", "OK"}
  /\ rpc \in {"off", "request", "await", "can", "ack_eot", "done"}
  /\ handshaking \in BOOLEAN /\ packet_started \in BOOLEAN
  /\ recvCheck \in {"SUM8", "CRC16"}
  /\ request \in {"ACK", "NAK", "CRC"} /\ tries \in 0..MaxRetry
  /\ blk \in 0..(BlkMod - 1) /\ last_blk \in 0..(BlkMod - 1)
  /\ delivered \in Seq(1..MaxBlocks)
  /\ receiverResult \in Failures \cup {"none", "OK"}

\* The sink gets the blocks of the file in order, none twice and none skipped,
\* whatever is lost, garbled or delayed and though packet numbers wrap around.
DeliveredInOrder == delivered = [i \in 1..Len(delivered) |-> i]

\* Stop and wait: the sender moves on to a block only when the one before it
\* has reached the sink.
SenderNotAhead ==
  spc \in {"send", "await", "can"} => sent \in {Len(delivered), Len(delivered) + 1}

\* When both functions return ESP_OK the sink has the whole file.
BothOkIsWhole ==
  senderResult = "OK" /\ receiverResult = "OK" => Len(delivered) = file

\* A function that was called returns.
Returns ==
  /\ spc # "off" ~> spc = "done"
  /\ rpc # "off" ~> rpc = "done"

\* Both functions together keep the promise of FileTransfer.
Transfer == INSTANCE FileTransfer
Transfers == Transfer!Spec
=============================================================================
