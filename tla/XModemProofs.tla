---------------------------- MODULE XModemProofs ----------------------------
(***************************************************************************)
(* Theorems about XModem.  For any file, packet numbering, check type,     *)
(* retry counts and link: type correctness, from where the sender is in    *)
(* the file at each place of xmodem_send().  For CRC-16 on a prompt line:  *)
(* the transfer is stop and wait, and implements FileTransfer.             *)
(***************************************************************************)
EXTENDS XModem, TLAPS

\* How far xmodem_send() has read, and that it knows the check type before it
\* builds a packet.
SenderInv ==
  /\ spc \in {"off", "handshake"} => sent = 0
  /\ spc = "read" => sent <= file
  /\ spc \in {"send", "await", "can"} => sent >= 1
  /\ spc \in {"read", "send", "await", "can"} => sendCheck \in {"SUM8", "CRC16"}

IInv == TypeOK /\ SenderInv

-----------------------------------------------------------------------------
(* Messages and lines.                                                     *)

\* Control bytes and garbage are messages.
LEMMA ByteIsMessage ==
  ASSUME NEW b \in {"EOT", "ACK", "NAK", "CAN", "CRC", "noise"}
  PROVE  Byte(b) \in Messages
BY DEF Byte, Messages

\* A message with a packet's header carries a packet's fields.
LEMMA PacketFields ==
  ASSUME NEW m \in Messages, m.type = "SOH"
  PROVE  m.blk \in 0..(BlkMod - 1) /\ m.data \in 1..MaxBlocks
BY DEF Messages

\* Packets with the blocks of the file are messages.
LEMMA PacketIsMessage ==
  ASSUME NEW n \in 1..MaxBlocks, sendCheck \in {"SUM8", "CRC16"}
  PROVE  Packet(n) \in Messages
<1>1. n % BlkMod \in 0..(BlkMod - 1)
  BY XModemAssumption
<1>2. QED
  BY <1>1 DEF Packet, Messages

\* The CANs of an abort.
LEMMA CancelIsLine == Cancel \in Seq(Messages)
<1>1. Byte("CAN") \in Messages
  BY ByteIsMessage
<1>2. CanCount \in Nat
  BY XModemAssumption
<1>3. QED
  BY <1>1, <1>2 DEF Cancel

\* What purge_rx() leaves on a line is a line.
LEMMA PurgeIsLine ==
  ASSUME NEW q \in Seq(Messages), NEW p \in Purge(q)
  PROVE  p \in Seq(Messages)
<1>1. PICK k \in 1..(Len(q) + 1) : p = SubSeq(q, k, Len(q))
  BY DEF Purge
<1>2. QED
  BY <1>1

\* The packet counter keeps within uint8_t.
LEMMA NextBlkInRange ==
  ASSUME NEW b \in 0..(BlkMod - 1)
  PROVE  NextBlk(b) \in 0..(BlkMod - 1)
BY XModemAssumption DEF NextBlk

-----------------------------------------------------------------------------
(* The inductive invariant.                                                *)

LEMMA IInvInit == Init => IInv
<1> SUFFICES ASSUME Init PROVE IInv
  OBVIOUS
<1>1. TypeOK
  <2>1. <<>> \in Seq(Messages) /\ <<>> \in Seq(1..MaxBlocks)
    OBVIOUS
  <2>2. 1 \in 0..(BlkMod - 1) /\ 0 \in 0..MaxRetry /\ 0 \in 0..MaxFaults
    BY XModemAssumption
  <2>3. file \in 0..MaxBlocks /\ 0 \in 0..(file + 1)
    BY XModemAssumption DEF Init
  <2>4. QED
    BY <2>1, <2>2, <2>3 DEF Init, TypeOK
<1>2. SenderInv
  BY DEF Init, SenderInv
<1>3. QED
  BY <1>1, <1>2 DEF IInv

\* The link loses, garbles or invents a message.
LEMMA LinkStep ==
  ASSUME IInv,
         LosePacket \/ GarblePacket \/ LoseReply \/ GarbleReply \/ StrayNoise
  PROVE  IInv'
<1> USE DEF linkVars, sendVars, recvVars, loopVars, sinkVars, LinkFault
<1>1. Noise \in Messages
  BY ByteIsMessage DEF Noise
<1>2. faults \in Nat /\ MaxFaults \in Nat /\ toReceiver \in Seq(Messages)
      /\ toSender \in Seq(Messages)
  BY XModemAssumption DEF IInv, TypeOK
<1>3. toReceiver' \in Seq(Messages) /\ toSender' \in Seq(Messages)
  <2>1. CASE LosePacket
    BY <1>2, <2>1 DEF LosePacket
  <2>2. CASE GarblePacket
    BY <1>1, <1>2, <2>2 DEF GarblePacket
  <2>3. CASE LoseReply
    BY <1>2, <2>3 DEF LoseReply
  <2>4. CASE GarbleReply
    BY <1>1, <1>2, <2>4 DEF GarbleReply
  <2>5. CASE StrayNoise
    BY <1>1, <1>2, <2>5 DEF StrayNoise
  <2>6. QED
    BY <2>1, <2>2, <2>3, <2>4, <2>5
<1>4. faults' \in 0..MaxFaults /\ UNCHANGED <<file, sendVars, recvVars>>
  BY <1>2 DEF LosePacket, GarblePacket, LoseReply, GarbleReply, StrayNoise
<1>5. QED
  BY <1>3, <1>4 DEF IInv, TypeOK, SenderInv

\* A step of xmodem_send().
LEMMA SenderStep ==
  ASSUME IInv, SenderStart \/ Sender \/ SenderFails
  PROVE  IInv'
<1> USE DEF linkVars, sendVars, recvVars, loopVars, sinkVars
<1>1. /\ TypeOK /\ SenderInv
      /\ toReceiver \in Seq(Messages) /\ toSender \in Seq(Messages)
      /\ file \in Nat /\ sent \in Nat /\ attempt \in Nat /\ faults \in Nat
      /\ MaxBlocks \in Nat /\ MaxRetry \in Nat /\ MaxFaults \in Nat
      /\ file <= MaxBlocks /\ attempt <= MaxRetry /\ sent <= file + 1
  BY XModemAssumption DEF IInv, TypeOK
<1>2. toReceiver \o Cancel \in Seq(Messages)
  BY <1>1, CancelIsLine
<1>3. toSender # <<>> => Tail(toSender) \in Seq(Messages)
  BY <1>1
<1>4. CASE SenderStart
  BY <1>1, <1>4 DEF SenderStart, IInv, TypeOK, SenderInv
<1>5. CASE Handshake
  BY <1>1, <1>3, <1>5 DEF Handshake, IInv, TypeOK, SenderInv
<1>6. CASE HandshakeUnknown
  <2>1. toSender' \in Seq(Messages)
    BY <1>3, <1>6, PurgeIsLine DEF HandshakeUnknown
  <2>2. QED
    BY <1>1, <1>6, <2>1
       DEF HandshakeUnknown, SenderEnds, Failures, IInv, TypeOK, SenderInv
<1>7. CASE HandshakeTimeout
  BY <1>1, <1>7 DEF HandshakeTimeout, SenderEnds, Failures, IInv, TypeOK, SenderInv
<1>8. CASE Read
  BY <1>1, <1>8 DEF Read, IInv, TypeOK, SenderInv
<1>9. CASE Send
  <2>1. toReceiver' \in Seq(Messages)
    <3>1. CASE sent <= file
      <4>1. sent \in 1..MaxBlocks /\ sendCheck \in {"SUM8", "CRC16"}
        BY <1>1, <1>9, <3>1 DEF Send, SenderInv
      <4>2. Packet(sent) \in Messages
        BY <4>1, PacketIsMessage
      <4>3. QED
        BY <1>1, <1>9, <3>1, <4>2 DEF Send
    <3>2. CASE ~(sent <= file)
      <4>1. Byte("EOT") \in Messages
        BY ByteIsMessage
      <4>2. QED
        BY <1>1, <1>9, <3>2, <4>1 DEF Send
    <3>3. QED
      BY <3>1, <3>2
  <2>2. QED
    BY <1>1, <1>9, <2>1 DEF Send, IInv, TypeOK, SenderInv
<1>10. CASE GotAck
  BY <1>1, <1>3, <1>10
     DEF GotAck, Listening, SenderEnds, IInv, TypeOK, SenderInv
<1>11. CASE GotNak
  <2>1. toReceiver' \in Seq(Messages) /\ toSender' \in Seq(Messages)
    BY <1>1, <1>2, <1>3, <1>11
       DEF GotNak, Listening, SenderAborts, SenderEnds
  <2>2. /\ spc' \in {"send", "done"} /\ attempt' \in 0..MaxRetry
        /\ senderResult' \in Failures \cup {"none", "OK"}
    BY <1>1, <1>11 DEF GotNak, SenderAborts, SenderEnds, Failures, TypeOK
  <2>3. QED
    BY <1>1, <1>11, <2>1, <2>2 DEF GotNak, Listening, IInv, TypeOK, SenderInv
<1>12. CASE GotCan
  BY <1>1, <1>3, <1>12
     DEF GotCan, Listening, SenderEnds, Failures, IInv, TypeOK, SenderInv
<1>13. CASE GotUnknown
  BY <1>1, <1>3, <1>13 DEF GotUnknown, Listening, IInv, TypeOK, SenderInv
<1>14. CASE LoneCan
  BY <1>1, <1>14 DEF LoneCan, IInv, TypeOK, SenderInv
<1>15. CASE ResponseTimeout
  BY <1>1, <1>2, <1>15
     DEF ResponseTimeout, SenderAborts, SenderEnds, Failures, IInv, TypeOK, SenderInv
<1>16. CASE SenderFails
  <2>1. toReceiver' \in Seq(Messages)
    BY <1>1, <1>2, <1>16 DEF SenderFails
  <2>2. QED
    BY <1>1, <1>16, <2>1
       DEF SenderFails, SenderEnds, Failures, IInv, TypeOK, SenderInv
<1>17. QED
  BY <1>4, <1>5, <1>6, <1>7, <1>8, <1>9, <1>10, <1>11, <1>12, <1>13, <1>14,
     <1>15, <1>16 DEF Sender

\* What a receiver does with a bad packet.
LEMMA RetryTypes ==
  ASSUME TypeOK, NEW q \in Seq(Messages), Retry(q)
  PROVE  /\ toReceiver' \in Seq(Messages) /\ toSender' \in Seq(Messages)
         /\ packet_started' \in BOOLEAN /\ tries' \in 0..MaxRetry
         /\ request' \in {"ACK", "NAK", "CRC"}
         /\ rpc' \in {"request", "done"}
         /\ receiverResult' \in Failures \cup {"none", "OK"}
         /\ UNCHANGED <<file, faults, sendVars, handshaking, recvCheck, sinkVars>>
<1>1. toReceiver' \in Seq(Messages)
  BY PurgeIsLine DEF Retry
<1>2. toSender \o Cancel \in Seq(Messages) /\ toSender \in Seq(Messages)
  BY CancelIsLine DEF TypeOK
<1>3. CASE tries < MaxRetry
  BY <1>1, <1>2, <1>3, XModemAssumption DEF Retry, TypeOK
<1>4. CASE ~(tries < MaxRetry)
  BY <1>1, <1>2, <1>4 DEF Retry, ReceiverAborts, ReceiverEnds, Failures, TypeOK
<1>5. QED
  BY <1>3, <1>4

\* recv_packet() starts with its counters in range.
LEMMA CallTypes ==
  ASSUME NEW r \in {"ACK", "NAK", "CRC"}, NEW k \in {"SUM8", "CRC16"},
         CallRecvPacket(r, k)
  PROVE  /\ rpc' = "request" /\ request' \in {"ACK", "NAK", "CRC"}
         /\ recvCheck' \in {"SUM8", "CRC16"}
         /\ packet_started' \in BOOLEAN /\ tries' \in 0..MaxRetry
<1>1. packet_started' \in BOOLEAN
  BY Zenon DEF CallRecvPacket
<1>2. tries' \in 0..MaxRetry
  BY XModemAssumption DEF CallRecvPacket
<1>3. QED
  BY <1>1, <1>2 DEF CallRecvPacket

\* A step of xmodem_recv().
LEMMA ReceiverStep ==
  ASSUME IInv, ReceiverStart \/ Receiver \/ ReceiverFails
  PROVE  IInv'
<1> USE DEF linkVars, sendVars, recvVars, loopVars, sinkVars
<1>1. /\ TypeOK /\ SenderInv
      /\ toReceiver \in Seq(Messages) /\ toSender \in Seq(Messages)
      /\ delivered \in Seq(1..MaxBlocks)
      /\ tries \in Nat /\ faults \in Nat /\ tries <= MaxRetry
      /\ MaxRetry \in Nat /\ MaxFaults \in Nat
  BY XModemAssumption DEF IInv, TypeOK
<1>2. toSender \o Cancel \in Seq(Messages)
  BY <1>1, CancelIsLine
<1>3. Arrived => /\ Tail(toReceiver) \in Seq(Messages)
                 /\ Head(toReceiver) \in Messages
  BY <1>1 DEF Arrived
<1>4. CASE ReceiverStart
  BY <1>1, <1>4 DEF ReceiverStart, IInv, TypeOK, SenderInv
<1>5. CASE Request
  <2>1. Byte(request) \in Messages
    BY <1>1, ByteIsMessage DEF TypeOK
  <2>2. QED
    BY <1>1, <1>5, <2>1 DEF Request, IInv, TypeOK, SenderInv
<1>6. CASE GotEot
  BY <1>1, <1>3, <1>6 DEF GotEot, IInv, TypeOK, SenderInv
<1>7. CASE AckEot
  <2>1. Byte("ACK") \in Messages
    BY ByteIsMessage
  <2>2. QED
    BY <1>1, <1>7, <2>1 DEF AckEot, ReceiverEnds, IInv, TypeOK, SenderInv
<1>8. CASE Accept
  <2>1. UNCHANGED sinkVars \/ /\ delivered' = Append(delivered, Head(toReceiver).data)
                              /\ last_blk' = blk /\ blk' = NextBlk(blk)
    BY <1>8 DEF Accept
  <2>2. Head(toReceiver).data \in 1..MaxBlocks
    BY <1>3, <1>8, PacketFields DEF Accept, GoodPacket
  <2>3. NextBlk(blk) \in 0..(BlkMod - 1)
    BY <1>1, NextBlkInRange DEF TypeOK
  <2>4. /\ delivered' \in Seq(1..MaxBlocks)
        /\ blk' \in 0..(BlkMod - 1) /\ last_blk' \in 0..(BlkMod - 1)
    <3>1. CASE UNCHANGED sinkVars
      BY <1>1, <3>1 DEF TypeOK
    <3>2. CASE /\ delivered' = Append(delivered, Head(toReceiver).data)
               /\ last_blk' = blk /\ blk' = NextBlk(blk)
      <4>1. delivered' \in Seq(1..MaxBlocks)
        BY <1>1, <2>2, <3>2
      <4>2. QED
        BY <1>1, <2>3, <3>2, <4>1 DEF TypeOK
    <3>3. QED
      BY <2>1, <3>1, <3>2
  <2>5. CallRecvPacket("ACK", recvCheck) /\ recvCheck \in {"SUM8", "CRC16"}
    BY <1>1, <1>8 DEF Accept, TypeOK
  <2>6. /\ rpc' = "request" /\ request' \in {"ACK", "NAK", "CRC"}
        /\ recvCheck' \in {"SUM8", "CRC16"}
        /\ packet_started' \in BOOLEAN /\ tries' \in 0..MaxRetry
    BY <2>5, CallTypes
  <2>7. handshaking' \in BOOLEAN
    BY <1>8, Zenon DEF Accept
  <2>8. /\ toReceiver' \in Seq(Messages)
        /\ UNCHANGED <<file, toSender, faults, sendVars, receiverResult>>
    BY <1>3, <1>8 DEF Accept
  <2>9. QED
    BY <1>1, <2>4, <2>6, <2>7, <2>8 DEF IInv, TypeOK, SenderInv
<1>9. CASE Reject
  <2>1. /\ rpc' = "done" /\ receiverResult' \in Failures
        /\ toSender' \in Seq(Messages)
    BY <1>2, <1>9 DEF Reject, ReceiverAborts, ReceiverEnds, Failures
  <2>2. QED
    BY <1>1, <1>3, <1>9, <2>1 DEF Reject, IInv, TypeOK, SenderInv
<1>10. CASE GotFirstCan
  BY <1>1, <1>3, <1>10 DEF GotFirstCan, IInv, TypeOK, SenderInv
<1>11. CASE GotSecondCan
  BY <1>1, <1>3, <1>11
     DEF GotSecondCan, ReceiverEnds, Failures, IInv, TypeOK, SenderInv
<1>12. CASE BadPacket
  <2>1. Retry(Tail(toReceiver))
    BY <1>12 DEF BadPacket
  <2>2. Tail(toReceiver) \in Seq(Messages)
    BY <1>3, <1>12 DEF BadPacket
  <2>3. QED
    BY <1>1, <2>1, <2>2, RetryTypes DEF IInv, TypeOK, SenderInv
<1>13. CASE SpuriousCan
  <2>1. Noise \in Messages
    BY ByteIsMessage DEF Noise
  <2>2. PICK q \in Seq(Messages) : Retry(q)
    <3>1. CASE ~Arrived /\ Retry(<<>>)
      <4>1. <<>> \in Seq(Messages)
        OBVIOUS
      <4>2. QED
        BY <3>1, <4>1
    <3>2. CASE ~Prompt /\ Retry(toReceiver)
      BY <1>1, <3>2
    <3>3. CASE /\ Arrived /\ Head(toReceiver).type # "CAN"
               /\ Retry((IF Head(toReceiver).type = "SOH" THEN <<Noise>> ELSE <<>>)
                          \o Tail(toReceiver))
      <4>1. (IF Head(toReceiver).type = "SOH" THEN <<Noise>> ELSE <<>>)
              \o Tail(toReceiver) \in Seq(Messages)
        BY <1>3, <2>1, <3>3
      <4>2. QED
        BY <3>3, <4>1
    <3>4. QED
      BY <1>13, <3>1, <3>2, <3>3 DEF SpuriousCan
  <2>3. QED
    BY <1>1, <2>2, RetryTypes DEF IInv, TypeOK, SenderInv
<1>14. CASE PacketTimeout
  <2>1. /\ toSender' \in Seq(Messages)
        /\ request' \in {"ACK", "NAK", "CRC"} /\ tries' \in 0..MaxRetry
        /\ packet_started' \in BOOLEAN /\ recvCheck' \in {"SUM8", "CRC16"}
        /\ rpc' \in {"request", "done"}
        /\ receiverResult' \in Failures \cup {"none", "OK"}
    <3>1. CASE tries < MaxRetry
      BY <1>1, <1>14, <3>1 DEF PacketTimeout, IdleRequest, TypeOK
    <3>2. CASE CallRecvPacket("NAK", "SUM8") /\ UNCHANGED <<toSender, receiverResult>>
      BY <1>1, <3>2, CallTypes DEF TypeOK
    <3>3. CASE \E result \in Failures :
                 ReceiverAborts(result) /\ UNCHANGED <<recvCheck, loopVars>>
      BY <1>1, <1>2, <3>3 DEF ReceiverAborts, ReceiverEnds, TypeOK
    <3>4. QED
      BY <1>14, <3>1, <3>2, <3>3 DEF PacketTimeout, Failures
  <2>2. QED
    BY <1>1, <1>14, <2>1 DEF PacketTimeout, IInv, TypeOK, SenderInv
<1>15. CASE ReceiverFails
  <2>1. toSender' \in Seq(Messages)
    BY <1>1, <1>2, <1>15 DEF ReceiverFails
  <2>2. QED
    BY <1>1, <1>15, <2>1
       DEF ReceiverFails, ReceiverEnds, Failures, IInv, TypeOK, SenderInv
<1>16. QED
  BY <1>4, <1>5, <1>6, <1>7, <1>8, <1>9, <1>10, <1>11, <1>12, <1>13, <1>14,
     <1>15 DEF Receiver

\* Nothing happens.
LEMMA Stutter ==
  ASSUME IInv, UNCHANGED vars
  PROVE  IInv'
BY DEF IInv, TypeOK, SenderInv, vars, linkVars, sendVars, recvVars, loopVars, sinkVars

LEMMA IInvStep == IInv /\ [Next]_vars => IInv'
BY LinkStep, SenderStep, ReceiverStep, Stutter DEF Next, Done

\* Every variable of both functions and of the link keeps its type, counters
\* stay in range, and the lines carry only messages of the protocol.
THEOREM TypeCorrect == Spec => []TypeOK
<1>1. IInv => TypeOK
  BY DEF IInv
<1>2. QED
  BY IInvInit, IInvStep, <1>1, PTL DEF Spec

-----------------------------------------------------------------------------
(* Stop and wait.  A CRC receiver asks with 'C', which xmodem_send() never  *)
(* takes for an answer; on a prompt line without noise of its own there is  *)
(* then one token: a packet on its way, an answer to be given, an answer on *)
(* its way, or a sender that has the answer.  It may get lost, and is made  *)
(* anew only when nothing is under way.                                     *)

Tuned == CheckType = "CRC16" /\ Prompt = TRUE /\ LineNoise = FALSE

Count == Len(delivered)

\* The messages on line q.
On(q) == {q[i] : i \in 1..Len(q)}

IsAnswer(m) == m.type \in {"ACK", "NAK"}

OneAnswer(q) ==
  \A i, j \in 1..Len(q) : IsAnswer(q[i]) /\ IsAnswer(q[j]) => i = j

\* Behind the first message of q there are CANs, or what became of them.
OnePacket(q) == \A i \in 1..Len(q) : i > 1 => q[i].type \in {"CAN", "noise"}

\* The receiver is about to answer.
Answering == (rpc = "request" /\ request \in {"ACK", "NAK"}) \/ rpc = "ack_eot"

\* An answer is on its way.
Answered == \E m \in On(toSender) : IsAnswer(m)

\* The receiver asks for CRCs, and nothing else happens before a handshake.
HandshakeInv ==
  /\ recvCheck = "CRC16"
  /\ rpc = "off" => request = "CRC"
  /\ spc \in {"read", "send", "await", "can"} => sendCheck = "CRC16"
  /\ spc \in {"off", "handshake"} =>
       /\ toReceiver = <<>> /\ delivered = <<>>
       /\ handshaking = TRUE /\ packet_started = FALSE

\* CANs come from a function that is about to return.
CancelInv ==
  /\ \A m \in On(toReceiver) : m.type = "CAN" => spc = "done"
  /\ \A m \in On(toSender) : m.type = "CAN" => rpc = "done"
  /\ rpc = "can" => spc = "done"

\* Packet m is the sender's last, which is the next for the sink or the one
\* it has last.
IsCurrent(m) ==
  /\ m.type = "SOH" =>
       /\ m.check = "CRC16" /\ m.blk = m.data % BlkMod
       /\ m.data \in {Count, Count + 1} /\ m.data <= file
       /\ spc # "done" => m.data = sent
  /\ m.type = "EOT" => Count = file /\ (spc # "done" => sent = file + 1)

\* One packet at most is on its way.
PacketInv ==
  /\ spc # "done" => Len(toReceiver) <= 1
  /\ OnePacket(toReceiver)
  /\ \A m \in On(toReceiver) : IsCurrent(m)

\* There is one token.
TokenInv ==
  spc # "done" =>
    /\ OneAnswer(toSender)
    /\ spc \notin {"await", "can"} =>
         toReceiver = <<>> /\ ~Answering /\ ~Answered
    /\ toReceiver # <<>> => ~Answering /\ ~Answered
    /\ Answering => ~Answered

\* What an ACK says: the block is in the sink, or the receiver has returned.
AckInv ==
  /\ spc \in {"await", "can"} =>
       /\ \A m \in On(toSender) : m.type = "ACK" =>
            IF sent <= file THEN sent = Count ELSE receiverResult = "OK"
       /\ rpc = "request" /\ request = "ACK" => sent = Count /\ sent <= file
  /\ rpc = "ack_eot" => Count = file /\ (spc # "done" => sent = file + 1)
  /\ receiverResult = "OK" => Count = file
  /\ senderResult = "OK" => receiverResult = "OK"
  /\ spc = "done" <=> senderResult # "none"
  /\ rpc = "done" <=> receiverResult # "none"

\* Where both sides are in the file.
SyncInv ==
  /\ spc = "read" => sent = Count
  /\ SenderNotAhead
  /\ DeliveredInOrder
  /\ Count <= file
  /\ blk = (Count + 1) % BlkMod
  /\ Count > 0 => last_blk = Count % BlkMod

StopAndWaitInv ==
  HandshakeInv /\ CancelInv /\ PacketInv /\ TokenInv /\ AckInv /\ SyncInv

-----------------------------------------------------------------------------
(* What the steps do to a line.                                            *)

\* p is what is left of line q: a suffix, of which some may be garbled.
Left(p, q) ==
  \E k \in Nat : /\ Len(p) + k = Len(q)
                 /\ \A i \in 1..Len(p) : p[i] = q[i + k] \/ p[i].type = "noise"

LEMMA LeftSame ==
  ASSUME NEW q \in Seq(Messages)
  PROVE  Left(q, q)
<1>1. Len(q) + 0 = Len(q) /\ \A i \in 1..Len(q) : q[i] = q[i + 0]
  OBVIOUS
<1>2. QED
  BY <1>1 DEF Left

LEMMA LeftTail ==
  ASSUME NEW q \in Seq(Messages), q # <<>>
  PROVE  Left(Tail(q), q)
<1>1. Len(Tail(q)) + 1 = Len(q)
      /\ \A i \in 1..Len(Tail(q)) : Tail(q)[i] = q[i + 1]
  OBVIOUS
<1>2. QED
  BY <1>1 DEF Left

LEMMA LeftNoise ==
  ASSUME NEW q \in Seq(Messages), q # <<>>
  PROVE  Left(<<Noise>> \o Tail(q), q)
<1> DEFINE p == <<Noise>> \o Tail(q)
<1>1. Noise \in Messages /\ Noise.type = "noise"
  BY ByteIsMessage DEF Noise, Byte
<1>2. Tail(q) \in Seq(Messages) /\ Len(Tail(q)) = Len(q) - 1
  OBVIOUS
<1>3. Len(p) + 0 = Len(q)
  BY <1>1, <1>2
<1>4. ASSUME NEW i \in 1..Len(p)
      PROVE  p[i] = q[i + 0] \/ p[i].type = "noise"
  <2>1. CASE i = 1
    BY <1>1, <1>2, <2>1
  <2>2. CASE i # 1
    <3>1. p[i] = Tail(q)[i - 1]
      BY <1>1, <1>2, <1>3, <2>2
    <3>2. QED
      BY <1>2, <1>3, <2>2, <3>1
  <2>3. QED
    BY <2>1, <2>2
<1>5. QED
  BY <1>3, <1>4 DEF Left

LEMMA LeftPurge ==
  ASSUME NEW q \in Seq(Messages), NEW p \in Purge(q)
  PROVE  Left(p, q)
<1>1. PICK k \in 1..(Len(q) + 1) : p = SubSeq(q, k, Len(q))
  BY DEF Purge
<1>2. Len(p) + (k - 1) = Len(q) /\ \A i \in 1..Len(p) : p[i] = q[i + (k - 1)]
  BY <1>1
<1>3. k - 1 \in Nat
  OBVIOUS
<1>4. QED
  BY <1>2, <1>3 DEF Left

LEMMA LeftOfLeft ==
  ASSUME NEW p \in Seq(Messages), NEW q \in Seq(Messages), NEW r \in Seq(Messages),
         Left(p, q), Left(q, r)
  PROVE  Left(p, r)
<1>1. PICK k \in Nat : /\ Len(p) + k = Len(q)
                       /\ \A i \in 1..Len(p) : p[i] = q[i + k] \/ p[i].type = "noise"
  BY DEF Left
<1>2. PICK l \in Nat : /\ Len(q) + l = Len(r)
                       /\ \A i \in 1..Len(q) : q[i] = r[i + l] \/ q[i].type = "noise"
  BY DEF Left
<1>3. Len(p) + (k + l) = Len(r) /\ k + l \in Nat
  <2>1. Len(p) \in Nat /\ Len(q) \in Nat /\ Len(r) \in Nat
    OBVIOUS
  <2>2. Len(p) + k = Len(q) /\ Len(q) + l = Len(r)
    BY <1>1, <1>2
  <2>3. QED
    BY <2>1, <2>2
<1>4. ASSUME NEW i \in 1..Len(p)
      PROVE  p[i] = r[i + (k + l)] \/ p[i].type = "noise"
  <2>1. i + k \in 1..Len(q) /\ (i + k) + l = i + (k + l)
    BY <1>1
  <2>2. QED
    BY <1>1, <1>2, <2>1
<1>5. QED
  BY <1>3, <1>4 DEF Left

\* Nothing but garbage is new on what is left of a line.
LEMMA LeftLine ==
  ASSUME NEW p \in Seq(Messages), NEW q \in Seq(Messages), Left(p, q)
  PROVE  /\ \A m \in On(p) : m \in On(q) \/ m.type = "noise"
         /\ (\E m \in On(p) : IsAnswer(m)) => \E m \in On(q) : IsAnswer(m)
         /\ OneAnswer(q) => OneAnswer(p)
         /\ OnePacket(q) => OnePacket(p)
         /\ Len(p) <= Len(q)
<1>1. PICK k \in Nat : /\ Len(p) + k = Len(q)
                       /\ \A i \in 1..Len(p) : p[i] = q[i + k] \/ p[i].type = "noise"
  BY DEF Left
<1>2. Len(p) \in Nat /\ Len(q) \in Nat
  OBVIOUS
<1>3. \A i \in 1..Len(p) : i + k \in 1..Len(q)
  BY <1>1, <1>2
<1>4. \A m \in On(p) : m \in On(q) \/ m.type = "noise"
  BY <1>1, <1>3 DEF On
<1>5. (\E m \in On(p) : IsAnswer(m)) => \E m \in On(q) : IsAnswer(m)
  BY <1>4 DEF IsAnswer
<1>6. ASSUME OneAnswer(q), NEW i \in 1..Len(p), NEW j \in 1..Len(p),
             IsAnswer(p[i]), IsAnswer(p[j])
      PROVE  i = j
  <2>1. p[i] = q[i + k] /\ p[j] = q[j + k]
    BY <1>1, <1>6 DEF IsAnswer
  <2>2. i + k = j + k
    BY <1>3, <1>6, <2>1 DEF OneAnswer
  <2>3. QED
    BY <2>2
<1>7. ASSUME OnePacket(q), NEW i \in 1..Len(p), i > 1
      PROVE  p[i].type \in {"CAN", "noise"}
  <2>1. i + k \in 1..Len(q) /\ i + k > 1
    BY <1>3, <1>7
  <2>2. QED
    BY <1>1, <1>7, <2>1 DEF OnePacket
<1>8. Len(p) <= Len(q)
  BY <1>1, <1>2
<1>9. QED
  BY <1>4, <1>5, <1>6, <1>7, <1>8 DEF OneAnswer, OnePacket

\* A message at the end of a line.
LEMMA AppendLine ==
  ASSUME NEW q \in Seq(Messages), NEW m \in Messages
  PROVE  /\ On(Append(q, m)) = On(q) \cup {m}
         /\ ~IsAnswer(m) /\ OneAnswer(q) => OneAnswer(Append(q, m))
         /\ ~(\E n \in On(q) : IsAnswer(n)) => OneAnswer(Append(q, m))
         /\ q = <<>> => OnePacket(Append(q, m)) /\ Len(Append(q, m)) = 1
<1> DEFINE p == Append(q, m)
<1>1. /\ p \in Seq(Messages) /\ Len(q) \in Nat /\ Len(p) = Len(q) + 1
      /\ p[Len(q) + 1] = m /\ \A i \in 1..Len(q) : p[i] = q[i]
  OBVIOUS
<1> HIDE DEF p
<1>2. On(p) = On(q) \cup {m}
  <2>1. ASSUME NEW n \in On(p) PROVE n \in On(q) \cup {m}
    BY <1>1 DEF On
  <2>2. ASSUME NEW n \in On(q) \cup {m} PROVE n \in On(p)
    BY <1>1 DEF On
  <2>3. QED
    BY <2>1, <2>2
<1>3. ~IsAnswer(m) /\ OneAnswer(q) => OneAnswer(p)
  BY <1>1 DEF OneAnswer
<1>4. ASSUME ~(\E n \in On(q) : IsAnswer(n)) PROVE OneAnswer(p)
  <2>1. \A i \in 1..Len(p) : IsAnswer(p[i]) => i = Len(q) + 1
    BY <1>1, <1>4 DEF On
  <2>2. QED
    BY <2>1 DEF OneAnswer
<1>5. q = <<>> => OnePacket(p) /\ Len(p) = 1
  BY <1>1 DEF OnePacket
<1>6. QED
  BY <1>2, <1>3, <1>4, <1>5 DEF p

\* The CANs of an abort at the end of a line.
LEMMA CancelLine ==
  ASSUME NEW q \in Seq(Messages)
  PROVE  /\ \A m \in On(q \o Cancel) : m \in On(q) \/ m.type = "CAN"
         /\ OneAnswer(q) => OneAnswer(q \o Cancel)
         /\ OnePacket(q) => OnePacket(q \o Cancel)
<1> DEFINE p == q \o Cancel
<1>1. CanCount \in Nat /\ Cancel \in Seq(Messages) /\ Len(Cancel) = CanCount
  BY XModemAssumption, CancelIsLine DEF Cancel
<1>2. \A i \in 1..CanCount : Cancel[i].type = "CAN"
  BY DEF Cancel, Byte
<1>3. Len(p) = Len(q) + CanCount /\ Len(q) \in Nat /\ \A i \in 1..Len(q) : p[i] = q[i]
  BY <1>1
<1>4. ASSUME NEW i \in 1..Len(p), i > Len(q)
      PROVE  p[i].type = "CAN"
  <2>1. p[i] = Cancel[i - Len(q)] /\ i - Len(q) \in 1..CanCount
    BY <1>1, <1>3, <1>4
  <2>2. QED
    BY <1>2, <2>1
<1> HIDE DEF p
<1>5. \A m \in On(p) : m \in On(q) \/ m.type = "CAN"
  BY <1>3, <1>4 DEF On
<1>6. OneAnswer(q) => OneAnswer(p)
  <2>1. \A i \in 1..Len(p) : IsAnswer(p[i]) => i \in 1..Len(q) /\ p[i] = q[i]
    BY <1>3, <1>4 DEF IsAnswer
  <2>2. QED
    BY <2>1 DEF OneAnswer
<1>7. OnePacket(q) => OnePacket(p)
  BY <1>3, <1>4 DEF OnePacket
<1>8. QED
  BY <1>5, <1>6, <1>7 DEF p

\* A packet number and the next one differ, and counting is modular.
LEMMA NextBlkOf ==
  ASSUME NEW n \in Nat
  PROVE  /\ NextBlk(n % BlkMod) = (n + 1) % BlkMod
         /\ n % BlkMod # (n + 1) % BlkMod
<1>1. BlkMod \in Nat /\ BlkMod > 2
  BY XModemAssumption
<1>2. PICK q \in Nat, r \in 0..(BlkMod - 1) : n = BlkMod * q + r
  <2>1. n = BlkMod * (n \div BlkMod) + (n % BlkMod)
    BY <1>1
  <2>2. n \div BlkMod \in Nat /\ n % BlkMod \in 0..(BlkMod - 1)
    BY <1>1
  <2>3. QED
    BY <2>1, <2>2
<1>3. n % BlkMod = r
  BY <1>1, <1>2
<1>4. CASE r + 1 < BlkMod
  <2>1. n + 1 = BlkMod * q + (r + 1) /\ r + 1 \in 0..(BlkMod - 1)
    BY <1>1, <1>2, <1>4
  <2>2. (n + 1) % BlkMod = r + 1
    BY <1>1, <1>2, <2>1
  <2>3. (r + 1) % BlkMod = r + 1
    BY <1>1, <2>1
  <2>4. QED
    BY <1>1, <1>2, <1>3, <2>2, <2>3 DEF NextBlk
<1>5. CASE r + 1 = BlkMod
  <2>1. n + 1 = BlkMod * (q + 1) /\ q + 1 \in Nat
    BY <1>1, <1>2, <1>5
  <2>2. \A p \in Nat : (BlkMod * p) % BlkMod = 0
    BY <1>1
  <2>3. (n + 1) % BlkMod = 0 /\ (r + 1) % BlkMod = 0
    <3>1. (n + 1) % BlkMod = 0
      BY <2>1, <2>2
    <3>2. (r + 1) % BlkMod = 0
      BY <1>1, <1>5
    <3>3. QED
      BY <3>1, <3>2
  <2>4. QED
    BY <1>1, <1>2, <1>3, <1>5, <2>3 DEF NextBlk
<1>6. QED
  BY <1>1, <1>2, <1>4, <1>5

-----------------------------------------------------------------------------
(* The invariant of stop and wait is inductive.                            *)

LEMMA StopAndWaitInit ==
  ASSUME Tuned, Init
  PROVE  StopAndWaitInv
<1>1. On(toReceiver) = {} /\ On(toSender) = {} /\ Count = 0
  BY DEF Init, On, Count
<1>2. 1 % BlkMod = 1 /\ file \in Nat
  BY XModemAssumption DEF Init
<1>3. HandshakeInv /\ CancelInv
  BY <1>1 DEF Tuned, Init, HandshakeInv, CancelInv
<1>4. PacketInv /\ TokenInv
  BY <1>1 DEF Tuned, Init, PacketInv, TokenInv, OnePacket, OneAnswer, Answering, Answered
<1>5. AckInv
  BY <1>1 DEF Init, AckInv
<1>6. SyncInv
  BY <1>1, <1>2 DEF Init, SyncInv, SenderNotAhead, DeliveredInOrder, Count
<1>7. QED
  BY <1>3, <1>4, <1>5, <1>6 DEF StopAndWaitInv

\* Nothing but the lines changes, and they get no more than garbage.
LEMMA LinesShrink ==
  ASSUME StopAndWaitInv, TypeOK, TypeOK',
         Left(toReceiver', toReceiver), Left(toSender', toSender),
         UNCHANGED <<file, sendVars, recvVars>>
  PROVE  StopAndWaitInv'
<1> USE DEF sendVars, recvVars, loopVars, sinkVars
<1>1. /\ toReceiver \in Seq(Messages) /\ toReceiver' \in Seq(Messages)
      /\ toSender \in Seq(Messages) /\ toSender' \in Seq(Messages)
  BY DEF TypeOK
<1>2. /\ \A m \in On(toReceiver') : m \in On(toReceiver) \/ m.type = "noise"
      /\ OnePacket(toReceiver) => OnePacket(toReceiver')
      /\ Len(toReceiver') <= Len(toReceiver)
      /\ toReceiver = <<>> => toReceiver' = <<>>
  <2>1. Len(toReceiver') <= Len(toReceiver) => (toReceiver = <<>> => toReceiver' = <<>>)
    BY <1>1
  <2>2. QED
    BY <1>1, <2>1, LeftLine
<1>3. /\ \A m \in On(toSender') : m \in On(toSender) \/ m.type = "noise"
      /\ Answered' => Answered
      /\ OneAnswer(toSender) => OneAnswer(toSender')
  BY <1>1, LeftLine DEF Answered
<1>4. HandshakeInv'
  BY <1>2 DEF StopAndWaitInv, HandshakeInv
<1>5. CancelInv'
  BY <1>2, <1>3 DEF StopAndWaitInv, CancelInv
<1>6. PacketInv'
  <2>1. Len(toReceiver) \in Nat /\ Len(toReceiver') \in Nat
    BY <1>1
  <2>2. \A m \in On(toReceiver') : IsCurrent(m)'
    BY <1>2 DEF StopAndWaitInv, PacketInv, IsCurrent, Count
  <2>3. QED
    BY <1>2, <2>1, <2>2 DEF StopAndWaitInv, PacketInv
<1>7. TokenInv'
  BY <1>2, <1>3 DEF StopAndWaitInv, TokenInv, Answering
<1>8. AckInv'
  BY <1>3 DEF StopAndWaitInv, AckInv, Count
<1>9. SyncInv'
  BY DEF StopAndWaitInv, SyncInv, SenderNotAhead, DeliveredInOrder, Count
<1>10. QED
  BY <1>4, <1>5, <1>6, <1>7, <1>8, <1>9 DEF StopAndWaitInv

\* The link loses or garbles a message.
LEMMA StopAndWaitLink ==
  ASSUME Tuned, IInv, IInv', StopAndWaitInv,
         LosePacket \/ GarblePacket \/ LoseReply \/ GarbleReply \/ StrayNoise
  PROVE  StopAndWaitInv'
<1>1. TypeOK /\ TypeOK' /\ toReceiver \in Seq(Messages) /\ toSender \in Seq(Messages)
  BY DEF IInv, TypeOK
<1>2. ~StrayNoise
  BY DEF Tuned, StrayNoise
<1>3. UNCHANGED <<file, sendVars, recvVars>>
  BY DEF LosePacket, GarblePacket, LoseReply, GarbleReply, StrayNoise, LinkFault
<1>4. Left(toReceiver', toReceiver)
  BY <1>1, <1>2, LeftSame, LeftTail, LeftNoise
     DEF LosePacket, GarblePacket, LoseReply, GarbleReply
<1>5. Left(toSender', toSender)
  BY <1>1, <1>2, LeftSame, LeftTail, LeftNoise
     DEF LosePacket, GarblePacket, LoseReply, GarbleReply
<1>6. QED
  BY <1>1, <1>3, <1>4, <1>5, LinesShrink

\* The sender takes its head message off the line, or more.
LEMMA TakeReply ==
  ASSUME TypeOK, TypeOK', toSender # <<>>, Left(toSender', toSender)
  PROVE  /\ \A m \in On(toSender') : m \in On(toSender) \/ m.type = "noise"
         /\ Answered' => Answered
         /\ OneAnswer(toSender) => OneAnswer(toSender')
         /\ Head(toSender) \in On(toSender)
<1>1. toSender \in Seq(Messages) /\ toSender' \in Seq(Messages)
  BY DEF TypeOK
<1>2. Head(toSender) \in On(toSender)
  BY <1>1 DEF On
<1>3. QED
  BY <1>1, <1>2, LeftLine DEF Answered

\* When the sender takes the answer there is no other.
LEMMA TakeAnswer ==
  ASSUME TypeOK, OneAnswer(toSender), toSender # <<>>, IsAnswer(Head(toSender)),
         toSender' = Tail(toSender)
  PROVE  Answered /\ ~Answered'
<1>1. /\ toSender \in Seq(Messages) /\ Tail(toSender) \in Seq(Messages)
      /\ 1 \in 1..Len(toSender) /\ toSender[1] = Head(toSender)
      /\ \A i \in 1..Len(Tail(toSender)) :
           i + 1 \in 1..Len(toSender) /\ Tail(toSender)[i] = toSender[i + 1]
  BY DEF TypeOK
<1>2. Answered
  BY <1>1 DEF Answered, On
<1>3. ASSUME NEW i \in 1..Len(Tail(toSender)), IsAnswer(Tail(toSender)[i])
      PROVE  FALSE
  <2>1. IsAnswer(toSender[i + 1]) /\ IsAnswer(toSender[1])
    BY <1>1, <1>3
  <2>2. i + 1 = 1
    BY <1>1, <2>1 DEF OneAnswer
  <2>3. QED
    BY <2>2
<1>4. ~Answered'
  BY <1>3 DEF Answered, On
<1>5. QED
  BY <1>2, <1>4

\* What the steps below know of the state before them.
LEMMA IInvFacts ==
  ASSUME IInv, IInv', StopAndWaitInv
  PROVE  /\ TypeOK /\ TypeOK' /\ SenderInv
         /\ HandshakeInv /\ CancelInv /\ PacketInv /\ TokenInv /\ AckInv /\ SyncInv
         /\ toReceiver \in Seq(Messages) /\ toSender \in Seq(Messages)
         /\ delivered \in Seq(1..MaxBlocks) /\ Count \in Nat
         /\ file \in Nat /\ sent \in Nat
<1>1. TypeOK /\ TypeOK' /\ SenderInv
  BY DEF IInv
<1>2. file \in 0..MaxBlocks /\ sent \in 0..(file + 1) /\ delivered \in Seq(1..MaxBlocks)
  BY <1>1 DEF TypeOK
<1>3. file \in Nat /\ sent \in Nat /\ Count \in Nat
  BY <1>2, XModemAssumption DEF Count
<1>4. QED
  BY <1>1, <1>2, <1>3 DEF StopAndWaitInv, TypeOK

\* Until it has a handshake, and when it reads and sends.
LEMMA StopAndWaitSends ==
  ASSUME Tuned, IInv, IInv', StopAndWaitInv,
         SenderStart \/ Handshake \/ HandshakeUnknown \/ HandshakeTimeout \/ Read \/ Send
  PROVE  StopAndWaitInv'
<1> USE DEF linkVars, sendVars, recvVars, loopVars, sinkVars
<1>1. /\ TypeOK /\ TypeOK' /\ SenderInv
      /\ HandshakeInv /\ CancelInv /\ PacketInv /\ TokenInv /\ AckInv /\ SyncInv
      /\ toReceiver \in Seq(Messages) /\ toSender \in Seq(Messages)
      /\ delivered \in Seq(1..MaxBlocks) /\ Count \in Nat
      /\ file \in Nat /\ sent \in Nat
  BY IInvFacts
<1>2. CASE SenderStart \/ HandshakeTimeout \/ Read
  <2>1. UNCHANGED <<file, toReceiver, toSender, recvVars, sendCheck>>
        /\ Count' = Count /\ Answering' = Answering /\ Answered' = Answered
    BY <1>2 DEF SenderStart, HandshakeTimeout, Read, Count, Answering, Answered
  <2>2. HandshakeInv'
    BY <1>1, <1>2, <2>1
       DEF SenderStart, HandshakeTimeout, SenderEnds, Read, HandshakeInv
  <2>3. CancelInv' /\ PacketInv'
    <3>1. spc # "done" /\ (spc' = "done" \/ spc' = "handshake" \/ spc' = "send")
          /\ (spc' = "done" \/ toReceiver = <<>>)
      BY <1>1, <1>2
         DEF SenderStart, HandshakeTimeout, SenderEnds, Read, HandshakeInv, TokenInv
    <3>2. toReceiver = <<>> => On(toReceiver) = {}
      BY DEF On
    <3>3. CancelInv'
      BY <1>1, <2>1, <3>1, <3>2 DEF CancelInv
    <3>4. \A m \in On(toReceiver') : IsCurrent(m)'
      BY <1>1, <2>1, <3>1, <3>2 DEF PacketInv, IsCurrent
    <3>5. QED
      BY <1>1, <2>1, <3>1, <3>3, <3>4 DEF PacketInv
  <2>4. TokenInv'
    BY <1>1, <1>2, <2>1
       DEF SenderStart, HandshakeTimeout, SenderEnds, Read, TokenInv
  <2>5. AckInv'
    BY <1>1, <1>2, <2>1
       DEF SenderStart, HandshakeTimeout, SenderEnds, Read, AckInv, TokenInv, Answering
  <2>6. SyncInv'
    <3>1. SenderNotAhead'
      BY <1>1, <1>2, <2>1
         DEF SenderStart, HandshakeTimeout, SenderEnds, Read, SyncInv, SenderNotAhead, Count
    <3>2. QED
      BY <1>1, <1>2, <2>1, <3>1
         DEF SenderStart, HandshakeTimeout, SenderEnds, Read, SyncInv, DeliveredInOrder, Count
  <2>7. QED
    BY <2>2, <2>3, <2>4, <2>5, <2>6 DEF StopAndWaitInv
<1>3. CASE Handshake
  <2>1. Left(toSender', toSender) /\ toSender # <<>>
    BY <1>1, <1>3, LeftTail DEF Handshake
  <2>2. /\ \A m \in On(toSender') : m \in On(toSender) \/ m.type = "noise"
        /\ Answered' => Answered
        /\ OneAnswer(toSender) => OneAnswer(toSender')
        /\ Head(toSender) \in On(toSender)
    BY <1>1, <2>1, TakeReply
  <2>3. Head(toSender).type # "NAK" /\ sent = 0 /\ toReceiver = <<>>
        /\ delivered = <<>> /\ ~Answering /\ ~Answered
    BY <1>1, <1>3, <2>2
       DEF Handshake, HandshakeInv, TokenInv, Answered, IsAnswer, SenderInv
  <2>4. /\ UNCHANGED <<file, toReceiver, recvVars, sent, senderResult>>
        /\ sendCheck' = "CRC16" /\ spc' = "read" /\ spc = "handshake"
        /\ Count' = 0 /\ Count = 0 /\ ~Answering' /\ ~Answered' /\ On(toReceiver') = {}
    BY <1>3, <2>2, <2>3 DEF Handshake, Count, Answering, On
  <2>5. HandshakeInv' /\ CancelInv'
    BY <1>1, <2>2, <2>4 DEF HandshakeInv, CancelInv
  <2>6. PacketInv'
    BY <1>1, <2>4 DEF PacketInv
  <2>7. TokenInv' /\ AckInv'
    BY <1>1, <2>2, <2>3, <2>4 DEF TokenInv, AckInv
  <2>8. SyncInv'
    BY <1>1, <2>3, <2>4 DEF SyncInv, SenderNotAhead, DeliveredInOrder, Count
  <2>9. QED
    BY <2>5, <2>6, <2>7, <2>8 DEF StopAndWaitInv
<1>4. CASE HandshakeUnknown
  <2>1. toSender # <<>> /\ Left(toSender', toSender)
    <3>1. Left(Tail(toSender), toSender) /\ Tail(toSender) \in Seq(Messages)
      BY <1>1, <1>4, LeftTail DEF HandshakeUnknown
    <3>2. toSender' \in Purge(Tail(toSender)) /\ toSender' \in Seq(Messages)
      BY <1>1, <1>4 DEF HandshakeUnknown, TypeOK
    <3>3. QED
      BY <1>1, <1>4, <3>1, <3>2, LeftPurge, LeftOfLeft DEF HandshakeUnknown
  <2>2. /\ \A m \in On(toSender') : m \in On(toSender) \/ m.type = "noise"
        /\ Answered' => Answered
        /\ OneAnswer(toSender) => OneAnswer(toSender')
    BY <1>1, <2>1, TakeReply
  <2>3. /\ UNCHANGED <<file, toReceiver, recvVars, sent, sendCheck>>
        /\ spc = "handshake"
        /\ \/ spc' = "handshake" /\ senderResult' = senderResult
           \/ spc' = "done" /\ senderResult' = "RETRY_EXCEEDED"
        /\ Count' = Count /\ Answering' = Answering
        /\ toReceiver = <<>> /\ On(toReceiver) = {}
    BY <1>1, <1>4 DEF HandshakeUnknown, SenderEnds, Count, Answering, HandshakeInv, On
  <2>4. HandshakeInv' /\ CancelInv'
    BY <1>1, <2>2, <2>3 DEF HandshakeInv, CancelInv
  <2>5. PacketInv'
    BY <1>1, <2>3 DEF PacketInv
  <2>6. TokenInv' /\ AckInv'
    BY <1>1, <2>2, <2>3 DEF TokenInv, AckInv
  <2>7. SyncInv'
    BY <1>1, <2>3 DEF SyncInv, SenderNotAhead, DeliveredInOrder, Count
  <2>8. QED
    BY <2>4, <2>5, <2>6, <2>7 DEF StopAndWaitInv
<1>5. CASE Send
  <2>1. /\ UNCHANGED <<file, toSender, recvVars, sent, sendCheck, senderResult>>
        /\ spc = "send" /\ spc' = "await"
        /\ Count' = Count /\ Answering' = Answering /\ Answered' = Answered
        /\ toReceiver = <<>> /\ ~Answering /\ ~Answered
        /\ sent \in {Count, Count + 1} /\ Count <= file /\ sent >= 1
        /\ sendCheck = "CRC16"
    BY <1>1, <1>5
       DEF Send, Count, Answering, Answered, TokenInv, SyncInv, SenderNotAhead,
           HandshakeInv, SenderInv
  <2>2. PICK m \in Messages : /\ m = IF sent <= file THEN Packet(sent) ELSE Byte("EOT")
                             /\ toReceiver' = Append(toReceiver, m)
    <3>1. CASE sent <= file
      <4>1. sent \in 1..MaxBlocks
        BY <1>1, <2>1, <3>1, XModemAssumption DEF TypeOK
      <4>2. QED
        BY <1>5, <2>1, <3>1, <4>1, PacketIsMessage DEF Send
    <3>2. CASE ~(sent <= file)
      BY <1>5, <3>2, ByteIsMessage DEF Send
    <3>3. QED
      BY <3>1, <3>2
  <2>3. m.type # "CAN" /\ IsCurrent(m)'
    <3>1. CASE sent <= file
      <4>1. m = [type |-> "SOH", blk |-> sent % BlkMod, data |-> sent, check |-> sendCheck]
        BY <2>2, <3>1 DEF Packet
      <4>2. QED
        BY <2>1, <3>1, <4>1 DEF IsCurrent
    <3>2. CASE ~(sent <= file)
      <4>1. m = [type |-> "EOT"]
        BY <2>2, <3>2 DEF Byte
      <4>2. sent = file + 1 /\ Count = file
        BY <1>1, <2>1, <3>2
      <4>3. QED
        BY <2>1, <4>1, <4>2 DEF IsCurrent
    <3>3. QED
      BY <3>1, <3>2
  <2>4. On(toReceiver') = {m} /\ OnePacket(toReceiver') /\ Len(toReceiver') = 1
    <3>1. On(toReceiver) = {}
      BY <2>1 DEF On
    <3>2. /\ On(Append(toReceiver, m)) = On(toReceiver) \cup {m}
          /\ OnePacket(Append(toReceiver, m)) /\ Len(Append(toReceiver, m)) = 1
      BY <1>1, <2>1, AppendLine
    <3>3. QED
      BY <2>2, <3>1, <3>2
  <2>5. HandshakeInv' /\ CancelInv'
    BY <1>1, <2>1, <2>3, <2>4 DEF HandshakeInv, CancelInv
  <2>6. PacketInv'
    BY <2>3, <2>4 DEF PacketInv
  <2>7. TokenInv'
    BY <1>1, <2>1 DEF TokenInv
  <2>8. AckInv'
    BY <1>1, <2>1 DEF AckInv, Answered, Answering, IsAnswer
  <2>9. SyncInv'
    BY <1>1, <2>1 DEF SyncInv, SenderNotAhead, DeliveredInOrder, Count
  <2>10. QED
    BY <2>5, <2>6, <2>7, <2>8, <2>9 DEF StopAndWaitInv
<1>6. QED
  BY <1>2, <1>3, <1>4, <1>5

\* xmodem_send() returns, with or without CANs.
LEMMA SenderGone ==
  ASSUME IInv, IInv', StopAndWaitInv, spc # "done", spc' = "done",
         senderResult' \in Failures \cup {"OK"},
         senderResult' = "OK" => receiverResult = "OK",
         toReceiver' \in {toReceiver, toReceiver \o Cancel},
         Left(toSender', toSender),
         UNCHANGED <<file, sendCheck, sent, recvVars>>
  PROVE  StopAndWaitInv'
<1> USE DEF recvVars, loopVars, sinkVars
<1>1. /\ TypeOK /\ TypeOK' /\ SenderInv
      /\ HandshakeInv /\ CancelInv /\ PacketInv /\ TokenInv /\ AckInv /\ SyncInv
      /\ toReceiver \in Seq(Messages) /\ toSender \in Seq(Messages)
      /\ toSender' \in Seq(Messages)
  BY IInvFacts DEF TypeOK
<1>2. /\ \A m \in On(toReceiver') : m \in On(toReceiver) \/ m.type = "CAN"
      /\ OnePacket(toReceiver')
  BY <1>1, CancelLine DEF PacketInv
<1>3. \A m \in On(toSender') : m \in On(toSender) \/ m.type = "noise"
  BY <1>1, LeftLine
<1>4. Count' = Count
  BY DEF Count
<1>5. HandshakeInv' /\ CancelInv'
  BY <1>1, <1>2, <1>3 DEF HandshakeInv, CancelInv
<1>6. PacketInv'
  <2>1. \A m \in On(toReceiver') : IsCurrent(m)'
    BY <1>1, <1>2, <1>4 DEF PacketInv, IsCurrent
  <2>2. QED
    BY <1>2, <2>1 DEF PacketInv
<1>7. TokenInv' /\ AckInv'
  BY <1>1, <1>4 DEF TokenInv, AckInv, Failures
<1>8. SyncInv'
  BY <1>1, <1>4 DEF SyncInv, SenderNotAhead, DeliveredInOrder, Count
<1>9. QED
  BY <1>5, <1>6, <1>7, <1>8 DEF StopAndWaitInv

\* The sender has its answer, goes on listening, or returns.
LEMMA StopAndWaitHears ==
  ASSUME Tuned, IInv, IInv', StopAndWaitInv,
         \/ GotAck \/ GotNak \/ GotCan \/ GotUnknown
         \/ LoneCan \/ ResponseTimeout \/ SenderFails
  PROVE  StopAndWaitInv'
<1> USE DEF linkVars, sendVars, recvVars, loopVars, sinkVars
<1>1. /\ TypeOK /\ TypeOK' /\ SenderInv
      /\ HandshakeInv /\ CancelInv /\ PacketInv /\ TokenInv /\ AckInv /\ SyncInv
      /\ toReceiver \in Seq(Messages) /\ toSender \in Seq(Messages)
      /\ delivered \in Seq(1..MaxBlocks) /\ Count \in Nat
      /\ file \in Nat /\ sent \in Nat
  BY IInvFacts
<1>2. UNCHANGED <<file, sendCheck, sent, recvVars>> /\ spc # "done" /\ Count' = Count
      /\ Answering' = Answering
  BY DEF GotAck, GotNak, GotCan, GotUnknown, LoneCan, ResponseTimeout, SenderFails,
         Listening, Count, Answering
<1>3. Left(toSender', toSender)
  BY <1>1, LeftSame, LeftTail
     DEF GotAck, GotNak, GotCan, GotUnknown, LoneCan, ResponseTimeout, SenderFails,
         Listening
<1>4. /\ \A m \in On(toSender') : m \in On(toSender) \/ m.type = "noise"
      /\ Answered' => Answered
      /\ OneAnswer(toSender) => OneAnswer(toSender')
      /\ toSender # <<>> => Head(toSender) \in On(toSender)
  <2>1. toSender' \in Seq(Messages)
    BY <1>1 DEF TypeOK
  <2>2. toSender # <<>> => Head(toSender) \in On(toSender)
    BY <1>1 DEF On
  <2>3. QED
    BY <1>1, <1>3, <2>1, <2>2, LeftLine DEF Answered
<1>5. CASE spc' = "done"
  <2>1. senderResult' \in Failures \cup {"OK"}
    BY <1>1, <1>2, <1>5
       DEF GotAck, GotNak, GotCan, GotUnknown, LoneCan, ResponseTimeout, SenderFails,
           SenderAborts, SenderEnds, Failures
  <2>2. senderResult' = "OK" => receiverResult = "OK"
    BY <1>1, <1>2, <1>4, <1>5
       DEF GotAck, GotNak, GotCan, GotUnknown, LoneCan, ResponseTimeout, SenderFails,
           SenderAborts, SenderEnds, Listening, IsAck, AckInv
  <2>3. toReceiver' \in {toReceiver, toReceiver \o Cancel}
    BY DEF GotAck, GotNak, GotCan, GotUnknown, LoneCan, ResponseTimeout, SenderFails,
           SenderAborts
  <2>4. QED
    BY <1>2, <1>3, <1>5, <2>1, <2>2, <2>3, SenderGone
<1>6. CASE spc' # "done" /\ (GotAck \/ GotNak)
  <2>1. IsAnswer(Head(toSender)) /\ toSender # <<>> /\ toSender' = Tail(toSender)
        /\ spc \in {"await", "can"} /\ UNCHANGED <<toReceiver, senderResult>>
    BY <1>6 DEF GotAck, GotNak, SenderAborts, SenderEnds, Listening, IsAck, IsAnswer
  <2>2. Answered /\ ~Answered'
    BY <1>1, <1>2, <2>1, TakeAnswer DEF TokenInv
  <2>3. toReceiver = <<>> /\ On(toReceiver) = {} /\ ~Answering
    <3>1. toReceiver = <<>> /\ ~Answering
      BY <1>1, <1>2, <2>2 DEF TokenInv
    <3>2. QED
      BY <3>1 DEF On
  <2>4. \/ spc' = "read" /\ sent = Count
        \/ spc' = "send"
    BY <1>1, <1>4, <1>6, <2>1
       DEF GotAck, GotNak, SenderEnds, SenderAborts, IsAck, AckInv
  <2>5. HandshakeInv' /\ CancelInv'
    BY <1>1, <1>2, <1>4, <2>1, <2>3, <2>4 DEF HandshakeInv, CancelInv
  <2>6. PacketInv'
    BY <1>1, <1>2, <2>1, <2>3 DEF PacketInv
  <2>7. TokenInv'
    BY <1>1, <1>2, <1>4, <2>1, <2>2, <2>3, <2>4 DEF TokenInv
  <2>8. AckInv'
    BY <1>1, <1>2, <2>1, <2>4 DEF AckInv
  <2>9. SyncInv'
    BY <1>1, <1>2, <2>1, <2>4 DEF SyncInv, SenderNotAhead, DeliveredInOrder, Count
  <2>10. QED
    BY <2>5, <2>6, <2>7, <2>8, <2>9 DEF StopAndWaitInv
<1>7. CASE spc' # "done" /\ (GotCan \/ GotUnknown \/ LoneCan)
  <2>1. spc \in {"await", "can"} /\ spc' \in {"await", "can"}
        /\ UNCHANGED <<toReceiver, senderResult>>
    BY <1>7 DEF GotCan, GotUnknown, LoneCan, SenderEnds, Listening
  <2>2. HandshakeInv' /\ CancelInv'
    BY <1>1, <1>2, <1>4, <2>1 DEF HandshakeInv, CancelInv
  <2>3. PacketInv'
    BY <1>1, <1>2, <2>1 DEF PacketInv, IsCurrent
  <2>4. TokenInv'
    BY <1>1, <1>2, <1>4, <2>1 DEF TokenInv
  <2>5. AckInv'
    BY <1>1, <1>2, <1>4, <2>1 DEF AckInv
  <2>6. SyncInv'
    BY <1>1, <1>2, <2>1 DEF SyncInv, SenderNotAhead, DeliveredInOrder, Count
  <2>7. QED
    BY <2>2, <2>3, <2>4, <2>5, <2>6 DEF StopAndWaitInv
<1>8. QED
  BY <1>5, <1>6, <1>7 DEF ResponseTimeout, SenderFails, SenderAborts, SenderEnds

\* xmodem_recv() returns a failure, with or without CANs.
LEMMA ReceiverGone ==
  ASSUME IInv, IInv', StopAndWaitInv, rpc # "done", rpc' = "done",
         receiverResult' \in Failures,
         toSender' \in {toSender, toSender \o Cancel},
         Left(toReceiver', toReceiver),
         spc \in {"off", "handshake"} => UNCHANGED <<handshaking, packet_started>>,
         UNCHANGED <<file, sendVars, recvCheck, sinkVars>>
  PROVE  StopAndWaitInv'
<1> USE DEF sendVars, sinkVars
<1>1. /\ TypeOK /\ TypeOK' /\ SenderInv
      /\ HandshakeInv /\ CancelInv /\ PacketInv /\ TokenInv /\ AckInv /\ SyncInv
      /\ toReceiver \in Seq(Messages) /\ toSender \in Seq(Messages)
      /\ toReceiver' \in Seq(Messages)
  BY IInvFacts DEF TypeOK
<1>2. /\ \A m \in On(toReceiver') : m \in On(toReceiver) \/ m.type = "noise"
      /\ OnePacket(toReceiver') /\ Len(toReceiver') <= Len(toReceiver)
      /\ toReceiver = <<>> => toReceiver' = <<>>
  <2>1. Len(toReceiver') <= Len(toReceiver) => (toReceiver = <<>> => toReceiver' = <<>>)
    BY <1>1
  <2>2. QED
    BY <1>1, <2>1, LeftLine DEF PacketInv
<1>3. /\ \A m \in On(toSender') : m \in On(toSender) \/ m.type = "CAN"
      /\ OneAnswer(toSender) => OneAnswer(toSender')
      /\ Answered' => Answered
  <2>1. /\ \A m \in On(toSender') : m \in On(toSender) \/ m.type = "CAN"
        /\ OneAnswer(toSender) => OneAnswer(toSender')
    BY <1>1, CancelLine
  <2>2. Answered' => Answered
    BY <2>1 DEF Answered, IsAnswer
  <2>3. QED
    BY <2>1, <2>2
<1>4. Count' = Count /\ receiverResult' \notin {"OK", "none"} /\ ~Answering'
      /\ receiverResult = "none"
  BY <1>1 DEF Count, Failures, Answering, AckInv
<1>5. HandshakeInv' /\ CancelInv'
  BY <1>1, <1>2, <1>3 DEF HandshakeInv, CancelInv
<1>6. PacketInv'
  <2>1. \A m \in On(toReceiver') : IsCurrent(m)'
    BY <1>1, <1>2, <1>4 DEF PacketInv, IsCurrent
  <2>2. Len(toReceiver) \in Nat /\ Len(toReceiver') \in Nat
    BY <1>1
  <2>3. QED
    BY <1>1, <1>2, <2>1, <2>2 DEF PacketInv
<1>7. TokenInv'
  BY <1>1, <1>2, <1>3, <1>4 DEF TokenInv
<1>8. AckInv'
  BY <1>1, <1>3, <1>4 DEF AckInv
<1>9. SyncInv'
  BY <1>1, <1>4 DEF SyncInv, SenderNotAhead, DeliveredInOrder, Count
<1>10. QED
  BY <1>5, <1>6, <1>7, <1>8, <1>9 DEF StopAndWaitInv

\* The receiver asks for a packet again.
LEMMA RetryStep ==
  ASSUME IInv, IInv', StopAndWaitInv, rpc \in {"await", "can"},
         NEW q \in Seq(Messages), Retry(q), Left(q, toReceiver),
         spc # "done" => toReceiver # <<>> /\ q = <<>>
  PROVE  StopAndWaitInv'
<1> USE DEF sendVars, sinkVars
<1>1. /\ TypeOK /\ TypeOK' /\ SenderInv
      /\ HandshakeInv /\ CancelInv /\ PacketInv /\ TokenInv /\ AckInv /\ SyncInv
      /\ toReceiver \in Seq(Messages) /\ toSender \in Seq(Messages)
      /\ toReceiver' \in Seq(Messages)
  BY IInvFacts DEF TypeOK
<1>2. UNCHANGED <<file, faults, sendVars, handshaking, recvCheck, sinkVars>>
      /\ Count' = Count
  BY DEF Retry, Count
<1>3. Left(toReceiver', q) /\ Left(toReceiver', toReceiver)
  BY <1>1, LeftPurge, LeftOfLeft DEF Retry
<1>4. spc # "done" => toReceiver' = <<>> /\ spc \notin {"off", "handshake"}
  <2>1. spc # "done" => Len(toReceiver') <= Len(q) /\ q = <<>>
    BY <1>1, <1>3, LeftLine
  <2>2. spc # "done" => toReceiver' = <<>>
    BY <1>1, <2>1
  <2>3. QED
    BY <1>1, <2>2 DEF HandshakeInv
<1>5. CASE tries < MaxRetry
  <2>1. /\ rpc' = "request" /\ request' = "NAK" /\ UNCHANGED <<toSender, receiverResult>>
        /\ Answered' = Answered
    BY <1>5 DEF Retry, Answered
  <2>2. /\ \A m \in On(toReceiver') : m \in On(toReceiver) \/ m.type = "noise"
        /\ OnePacket(toReceiver')
    BY <1>1, <1>3, LeftLine DEF PacketInv
  <2>3. HandshakeInv' /\ CancelInv'
    BY <1>1, <1>2, <1>4, <2>1, <2>2 DEF HandshakeInv, CancelInv
  <2>4. PacketInv'
    <3>1. \A m \in On(toReceiver') : IsCurrent(m)'
      BY <1>1, <1>2, <2>2 DEF PacketInv, IsCurrent
    <3>2. spc' # "done" => Len(toReceiver') <= 1
      BY <1>2, <1>4
    <3>3. QED
      BY <2>2, <3>1, <3>2 DEF PacketInv
  <2>5. TokenInv'
    BY <1>1, <1>2, <1>4, <2>1 DEF TokenInv
  <2>6. AckInv'
    BY <1>1, <1>2, <2>1 DEF AckInv
  <2>7. SyncInv'
    BY <1>1, <1>2 DEF SyncInv, SenderNotAhead, DeliveredInOrder, Count
  <2>8. QED
    BY <2>3, <2>4, <2>5, <2>6, <2>7 DEF StopAndWaitInv
<1>6. CASE ~(tries < MaxRetry)
  <2>1. rpc' = "done" /\ receiverResult' \in Failures /\ toSender' = toSender \o Cancel
    BY <1>6 DEF Retry, ReceiverAborts, ReceiverEnds, Failures
  <2>2. spc \notin {"off", "handshake"}
    BY <1>4
  <2>3. QED
    BY <1>2, <1>3, <2>1, <2>2, ReceiverGone
<1>7. QED
  BY <1>5, <1>6

\* The receiver asks, after nothing came or a packet was bad.
LEMMA StopAndWaitRetries ==
  ASSUME Tuned, IInv, IInv', StopAndWaitInv, BadPacket \/ SpuriousCan \/ PacketTimeout
  PROVE  StopAndWaitInv'
<1> USE DEF linkVars, sendVars, recvVars, loopVars, sinkVars
<1>1. /\ TypeOK /\ TypeOK' /\ SenderInv
      /\ HandshakeInv /\ CancelInv /\ PacketInv /\ TokenInv /\ AckInv /\ SyncInv
      /\ toReceiver \in Seq(Messages) /\ toSender \in Seq(Messages)
  BY IInvFacts
<1>2. CASE BadPacket
  <2>1. toReceiver # <<>> /\ rpc = "await" /\ Retry(Tail(toReceiver))
    BY <1>2 DEF BadPacket, Arrived
  <2>2. Tail(toReceiver) \in Seq(Messages) /\ Left(Tail(toReceiver), toReceiver)
    BY <1>1, <2>1, LeftTail
  <2>3. spc # "done" => Tail(toReceiver) = <<>>
    <3>1. Len(toReceiver) <= 1 => Tail(toReceiver) = <<>>
      BY <1>1, <2>1
    <3>2. QED
      BY <1>1, <3>1 DEF PacketInv
  <2>4. QED
    BY <2>1, <2>2, <2>3, RetryStep
<1>3. CASE SpuriousCan
  <2>1. rpc = "can" /\ spc = "done"
    BY <1>1, <1>3 DEF SpuriousCan, CancelInv
  <2>2. PICK q \in Seq(Messages) : Retry(q) /\ Left(q, toReceiver)
    <3>1. CASE ~Arrived /\ Retry(<<>>)
      BY <1>1, <3>1, LeftSame DEF Arrived
    <3>2. CASE /\ Arrived /\ Head(toReceiver).type = "SOH"
               /\ Retry(<<Noise>> \o Tail(toReceiver))
      <4>1. Noise \in Messages
        BY ByteIsMessage DEF Noise
      <4>2. <<Noise>> \o Tail(toReceiver) \in Seq(Messages)
        BY <1>1, <3>2, <4>1 DEF Arrived
      <4>3. QED
        BY <1>1, <3>2, <4>2, LeftNoise DEF Arrived
    <3>3. CASE /\ Arrived /\ Head(toReceiver).type # "SOH"
               /\ Retry(<<>> \o Tail(toReceiver))
      <4>1. Tail(toReceiver) \in Seq(Messages) /\ <<>> \o Tail(toReceiver) = Tail(toReceiver)
        BY <1>1, <3>3 DEF Arrived
      <4>2. QED
        BY <1>1, <3>3, <4>1, LeftTail DEF Arrived
    <3>4. QED
      BY <1>3, <3>1, <3>2, <3>3 DEF SpuriousCan, Tuned
  <2>3. QED
    BY <2>1, <2>2, RetryStep
<1>4. CASE PacketTimeout
  <2>1. /\ UNCHANGED <<file, toReceiver, faults, sendVars, handshaking, sinkVars>>
        /\ rpc = "await" /\ toReceiver = <<>> /\ On(toReceiver) = {}
        /\ Count' = Count /\ Left(toReceiver', toReceiver)
    <3>1. /\ UNCHANGED <<file, toReceiver, faults, sendVars, handshaking, sinkVars>>
          /\ rpc = "await" /\ toReceiver = <<>>
      BY <1>4 DEF PacketTimeout, ReceiverTimesOut, Tuned
    <3>2. Left(toReceiver, toReceiver)
      BY <1>1, LeftSame
    <3>3. On(toReceiver) = {}
      BY <3>1 DEF On
    <3>4. QED
      BY <3>1, <3>2, <3>3 DEF Count
  <2>2. spc # "done" => /\ spc \in {"off", "handshake", "await", "can"}
                        /\ spc # "off" => toSender = <<>> /\ ~Answered
    BY <1>4 DEF PacketTimeout, ReceiverTimesOut, Tuned, Answered, On
  <2>3. CASE tries < MaxRetry
    <3>1. /\ UNCHANGED <<toSender, packet_started, recvCheck, receiverResult>>
          /\ rpc' = "request" /\ request' = IF packet_started THEN "NAK" ELSE IdleRequest
          /\ Answered' = Answered
      BY <1>1, <1>4, <2>3 DEF PacketTimeout, TypeOK, Answered
    <3>2. /\ request' \in {"NAK", "CRC"}
          /\ spc \in {"off", "handshake"} => request' = "CRC"
      BY <1>1, <3>1 DEF IdleRequest, HandshakeInv
    <3>3. HandshakeInv' /\ CancelInv'
      BY <1>1, <2>1, <3>1 DEF HandshakeInv, CancelInv
    <3>4. PacketInv'
      BY <1>1, <2>1 DEF PacketInv
    <3>5. TokenInv'
      BY <1>1, <2>1, <2>2, <3>1, <3>2 DEF TokenInv, Answering
    <3>6. AckInv'
      BY <1>1, <2>1, <3>1, <3>2 DEF AckInv
    <3>7. SyncInv'
      BY <1>1, <2>1 DEF SyncInv, SenderNotAhead, DeliveredInOrder, Count
    <3>8. QED
      BY <3>3, <3>4, <3>5, <3>6, <3>7 DEF StopAndWaitInv
  <2>4. CASE ~(tries < MaxRetry)
    <3>1. /\ rpc' = "done" /\ receiverResult' \in Failures
          /\ toSender' = toSender \o Cancel /\ UNCHANGED <<recvCheck, packet_started>>
      BY <1>4, <2>4
         DEF PacketTimeout, ReceiverAborts, ReceiverEnds, Failures, Tuned
    <3>2. QED
      BY <2>1, <3>1, ReceiverGone
  <2>5. QED
    BY <2>3, <2>4
<1>5. QED
  BY <1>2, <1>3, <1>4

\* The receiver starts, asks, or fails.
LEMMA StopAndWaitAsks ==
  ASSUME Tuned, IInv, IInv', StopAndWaitInv,
         ReceiverStart \/ Request \/ ReceiverFails
  PROVE  StopAndWaitInv'
<1> USE DEF linkVars, sendVars, recvVars, loopVars, sinkVars
<1>1. /\ TypeOK /\ TypeOK' /\ SenderInv
      /\ HandshakeInv /\ CancelInv /\ PacketInv /\ TokenInv /\ AckInv /\ SyncInv
      /\ toReceiver \in Seq(Messages) /\ toSender \in Seq(Messages)
  BY IInvFacts
<1>2. UNCHANGED <<file, toReceiver, sendVars, handshaking, packet_started, request,
                  recvCheck, sinkVars>>
      /\ Count' = Count /\ rpc # "done"
  BY DEF ReceiverStart, Request, ReceiverFails, ReceiverEnds, Count
<1>3. CASE ReceiverStart
  <2>1. UNCHANGED <<toSender, receiverResult>> /\ rpc = "off" /\ rpc' = "request"
        /\ request = "CRC" /\ Answered' = Answered
    BY <1>1, <1>3 DEF ReceiverStart, Answered, HandshakeInv
  <2>2. HandshakeInv' /\ CancelInv'
    BY <1>1, <1>2, <2>1 DEF HandshakeInv, CancelInv
  <2>3. PacketInv'
    BY <1>1, <1>2 DEF PacketInv, IsCurrent
  <2>4. TokenInv'
    BY <1>1, <1>2, <2>1 DEF TokenInv, Answering
  <2>5. AckInv'
    BY <1>1, <1>2, <2>1 DEF AckInv
  <2>6. SyncInv'
    BY <1>1, <1>2 DEF SyncInv, SenderNotAhead, DeliveredInOrder, Count
  <2>7. QED
    BY <2>2, <2>3, <2>4, <2>5, <2>6 DEF StopAndWaitInv
<1>4. CASE Request
  <2>1. PICK m \in Messages :
          m = Byte(request) /\ toSender' = Append(toSender, m)
    BY <1>1, <1>4, ByteIsMessage DEF Request, TypeOK
  <2>2. m.type = request /\ rpc = "request" /\ rpc' = "await"
        /\ receiverResult' = receiverResult /\ ~Answering'
    BY <1>4, <2>1 DEF Request, Byte, Answering
  <2>3. /\ On(toSender') = On(toSender) \cup {m}
        /\ ~IsAnswer(m) /\ OneAnswer(toSender) => OneAnswer(toSender')
        /\ ~Answered => OneAnswer(toSender')
        /\ Answered' => Answered \/ IsAnswer(m)
    <3>1. /\ On(Append(toSender, m)) = On(toSender) \cup {m}
          /\ ~IsAnswer(m) /\ OneAnswer(toSender) => OneAnswer(Append(toSender, m))
          /\ ~Answered => OneAnswer(Append(toSender, m))
      BY <1>1, AppendLine DEF Answered
    <3>2. QED
      BY <2>1, <3>1 DEF Answered
  <2>4. IsAnswer(m) => Answering
    BY <2>2 DEF IsAnswer, Answering
  <2>5. HandshakeInv' /\ CancelInv'
    BY <1>1, <1>2, <2>2, <2>3 DEF HandshakeInv, CancelInv, TypeOK
  <2>6. PacketInv'
    BY <1>1, <1>2 DEF PacketInv, IsCurrent
  <2>7. TokenInv'
    BY <1>1, <1>2, <2>2, <2>3, <2>4 DEF TokenInv
  <2>8. AckInv'
    BY <1>1, <1>2, <2>2, <2>3 DEF AckInv
  <2>9. SyncInv'
    BY <1>1, <1>2 DEF SyncInv, SenderNotAhead, DeliveredInOrder, Count
  <2>10. QED
    BY <2>5, <2>6, <2>7, <2>8, <2>9 DEF StopAndWaitInv
<1>5. CASE ReceiverFails
  <2>1. rpc' = "done" /\ receiverResult' \in Failures
        /\ toSender' \in {toSender, toSender \o Cancel}
    BY <1>5 DEF ReceiverFails, ReceiverEnds, Failures
  <2>2. Left(toReceiver, toReceiver)
    BY <1>1, LeftSame
  <2>3. Left(toReceiver', toReceiver)
    BY <1>2, <2>2
  <2>4. QED
    BY <1>2, <2>1, <2>3, ReceiverGone
<1>6. QED
  BY <1>3, <1>4, <1>5

\* What the receiver takes from the line is the sender's last packet.
LEMMA TakePacket ==
  ASSUME TypeOK, PacketInv, toReceiver # <<>>, toReceiver' = Tail(toReceiver)
  PROVE  /\ Head(toReceiver) \in On(toReceiver) /\ Head(toReceiver) \in Messages
         /\ On(toReceiver') \subseteq On(toReceiver)
         /\ \A m \in On(toReceiver') : m.type \in {"CAN", "noise"}
         /\ OnePacket(toReceiver')
         /\ spc # "done" => toReceiver' = <<>>
         /\ Left(toReceiver', toReceiver)
<1>1. /\ toReceiver \in Seq(Messages) /\ Tail(toReceiver) \in Seq(Messages)
      /\ 1 \in 1..Len(toReceiver) /\ toReceiver[1] = Head(toReceiver)
      /\ Head(toReceiver) \in Messages
      /\ \A i \in 1..Len(Tail(toReceiver)) :
           /\ i + 1 \in 1..Len(toReceiver) /\ i + 1 > 1
           /\ Tail(toReceiver)[i] = toReceiver[i + 1]
  BY DEF TypeOK
<1>2. Head(toReceiver) \in On(toReceiver)
  BY <1>1 DEF On
<1>3. On(toReceiver') \subseteq On(toReceiver)
  BY <1>1 DEF On
<1>4. \A i \in 1..Len(Tail(toReceiver)) : Tail(toReceiver)[i].type \in {"CAN", "noise"}
  BY <1>1 DEF PacketInv, OnePacket
<1>5. \A m \in On(toReceiver') : m.type \in {"CAN", "noise"}
  BY <1>4 DEF On
<1>6. OnePacket(toReceiver')
  BY <1>4 DEF OnePacket
<1>7. spc # "done" => toReceiver' = <<>>
  <2>1. Len(toReceiver) <= 1 => Tail(toReceiver) = <<>>
    BY <1>1
  <2>2. QED
    BY <2>1 DEF PacketInv
<1>8. Left(toReceiver', toReceiver)
  BY <1>1, LeftTail
<1>9. QED
  BY <1>1, <1>2, <1>3, <1>5, <1>6, <1>7, <1>8

\* The receiver hears the end of the file or the sender's cancel.
LEMMA StopAndWaitEnds ==
  ASSUME Tuned, IInv, IInv', StopAndWaitInv,
         GotEot \/ AckEot \/ GotFirstCan \/ GotSecondCan \/ Reject
  PROVE  StopAndWaitInv'
<1> USE DEF linkVars, sendVars, recvVars, loopVars, sinkVars
<1>1. /\ TypeOK /\ TypeOK' /\ SenderInv
      /\ HandshakeInv /\ CancelInv /\ PacketInv /\ TokenInv /\ AckInv /\ SyncInv
      /\ toReceiver \in Seq(Messages) /\ toSender \in Seq(Messages)
  BY IInvFacts
<1>2. UNCHANGED <<file, sendVars, packet_started, request, recvCheck, sinkVars>>
      /\ Count' = Count /\ rpc \in {"await", "can", "ack_eot"}
  BY DEF GotEot, AckEot, GotFirstCan, GotSecondCan, Reject, Count
<1>3. ~AckEot => toReceiver # <<>> /\ toReceiver' = Tail(toReceiver)
  BY DEF GotEot, GotFirstCan, GotSecondCan, Reject, Arrived
<1>4. ~AckEot =>
        /\ Head(toReceiver) \in On(toReceiver)
        /\ On(toReceiver') \subseteq On(toReceiver)
        /\ \A m \in On(toReceiver') : m.type \in {"CAN", "noise"}
        /\ OnePacket(toReceiver')
        /\ spc # "done" => toReceiver' = <<>>
        /\ Left(toReceiver', toReceiver)
  BY <1>1, <1>3, TakePacket
<1>5. CASE GotEot \/ GotFirstCan
  <2>1. /\ UNCHANGED <<toSender, handshaking, receiverResult>>
        /\ ~AckEot /\ Answered' = Answered
        /\ \/ rpc' = "ack_eot" /\ Head(toReceiver).type = "EOT"
           \/ rpc' = "can" /\ Head(toReceiver).type = "CAN"
    BY <1>5 DEF GotEot, GotFirstCan, AckEot, Answered
  <2>2. spc # "done" => spc \in {"await", "can"} /\ rpc' = "ack_eot" /\ ~Answered
    BY <1>1, <1>3, <1>4, <2>1 DEF TokenInv, CancelInv, TypeOK
  <2>3. rpc' = "ack_eot" => Count = file /\ (spc # "done" => sent = file + 1)
    BY <1>1, <1>4, <2>1 DEF PacketInv, IsCurrent
  <2>4. HandshakeInv' /\ CancelInv'
    BY <1>1, <1>2, <1>4, <2>1, <2>2 DEF HandshakeInv, CancelInv
  <2>5. PacketInv'
    BY <1>1, <1>2, <1>4, <2>1 DEF PacketInv, IsCurrent
  <2>6. TokenInv'
    BY <1>1, <1>2, <1>4, <2>1, <2>2 DEF TokenInv
  <2>7. AckInv'
    BY <1>1, <1>2, <2>1, <2>3 DEF AckInv
  <2>8. SyncInv'
    BY <1>1, <1>2 DEF SyncInv, SenderNotAhead, DeliveredInOrder, Count
  <2>9. QED
    BY <2>4, <2>5, <2>6, <2>7, <2>8 DEF StopAndWaitInv
<1>6. CASE GotSecondCan \/ Reject
  <2>1. /\ rpc' = "done" /\ receiverResult' \in Failures
        /\ toSender' \in {toSender, toSender \o Cancel} /\ ~AckEot
    BY <1>6 DEF GotSecondCan, Reject, AckEot, ReceiverAborts, ReceiverEnds, Failures
  <2>2. spc \notin {"off", "handshake"}
    BY <1>1, <1>3, <2>1 DEF HandshakeInv
  <2>3. QED
    BY <1>2, <1>4, <2>1, <2>2, ReceiverGone
<1>7. CASE AckEot
  <2>1. PICK m \in Messages :
          m = Byte("ACK") /\ toSender' = Append(toSender, m)
    BY <1>7, ByteIsMessage DEF AckEot
  <2>2. /\ UNCHANGED <<toReceiver, handshaking>> /\ m.type = "ACK"
        /\ rpc = "ack_eot" /\ rpc' = "done" /\ receiverResult' = "OK"
        /\ Answering /\ ~Answering'
    BY <1>7, <2>1 DEF AckEot, ReceiverEnds, Byte, Answering
  <2>3. /\ On(toSender') = On(toSender) \cup {m}
        /\ ~Answered => OneAnswer(toSender')
    <3>1. /\ On(Append(toSender, m)) = On(toSender) \cup {m}
          /\ ~Answered => OneAnswer(Append(toSender, m))
      BY <1>1, AppendLine DEF Answered
    <3>2. QED
      BY <2>1, <3>1
  <2>4. Count = file /\ (spc # "done" => sent = file + 1)
    BY <1>1, <2>2 DEF AckInv
  <2>5. HandshakeInv' /\ CancelInv'
    BY <1>1, <1>2, <2>2, <2>3 DEF HandshakeInv, CancelInv
  <2>6. PacketInv'
    BY <1>1, <1>2, <2>2 DEF PacketInv, IsCurrent
  <2>7. TokenInv'
    BY <1>1, <1>2, <2>2, <2>3 DEF TokenInv
  <2>8. AckInv'
    <3>1. spc \in {"await", "can"} => ~(sent <= file)
      BY <2>4, IInvFacts
    <3>2. QED
      BY <1>1, <1>2, <2>2, <2>4, <3>1 DEF AckInv
  <2>9. SyncInv'
    BY <1>1, <1>2 DEF SyncInv, SenderNotAhead, DeliveredInOrder, Count
  <2>10. QED
    BY <2>5, <2>6, <2>7, <2>8, <2>9 DEF StopAndWaitInv
<1>8. QED
  BY <1>5, <1>6, <1>7

\* A good packet is the next one, and is delivered, or the last one, and is not.
LEMMA AcceptPacket ==
  ASSUME IInv, IInv', StopAndWaitInv, Accept
  PROVE  /\ Head(toReceiver).data = Count'
         /\ Count' <= file /\ Count' \in Nat /\ Count' > 0
         /\ \/ Count' = Count /\ UNCHANGED sinkVars
            \/ /\ Count' = Count + 1 /\ delivered' = Append(delivered, Count + 1)
               /\ last_blk' = blk /\ blk' = NextBlk(blk)
<1>1. /\ TypeOK /\ TypeOK' /\ PacketInv /\ SyncInv
      /\ delivered \in Seq(1..MaxBlocks) /\ Count \in Nat
  BY IInvFacts
<1>2. PICK m \in Messages : m = Head(toReceiver) /\ IsCurrent(m)
  <2>1. toReceiver # <<>> /\ toReceiver' = Tail(toReceiver)
    BY DEF Accept, Arrived
  <2>2. Head(toReceiver) \in On(toReceiver) /\ Head(toReceiver) \in Messages
    BY <1>1, <2>1, TakePacket
  <2>3. QED
    BY <1>1, <2>2 DEF PacketInv
<1>3. /\ m.type = "SOH" /\ m.data \in 1..MaxBlocks /\ m.blk = m.data % BlkMod
      /\ m.data \in {Count, Count + 1} /\ m.data <= file
  BY <1>2, PacketFields DEF Accept, GoodPacket, IsCurrent
<1>4. /\ Count % BlkMod # (Count + 1) % BlkMod
      /\ blk = (Count + 1) % BlkMod
  BY <1>1, NextBlkOf DEF SyncInv
<1>5. CASE m.data = Count + 1
  <2>1. m.blk = blk
    BY <1>3, <1>4, <1>5
  <2>2. delivered' = Append(delivered, m.data) /\ last_blk' = blk /\ blk' = NextBlk(blk)
    BY <1>2, <2>1 DEF Accept, IsNew
  <2>3. Count' = Count + 1
    BY <1>1, <2>2 DEF Count
  <2>4. QED
    BY <1>1, <1>2, <1>3, <1>5, <2>2, <2>3
<1>6. CASE m.data = Count
  <2>1. m.blk # blk
    BY <1>3, <1>4, <1>6
  <2>2. UNCHANGED sinkVars
    BY <1>2, <2>1 DEF Accept, IsNew
  <2>3. Count' = Count
    BY <2>2 DEF Count, sinkVars
  <2>4. QED
    BY <1>1, <1>2, <1>3, <1>6, <2>2, <2>3
<1>7. QED
  BY <1>3, <1>5, <1>6

LEMMA StopAndWaitAccepts ==
  ASSUME Tuned, IInv, IInv', StopAndWaitInv, Accept
  PROVE  StopAndWaitInv'
<1>1. /\ TypeOK /\ TypeOK' /\ SenderInv
      /\ HandshakeInv /\ CancelInv /\ PacketInv /\ TokenInv /\ AckInv /\ SyncInv
      /\ delivered \in Seq(1..MaxBlocks) /\ Count \in Nat
      /\ file \in Nat /\ sent \in Nat
  BY IInvFacts
<1>2. /\ toReceiver # <<>> /\ toReceiver' = Tail(toReceiver)
      /\ UNCHANGED <<file, toSender, faults, sendVars, receiverResult>>
      /\ rpc = "await" /\ rpc' = "request" /\ request' = "ACK" /\ recvCheck' = recvCheck
      /\ Answered' = Answered
  BY DEF Accept, Arrived, CallRecvPacket, Answered
<1>3. /\ Head(toReceiver) \in On(toReceiver)
      /\ On(toReceiver') \subseteq On(toReceiver)
      /\ \A m \in On(toReceiver') : m.type \in {"CAN", "noise"}
      /\ OnePacket(toReceiver')
      /\ spc # "done" => toReceiver' = <<>>
  BY <1>1, <1>2, TakePacket
<1>4. /\ Head(toReceiver).data = Count'
      /\ Count' <= file /\ Count' \in Nat /\ Count' > 0
      /\ \/ Count' = Count /\ UNCHANGED sinkVars
         \/ /\ Count' = Count + 1 /\ delivered' = Append(delivered, Count + 1)
            /\ last_blk' = blk /\ blk' = NextBlk(blk)
  BY AcceptPacket
<1>5. spc # "done" => spc \in {"await", "can"} /\ ~Answered /\ sent = Count'
  <2>1. spc # "done" => Head(toReceiver).data = sent
    BY <1>1, <1>3 DEF PacketInv, IsCurrent, Accept, GoodPacket
  <2>2. QED
    BY <1>1, <1>2, <1>4, <2>1 DEF TokenInv, TypeOK
<1>6. HandshakeInv' /\ CancelInv'
  BY <1>1, <1>2, <1>3, <1>5 DEF HandshakeInv, CancelInv, sendVars
<1>7. PacketInv'
  BY <1>2, <1>3 DEF PacketInv, IsCurrent, sendVars
<1>8. TokenInv'
  BY <1>1, <1>2, <1>3, <1>5 DEF TokenInv, sendVars
<1>9. AckInv'
  <2>1. spc' \in {"await", "can"} => \A m \in On(toSender') : m.type # "ACK"
    BY <1>2, <1>5 DEF Answered, IsAnswer, sendVars
  <2>2. receiverResult' = "none" /\ senderResult' # "OK"
    BY <1>1, <1>2 DEF AckInv, sendVars
  <2>3. QED
    BY <1>1, <1>2, <1>4, <1>5, <2>1, <2>2 DEF AckInv, sendVars
<1>10. SyncInv'
  <2>1. blk' = (Count' + 1) % BlkMod /\ last_blk' = Count' % BlkMod
    BY <1>1, <1>4, NextBlkOf DEF SyncInv, sinkVars
  <2>2. DeliveredInOrder'
    <3>1. CASE UNCHANGED sinkVars
      BY <1>1, <3>1 DEF SyncInv, DeliveredInOrder, sinkVars
    <3>2. CASE delivered' = Append(delivered, Count + 1)
      <4>1. \A i \in 1..Len(delivered) : delivered[i] = i
        BY <1>1 DEF SyncInv, DeliveredInOrder
      <4>2. /\ delivered' \in Seq(1..MaxBlocks) /\ Len(delivered') = Len(delivered) + 1
            /\ \A i \in 1..Len(delivered') : delivered'[i] = i
        <5>1. delivered' \in Seq(1..MaxBlocks)
          BY <1>1 DEF TypeOK
        <5>2. /\ Len(delivered') = Len(delivered) + 1 /\ Len(delivered) \in Nat
              /\ delivered'[Len(delivered) + 1] = Len(delivered) + 1
              /\ \A i \in 1..Len(delivered) : delivered'[i] = delivered[i]
          BY <1>1, <3>2 DEF Count
        <5>3. \A i \in 1..Len(delivered') : delivered'[i] = i
          BY <4>1, <5>2
        <5>4. QED
          BY <5>1, <5>2, <5>3
      <4>3. delivered' = [i \in 1..Len(delivered') |-> delivered'[i]]
        BY <4>2
      <4>4. QED
        BY <4>2, <4>3 DEF DeliveredInOrder
    <3>3. QED
      BY <1>4, <3>1, <3>2
  <2>3. SenderNotAhead'
    BY <1>2, <1>5 DEF SenderNotAhead, Count, sendVars
  <2>4. QED
    BY <1>2, <1>4, <1>5, <2>1, <2>2, <2>3 DEF SyncInv, sendVars
<1>11. QED
  BY <1>6, <1>7, <1>8, <1>9, <1>10 DEF StopAndWaitInv

LEMMA StopAndWaitStep ==
  ASSUME Tuned, IInv, IInv', StopAndWaitInv, [Next]_vars
  PROVE  StopAndWaitInv'
<1>1. CASE UNCHANGED vars
  <2>1. TypeOK /\ TypeOK' /\ Left(toReceiver, toReceiver) /\ Left(toSender, toSender)
    BY LeftSame DEF IInv, TypeOK
  <2>2. /\ toReceiver' = toReceiver /\ toSender' = toSender
        /\ UNCHANGED <<file, sendVars, recvVars>>
    BY <1>1 DEF vars, linkVars
  <2>3. Left(toReceiver', toReceiver) /\ Left(toSender', toSender)
    BY <2>1, <2>2
  <2>4. QED
    BY <2>1, <2>2, <2>3, LinesShrink
<1>2. QED
  BY <1>1, StopAndWaitLink, StopAndWaitSends, StopAndWaitHears, StopAndWaitAsks,
     StopAndWaitEnds, StopAndWaitAccepts, StopAndWaitRetries
     DEF Next, Sender, Receiver, Done

\* With CRC-16 on a prompt line that makes no noise of its own, xmodem_send()
\* is never more than one block ahead of the sink, and what the sink has is
\* the file's blocks in order, whatever the link loses or garbles and however
\* often packet numbers wrap around.
THEOREM StopAndWait ==
  ASSUME Tuned
  PROVE  Spec => [](SenderNotAhead /\ DeliveredInOrder)
<1>1. Init => StopAndWaitInv
  BY StopAndWaitInit
<1>2. IInv /\ IInv' /\ StopAndWaitInv /\ [Next]_vars => StopAndWaitInv'
  BY StopAndWaitStep
<1>3. StopAndWaitInv => SenderNotAhead /\ DeliveredInOrder
  BY DEF StopAndWaitInv, SyncInv
<1>4. QED
  BY <1>1, <1>2, <1>3, IInvInit, IInvStep, PTL DEF Spec

-----------------------------------------------------------------------------
(* xmodem_send() and xmodem_recv() implement FileTransfer.                 *)

LEMMA TransferStep ==
  ASSUME Tuned, IInv, IInv', StopAndWaitInv, StopAndWaitInv', [Next]_vars
  PROVE  [Transfer!Next]_(Transfer!xferVars)
<1> USE DEF linkVars, sendVars, recvVars, loopVars, sinkVars
<1>1. /\ TypeOK /\ TypeOK' /\ AckInv /\ AckInv' /\ SyncInv'
      /\ senderResult \in Failures \cup {"none", "OK"}
      /\ senderResult' \in Failures \cup {"none", "OK"}
      /\ receiverResult' \in Failures \cup {"none", "OK"}
  BY DEF IInv, TypeOK, StopAndWaitInv
<1>2. CASE UNCHANGED <<file, delivered, senderResult, receiverResult>>
  BY <1>2 DEF Transfer!xferVars
<1>3. CASE Sender \/ SenderStart \/ SenderFails
  <2>1. UNCHANGED <<file, recvVars>> /\ spc # "done"
    BY <1>3 DEF Sender, SenderStart, SenderFails, Handshake, HandshakeUnknown,
         HandshakeTimeout, Read, Send, GotAck, GotNak, GotCan, GotUnknown, LoneCan,
         ResponseTimeout, Listening
  <2>2. senderResult = "none"
    BY <1>1, <2>1 DEF AckInv
  <2>3. CASE senderResult' # "none"
    <3>1. Transfer!SenderReturns
      BY <1>1, <2>1, <2>2, <2>3 DEF AckInv, Transfer!SenderReturns
    <3>2. QED
      BY <3>1 DEF Transfer!Next
  <2>4. CASE senderResult' = "none"
    BY <2>1, <2>2, <2>4 DEF Transfer!xferVars
  <2>5. QED
    BY <2>3, <2>4
<1>4. CASE (Receiver /\ ~Accept) \/ ReceiverStart \/ ReceiverFails
  <2>1. UNCHANGED <<file, sendVars, sinkVars>> /\ rpc # "done"
    BY <1>4 DEF Receiver, ReceiverStart, ReceiverFails, Request, GotEot, AckEot, Reject,
         GotFirstCan, GotSecondCan, BadPacket, SpuriousCan, Retry, PacketTimeout
  <2>2. receiverResult = "none" /\ Count' = Count
    BY <1>1, <2>1 DEF AckInv, Count
  <2>3. CASE receiverResult' # "none"
    <3>1. Transfer!ReceiverReturns
      BY <1>1, <2>1, <2>2, <2>3 DEF AckInv, Count, Transfer!ReceiverReturns
    <3>2. QED
      BY <3>1 DEF Transfer!Next
  <2>4. CASE receiverResult' = "none"
    BY <2>1, <2>2, <2>4 DEF Transfer!xferVars
  <2>5. QED
    BY <2>3, <2>4
<1>5. CASE Accept
  <2>1. /\ UNCHANGED <<file, senderResult, receiverResult>>
        /\ rpc = "await"
    BY <1>5 DEF Accept
  <2>2. receiverResult = "none"
    BY <1>1, <2>1 DEF AckInv
  <2>3. CASE UNCHANGED sinkVars
    BY <2>1, <2>3 DEF Transfer!xferVars
  <2>4. CASE Count' = Count + 1 /\ delivered' = Append(delivered, Count + 1)
    <3>1. Count \in Nat /\ file \in Nat /\ Count' <= file
      BY <1>5, IInvFacts, AcceptPacket
    <3>2. Transfer!Deliver
      BY <2>1, <2>2, <2>4, <3>1 DEF Count, Transfer!Deliver
    <3>3. QED
      BY <3>2 DEF Transfer!Next
  <2>5. QED
    BY <1>5, <2>3, <2>4, AcceptPacket
<1>6. CASE LosePacket \/ GarblePacket \/ LoseReply \/ GarbleReply \/ StrayNoise
           \/ UNCHANGED vars
  BY <1>2, <1>6 DEF LosePacket, GarblePacket, LoseReply, GarbleReply, StrayNoise,
       LinkFault, vars
<1>7. QED
  BY <1>3, <1>4, <1>5, <1>6 DEF Next, Done

\* The two functions together keep FileTransfer's promise: the sink gets the
\* file's blocks one by one, the receiver returns ESP_OK only with the whole
\* file, and the sender only after the receiver.
THEOREM TransfersInOrder ==
  ASSUME Tuned
  PROVE  Spec => Transfers
<1>1. Init => Transfer!Init
  BY DEF Init, Transfer!Init
<1>2. Init => StopAndWaitInv
  BY StopAndWaitInit
<1>3. IInv /\ IInv' /\ StopAndWaitInv /\ [Next]_vars => StopAndWaitInv'
  BY StopAndWaitStep
<1>4. IInv /\ IInv' /\ StopAndWaitInv /\ StopAndWaitInv' /\ [Next]_vars
        => [Transfer!Next]_(Transfer!xferVars)
  BY TransferStep
<1>5. QED
  BY <1>1, <1>2, <1>3, <1>4, IInvInit, IInvStep, PTL
     DEF Spec, Transfers, Transfer!Spec
=============================================================================
