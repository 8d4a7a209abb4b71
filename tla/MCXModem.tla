------------------------------ MODULE MCXModem ------------------------------
(***************************************************************************)
(* Two transfers that share nothing, in one run: which says of what        *)
(* transfer a behaviour is, and the other one never starts.  The variables *)
(* of XModem are those of a transfer whose answers beat the timeouts, as   *)
(* the docs ask for; the x... are those of one in which any timeout may    *)
(* come early, garbage appears on the line and the receiver falls back     *)
(* from CRC-16 to the checksum.                                            *)
(***************************************************************************)
EXTENDS XModem

VARIABLES
  which,
  xfile, xtoReceiver, xtoSender, xfaults,
  xspc, xsendCheck, xsent, xattempt, xsenderResult,
  xrpc, xhandshaking, xrecvCheck, xrequest, xpacket_started, xtries,
  xblk, xlast_blk, xdelivered, xreceiverResult

Slow == INSTANCE XModem WITH
  MaxBlocks <- 5, SinkBlocks <- 4, BlkMod <- 4, CheckType <- "AUTO",
  MaxRetry <- 1, CanCount <- 2, MaxFaults <- 2, Prompt <- FALSE, LineNoise <- TRUE,
  file <- xfile, toReceiver <- xtoReceiver, toSender <- xtoSender, faults <- xfaults,
  spc <- xspc, sendCheck <- xsendCheck, sent <- xsent, attempt <- xattempt,
  senderResult <- xsenderResult, rpc <- xrpc, handshaking <- xhandshaking,
  recvCheck <- xrecvCheck, request <- xrequest, packet_started <- xpacket_started,
  tries <- xtries, blk <- xblk, last_blk <- xlast_blk, delivered <- xdelivered,
  receiverResult <- xreceiverResult

slowVars ==
  <<xfile, xtoReceiver, xtoSender, xfaults,
    xspc, xsendCheck, xsent, xattempt, xsenderResult,
    xrpc, xhandshaking, xrecvCheck, xrequest, xpacket_started, xtries,
    xblk, xlast_blk, xdelivered, xreceiverResult>>

MCInit ==
  /\ Init /\ Slow!Init
  /\ \/ which = "slow" /\ file = 0
     \/ which = "prompt" /\ xfile = 0

MCNext ==
  /\ UNCHANGED which
  /\ \/ which = "prompt" /\ Next /\ UNCHANGED slowVars
     \/ which = "slow" /\ Slow!Next /\ UNCHANGED vars

\* The fairness of XModem, for the transfer that is slow.
MCSpec ==
  /\ MCInit /\ [][MCNext]_<<which, vars, slowVars>>
  /\ WF_slowVars(which = "slow" /\ Slow!Sender)
  /\ WF_slowVars(which = "slow" /\ Slow!Receiver)

-----------------------------------------------------------------------------
\* The sink gets the blocks of the file in order, none twice and none skipped,
\* though any answer may come after its timeout (recv_packet(), xmodem_recv()).
DeliveredInOrderLate == Slow!DeliveredInOrder

\* xmodem_send() and xmodem_recv() return once called, whatever the link does
\* and though the other side never starts.
ReturnsLate == Slow!Returns
=============================================================================
