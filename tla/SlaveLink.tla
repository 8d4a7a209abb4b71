------------------------------ MODULE SlaveLink -----------------------------
(***************************************************************************)
(* esp_serial_slave_link: a host sends packets to a slave and gets packets *)
(* from it over SDIO or SPI.  Flow control is by counters: the slave shows *)
(* in registers how many receive buffers it has loaded and how many bytes  *)
(* it has to send, both modulo the register's width, and the host counts   *)
(* what it has used.  The host reads the registers only when what it knows *)
(* is not enough, while the slave goes on.                                 *)
(* The slave is external: "loaded", "filled", "produced" and "taken" are   *)
(* its counters without a width.                                           *)
(***************************************************************************)
EXTENDS Integers

CONSTANTS
  Buses,          \* "SDIO", "SPI": the function tables a handle may have
  TxMod, RxMod,   \* TX_BUFFER_MAX, RX_BYTE_MAX: width of the SDIO registers
  HostMod,        \* width of size_t, and of the SPI registers
  ByteMod, Bytes, \* an SPI register is read as this many parts of so many values
  Weight,         \* of each part, and HostMod: the powers of ByteMod
  BufSize,        \* buffer_size
  BlockSize,      \* 512
  Lengths,        \* lengths the application sends and asks for
  Ahead, AheadBytes,       \* what the slave has loaded at most, unused
  Failing,        \* transfers that may fail: "read", "first", "later", "done"
  Start,          \* value a link in use has brought all counters to
  MaxSlave, MaxFailures, MaxResets   \* bounds: of what the slave loads and
                                     \* produces, of failures, of resets

ConstantsOK ==
  /\ Buses \subseteq {"SDIO", "SPI"}
  /\ {TxMod, RxMod, HostMod, Bytes, BufSize, BlockSize} \subseteq Nat \ {0}
  /\ ByteMod \in Nat \ {0, 1} /\ Lengths \subseteq Nat \ {0}
  /\ HostMod % TxMod = 0 /\ HostMod % RxMod = 0
  /\ Weight \in [0..Bytes -> Nat \ {0}] /\ Weight[0] = 1 /\ Weight[Bytes] = HostMod
  /\ \A i \in 0..(Bytes - 1) : Weight[i + 1] = ByteMod * Weight[i]
  /\ \A i \in 0..Bytes : HostMod % Weight[i] = 0
  /\ Start \in 0..(HostMod - 1)
  /\ Ahead \in 0..(TxMod - 1) /\ AheadBytes \in 0..(RxMod - 1)
  /\ {MaxSlave, MaxFailures, MaxResets} \subseteq Nat

\* Two readings in a row that agree are the register only if it did not run
\* through most of the values of its two lowest bytes meanwhile.
Gradual ==
  "SPI" \in Buses =>
    Ahead <= ByteMod * (ByteMod - 1) /\ AheadBytes <= ByteMod * (ByteMod - 1)

VARIABLES
  bus,
  sent, sentLatest,     \* tx_sent_buffers(_latest); master_out of SPI
  got, gotLatest,       \* rx_got_bytes(_latest); master_in of SPI
  call,                 \* the call the application is in
  late,                 \* its timeout has expired
  loaded, filled, produced, taken,   \* the slave
  stale,                \* registers not read again since reset_cnt(): "tx", "rx"
  adrift,               \* directions that a stale reading or a transfer broken
                        \* off half way has set apart from the slave
  limit, failures, resets

host == <<sent, sentLatest, got, gotLatest>>
slave == <<loaded, filled, produced, taken>>
trust == <<stale, adrift>>
bounds == <<limit, failures, resets>>
vars == <<bus, host, call, late, slave, trust, bounds>>

\* "last": the wait was over when this round began.  "reading": the value of
\* the parts of a register read so far; "previous": the reading before it.
Idle == [pc |-> "idle", length |-> 0, rest |-> 0, last |-> FALSE,
         part |-> 0, reading |-> 0, previous |-> -1]

\* Either direction of SPI uses the full width, SDIO that of its register.
TxWidth == IF bus = "SPI" THEN HostMod ELSE TxMod
RxWidth == IF bus = "SPI" THEN HostMod ELSE RxMod

Init ==
  /\ bus \in Buses
  /\ sent = Start /\ sentLatest = Start % TxWidth
  /\ got = Start /\ gotLatest = Start % RxWidth
  /\ call = Idle /\ late = FALSE
  /\ loaded = Start /\ filled = Start /\ produced = Start /\ taken = Start
  /\ limit \in {[loaded |-> Start + MaxSlave, produced |-> Start],
               [loaded |-> Start, produced |-> Start + MaxSlave]}
  /\ stale = {} /\ adrift = {}
  /\ failures = 0 /\ resets = 0

-----------------------------------------------------------------------------
(* Arithmetic of the counters.                                             *)

\* The bug: the difference is not reduced to the width of the register.
TxFreeWide == (sentLatest + HostMod - sent) % HostMod

\* get_tx_buffer_num(): free buffers of the slave, as far as the host knows.
TxFree == ((sentLatest + HostMod - sent) % HostMod) % TxWidth

\* get_rx_data_size(): bytes the slave has to send.
RxSize == ((gotLatest + HostMod - got) % HostMod) % RxWidth

BuffersFor(n) == (n + BufSize - 1) \div BufSize

\* What one transfer moves of the rest: SDIO sends whole blocks first.
Chunk(n) == IF bus = "SDIO" /\ n >= BlockSize
              THEN (n \div BlockSize) * BlockSize ELSE n

\* A register of the slave.
TxRegister == loaded % TxWidth
RxRegister == produced % RxWidth

Fail(what) ==
  /\ what \in Failing /\ failures < MaxFailures
  /\ failures' = failures + 1

Return == call' = Idle /\ late' = FALSE
Goto(pc) == call' = [call EXCEPT !.pc = pc]

\* A round of waiting: the time that is left is looked at before it.
Round(pc) == [call EXCEPT !.pc = pc, !.last = late, !.part = 0, !.reading = 0,
                          !.previous = -1]

-----------------------------------------------------------------------------
(* essl_send_packet(): rounds until there is an answer other than          *)
(* NOT_FOUND or the time is over.                                          *)

\* Once host and slave count apart, the model follows the link no further.
SendPacket(n) ==
  /\ call = Idle /\ adrift = {}
  /\ call' = [Idle EXCEPT !.pc = "send", !.length = n, !.rest = n]
  /\ UNCHANGED <<bus, host, late, slave, trust, bounds>>

SendChecks ==
  /\ call.pc = "send"
  /\ call' = Round(IF TxFree < BuffersFor(call.length)
                     THEN "tx register" ELSE "write")
  /\ UNCHANGED <<bus, host, late, slave, trust, bounds>>

SendRechecks ==
  /\ call.pc = "tx updated" /\ call.length > 0
  /\ \/ TxFree >= BuffersFor(call.length) /\ Goto("write") /\ UNCHANGED late
     \/ TxFree < BuffersFor(call.length) /\ ~call.last /\ Goto("send") /\ UNCHANGED late
     \/ TxFree < BuffersFor(call.length) /\ call.last /\ Return
  /\ UNCHANGED <<bus, host, slave, trust, bounds>>

\* The buffers count once the last transfer of the packet has succeeded.
Write ==
  /\ call.pc = "write"
  /\ LET n == Chunk(call.rest)
         done == call.rest = n IN
     /\ call' = [call EXCEPT !.rest = @ - n, !.pc = IF done THEN "written" ELSE @]
     /\ filled' = IF done THEN filled + BuffersFor(call.length) ELSE filled
     /\ sent' = IF done THEN (sent + BuffersFor(call.length)) % HostMod ELSE sent
  /\ adrift' = adrift \cup (stale \cap {"tx"})
  /\ UNCHANGED <<bus, sentLatest, got, gotLatest, late, loaded, produced, taken,
                 stale, bounds>>

\* A transfer that fails leaves the slave alone; those before it may have
\* filled buffers, which the host does not count.
WriteFails ==
  /\ call.pc = "write"
  /\ Fail(IF call.rest = call.length THEN "first" ELSE "later")
  /\ \E n \in 0..BuffersFor(call.length - call.rest) :
       /\ filled' = filled + n
       /\ adrift' = IF n > 0 THEN adrift \cup {"tx"} ELSE adrift
  /\ Return
  /\ UNCHANGED <<bus, host, loaded, produced, taken, stale, limit, resets>>

\* SPI ends the packet with a command of its own, which may fail: the caller
\* is told that the packet failed although it counts as sent.
Written ==
  /\ call.pc = "written" /\ Return
  /\ UNCHANGED <<bus, host, slave, trust, limit, resets>>
  /\ \/ UNCHANGED failures
     \/ bus = "SPI" /\ Fail("done")

-----------------------------------------------------------------------------
(* essl_get_packet(): waits for the first byte, then reads what there is,  *)
(* up to the size asked for.                                               *)

GetPacket(n) ==
  /\ call = Idle /\ adrift = {}
  /\ call' = [Idle EXCEPT !.pc = IF RxSize < n THEN "get" ELSE "read",
                          !.length = n, !.rest = n]
  /\ UNCHANGED <<bus, host, late, slave, trust, bounds>>

GetUpdates ==
  /\ call.pc = "get"
  /\ call' = Round("rx register")
  /\ UNCHANGED <<bus, host, late, slave, trust, bounds>>

GetRechecks ==
  /\ call.pc = "rx updated" /\ call.length > 0
  /\ \/ /\ RxSize > 0
        /\ LET n == IF RxSize < call.length THEN RxSize ELSE call.length IN
           call' = [call EXCEPT !.pc = "read", !.length = n, !.rest = n]
        /\ UNCHANGED late
     \/ RxSize = 0 /\ ~call.last /\ Goto("get") /\ UNCHANGED late
     \/ RxSize = 0 /\ call.last /\ Return
  /\ UNCHANGED <<bus, host, slave, trust, bounds>>

\* Bytes count transfer by transfer.
Read ==
  /\ call.pc = "read"
  /\ LET n == Chunk(call.rest) IN
     /\ got' = (got + n) % HostMod
     /\ taken' = taken + n
     /\ IF call.rest = n THEN Return
          ELSE call' = [call EXCEPT !.rest = @ - n] /\ UNCHANGED late
  /\ adrift' = adrift \cup (stale \cap {"rx"})
  /\ UNCHANGED <<bus, sent, sentLatest, gotLatest, loaded, filled, produced,
                 stale, bounds>>

ReadFails ==
  /\ call.pc = "read"
  /\ Fail(IF call.rest = call.length THEN "first" ELSE "later")
  /\ Return
  /\ UNCHANGED <<bus, host, slave, trust, limit, resets>>

-----------------------------------------------------------------------------
(* The two registers.  SDIO reads one in a single transfer.  SPI carries   *)
(* it part by part while the slave may change it, lowest part first, and   *)
(* reads it until two readings in a row agree.                             *)

\* essl_get_tx_buffer_num(), essl_get_rx_data_size(): a reading and no more.
Refresh ==
  /\ call = Idle
  /\ \E register \in {"tx register", "rx register"} : call' = Round(register)
  /\ UNCHANGED <<bus, host, late, slave, trust, bounds>>

Refreshed ==
  /\ call.pc \in {"tx updated", "rx updated"} /\ call.length = 0
  /\ Return
  /\ UNCHANGED <<bus, host, slave, trust, bounds>>

InRegister == call.pc \in {"tx register", "rx register"}
Register == IF call.pc = "tx register" THEN TxRegister ELSE RxRegister

\* The reading is taken over, and the caller looks again.
Update(value) ==
  IF call.pc = "tx register"
    THEN /\ sentLatest' = value /\ Goto("tx updated")
         /\ stale' = stale \ {"tx"} /\ UNCHANGED gotLatest
    ELSE /\ gotLatest' = value /\ Goto("rx updated")
         /\ stale' = stale \ {"rx"} /\ UNCHANGED sentLatest

ReadRegister ==
  /\ InRegister /\ bus = "SDIO"
  /\ Update(Register)
  /\ UNCHANGED <<bus, sent, got, late, slave, adrift, bounds>>

\* What is read with the next part.
Reading ==
  call.reading + Weight[call.part] * ((Register \div Weight[call.part]) % ByteMod)

ReadRegisterPart ==
  /\ InRegister /\ bus = "SPI" /\ call.part < Bytes - 1
  /\ call' = [call EXCEPT !.reading = Reading, !.part = @ + 1]
  /\ UNCHANGED <<bus, host, late, slave, trust, bounds>>

\* The bug: one reading is believed.
ReadRegisterEndOnce ==
  /\ InRegister /\ bus = "SPI" /\ call.part = Bytes - 1
  /\ Update(Reading)
  /\ UNCHANGED <<bus, sent, got, late, slave, adrift, bounds>>

ReadRegisterEnd ==
  /\ InRegister /\ bus = "SPI" /\ call.part = Bytes - 1
  /\ IF Reading = call.previous
       THEN Update(Reading)
       ELSE /\ call' = [call EXCEPT !.previous = Reading, !.reading = 0, !.part = 0]
            /\ UNCHANGED <<sentLatest, gotLatest, stale>>
  /\ UNCHANGED <<bus, sent, got, late, slave, adrift, bounds>>

ReadRegisterFails ==
  /\ InRegister /\ Fail("read") /\ Return
  /\ UNCHANGED <<bus, host, slave, trust, limit, resets>>

-----------------------------------------------------------------------------
(* The slave, the clock, and reset_cnt(), which is for a slave that starts *)
(* again from zero.                                                        *)

SlaveLoads ==
  /\ loaded < limit.loaded /\ loaded - filled < Ahead
  /\ loaded' = loaded + 1
  /\ UNCHANGED <<bus, host, call, late, filled, produced, taken, trust, bounds>>

SlaveProduces ==
  /\ \E n \in Lengths :
       /\ produced + n <= limit.produced /\ produced + n - taken <= AheadBytes
       /\ produced' = produced + n
  /\ UNCHANGED <<bus, host, call, late, loaded, filled, taken, trust, bounds>>

TimeIsOver ==
  /\ call # Idle /\ ~late
  /\ late' = TRUE
  /\ UNCHANGED <<bus, host, call, slave, trust, bounds>>

\* essl_reset_cnt() of SDIO.  The table of SPI has no such entry: there the
\* application calls essl_spi_reset_cnt() itself.  Both leave the latest
\* readings of the registers as they are.
ResetCnt ==
  /\ call = Idle /\ resets < MaxResets /\ adrift = {}
  /\ sent' = 0 /\ got' = 0
  /\ loaded' = 0 /\ filled' = 0 /\ produced' = 0 /\ taken' = 0
  /\ stale' = {"tx", "rx"} /\ adrift' = {}
  /\ resets' = resets + 1 /\ limit' = [loaded |-> 1, produced |-> 1]
  /\ UNCHANGED <<bus, sentLatest, gotLatest, call, late, failures>>

Next ==
  \/ \E n \in Lengths : SendPacket(n) \/ GetPacket(n)
  \/ SendChecks \/ SendRechecks \/ Write \/ WriteFails \/ Written
  \/ GetUpdates \/ GetRechecks \/ Read \/ ReadFails
  \/ Refresh \/ Refreshed
  \/ ReadRegister \/ ReadRegisterPart \/ ReadRegisterEnd \/ ReadRegisterFails
  \/ SlaveLoads \/ SlaveProduces \/ TimeIsOver \/ ResetCnt

Spec == Init /\ [][Next]_vars

-----------------------------------------------------------------------------
(* Properties.                                                             *)

TypeOK ==
  /\ bus \in {"SDIO", "SPI"}
  /\ {sent, sentLatest, got, gotLatest} \subseteq 0..(HostMod - 1)
  /\ bus = "SDIO" => sentLatest < TxMod /\ gotLatest < RxMod
  /\ late \in BOOLEAN /\ call.last \in BOOLEAN
  /\ 0 <= call.rest /\ call.rest <= call.length
  /\ call.part \in 0..(Bytes - 1)
  /\ stale \subseteq {"tx", "rx"} /\ adrift \subseteq {"tx", "rx"}

\* Flow control of the way out: the host never fills a buffer the slave has
\* not loaded, whatever the counters wrap around to and whenever the slave
\* changes the register during the reading (essl_spi_update_tx_buffer_num()).
NeverOverrun == "tx" \notin adrift => filled <= loaded

\* Flow control of the way back: the host never reads bytes the slave has not
\* produced (essl_get_packet() takes what RxSize says).
NeverUnderrun == "rx" \notin adrift => taken <= produced
=============================================================================
