----------------------------- MODULE MCDevices ------------------------------
(***************************************************************************)
(* One run for six components that share nothing. which says of what       *)
(* component a behaviour is: it is chosen at the start and never changes,  *)
(* so that the states are the disjoint union of those of the components,   *)
(* and each property is about one of them. The components use the same     *)
(* variables x1, x2, ..., in the order in which their modules declare      *)
(* theirs.                                                                 *)
(***************************************************************************)
EXTENDS Naturals

CONSTANT Null   \* a null pointer, no data

VARIABLES
  which,
  x1, x2, x3, x4, x5, x6, x7, x8, x9, x10, x11, x12, x13, x14, x15, x16, x17,
  x18, x19, x20, x21

Scheduler == INSTANCE Schedule WITH
  Tasks <- {"app"}, Schedules <- {"s1", "s2"}, NONE <- Null,
  Types <- [s \in {"s1", "s2"} |->
              IF s = "s1" THEN {"relative", "once"} ELSE {"repeating"}],
  Delay <- [s \in {"s1", "s2"} |-> IF s = "s1" THEN 1 ELSE 3],
  EndTime <- [s \in {"s1", "s2"} |-> IF s = "s1" THEN 0 ELSE 3],
  Calls <- {"create", "enable", "disable", "edit", "delete"},
  NestedCalls <- {"delete"}, QueueLen <- 2, MaxPeriod <- 1, MaxTime <- 4,
  MaxBoots <- 1, MaxCalls <- 4, MaxTimers <- 3, Preempted <- FALSE,
  now <- x1, mem <- x2, type <- x3, next <- x4, callback <- x5, handle <- x6,
  stored <- x7, timer <- x8, commands <- x9, op <- x10, frame <- x11,
  dispatching <- x12, deleted <- x13, fires <- x14, off <- x15, lost <- x16,
  boots <- x17, calls <- x18

Rom == INSTANCE RomSearch WITH
  Bits <- 3, BadCrc <- {<<1, 0, 1>>}, MaxErrors <- 1,
  present <- x1, lastDiscrepancy <- x2, isLast <- x3, rom <- x4, bit <- x5,
  lastZero <- x6, found <- x7, errors <- x8

Link == INSTANCE SlaveLink WITH
  Buses <- {"SDIO", "SPI"}, TxMod <- 3, RxMod <- 9, HostMod <- 27, ByteMod <- 3,
  Bytes <- 3, Weight <- [i \in 0..3 |-> 3^i], BufSize <- 2, BlockSize <- 2,
  Lengths <- {1, 3}, Ahead <- 2, AheadBytes <- 3, Failing <- {"first", "later", "done", "read"}, Start <- 25,
  MaxSlave <- 4, MaxFailures <- 1, MaxResets <- 1,
  bus <- x1, sent <- x2, sentLatest <- x3, got <- x4, gotLatest <- x5,
  call <- x6, late <- x7, loaded <- x8, filled <- x9, produced <- x10,
  taken <- x11, stale <- x12, adrift <- x13, limit <- x14, failures <- x15,
  resets <- x16

Image == INSTANCE EncryptedImg WITH
  MagicSize <- 2, KeySize <- 3, IvSize <- 2, BinSizeData <- 2, AuthSize <- 2,
  Reserved <- 2, Block <- 2, Lengths <- {0, 1, 5}, Trailing <- {0, 1},
  Pieces <- {0, 1, 2, 3, 5, 18},
  image <- x1, supplied <- x2, at <- x3, state <- x4, read <- x5,
  length <- x6, key <- x7, iv <- x8, auth <- x9, cache <- x10,
  capacity <- x11, out <- x12, phase <- x13

IsoTransport == INSTANCE IsoTp WITH
  Frames <- {"f1", "f2", "f3"}, None <- Null, TxDepth <- 2, Sizes <- {8, 9},
  MaxTransports <- 2, MaxFailures <- 1,
  build <- x1, enabled <- x2, context <- x3, transport <- x4, created <- x5,
  head <- x6, next <- x7, flying <- x8, at <- x9, frame <- x10, second <- x11,
  failures <- x12, raced <- x13, dangling <- x14, dropped <- x15

Touch == INSTANCE TouchButtons WITH
  Buttons <- {1}, Guard <- 2, Scans <- 2, LongPress <- 2, IntrSize <- 2,
  EventSize <- 1, MaxChanges <- 3, MaxCalls <- 2,
  touched <- x1, seen <- x2, pending <- x3, scanOn <- x4, scans <- x5,
  intrQueue <- x6, running <- x7, leaked <- x8, isSet <- x9, pmLock <- x10,
  device <- x11, last <- x12, cnt <- x13, eventQueue <- x14, changes <- x15,
  calls <- x16, told <- x17, held <- x18, missed <- x19, hurried <- x20,
  wrong <- x21

\* The variables a component of n variables leaves unused.
Unused(n) ==
  /\ n < 9 => x9 = Null
  /\ n < 10 => x10 = Null
  /\ n < 11 => x11 = Null
  /\ n < 12 => x12 = Null
  /\ n < 13 => x13 = Null
  /\ n < 14 => x14 = Null
  /\ n < 15 => x15 = Null
  /\ n < 16 => x16 = Null
  /\ n < 17 => x17 = Null
  /\ n < 18 => x18 = Null
  /\ n < 19 => x19 = Null
  /\ n < 20 => x20 = Null
  /\ n < 21 => x21 = Null

UnusedStay(n) ==
  /\ n < 9 => UNCHANGED x9
  /\ n < 10 => UNCHANGED x10
  /\ n < 11 => UNCHANGED x11
  /\ n < 12 => UNCHANGED x12
  /\ n < 13 => UNCHANGED x13
  /\ n < 14 => UNCHANGED x14
  /\ n < 15 => UNCHANGED x15
  /\ n < 16 => UNCHANGED x16
  /\ n < 17 => UNCHANGED x17
  /\ n < 18 => UNCHANGED x18
  /\ n < 19 => UNCHANGED x19
  /\ n < 20 => UNCHANGED x20
  /\ n < 21 => UNCHANGED x21

ASSUME ConstantsAssumption ==
  /\ Scheduler!ConstantsOK
  /\ Rom!ConstantsOK
  /\ Link!ConstantsOK /\ Link!Gradual
  /\ Image!ConstantsOK
  /\ IsoTransport!ConstantsOK
  /\ Touch!ConstantsOK

Init ==
  \/ which = "schedule" /\ Scheduler!Init /\ Unused(18)
  \/ which = "rom" /\ Rom!Init /\ Unused(8)
  \/ which = "link" /\ Link!Init /\ Unused(16)
  \/ which = "image" /\ Image!Init /\ Unused(13)
  \/ which = "isotp" /\ IsoTransport!Init /\ Unused(15)
  \/ which = "touch" /\ Touch!Init /\ Unused(21)

Next ==
  /\ UNCHANGED which
  /\ \/ which = "schedule" /\ Scheduler!Next /\ UnusedStay(18)
     \/ which = "rom" /\ Rom!Next /\ UnusedStay(8)
     \/ which = "link" /\ Link!Next /\ UnusedStay(16)
     \/ which = "image" /\ Image!Next /\ UnusedStay(13)
     \/ which = "isotp" /\ IsoTransport!Next /\ UnusedStay(15)
     \/ which = "touch" /\ Touch!Next /\ UnusedStay(21)

vars == <<which,
          x1, x2, x3, x4, x5, x6, x7, x8, x9, x10, x11, x12, x13, x14, x15,
          x16, x17, x18, x19, x20, x21>>

Spec == Init /\ [][Next]_vars

schedulerVars == Scheduler!vars
romVars == Rom!vars

\* The fairness that the components state, for their own behaviours.
FairSpec ==
  /\ Spec
  /\ WF_schedulerVars(which = "schedule" /\ Scheduler!TimerDaemon)
  /\ \A a \in {"app", "daemon"} :
       WF_schedulerVars(which = "schedule" /\ Scheduler!Continue(a))
  /\ WF_romVars(which = "rom" /\ Rom!GetNext)
  /\ WF_romVars(which = "rom" /\ Rom!Walk)
  /\ WF_romVars(which = "rom" /\ Rom!Walked)

-----------------------------------------------------------------------------
(***************************************************************************)
(* The properties: those of the components.                                *)
(***************************************************************************)

\* Every variable of a component holds a value of its type.
TypeOK ==
  /\ which = "schedule" => Scheduler!TypeOK
  /\ which = "rom" => Rom!TypeOK
  /\ which = "link" => Link!TypeOK
  /\ which = "image" => Image!TypeOK
  /\ which = "isotp" => IsoTransport!TypeOK
  /\ which = "touch" => Touch!TypeOK

\* No task and no callback touches a schedule or timer that was freed
\* (esp_schedule_delete() against esp_schedule_timer_common_cb()).
ScheduleNoUseAfterFree == which = "schedule" => Scheduler!NoUseAfterFree

\* An enabled one-shot schedule triggers at most once, across restarts too
\* (esp_schedule_timer_common_cb(), esp_schedule_init_with_config()).
ScheduleFiresOnce == which = "schedule" => Scheduler!OneShotFiresOnce

\* An armed schedule has a timer that runs or is about to
\* (esp_schedule_start_timer() and the slices of esp_schedule_timer_start()).
ScheduleKeepsTimer == which = "schedule" => Scheduler!ArmedHasTimer

\* An iteration finds no 1-Wire device twice, none that is not on the bus, and
\* when it ends it has found every device with a good CRC
\* (onewire_device_iter_get_next()).
RomFindsEachOnce == which = "rom" => Rom!FindsEachOnce

\* The host never sends more buffers than the slave has loaded
\* (essl_send_packet(), both buses).
LinkNeverOverruns == which = "link" => Link!NeverOverrun

\* The host never reads bytes that the slave has not produced
\* (essl_get_packet(), both buses).
LinkNeverUnderruns == which = "link" => Link!NeverUnderrun

\* However an encrypted image is cut, the fields of its header are read whole and
\* its bytes are decrypted in order, none twice, none left out (process_bin(),
\* read_and_cache_data()).
ImageInOrder == which = "image" => Image!InOrder

\* An image that ends well was decrypted to its last byte and is genuine
\* (esp_encrypted_img_decrypt_end()).
ImageOkIsWhole == which = "image" => Image!OkIsWhole

\* No transmit frame is lost or used twice, unless an interrupt meets the
\* task inside a list operation; only the check of the length gives up a frame
\* that it took (isotp_user_send_can()).
IsoTpFramesKept == which = "isotp" => IsoTransport!FramesKept

\* The TWAI node never calls back into a freed transport, unless a call of
\* the driver failed (esp_isotp_new_transport(), esp_isotp_delete()).
IsoTpCallbackAlive == which = "isotp" => IsoTransport!CallbackAlive

\* The events of a button are received in order, unless a change was dropped
\* or the pad touched again too soon (button_proc_state()).
TouchEventsInOrder == which = "touch" => Touch!EventsInOrder

\* Pads that nobody touches keep no power lock, unless a change was dropped
\* (te_intr_cb(), te_proc_timer_cb()).
TouchPowerLockReturned == which = "touch" => Touch!PowerLockReturned

\* Every call of the schedule API returns: the daemon never waits for room in
\* a queue that it empties itself (esp_schedule_timer_start()).
ScheduleCallReturns ==
  which = "schedule" /\ ~Scheduler!At("app", "idle")
    ~> which = "schedule" /\ Scheduler!At("app", "idle")

\* An application that calls again after each failure reaches the last 1-Wire
\* device (onewire_device_iter_get_next()).
RomEnds == <>(which = "rom" => Rom!AtEnd)

=============================================================================
