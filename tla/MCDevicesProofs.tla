--------------------------- MODULE MCDevicesProofs --------------------------
(***************************************************************************)
(* The theorems about the components, brought to the composition that the  *)
(* run checks: a behaviour of the composition is, from its beginning to    *)
(* its end, one of the component that which names.  The proofs unfold the  *)
(* definitions of a component in both of its instances, the one the run    *)
(* checks and the one the theorems are about.                              *)
(***************************************************************************)
EXTENDS MCDevices, TLAPS

ScheduleProof == INSTANCE ScheduleProofs WITH
  Tasks <- {"app"}, Schedules <- {"s1", "s2"}, NONE <- Null,
  Types <- [s \in {"s1", "s2"} |->
              IF s = "s1" THEN {"relative", "once"} ELSE {"repeating"}],
  Delay <- [s \in {"s1", "s2"} |-> IF s = "s1" THEN 1 ELSE 3],
  EndTime <- [s \in {"s1", "s2"} |-> IF s = "s1" THEN 0 ELSE 3],
  Calls <- {"create", "enable", "disable", "edit", "delete"},
  NestedCalls <- {"delete"}, QueueLen <- 2, MaxPeriod <- 1, MaxTime <- 4,
  MaxBoots <- 1, MaxCalls <- 4, MaxTimers <- 3, Preempted <- FALSE,
  now <- x1, mem <- x2, type <- x3, next <- x4, callback <- x5, handle <- x6,
  stored <- x7, timer <- x8, commands <- x9, op <- x10, frame <- x11,
  dispatching <- x12, deleted <- x13, fires <- x14, off <- x15, lost <- x16,
  boots <- x17, calls <- x18

LinkProofs == INSTANCE SlaveLinkProofs WITH
  Buses <- {"SDIO", "SPI"}, TxMod <- 3, RxMod <- 9, HostMod <- 27, ByteMod <- 3,
  Bytes <- 3, Weight <- [i \in 0..3 |-> 3^i], BufSize <- 2, BlockSize <- 2,
  Lengths <- {1, 3}, Ahead <- 2, AheadBytes <- 3, Failing <- {"first", "later", "done", "read"}, Start <- 25,
  MaxSlave <- 4, MaxFailures <- 1, MaxResets <- 1,
  bus <- x1, sent <- x2, sentLatest <- x3, got <- x4, gotLatest <- x5,
  call <- x6, late <- x7, loaded <- x8, filled <- x9, produced <- x10,
  taken <- x11, stale <- x12, adrift <- x13, limit <- x14, failures <- x15,
  resets <- x16

TouchIsoTp == INSTANCE TouchIsoTpProofs WITH
  Buttons <- {1}, Guard <- 2, Scans <- 2, LongPress <- 2, IntrSize <- 2,
  EventSize <- 1, MaxChanges <- 3, MaxCalls <- 2,
  touched <- x1, seen <- x2, pending <- x3, scanOn <- x4, scans <- x5,
  intrQueue <- x6, running <- x7, leaked <- x8, isSet <- x9, pmLock <- x10,
  device <- x11, last <- x12, cnt <- x13, eventQueue <- x14, changes <- x15,
  calls <- x16, told <- x17, held <- x18, missed <- x19, hurried <- x20,
  wrong <- x21,
  Frames <- {"f1", "f2", "f3"}, None <- Null, TxDepth <- 2, Sizes <- {8, 9},
  MaxTransports <- 2, MaxFailures <- 1,
  build <- x1, enabled <- x2, context <- x3, transport <- x4, created <- x5,
  head <- x6, next <- x7, flying <- x8, at <- x9, frame <- x10, second <- x11,
  failures <- x12, raced <- x13, dangling <- x14, dropped <- x15

SearchImage == INSTANCE SearchImageProofs WITH
  Bits <- 3, BadCrc <- {<<1, 0, 1>>}, MaxErrors <- 1,
  present <- x1, lastDiscrepancy <- x2, isLast <- x3, rom <- x4, bit <- x5,
  lastZero <- x6, found <- x7, errors <- x8,
  MagicSize <- 2, KeySize <- 3, IvSize <- 2, BinSizeData <- 2, AuthSize <- 2,
  Reserved <- 2, Block <- 2, Lengths <- {0, 1, 5}, Trailing <- {0, 1},
  Pieces <- {0, 1, 2, 3, 5, 18},
  image <- x1, supplied <- x2, at <- x3, state <- x4, read <- x5,
  length <- x6, key <- x7, iv <- x8, auth <- x9, cache <- x10,
  capacity <- x11, out <- x12, phase <- x13

-----------------------------------------------------------------------------
(* esp_serial_slave_link.                                                  *)

LEMMA LinkConstants == LinkProofs!ConstantsOK /\ LinkProofs!Gradual
BY ConstantsAssumption, Zenon
   DEF Link!ConstantsOK, LinkProofs!ConstantsOK, Link!Gradual,
       LinkProofs!Gradual

LEMMA LinkInit == Init /\ which = "link" => LinkProofs!Init
BY DEF Init, Link!Idle, LinkProofs!Idle, Link!TxWidth, LinkProofs!TxWidth,
       Link!RxWidth, LinkProofs!RxWidth, Link!Init, LinkProofs!Init

LEMMA LinkSameNext == Link!Next <=> LinkProofs!Next
BY Zenon
   DEF Link!host, LinkProofs!host, Link!slave, LinkProofs!slave, Link!trust,
       LinkProofs!trust, Link!bounds, LinkProofs!bounds, Link!Idle,
       LinkProofs!Idle, Link!TxWidth, LinkProofs!TxWidth, Link!RxWidth,
       LinkProofs!RxWidth, Link!TxFree, LinkProofs!TxFree, Link!RxSize,
       LinkProofs!RxSize, Link!BuffersFor, LinkProofs!BuffersFor, Link!Chunk,
       LinkProofs!Chunk, Link!TxRegister, LinkProofs!TxRegister,
       Link!RxRegister, LinkProofs!RxRegister, Link!Fail, LinkProofs!Fail,
       Link!Return, LinkProofs!Return, Link!Goto, LinkProofs!Goto, Link!Round,
       LinkProofs!Round, Link!SendPacket, LinkProofs!SendPacket,
       Link!SendChecks, LinkProofs!SendChecks, Link!SendRechecks,
       LinkProofs!SendRechecks, Link!Write, LinkProofs!Write, Link!WriteFails,
       LinkProofs!WriteFails, Link!Written, LinkProofs!Written,
       Link!GetPacket, LinkProofs!GetPacket, Link!GetUpdates,
       LinkProofs!GetUpdates, Link!GetRechecks, LinkProofs!GetRechecks,
       Link!Read, LinkProofs!Read, Link!ReadFails, LinkProofs!ReadFails,
       Link!Refresh, LinkProofs!Refresh, Link!Refreshed, LinkProofs!Refreshed,
       Link!InRegister, LinkProofs!InRegister, Link!Register,
       LinkProofs!Register, Link!Update, LinkProofs!Update, Link!ReadRegister,
       LinkProofs!ReadRegister, Link!Reading, LinkProofs!Reading,
       Link!ReadRegisterPart, LinkProofs!ReadRegisterPart,
       Link!ReadRegisterEnd, LinkProofs!ReadRegisterEnd,
       Link!ReadRegisterFails, LinkProofs!ReadRegisterFails, Link!SlaveLoads,
       LinkProofs!SlaveLoads, Link!SlaveProduces, LinkProofs!SlaveProduces,
       Link!TimeIsOver, LinkProofs!TimeIsOver, Link!ResetCnt,
       LinkProofs!ResetCnt, Link!Next, LinkProofs!Next

LEMMA LinkNext ==
  ASSUME which = "link", [Next]_vars
  PROVE  which' = "link" /\ [LinkProofs!Next]_(LinkProofs!vars)
<1>1. CASE Next
  BY <1>1, LinkSameNext, Zenon DEF Next
<1>2. CASE UNCHANGED vars
  BY <1>2
     DEF vars, LinkProofs!host, LinkProofs!slave, LinkProofs!trust,
         LinkProofs!bounds, LinkProofs!vars
<1> QED BY <1>1, <1>2

\* A behaviour of the composition that starts as this component is one of it.
LEMMA LinkSpec == Spec => []~(which = "link") \/ ([](which = "link") /\ LinkProofs!Spec)
<1>1. Init /\ which = "link" => LinkProofs!Init BY LinkInit
<1>2. which = "link" /\ [Next]_vars => (which = "link")' /\ [LinkProofs!Next]_(LinkProofs!vars)
  BY LinkNext
<1>3. ~(which = "link") /\ [Next]_vars => ~(which = "link")'
  BY DEF Next, vars
<1> QED BY <1>1, <1>2, <1>3, PTL DEF Spec, LinkProofs!Spec

LEMMA LinkTyped == Spec => [](which = "link" => Link!TypeOK)
<1>1. LinkProofs!Spec => []LinkProofs!TypeOK BY LinkProofs!TypeCorrect, LinkConstants
<1>2. LinkProofs!TypeOK => (which = "link" => Link!TypeOK)
  BY Zenon
     DEF Link!TypeOK, LinkProofs!TypeOK
<1>3. ~(which = "link") => (which = "link" => Link!TypeOK) OBVIOUS
<1> QED BY <1>1, <1>2, <1>3, LinkSpec, PTL

\* The host never sends more buffers than the slave has loaded
\* (essl_send_packet()).
THEOREM LinkFlowTx == Spec => []LinkNeverOverruns
<1>1. LinkProofs!Spec => []LinkProofs!NeverOverrun BY LinkProofs!NoOverrun, LinkConstants
<1>2. LinkProofs!NeverOverrun => LinkNeverOverruns
  BY DEF LinkNeverOverruns, Link!NeverOverrun, LinkProofs!NeverOverrun
<1>3. ~(which = "link") => LinkNeverOverruns BY DEF LinkNeverOverruns
<1> QED BY <1>1, <1>2, <1>3, LinkSpec, PTL

\* The host never reads bytes that the slave has not produced
\* (essl_get_packet()).
THEOREM LinkFlowRx == Spec => []LinkNeverUnderruns
<1>1. LinkProofs!Spec => []LinkProofs!NeverUnderrun BY LinkProofs!NoUnderrun, LinkConstants
<1>2. LinkProofs!NeverUnderrun => LinkNeverUnderruns
  BY DEF LinkNeverUnderruns, Link!NeverUnderrun, LinkProofs!NeverUnderrun
<1>3. ~(which = "link") => LinkNeverUnderruns BY DEF LinkNeverUnderruns
<1> QED BY <1>1, <1>2, <1>3, LinkSpec, PTL

-----------------------------------------------------------------------------
(* esp_isotp.                                                              *)

LEMMA IsoTpConstants == TouchIsoTp!Tp!ConstantsOK
BY ConstantsAssumption, Zenon
   DEF IsoTransport!IsFiniteSet, TouchIsoTp!Tp!IsFiniteSet,
       IsoTransport!Cardinality, TouchIsoTp!Tp!Cardinality,
       IsoTransport!ConstantsOK, TouchIsoTp!Tp!ConstantsOK

LEMMA IsoTpInit == Init /\ which = "isotp" => TouchIsoTp!Tp!Init
BY DEF Init, IsoTransport!Builds, TouchIsoTp!Tp!Builds, IsoTransport!Init,
       TouchIsoTp!Tp!Init

LEMMA IsoTpSameLists ==
  /\ IsoTransport!FullHead = TouchIsoTp!Tp!FullHead
  /\ IsoTransport!FullNext = TouchIsoTp!Tp!FullNext
BY DEF IsoTransport!IsFiniteSet, TouchIsoTp!Tp!IsFiniteSet,
       IsoTransport!Cardinality, TouchIsoTp!Tp!Cardinality,
       IsoTransport!Place, TouchIsoTp!Tp!Place, IsoTransport!FullHead,
       TouchIsoTp!Tp!FullHead, IsoTransport!FullNext, TouchIsoTp!Tp!FullNext

LEMMA IsoTpSameNext == IsoTransport!Next <=> TouchIsoTp!Tp!Next
BY IsoTpSameLists, Zenon
   DEF IsoTransport!IsFiniteSet, TouchIsoTp!Tp!IsFiniteSet,
       IsoTransport!Cardinality, TouchIsoTp!Tp!Cardinality,
       IsoTransport!MaxPayload, TouchIsoTp!Tp!MaxPayload, IsoTransport!node,
       TouchIsoTp!Tp!node, IsoTransport!pool, TouchIsoTp!Tp!pool,
       IsoTransport!task, TouchIsoTp!Tp!task, IsoTransport!Idle,
       TouchIsoTp!Tp!Idle, IsoTransport!Live, TouchIsoTp!Tp!Live,
       IsoTransport!InWindow, TouchIsoTp!Tp!InWindow, IsoTransport!Fails,
       TouchIsoTp!Tp!Fails, IsoTransport!NewTransport,
       TouchIsoTp!Tp!NewTransport, IsoTransport!Unregister,
       TouchIsoTp!Tp!Unregister, IsoTransport!Delete, TouchIsoTp!Tp!Delete,
       IsoTransport!AppEnable, TouchIsoTp!Tp!AppEnable,
       IsoTransport!AppDisable, TouchIsoTp!Tp!AppDisable, IsoTransport!Take,
       TouchIsoTp!Tp!Take, IsoTransport!ReadNext, TouchIsoTp!Tp!ReadNext,
       IsoTransport!Unlink, TouchIsoTp!Tp!Unlink, IsoTransport!Refused,
       TouchIsoTp!Tp!Refused, IsoTransport!TooLong, TouchIsoTp!Tp!TooLong,
       IsoTransport!Fits, TouchIsoTp!Tp!Fits, IsoTransport!Oversized,
       TouchIsoTp!Tp!Oversized, IsoTransport!Queued, TouchIsoTp!Tp!Queued,
       IsoTransport!Transmit, TouchIsoTp!Tp!Transmit, IsoTransport!Link,
       TouchIsoTp!Tp!Link, IsoTransport!Interrupt, TouchIsoTp!Tp!Interrupt,
       IsoTransport!TxCallback, TouchIsoTp!Tp!TxCallback,
       IsoTransport!RxCallback, TouchIsoTp!Tp!RxCallback, IsoTransport!Next,
       TouchIsoTp!Tp!Next

LEMMA IsoTpNext ==
  ASSUME which = "isotp", [Next]_vars
  PROVE  which' = "isotp" /\ [TouchIsoTp!Tp!Next]_(TouchIsoTp!Tp!vars)
<1>1. CASE Next
  BY <1>1, IsoTpSameNext, Zenon DEF Next
<1>2. CASE UNCHANGED vars
  BY <1>2
     DEF vars, TouchIsoTp!Tp!node, TouchIsoTp!Tp!pool, TouchIsoTp!Tp!task,
         TouchIsoTp!Tp!vars
<1> QED BY <1>1, <1>2

\* A behaviour of the composition that starts as this component is one of it.
LEMMA IsoTpSpec == Spec => []~(which = "isotp") \/ ([](which = "isotp") /\ TouchIsoTp!Tp!Spec)
<1>1. Init /\ which = "isotp" => TouchIsoTp!Tp!Init BY IsoTpInit
<1>2. which = "isotp" /\ [Next]_vars => (which = "isotp")' /\ [TouchIsoTp!Tp!Next]_(TouchIsoTp!Tp!vars)
  BY IsoTpNext
<1>3. ~(which = "isotp") /\ [Next]_vars => ~(which = "isotp")'
  BY DEF Next, vars
<1> QED BY <1>1, <1>2, <1>3, PTL DEF Spec, TouchIsoTp!Tp!Spec

LEMMA IsoTpTyped == Spec => [](which = "isotp" => IsoTransport!TypeOK)
<1>1. TouchIsoTp!Tp!Spec => []TouchIsoTp!Tp!TypeOK BY TouchIsoTp!PoolTyped, IsoTpConstants
<1>2. TouchIsoTp!Tp!TypeOK => (which = "isotp" => IsoTransport!TypeOK)
  BY Zenon
     DEF IsoTransport!Builds, TouchIsoTp!Tp!Builds, IsoTransport!TypeOK,
         TouchIsoTp!Tp!TypeOK
<1>3. ~(which = "isotp") => (which = "isotp" => IsoTransport!TypeOK) OBVIOUS
<1> QED BY <1>1, <1>2, <1>3, IsoTpSpec, PTL

\* No transmit frame is lost or used twice, unless an interrupt meets the task
\* inside a list operation; only the check of the length gives up a frame that
\* it took (isotp_user_send_can()).
THEOREM IsoTpFrames == Spec => []IsoTpFramesKept
<1>1. TouchIsoTp!Tp!Spec => []TouchIsoTp!Tp!FramesKept BY TouchIsoTp!NoFrameLost, IsoTpConstants
<1>2. TouchIsoTp!Tp!FramesKept => IsoTpFramesKept
  BY DEF IsoTpFramesKept, IsoTransport!Live, TouchIsoTp!Tp!Live,
         IsoTransport!Closed, TouchIsoTp!Tp!Closed, IsoTransport!Reach,
         TouchIsoTp!Tp!Reach, IsoTransport!Pooled, TouchIsoTp!Tp!Pooled,
         IsoTransport!Owned, TouchIsoTp!Tp!Owned, IsoTransport!OnePlace,
         TouchIsoTp!Tp!OnePlace, IsoTransport!FramesKept,
         TouchIsoTp!Tp!FramesKept
<1>3. ~(which = "isotp") => IsoTpFramesKept BY DEF IsoTpFramesKept
<1> QED BY <1>1, <1>2, <1>3, IsoTpSpec, PTL

\* The node never calls back into a freed transport, unless a call of the
\* driver failed (esp_isotp_new_transport(), esp_isotp_delete()).
THEOREM IsoTpCallbacks == Spec => []IsoTpCallbackAlive
<1>1. TouchIsoTp!Tp!Spec => []TouchIsoTp!Tp!CallbackAlive BY TouchIsoTp!NoStaleCallback
<1>2. TouchIsoTp!Tp!CallbackAlive => IsoTpCallbackAlive
  BY DEF IsoTpCallbackAlive, IsoTransport!CallbackAlive,
         TouchIsoTp!Tp!CallbackAlive
<1>3. ~(which = "isotp") => IsoTpCallbackAlive BY DEF IsoTpCallbackAlive
<1> QED BY <1>1, <1>2, <1>3, IsoTpSpec, PTL

-----------------------------------------------------------------------------
(* esp_encrypted_img.                                                      *)

LEMMA ImageConstants == SearchImage!Img!ConstantsOK
BY ConstantsAssumption, Zenon
   DEF Image!ConstantsOK, SearchImage!Img!ConstantsOK

LEMMA ImageInit == Init /\ which = "image" => SearchImage!Img!Init
BY DEF Init, Image!Init, SearchImage!Img!Init

LEMMA ImageSameNext == Image!Next <=> SearchImage!Img!Next
BY Zenon
   DEF Image!fields, SearchImage!Img!fields, Image!Smaller,
       SearchImage!Img!Smaller, Image!Size, SearchImage!Img!Size,
       Image!NextState, SearchImage!Img!NextState, Image!Start,
       SearchImage!Img!Start, Image!Header, SearchImage!Img!Header,
       Image!Total, SearchImage!Img!Total, Image!Bytes, SearchImage!Img!Bytes,
       Image!DecryptData, SearchImage!Img!DecryptData, Image!Left,
       SearchImage!Img!Left, Image!Taken, SearchImage!Img!Taken,
       Image!InHeader, SearchImage!Img!InHeader, Image!Whole,
       SearchImage!Img!Whole, Image!ReadPart, SearchImage!Img!ReadPart,
       Image!ReadField, SearchImage!Img!ReadField, Image!FieldFails,
       SearchImage!Img!FieldFails, Image!Decoding, SearchImage!Img!Decoding,
       Image!ProcessBin, SearchImage!Img!ProcessBin, Image!ProcessBinEnd,
       SearchImage!Img!ProcessBinEnd, Image!ProcessBinFails,
       SearchImage!Img!ProcessBinFails, Image!Verifies,
       SearchImage!Img!Verifies, Image!Free, SearchImage!Img!Free,
       Image!DecryptEnd, SearchImage!Img!DecryptEnd, Image!DecryptAbort,
       SearchImage!Img!DecryptAbort, Image!Next, SearchImage!Img!Next

LEMMA ImageNext ==
  ASSUME which = "image", [Next]_vars
  PROVE  which' = "image" /\ [SearchImage!Img!Next]_(SearchImage!Img!vars)
<1>1. CASE Next
  BY <1>1, ImageSameNext, Zenon DEF Next
<1>2. CASE UNCHANGED vars
  BY <1>2
     DEF vars, SearchImage!Img!fields, SearchImage!Img!vars
<1> QED BY <1>1, <1>2

\* A behaviour of the composition that starts as this component is one of it.
LEMMA ImageSpec == Spec => []~(which = "image") \/ ([](which = "image") /\ SearchImage!Img!Spec)
<1>1. Init /\ which = "image" => SearchImage!Img!Init BY ImageInit
<1>2. which = "image" /\ [Next]_vars => (which = "image")' /\ [SearchImage!Img!Next]_(SearchImage!Img!vars)
  BY ImageNext
<1>3. ~(which = "image") /\ [Next]_vars => ~(which = "image")'
  BY DEF Next, vars
<1> QED BY <1>1, <1>2, <1>3, PTL DEF Spec, SearchImage!Img!Spec

LEMMA ImageTyped == Spec => [](which = "image" => Image!TypeOK)
<1>1. SearchImage!Img!Spec => []SearchImage!Img!TypeOK BY SearchImage!ImageTypeCorrect, ImageConstants
<1>2. SearchImage!Img!TypeOK => (which = "image" => Image!TypeOK)
  BY Zenon
     DEF Image!Size, SearchImage!Img!Size, Image!Start, SearchImage!Img!Start,
         Image!Header, SearchImage!Img!Header, Image!Total,
         SearchImage!Img!Total, Image!TypeOK, SearchImage!Img!TypeOK
<1>3. ~(which = "image") => (which = "image" => Image!TypeOK) OBVIOUS
<1> QED BY <1>1, <1>2, <1>3, ImageSpec, PTL

\* An encrypted image is decrypted byte by byte in order, however it is cut
\* (esp_encrypted_img_decrypt_data()).
THEOREM ImageOrder == Spec => []ImageInOrder
<1>1. SearchImage!Img!Spec => []SearchImage!Img!InOrder BY SearchImage!DecryptsInOrder, ImageConstants
<1>2. SearchImage!Img!InOrder => ImageInOrder
  BY DEF ImageInOrder, Image!Start, SearchImage!Img!Start, Image!Header,
         SearchImage!Img!Header, Image!Bytes, SearchImage!Img!Bytes,
         Image!InOrder, SearchImage!Img!InOrder
<1>3. ~(which = "image") => ImageInOrder BY DEF ImageInOrder
<1> QED BY <1>1, <1>2, <1>3, ImageSpec, PTL

\* An image that ends well was decrypted to its last byte and is genuine
\* (esp_encrypted_img_decrypt_end()).
THEOREM ImageWhole == Spec => []ImageOkIsWhole
<1>1. SearchImage!Img!Spec => []SearchImage!Img!OkIsWhole BY SearchImage!EndsWhole, ImageConstants
<1>2. SearchImage!Img!OkIsWhole => ImageOkIsWhole
  BY DEF ImageOkIsWhole, Image!Start, SearchImage!Img!Start, Image!Header,
         SearchImage!Img!Header, Image!OkIsWhole, SearchImage!Img!OkIsWhole
<1>3. ~(which = "image") => ImageOkIsWhole BY DEF ImageOkIsWhole
<1> QED BY <1>1, <1>2, <1>3, ImageSpec, PTL

-----------------------------------------------------------------------------
(* onewire_bus: the ROM search.                                            *)

LEMMA RomConstants == SearchImage!ConstantsOK
BY ConstantsAssumption, Zenon
   DEF Rom!IsFiniteSet, SearchImage!IsFiniteSet, Rom!Cardinality,
       SearchImage!Cardinality, Rom!ConstantsOK, SearchImage!ConstantsOK

LEMMA RomInit == Init /\ which = "rom" => SearchImage!Init
BY DEF Init, Rom!Rom, SearchImage!Rom, Rom!Init, SearchImage!Init

LEMMA RomSameNext == Rom!Next <=> SearchImage!Next
BY Zenon
   DEF Rom!IsFiniteSet, SearchImage!IsFiniteSet, Rom!Cardinality,
       SearchImage!Cardinality, Rom!iter, SearchImage!iter, Rom!Taking,
       SearchImage!Taking, Rom!RomBit, SearchImage!RomBit,
       Rom!RomBitComplement, SearchImage!RomBitComplement, Rom!Direction,
       SearchImage!Direction, Rom!GetNext, SearchImage!GetNext, Rom!Walk,
       SearchImage!Walk, Rom!WalkFails, SearchImage!WalkFails, Rom!Walked,
       SearchImage!Walked, Rom!Next, SearchImage!Next

LEMMA RomNext ==
  ASSUME which = "rom", [Next]_vars
  PROVE  which' = "rom" /\ [SearchImage!Next]_(SearchImage!vars)
<1>1. CASE Next
  BY <1>1, RomSameNext, Zenon DEF Next
<1>2. CASE UNCHANGED vars
  BY <1>2
     DEF vars, SearchImage!iter, SearchImage!vars
<1> QED BY <1>1, <1>2

\* A behaviour of the composition that starts as this component is one of it.
LEMMA RomSpec == Spec => []~(which = "rom") \/ ([](which = "rom") /\ SearchImage!Spec)
<1>1. Init /\ which = "rom" => SearchImage!Init BY RomInit
<1>2. which = "rom" /\ [Next]_vars => (which = "rom")' /\ [SearchImage!Next]_(SearchImage!vars)
  BY RomNext
<1>3. ~(which = "rom") /\ [Next]_vars => ~(which = "rom")'
  BY DEF Next, vars
<1> QED BY <1>1, <1>2, <1>3, PTL DEF Spec, SearchImage!Spec

LEMMA RomTyped == Spec => [](which = "rom" => Rom!TypeOK)
<1>1. SearchImage!Spec => []SearchImage!TypeOK BY SearchImage!TypeCorrect, RomConstants
<1>2. SearchImage!TypeOK => (which = "rom" => Rom!TypeOK)
  BY Zenon
     DEF Rom!IsFiniteSet, SearchImage!IsFiniteSet, Rom!Cardinality,
         SearchImage!Cardinality, Rom!Rom, SearchImage!Rom, Rom!TypeOK,
         SearchImage!TypeOK
<1>3. ~(which = "rom") => (which = "rom" => Rom!TypeOK) OBVIOUS
<1> QED BY <1>1, <1>2, <1>3, RomSpec, PTL

\* The search finds every 1-Wire device with a good CRC once, also when calls
\* fail half way (onewire_device_iter_get_next()).
THEOREM RomOnce == Spec => []RomFindsEachOnce
<1>1. SearchImage!Spec => []SearchImage!FindsEachOnce BY SearchImage!EachOnce, RomConstants
<1>2. SearchImage!FindsEachOnce => RomFindsEachOnce
  BY DEF RomFindsEachOnce, Rom!IsFiniteSet, SearchImage!IsFiniteSet,
         Rom!Cardinality, SearchImage!Cardinality, Rom!FindsEachOnce,
         SearchImage!FindsEachOnce
<1>3. ~(which = "rom") => RomFindsEachOnce BY DEF RomFindsEachOnce
<1> QED BY <1>1, <1>2, <1>3, RomSpec, PTL

-----------------------------------------------------------------------------
(* esp_schedule.                                                           *)

LEMMA ScheduleConstants == ScheduleProof!ConstantsOK
BY ConstantsAssumption, Zenon
   DEF Scheduler!ConstantsOK, ScheduleProof!ConstantsOK

LEMMA ScheduleInit == Init /\ which = "schedule" => ScheduleProof!Init
BY DEF Init, Scheduler!Daemon, ScheduleProof!Daemon, Scheduler!Actors,
       ScheduleProof!Actors, Scheduler!Timers, ScheduleProof!Timers,
       Scheduler!NoEntry, ScheduleProof!NoEntry, Scheduler!Idle,
       ScheduleProof!Idle, Scheduler!NoFrame, ScheduleProof!NoFrame,
       Scheduler!NoTimer, ScheduleProof!NoTimer, Scheduler!Init,
       ScheduleProof!Init

LEMMA ScheduleSameNext == Scheduler!Next <=> ScheduleProof!Next
BY Zenon
   DEF Scheduler!Daemon, ScheduleProof!Daemon, Scheduler!Actors,
       ScheduleProof!Actors, Scheduler!Timers, ScheduleProof!Timers,
       Scheduler!OneShot, ScheduleProof!OneShot, Scheduler!memVars,
       ScheduleProof!memVars, Scheduler!timerVars, ScheduleProof!timerVars,
       Scheduler!cbVars, ScheduleProof!cbVars, Scheduler!ghosts,
       ScheduleProof!ghosts, Scheduler!NoEntry, ScheduleProof!NoEntry,
       Scheduler!Idle, ScheduleProof!Idle, Scheduler!NoFrame,
       ScheduleProof!NoFrame, Scheduler!NoTimer, ScheduleProof!NoTimer,
       Scheduler!At, ScheduleProof!At, Scheduler!GoTo, ScheduleProof!GoTo,
       Scheduler!Full, ScheduleProof!Full, Scheduler!CanPost,
       ScheduleProof!CanPost, Scheduler!Command, ScheduleProof!Command,
       Scheduler!Post, ScheduleProof!Post, Scheduler!Lose, ScheduleProof!Lose,
       Scheduler!Clamp, ScheduleProof!Clamp, Scheduler!FiredAndDone,
       ScheduleProof!FiredAndDone, Scheduler!Occurrence,
       ScheduleProof!Occurrence, Scheduler!Target, ScheduleProof!Target,
       Scheduler!NextTime, ScheduleProof!NextTime, Scheduler!NewTarget,
       ScheduleProof!NewTarget, Scheduler!CanTake, ScheduleProof!CanTake,
       Scheduler!GiveUp, ScheduleProof!GiveUp, Scheduler!Compute,
       ScheduleProof!Compute, Scheduler!ArmNew, ScheduleProof!ArmNew,
       Scheduler!Publish, ScheduleProof!Publish, Scheduler!Rebind,
       ScheduleProof!Rebind, Scheduler!ChangePeriod,
       ScheduleProof!ChangePeriod, Scheduler!Stop, ScheduleProof!Stop,
       Scheduler!Clear, ScheduleProof!Clear, Scheduler!Armed,
       ScheduleProof!Armed, Scheduler!Working, ScheduleProof!Working,
       Scheduler!MayUse, ScheduleProof!MayUse, Scheduler!MayDelete,
       ScheduleProof!MayDelete, Scheduler!MayCall, ScheduleProof!MayCall,
       Scheduler!Enter, ScheduleProof!Enter, Scheduler!Create,
       ScheduleProof!Create, Scheduler!Enable, ScheduleProof!Enable,
       Scheduler!Disable, ScheduleProof!Disable, Scheduler!EditGet,
       ScheduleProof!EditGet, Scheduler!EditReset, ScheduleProof!EditReset,
       Scheduler!EditSet, ScheduleProof!EditSet, Scheduler!Delete,
       ScheduleProof!Delete, Scheduler!DeleteStop, ScheduleProof!DeleteStop,
       Scheduler!CancelStop, ScheduleProof!CancelStop, Scheduler!Detach,
       ScheduleProof!Detach, Scheduler!DeleteTimer, ScheduleProof!DeleteTimer,
       Scheduler!Erase, ScheduleProof!Erase, Scheduler!Free,
       ScheduleProof!Free, Scheduler!Load, ScheduleProof!Load,
       Scheduler!Check, ScheduleProof!Check, Scheduler!Loaded,
       ScheduleProof!Loaded, Scheduler!Stopping, ScheduleProof!Stopping,
       Scheduler!Expire, ScheduleProof!Expire, Scheduler!ProcessCommand,
       ScheduleProof!ProcessCommand, Scheduler!CallbackDetached,
       ScheduleProof!CallbackDetached, Scheduler!CallbackSlice,
       ScheduleProof!CallbackSlice, Scheduler!Expired, ScheduleProof!Expired,
       Scheduler!Dispatches, ScheduleProof!Dispatches, Scheduler!Running,
       ScheduleProof!Running, Scheduler!CallbackRearms,
       ScheduleProof!CallbackRearms, Scheduler!Trigger, ScheduleProof!Trigger,
       Scheduler!TriggerReturns, ScheduleProof!TriggerReturns,
       Scheduler!HeldUp, ScheduleProof!HeldUp, Scheduler!Tick,
       ScheduleProof!Tick, Scheduler!Reboot, ScheduleProof!Reboot,
       Scheduler!StartTimer, ScheduleProof!StartTimer, Scheduler!Deleting,
       ScheduleProof!Deleting, Scheduler!Loading, ScheduleProof!Loading,
       Scheduler!Continue, ScheduleProof!Continue, Scheduler!Call,
       ScheduleProof!Call, Scheduler!TimerDaemon, ScheduleProof!TimerDaemon,
       Scheduler!Next, ScheduleProof!Next

LEMMA ScheduleNext ==
  ASSUME which = "schedule", [Next]_vars
  PROVE  which' = "schedule" /\ [ScheduleProof!Next]_(ScheduleProof!vars)
<1>1. CASE Next
  BY <1>1, ScheduleSameNext, Zenon DEF Next
<1>2. CASE UNCHANGED vars
  BY <1>2
     DEF vars, ScheduleProof!memVars, ScheduleProof!timerVars,
         ScheduleProof!cbVars, ScheduleProof!ghosts, ScheduleProof!vars
<1> QED BY <1>1, <1>2

\* A behaviour of the composition that starts as this component is one of it.
LEMMA ScheduleSpec == Spec => []~(which = "schedule") \/ ([](which = "schedule") /\ ScheduleProof!Spec)
<1>1. Init /\ which = "schedule" => ScheduleProof!Init BY ScheduleInit
<1>2. which = "schedule" /\ [Next]_vars => (which = "schedule")' /\ [ScheduleProof!Next]_(ScheduleProof!vars)
  BY ScheduleNext
<1>3. ~(which = "schedule") /\ [Next]_vars => ~(which = "schedule")'
  BY DEF Next, vars
<1> QED BY <1>1, <1>2, <1>3, PTL DEF Spec, ScheduleProof!Spec

LEMMA ScheduleTyped == Spec => [](which = "schedule" => Scheduler!TypeOK)
<1>1. ScheduleProof!Spec => []ScheduleProof!TypeOK BY ScheduleProof!TypeCorrect, ScheduleConstants
<1>2. ScheduleProof!TypeOK => (which = "schedule" => Scheduler!TypeOK)
  BY Zenon
     DEF Scheduler!Timers, ScheduleProof!Timers, Scheduler!NoEntry,
         ScheduleProof!NoEntry, Scheduler!TypeOK, ScheduleProof!TypeOK
<1>3. ~(which = "schedule") => (which = "schedule" => Scheduler!TypeOK) OBVIOUS
<1> QED BY <1>1, <1>2, <1>3, ScheduleSpec, PTL

\* No task and no callback uses a schedule, a timer or private data that has been
\* freed (esp_schedule_delete(), esp_schedule_timer_common_cb()).
THEOREM ScheduleSafe == Spec => []ScheduleNoUseAfterFree
<1>1. ScheduleProof!Spec => []ScheduleProof!NoUseAfterFree BY ScheduleProof!NeverUsedAfterFree, ScheduleConstants
<1>2. ScheduleProof!NoUseAfterFree => ScheduleNoUseAfterFree
  BY DEF ScheduleNoUseAfterFree, Scheduler!Daemon, ScheduleProof!Daemon,
         Scheduler!Actors, ScheduleProof!Actors, Scheduler!NoUseAfterFree,
         ScheduleProof!NoUseAfterFree
<1>3. ~(which = "schedule") => ScheduleNoUseAfterFree BY DEF ScheduleNoUseAfterFree
<1> QED BY <1>1, <1>2, <1>3, ScheduleSpec, PTL

\* An enabled one-shot schedule triggers at most once, restarts included
\* (esp_schedule_common_timer_cb(), esp_schedule_init_with_config()).
THEOREM ScheduleOnce == Spec => []ScheduleFiresOnce
<1>1. ScheduleProof!Spec => []ScheduleProof!OneShotFiresOnce BY ScheduleProof!FiresAtMostOnce, ScheduleConstants
<1>2. ScheduleProof!OneShotFiresOnce => ScheduleFiresOnce
  BY DEF ScheduleFiresOnce, Scheduler!OneShot, ScheduleProof!OneShot,
         Scheduler!OneShotFiresOnce, ScheduleProof!OneShotFiresOnce
<1>3. ~(which = "schedule") => ScheduleFiresOnce BY DEF ScheduleFiresOnce
<1> QED BY <1>1, <1>2, <1>3, ScheduleSpec, PTL

\* A schedule that shows a next time has a timer that runs or is about to
\* (esp_schedule_start_timer(), esp_schedule_timer_start()).
THEOREM ScheduleTimer == Spec => []ScheduleKeepsTimer
<1>1. ScheduleProof!Spec => []ScheduleProof!ArmedHasTimer BY ScheduleProof!NeverSilentlyLost, ScheduleConstants
<1>2. ScheduleProof!ArmedHasTimer => ScheduleKeepsTimer
  BY DEF ScheduleKeepsTimer, Scheduler!Daemon, ScheduleProof!Daemon,
         Scheduler!Actors, ScheduleProof!Actors, Scheduler!NoFrame,
         ScheduleProof!NoFrame, Scheduler!Working, ScheduleProof!Working,
         Scheduler!ArmedHasTimer, ScheduleProof!ArmedHasTimer
<1>3. ~(which = "schedule") => ScheduleKeepsTimer BY DEF ScheduleKeepsTimer
<1> QED BY <1>1, <1>2, <1>3, ScheduleSpec, PTL

-----------------------------------------------------------------------------
(* touch_element.                                                          *)

LEMMA TouchConstants == TouchIsoTp!ConstantsOK
BY ConstantsAssumption, Zenon
   DEF Touch!IsFiniteSet, TouchIsoTp!IsFiniteSet, Touch!Cardinality,
       TouchIsoTp!Cardinality, Touch!SetToSeqs, TouchIsoTp!SetToSeqs,
       Touch!Pads, TouchIsoTp!Pads, Touch!ConstantsOK, TouchIsoTp!ConstantsOK

LEMMA TouchInit == Init /\ which = "touch" => TouchIsoTp!Init
BY DEF Init, Touch!Pads, TouchIsoTp!Pads, Touch!Init, TouchIsoTp!Init

LEMMA TouchSameNext == Touch!Next <=> TouchIsoTp!Next
BY Zenon
   DEF Touch!IsFiniteSet, TouchIsoTp!IsFiniteSet, Touch!Cardinality,
       TouchIsoTp!Cardinality, Touch!SetToSeqs, TouchIsoTp!SetToSeqs,
       Touch!Pads, TouchIsoTp!Pads, Touch!sensor, TouchIsoTp!sensor,
       Touch!system, TouchIsoTp!system, Touch!button, TouchIsoTp!button,
       Touch!Busy, TouchIsoTp!Busy, Touch!PadChanges, TouchIsoTp!PadChanges,
       Touch!ScanDone, TouchIsoTp!ScanDone, Touch!MeasureTimeout,
       TouchIsoTp!MeasureTimeout, Touch!Highest, TouchIsoTp!Highest,
       Touch!Message, TouchIsoTp!Message, Touch!PowerLocks,
       TouchIsoTp!PowerLocks, Touch!TeIntrCb, TouchIsoTp!TeIntrCb,
       Touch!Masked, TouchIsoTp!Masked, Touch!Updated, TouchIsoTp!Updated,
       Touch!DeviceAfter, TouchIsoTp!DeviceAfter, Touch!LastAfter,
       TouchIsoTp!LastAfter, Touch!CountAfter, TouchIsoTp!CountAfter,
       Touch!Event, TouchIsoTp!Event, Touch!Events, TouchIsoTp!Events,
       Touch!Process, TouchIsoTp!Process, Touch!Holding, TouchIsoTp!Holding,
       Touch!TeProcTimerCb, TouchIsoTp!TeProcTimerCb, Touch!Receive,
       TouchIsoTp!Receive, Touch!Start, TouchIsoTp!Start, Touch!Stop,
       TouchIsoTp!Stop, Touch!Next, TouchIsoTp!Next

LEMMA TouchNext ==
  ASSUME which = "touch", [Next]_vars
  PROVE  which' = "touch" /\ [TouchIsoTp!Next]_(TouchIsoTp!vars)
<1>1. CASE Next
  BY <1>1, TouchSameNext, Zenon DEF Next
<1>2. CASE UNCHANGED vars
  BY <1>2
     DEF vars, TouchIsoTp!sensor, TouchIsoTp!system, TouchIsoTp!button,
         TouchIsoTp!vars
<1> QED BY <1>1, <1>2

\* A behaviour of the composition that starts as this component is one of it.
LEMMA TouchSpec == Spec => []~(which = "touch") \/ ([](which = "touch") /\ TouchIsoTp!Spec)
<1>1. Init /\ which = "touch" => TouchIsoTp!Init BY TouchInit
<1>2. which = "touch" /\ [Next]_vars => (which = "touch")' /\ [TouchIsoTp!Next]_(TouchIsoTp!vars)
  BY TouchNext
<1>3. ~(which = "touch") /\ [Next]_vars => ~(which = "touch")'
  BY DEF Next, vars
<1> QED BY <1>1, <1>2, <1>3, PTL DEF Spec, TouchIsoTp!Spec

LEMMA TouchTyped == Spec => [](which = "touch" => Touch!TypeOK)
<1>1. TouchIsoTp!Spec => []TouchIsoTp!TypeOK BY TouchIsoTp!TouchTyped, TouchConstants
<1>2. TouchIsoTp!TypeOK => (which = "touch" => Touch!TypeOK)
  BY Zenon
     DEF Touch!Pads, TouchIsoTp!Pads, Touch!States, TouchIsoTp!States,
         Touch!Messages, TouchIsoTp!Messages, Touch!TypeOK, TouchIsoTp!TypeOK
<1>3. ~(which = "touch") => (which = "touch" => Touch!TypeOK) OBVIOUS
<1> QED BY <1>1, <1>2, <1>3, TouchSpec, PTL

\* The application receives the events of a button in order, unless a change or an
\* event of it was dropped or it was touched too early (button_proc_state()).
THEOREM TouchOrder == Spec => []TouchEventsInOrder
<1>1. TouchIsoTp!Spec => []TouchIsoTp!EventsInOrder BY TouchIsoTp!TouchInOrder, TouchConstants
<1>2. TouchIsoTp!EventsInOrder => TouchEventsInOrder
  BY DEF TouchEventsInOrder, Touch!EventsInOrder, TouchIsoTp!EventsInOrder
<1>3. ~(which = "touch") => TouchEventsInOrder BY DEF TouchEventsInOrder
<1> QED BY <1>1, <1>2, <1>3, TouchSpec, PTL

\* With nothing touched and nothing left to do, no use of the power lock is left
\* (te_intr_cb(), te_proc_timer_cb()).
THEOREM TouchLock == Spec => []TouchPowerLockReturned
<1>1. TouchIsoTp!Spec => []TouchIsoTp!PowerLockReturned BY TouchIsoTp!TouchLockReturned, TouchConstants
<1>2. TouchIsoTp!PowerLockReturned => TouchPowerLockReturned
  BY DEF TouchPowerLockReturned, Touch!PowerLockReturned,
         TouchIsoTp!PowerLockReturned
<1>3. ~(which = "touch") => TouchPowerLockReturned BY DEF TouchPowerLockReturned
<1> QED BY <1>1, <1>2, <1>3, TouchSpec, PTL

-----------------------------------------------------------------------------
(* All of them.                                                            *)

\* Every variable of every component holds a value of its type.
THEOREM AllTyped == Spec => []TypeOK
<1>1. ((which = "link" => Link!TypeOK)
       /\ (which = "isotp" => IsoTransport!TypeOK)
       /\ (which = "image" => Image!TypeOK)
       /\ (which = "rom" => Rom!TypeOK)
       /\ (which = "schedule" => Scheduler!TypeOK)
       /\ (which = "touch" => Touch!TypeOK)) => TypeOK
  BY DEF TypeOK
<1> QED BY <1>1, LinkTyped, IsoTpTyped, ImageTyped, RomTyped, ScheduleTyped, TouchTyped, PTL

=============================================================================
