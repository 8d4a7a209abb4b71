# Specifications of idf-extra-components

TLA+ specifications of the components of this repository that carry concurrency
or a protocol of their own: what they promise, how the code does it, TLC
configurations that check the one against the other on small instances, and
proofs, checked by TLAPS, that hold for every instance.

    tlc -config FlashDispatcher.cfg MCFlashDispatcher
    tlc -config XModem.cfg MCXModem
    tlc -config ProvMgr_full.cfg MCProvMgr
    tlc -config Devices.cfg MCDevices
    tlc -config DharaMap.cfg MCDharaMap
    tlapm FlashDispatcherProofs.tla
    tlapm XModemProofs.tla
    tlapm ProvMgrProofs.tla
    tlapm SlaveLinkProofs.tla
    tlapm TouchIsoTpProofs.tla
    tlapm SearchImageProofs.tla
    tlapm ScheduleProofs.tla
    tlapm MCDevicesProofs.tla

`PROJECT.json` lists the runs, the lines of source every definition stands for,
the hazards of the code with the properties that watch them, the findings and
the theorems.

## 1. The system

The repository is a collection of some sixty independent ESP-IDF components.
They are C libraries for FreeRTOS: an application calls them from its tasks,
and they meet the system in interrupt handlers, in `esp_timer` and FreeRTOS
timer callbacks and in the default event loop. Few of them call each other
(`spi_nand_flash_fatfs` sits on `spi_nand_flash`, that on `dhara`; `esp_cli`
on `esp_linenoise` and `esp_cli_commands`; `json_parser` on `jsmn`). A third
of the directories only package somebody else's library.

### Components with control of their own

| component | state | operations and actors | what is hard | what makes it correct |
|---|---|---|---|---|
| `esp_flash_dispatcher` (modelled) | one request slot, one result slot, two binary semaphores, a mutex, a worker task | the wrapped `esp_flash_*` and `spi_flash_mmap*`, init | slot shared by all callers; a caller sleeps while the worker reads its buffer; calls before init, without a scheduler, after a panic | each call is executed at most once and returns its own outcome; init leaves all or nothing; every call returns |
| `xymodem` (modelled) | both sides: packet number, retry counters, check type; the sink | `xmodem_send`, `xmodem_recv`, callbacks | loss, garbling, late answers, repeated requests, an 8-bit packet number, cancellation, failing callbacks | blocks reach the sink in order and once; success means the whole file; both functions return |
| `network_provisioning` manager (partly) | a context behind a mutex, three timers, event handlers, a transport, a copy of the secret | init, start, stop, wait, deinit, client requests, events, timers | five kinds of actors; the lock is released in callbacks and while the transport starts or stops; partial failure of start; a stop that takes three tasks | nobody uses a freed context; one stopper; END is sent; nothing is left; stop and deinit return |
| `esp_schedule` (partly) | schedules with a timer each, copies in NVS | create, edit, enable, disable, delete; callback in the timer daemon | delete while the callback runs or is the caller; full command queue; restore after a reboot | no use of a freed schedule, no deadlock of the daemon, an enabled schedule is armed |
| `esp_serial_slave_link` (partly) | counters of what was sent and received, and cached counters of the slave | send and get packets over SDIO and SPI | counters wrap; a transfer fails half way; a counter is read while the slave writes it | never more sent than the slave has buffers for; no byte skipped or repeated |
| `dhara` (modelled), `spi_nand_flash` (partly), `spi_nand_flash_fatfs` | journal and radix tree on flash, a page cache in RAM | read, write, trim, sync, garbage collection, resume | power loss between two page programs, bad blocks, a full chip | a sector reads the last value synced; resume finds it |
| `esp_isotp` (partly) | a pool of transmit frames, an ISO-TP link | send, receive, poll; TX-done and RX interrupts | the list is changed by tasks and interrupt handlers | a frame is in the pool or on its way, never both |
| `touch_element` (partly) | state per channel and element, a queue from the interrupt | interrupt handler, periodic timer, API | several channels in one interrupt, a full queue, a lock that counts | each press gets its release |
| `onewire_bus` (partly) | iterator of the ROM search | next device | last-discrepancy bookkeeping, CRC failure in the middle | each device is found once |
| `esp_encrypted_img` (partly), `esp_delta_ota` | decoder states and carry-over buffers | feed with pieces of any size | boundaries of pieces | output does not depend on how the input is cut |
| `ccomp_timer` | a state per core, cycle counts | start, stop, tick hook | migration between cores, wrap of the counter | elapsed time is what passed |
| `esp_cli`, `esp_linenoise`, `esp_cli_commands` | state of a loop, semaphores, an edited line, a registry | start, stop, destroy from other tasks | stop before start, abort of a blocking read | stop returns, callbacks run once |

### Components without

Pure computation over their input: `json_parser`, `json_generator`, `jsmn`,
`pid_ctrl`, `iqmath`, `clarke_park`, `esp_daylight`, `esp_ext_part_tables`,
`qrcode`, `esp_jpeg`, `pcap`. Drivers whose state is a register or a buffer:
`led_strip`, `bdc_motor`, `esp_lcd_qemu_rgb`, `esp_lcd_screenshot`. Glue to a
library that is not in the tree: `sh2lib`, `esp_gcov`, `esp_sysview`, `coap`,
`expat`, `libsodium`, `nghttp`, `libjpeg-turbo`, `libpng`, `lua`, `lz4`, `zlib`,
`qoi`. Packaging only: `argtable3`, `brotli`, `catch2`, `cbor`, `cjson`,
`eigen`, `fmt`, `freetype`, `quirc`, `supertinycron`, `thorvg`, and the programs
`coremark` and `unit-test-app`. `PROJECT.json` gives the reason for each.

## 2. Modules

| module | what it is |
|---|---|
| `FlashService` | abstract: a flash chip with callers; a call is invoked, executed at one point or refused, and returns |
| `FlashDispatcher` | `esp_flash_dispatcher.c`; implements `FlashService` |
| `MCFlashDispatcher` | two PSRAM tasks, one internal-RAM task, a one-page chip |
| `FlashDispatcherProofs` | the theorems about it |
| `FileTransfer` | abstract: what `xmodem_send()` and `xmodem_recv()` promise together |
| `XModem` | `xmodem.c`, both sides and the link between them; implements `FileTransfer` |
| `XModemProofs` | the theorems about it |
| `ProvLifecycle` | abstract: the life of a provisioning manager and its transport |
| `ProvMgr` | `manager.c` and the endpoint handlers of `handlers.c`; implements `ProvLifecycle` |
| `ProvMgrProofs` | the theorems about it |
| `MCProvMgr` | names for the applications |
| `MCXModem` | one run for a prompt transfer and a slow one |
| `Schedule` | `esp_schedule.c`, its store and its FreeRTOS port, with the timer daemon |
| `SlaveLink` | `essl.c`, `essl_sdio.c`, `essl_spi.c` against a slave |
| `RomSearch` | `onewire_device.c` |
| `EncryptedImg` | `esp_encrypted_img.c` |
| `IsoTp` | `esp_isotp.c` |
| `TouchButtons` | `touch_element.c` and `touch_button.c` |
| `MCDevices` | one run for these six |
| `SlaveLinkProofs`, `SearchImageProofs`, `TouchIsoTpProofs`, `ScheduleProofs` | the theorems about them |
| `MCDevicesProofs` | the same for the instances of the run |
| `SectorStore` | abstract: sectors written one call at a time that survive a loss of power |
| `DharaJournal` | `journal.c` on a NAND chip as `nand_impl.c` drives it |
| `DharaMap` | `map.c` on the journal, and `dhara_glue.c`; implements `SectorStore` |
| `MCDharaMap` | the calls made |

Definitions next to an action whose comment starts with "The bug" are what the
action would be with a plausible mistake in it. No specification uses them:
each is put in the place of the action it precedes to see that a property
notices.

### FlashDispatcher

One step per access to the shared context, because another task may run between
any two: `Call` .. `Return` are `__wrap_esp_flash_*` and
`flash_dispatcher_execute()` line by line (test, take the mutex, write the slot,
give `request_sem`, take `result_sem`, copy the result, give the mutex);
`WorkerTake` .. `WorkerGive` are `flash_dispatcher_task()`, which reads the slot
through a pointer and writes data straight into the caller's buffer; `InitBegin`
.. `InitPublish` create the four objects one by one, and `InitFail` deletes what
was made. `Driver(flash, request)` is the real driver, external: any set of
outcomes. `mode` is what `esp_flash_*` sees of the scheduler; `Panic(c)` stops
every task and leaves one context running without an OS, as the core dump does.
`outcome` and `returned` are history for the refinement: a call is "pending"
until the driver has run for it, "executed" after.

Taken for granted: init is called by one start-up task. The timeout branch after
`xSemaphoreTake(result_sem, portMAX_DELAY)` (lines 231-235) is dead and has no
action. The bypass with a suspended scheduler is the same as the one without a
scheduler. The operations (read, write, erase, mmap, ...) differ only in what
`Driver` does.

### XModem

`Sender` and `Receiver` are the two functions, each in a task, with one action
per thing that may happen at each of the points where they wait: a byte of each
kind, a good packet that is new, repeated or neither, a bad one, a timeout. The
wait for a second CAN is a place of its own. `recv_packet()`'s locals `request`,
`packet_started` and `tries` are variables, because its idle request depends on
them. The link is a queue each way that may lose or garble its head; a receiver
with `LineNoise` also hears garbage nobody sent. `purge_rx()` empties the queue
of what has arrived, any prefix of it.

Abstracted: a packet is one message with its number, the index of its block, the
check type and "intact or not"; sizes and padding are left out. A garbled message
becomes garbage, never another valid control byte (XMODEM cannot survive a forged
ACK, whoever implements it); a hazard records it. Failure of a callback, and of
the timeout that bounds a purge, is `SenderFails` and `ReceiverFails`; the
receiver's `malloc` before its first byte is not modelled.

`Prompt = TRUE` says that an answer that is on its way arrives before the
timeout that waits for it, as the programming guide asks of the two timeouts;
with `Prompt = FALSE` any timeout may expire at any time.

### ProvMgr

The actors are application tasks, the task of the transport (`host`) in which a
client's requests run, the event loop (`loop`) and the `esp_timer` task
(`timer`). A section under `prov_ctx_lock` that does not wait is one step: no
other task can see the middle of it. What runs with the lock released
(`execute_event_cb()`, `start_service()`, the transport's stop of a blocking
stop) and the one wait with the lock held (the asynchronous stop) are steps of
their own, and `at` says where each task is. So `Start` is
`network_prov_mgr_start_provisioning()` up to the release, `ServiceUp` or
`ServiceFails` are `start_service()`, `StartEnds` or `StartFailed` the rest.
The asynchronous stop goes through three tasks: `StopProvisioning` arms the
cleanup timer, `CleanupFires` posts the event, `AsyncStopBegins` and
`AsyncStopFinishes` handle it. `Deinit` is the blocking one and shares
`StopService`, `StopBegins` and `StopFinishes` with it, as the code does.

A call the code refuses changes nothing and is not a step. `timer`, `registered`,
`transport`, `link`, `queue` and `pops` are what exists in the system: the
context only has handles to it (`prov_ctx.timers`, ...), and the two can part,
which is where leaks and uses after deletion come from. `endOwed` is history.

Some races are real but narrow, and each spoils most properties. `Overlaps` lets
them in one by one, so that the rest of the model can be checked without them
and each can be shown on its own:

- `"deletion"`: tasks may be about to take the lock, or initialise a new
  manager, while a de-initialisation deletes it. Without, `DeleteLock` waits for
  the others and `MgrInit` for the de-initialisation.
- `"event"`: a handler the event loop has entered may lose the race for the lock.
  Without, it gets it first: its task has the higher priority.
- `"starting"`: a client's first request overtakes the end of start. Without, it
  comes after; a client needs a session first.
- `"stopping"`: a client asks for a new provisioning while the service is being
  stopped.

Abstracted: failures inside `start_service()` are one, since all are undone alike;
`scheme.prov_stop()` waits for the handler the transport is in; unregistering an
event handler takes effect at once and does not wait for one in progress. Left
out: the Thread build, scanning, application information, endpoints of the
application's own (only that their handler may call stop), capabilities, the
`STA_START` event, and what an application does in its callbacks.

### Schedule

The actors are application tasks and the timer daemon, which runs a schedule's
callback and, inside it, what the user's trigger callback calls. An API call is
a sequence of steps (`op[a].pc`) that ends at each access to what another actor
may be at: the timer's private data under its mutex (`Rebind`, `Detach`), each
FreeRTOS timer call (`ArmNew`, `ChangePeriod`, `Stop`, `CancelStop`,
`DeleteTimer`: a command posted to a bounded queue), the handle (`Publish`), the
store (`Armed`, `Erase`), the allocation (`Free`). `Compute` .. `Armed` are
`esp_schedule_start_timer()` for all its callers: `enable()`, the re-arm in the
callback, and init. `Expire` .. `TriggerReturns` are
`esp_schedule_timer_common_cb()` and `esp_schedule_common_timer_cb()`, which
hold the mutex all the while; `CallbackSlice` is the next slice of a delay longer
than a timer can count. `Reboot` may happen anywhere and keeps only what is
stored; `Load`, `Check`, `Compute` .. and `Loaded` are
`esp_schedule_init_with_config()`. FreeRTOS timers (`Expire`, `ProcessCommand`)
are external. `fires`, `off` and `lost` are history.

Dates are a period in seconds; a tick is one second. The application does not
use a schedule it has deleted, nor call twice at a time on one, except from the
callback. `Preempted = FALSE` says that no task is held up for a whole second
between arming a timer and recording it.

### SlaveLink

`bus` picks the function table. `SendPacket`, `SendChecks`, `SendRechecks`,
`Write` are `essl_send_packet()` with its loop, the two tests of free buffers and
the transfer; `GetPacket` .. `Read` are `essl_get_packet()`. SDIO reads a counter
in one step, SPI in parts (`ReadRegisterPart`), twice until two readings agree
(`ReadRegisterEnd`), while the slave goes on. All counters of the host and of the
registers wrap (`HostMod`, `TxMod`, `RxMod`); `loaded`, `filled`, `produced` and
`taken` are the slave's without a width. A transfer may fail before anything was
sent, after some of it, or at its end; `adrift` and `stale` record that a
broken transfer or `reset_cnt()` has set the two ends apart, where the properties
say no more.

### RomSearch, EncryptedImg, IsoTp, TouchButtons

`RomSearch`: `GetNext` starts a step of the search, `Walk` takes one bit of it
(what is read is the AND of all devices that still take part), `WalkFails` is an
error of the bus, `Walked` the check of the CRC and what is remembered. `present`
is any set of addresses.

`EncryptedImg`: a byte is its place in the image. `DecryptData` hands over a
piece; `ReadPart`, `ReadField`, `FieldFails` are the header states (a field that
a piece ends in goes on in the cache), `ProcessBin` and `ProcessBinEnd` the
binary in whole blocks with the rest in the cache; `DecryptEnd` and
`DecryptAbort` the end. Ciphers are external and tell genuine images from others.
`ProcessBinFails` are the error returns of `process_bin()`, no memory or a cipher
that fails, which come after the piece was counted (1360): its bytes are lost, and
what the cache holds depends on where it failed. The application stops then, with
`DecryptEnd` or `DecryptAbort`, as it cannot hand over the piece again; one that
goes on is not modelled. An image that the cipher was not given whole does not
pass `gcm_finish_and_verify()` (`Verifies`).

`IsoTp`: `Take`, `ReadNext`, `Unlink` are one `SLIST_FIRST` and one
`SLIST_REMOVE_HEAD` as memory accesses, because the TX-done interrupt
(`TxCallback`) and the receive interrupt (`RxCallback`) may come between any two;
`build` says whether the compiler reads the head again. `raced` records that one
came inside that window. `Transmit` is the rest of `isotp_user_send_can()`: the
driver may take the frame or refuse it, with room (bus-off) or without, and then it
goes back (`Refused`, `Link`); a payload of more than 8 bytes is refused when the
frame was already taken, and is not put back (`Oversized`). `dropped` is the set of
these frames. `NewTransport` and `Delete` register and unregister with
a node that the application also enables and disables.

`TouchButtons`: `TeIntrCb` is the interrupt, `TeProcTimerCb` the periodic timer
with its one message per period, `Process` and `Event` the state machine of a
button, `Receive`, `Start`, `Stop` the application's calls. `missed`, `hurried`,
`told` and `wrong` are history: which pads had a change that a full queue or a
coalesced interrupt dropped, and what the application was told.

### MCDevices

The six components share nothing, so one run holds one behaviour space each:
`which` is chosen at the start and never changes, the states are the disjoint
union of the six, and each property is about one. The variables `x1`, `x2`, ...
stand for those of the chosen component, in the order its module declares them;
the rest are `Null`. `MCXModem` puts two instances of one module
beside each other in the same way. Each instance and its bounds stand at the head of the module,
and `ConstantsAssumption` checks them against what each module asks of its
constants. TLC reports the steps of such a run under one name; run by itself with
these constants each component takes every one of its actions.

### DharaJournal, DharaMap

`page` is the chip: a page is free, torn, user data, a checkpoint (the group's
metadata and the header) or a metadata dump. `j` is `struct dhara_journal` field
by field, its page buffer as the parts it is used for (`metas`, `cookie`). The
metadata of a group is on the chip once its last page, the checkpoint, is written.

An operation of the journal is a chain of steps, one for each operation of the
chip: `PrepareHead` (`prepare_head()`, which may erase), `Program`
(`dhara_journal_enqueue()`, `dhara_journal_copy()`, `push_meta()`), `Checkpoint`,
`Finish` and `FinishMeta` (`finish_recovery()`), `RecoverFrom` (`recover_from()`),
`Dump` .. `DumpBad` (`dump_meta()`). A copied page that was never programmed stays
free when the chip moves it and is used when it goes through RAM (`Content`).
`Asserts` is the assertion of `nand_read()`, on which the device aborts. `Chip`
says what each of them may do: what it should, fail, or be cut off by a loss of
power, which leaves what it was writing torn. `MarkBad` erases first, as
`nand_mark_bad()` does. `ResumedJournal` is `dhara_journal_resume()`: the
checkpoint blocks, the last group of the last epoch, the root and the head, with
their binary searches (`FindLastCheckblock`, `FindLastGroup`, `FindHead`).

`DharaMap` is the callers: `Trace` is `trace_path()`, and `op.pc` says which loop
of which call is at work: `AutoGc`, `Gc` (`raw_gc()`), `Write`, `Trim`
(`try_delete()`), `Sync`, `Recover` (`try_recover()`). `Ask` hands a page to the
journal and `Written`, `Copied`, `NeedsRecovery`, `Refused` take its answer. There
is one call at a time because `dhara_glue.c` and the block devices hold a mutex
around each. `PowerLoss` may come between any two steps; `Resume` is
`dhara_init()`. With `MixedFaults = FALSE` a history has operations that fail or
losses of power, not both.

`seen` (what every sector reads), `wanted` (what the call under way is to make of
it) and `since` (what could be read since the last sync) are history; they are
what `SectorStore` is about. A value written is a number of its own, so that a
sector that reads an older value shows.

## 3. Runs

`DF` is for `CHECK_DEADLOCK FALSE`: calls are bounded and callers are free not to
call, so that a model may come to rest.

| run | question | bounds |
|---|---|---|
| `flash` (DF) | is the dispatcher a `FlashService` (`Refines`), does every call return (`CallReturns`); `TypeOK`, `InitAllOrNothing`, `UsesOnlyWhatExists`, `SlotStable` | 3 callers, one of which bypasses; a read, and a write that reaches the chip and fails; a page with two contents |
| `xmodem` | on a prompt link: `TypeOK`, stop-and-wait (`SenderNotAhead`) and `FileTransfer` (`Transfers`); on a slow one: `DeliveredInOrderLate`, and do both functions return (`ReturnsLate`) | prompt: 4 blocks, numbers modulo 3, sink for 3 blocks, 2 retries, 3 faults; slow: 5 blocks, sink for 4, numbers modulo 4, fallback from CRC to checksum, 2 faults, noise, 1 retry, either side may never start |
| `xmodem_sum8` | finding 1 | 2 blocks, 1 retry, 1 fault |
| `prov_full` (DF) | FULL mode: `TypeOK`, `ContextAlive`, `OneStopper`, `RequestUsesHandlers`, `ProvLifecycle` (`KeepsLifecycle`) | 2 applications that both may de-initialise, 4 calls of 6 kinds, every request, 2 securities, 2 connection attempts, 1 failure |
| `prov_live` (DF) | SESSION_ONLY mode: `StopCompletes`, `AutoStops`, `DeinitReturns`, `NothingLeft`, `OnlyDeinitStops`, `KeepsLifecycle` | 2 applications, 5 calls of 5 kinds, a start that fails late |
| `prov_lock` (DF) | finding 2 | overlap "deletion" |
| `prov_deadlock` (DF) | finding 3 | one application, one request |
| `prov_reprov` (DF) | finding 4 | overlap "stopping" |
| `devices` (DF) | the properties of the six components in `MCDevices` | see the head of `MCDevices` |
| `dhara` | is the map a `SectorStore` (`KeepsStore`), is its count exact (`CountExact`), does every call return (`CallReturns`) | 6 blocks of 8 pages, groups of 4, 2 retries, epochs modulo 4, sectors 0 to 3, 3 further calls of 7 kinds, 2 failures or 2 losses of power |
| `dhara_copy` | finding 5 | the same, 1 failure, during a copy |
| `dhara_mixed` | finding 6 | the same, a loss of power and a failure, in writes |

Why they are enough. The dispatcher treats all callers alike, and a slot written
by the wrong caller takes two; the third is the one that bypasses. The packet
number matters modulo its range: with a range of 3 or 4 it wraps inside a file of
4 or 5 blocks, so that the next block and the last one are told apart across the
wrap. The sink holds no more blocks than the range, and a block hardly meets the
one a whole range before it; for the prompt link `XModemProofs` covers that. Three
faults allow one loss, the loss of its repair and a garbled repeat; retries of 1
or 2 let both "retry" and "give up" happen, and a second retry is like the first.
In the provisioning manager every hazard found takes two applications at most and
one failure; four or five calls reach init, start, stop and deinit and start again
or deinit from both sides. `CanCount` is its smallest legal value.

Schedules: one task and the daemon are all the actors there are; a delay of 3 with
timers that count to 1 makes three slices of it; four seconds are past every
deadline; one restart may come at any step. Slave link: 25 of 27, and registers
of 3 and 9, wrap within two packets, and a torn reading needs a carry, which three
bytes of base 3 have. ROM search: all sets of 3-bit addresses, hence all shapes of
tree with three levels. Encrypted image: pieces shorter, as long as and longer than
each field and block, cut anywhere in an image of up to 5 bytes of binary.
ISO-TP: three frames make the list long enough for its head and its second to
leave between two loads; payloads of 8 and 9 bytes are on both sides of the limit.
Touch: three changes are a press, a release and one
more while the first is queued.

dhara: `Starts` puts the beginning at a journal four calls old or at one of forty
calls whose head is at page 44 of 48, so that the head comes round to block 0, the
epoch ends and the tail is collected within the calls that follow. A group of four
has three user pages: pages lie behind a checkpoint, before one and in an
open group. Two failures make one of a block and one of its recovery or its
metadata dump; two losses make one in the aftermath of a resume. A call writes as
many as a dozen pages (a sync collects up to the end of a group, a recovery copies
a block), so three calls come a long way. What does not happen: the chip is never
so full that the journal refuses a page with live data in all others, as the map
holds back `MAX_RETRIES` blocks and a share of the rest. Nor does power go in a
recovery or an operation fail after a loss of power: `KeepsStore` is claimed for
histories with one kind of fault, since with both it does not hold (finding 6).

What the bounds exclude. Each answer that comes too late makes an extra
acknowledgement and puts the sender one more block ahead. `DeliveredInOrder` holds
as long as that lead stays below the range of the packet number, 256 in the code;
the files of `xmodem` are too short for more. The code does not count them,
and a long file over a link that is always slower than `packet_timeout_ms` is
outside what the run shows. `NothingLeft` says nothing of the secret after a
failure: a start that fails late and is not repeated leaves the copy until the next
stop.

### Fairness

- `FlashDispatcher!FairSpec`: weak for the worker and each caller, as FreeRTOS
  runs every ready task of equal priority in turn; strong for taking the mutex,
  which FreeRTOS gives to its waiters first come, first served.
- `XModem!FairSpec`, in `MCXModem` for the slow transfer: weak for both functions.
  Their tasks are scheduled and `transport.recv` returns when its time is over.
  Nothing is assumed of the link.
- `ProvMgr!FairSpec`: strong for a task that goes on with a call (it may wait for
  the mutex, which comes and goes), for the event loop, and for the cleanup timer's
  post (room in the queue comes and goes); weak for the auto-stop timer. Nobody
  has to make a call, send a request or connect.
- `MCDevices!FairSpec`: weak for the timer daemon (its task is ready whenever a
  timer or a command is) and for a task that is in a call to the scheduler; weak
  for the steps of a ROM search, which one task makes one after the other. Strong
  fairness is not needed where a call waits for room in the command queue, as the
  daemon empties it and nobody else fills it.
- `DharaMap!FairSpec`: weak for the steps of a call that is under way. Power may be
  lost or not; nobody has to call.

## 4. What is proved

`FlashDispatcherProofs`, for any set of callers, any requests, any flash contents
and any driver (`CallersAssumption`, `DriverAssumption`: names are distinct from
`None`, the driver yields something of the right type):

| theorem | says |
|---|---|
| `Inductive` | `Spec => []IInv` |
| `TypeCorrect` | `Spec => []TypeOK` |
| `InitSafe` | `Spec => []InitAllOrNothing` |
| `NoUseBeforeInit` | `Spec => []UsesOnlyWhatExists` |
| `SlotSafe` | `Spec => SlotStable` |
| `Refinement` | `Spec => Refines`, the dispatcher implements `FlashService` |

None of these is inductive by itself. `UsesOnlyWhatExists` needs to know what
exists at each step of initialisation (`InitInv`). That the slot is stable needs
to know that a semaphore that is given, or a worker that is busy, belongs to the
one caller that holds the mutex and is asleep (`HandoffInv`), in one of the five
situations of `Handoff`. That a call returns its own outcome needs the trail of
the result: from the worker's local to the result slot to the caller's local
(`Handoff`, `CallInv`). A panic ends all that, so `HandoffInv` is claimed only
before it and `ModeInv` says that the survivor goes round the dispatcher.
`IInv` is the conjunction; there is one lemma per conjunct with a step per action,
and `ServiceStep` maps each step to one of `FlashService` or to none: the worker's
`WorkerExecute` and the bypass's `Direct` are the points where a call takes effect.

`XModemProofs`, for any file, any packet counter of more than two values, any
retry and cancel counts and any number of faults (`XModemAssumption`):

| theorem | says |
|---|---|
| `TypeCorrect` | `Spec => []TypeOK`, for every check type and link |
| `StopAndWait` | `Tuned` implies `Spec => [](SenderNotAhead /\ DeliveredInOrder)` |
| `TransfersInOrder` | `Tuned` implies `Spec => Transfers`, both functions implement `FileTransfer` |

`Tuned` is the configuration of the prompt transfer of the run `xmodem`: CRC-16,
answers that beat the timeouts, no noise but what faults make of messages. Each
part is needed: `xmodem_sum8` shows what happens without CRC-16, and with late
answers or with noise of the line's own TLC finds the sender ahead of the sink (a
second NAK is an answer too many; `DeliveredInOrder` survives it, see
`DeliveredInOrderLate`). The argument is that of one token. At any moment there is
at most one of: a packet on its way, an answer the receiver is about to give, an
answer on its way, a sender that has its answer (`TokenInv`); a 'C' is no answer,
as `xmodem_send()` ignores it, and CANs come only from a side that is about to
return (`CancelInv`). A fault may destroy the token, and the receiver's timeout
makes a new one only when nothing is under way. So a packet on its way is always
the sender's last, that is the block after those in the sink or the last one there
(`PacketInv`), which consecutive packet numbers tell apart however often they wrap
around (`NextBlkOf`, `AcceptPacket`), and an ACK on its way says that the block is
in the sink, or for EOT that the receiver has returned (`AckInv`). There is a
lemma per group of steps; `Left` says what is common to the steps that only take
something off a line.

`ProvMgrProofs`, for any applications, calls, requests, securities, queue size and
number of failures, and any `Overlaps`. They are about behaviours that are
`Orderly`, in which no step is one of three, named in the module; the code can take
each of them, and with each what is claimed is false from there on:

- `StopMeetsEvent`: a stop begins while the loop task is inside the handler of a
  Wi-Fi event and has lost the race for the lock; the handler then sets the state.
- `RequestInStart`: a client configures, or asks to start over, while the service
  is being started.
- `ReprovInStop`: a client asks to start over in a stop, which is finding 4. It is
  `prov_reprov` that shows it; `KeepsLifecycle` does not watch it in any run that
  passes, as these leave the overlap "stopping" out.

So `Refines` says that the manager implements `ProvLifecycle` up to the first such
step, and not that all of its steps do. `RunsAreOrderly` says that there is none
where `Overlaps` has no more than "deletion", as in the runs that pass.

| theorem | says |
|---|---|
| `Safety`, `SecretSafety` | `Spec /\ Orderly => []Safe`, and with `SecretsApart` `[]IInv` |
| `TypeCorrect` | with `SecretsApart` `Spec /\ Orderly => []TypeOK` |
| `LiveContext`, `OneStops` | `Spec /\ Orderly => []ContextAlive`, and `[]OneStopper` |
| `RequestHasHandlers` | in FULL mode `Spec /\ Orderly => []RequestUsesHandlers` |
| `LeavesNothing` | with `SecretsApart` `Spec /\ Orderly => []NothingLeft` |
| `DeinitStops` | in SESSION_ONLY mode `Spec /\ Orderly => OnlyDeinitStops` |
| `Refines` | `Spec /\ Orderly => KeepsLifecycle` |
| `RunsAreOrderly` | with at most "deletion" in `Overlaps`, `Spec => Orderly` |

What the code relies on, and what the invariant says, is that the state word of
the context is a lock of its own: STARTING and STOPPING belong to one task, which
may release the mutex and come back. `Works` are the places of such a task;
`OneWorker` says there is one at most, `WorkOK` what it has done so far and what
the others may therefore assume, `StateOK` what goes with each state when nobody
is at work, `EventOK` and `RequestOK` what the event loop and a client's request
may be in the middle of. `SecretOK` is apart, because it alone needs
`SecretsApart` (section 5 says why: it excludes a real slip of the code). There is
a lemma for each of the 43 steps.

`SlaveLinkProofs`, for registers and counters of any width, any buffer and block
sizes, packet lengths and failures, on both buses:

| theorem | says |
|---|---|
| `TypeCorrect` | `Spec => []TypeOK` |
| `CountsAgree` | `Spec => []IInv` |
| `NoOverrun`, `NoUnderrun` | `Spec => []NeverOverrun`, `Spec => []NeverUnderrun` |

The invariant relates the host's counters to those of the slave that do not
wrap: they are equal modulo the width, the latest reading of a register is one of
the values it has had since, and it covers what the call has found free but not
yet used (`TxPledged`, `RxPledged`). An SPI register is read in parts while the
slave goes on. `Torn` says what such a reading may be: its lowest part is that of
one value, the next part that of a later one, and it is a value of the register if
no carry has gone past the lowest part since. Two equal readings are a
value the register has had (`CountsAgree` rests on that lemma), provided that it does not
grow by more than `ByteMod * ByteMod - ByteMod` meanwhile. This is `Gradual`; it
was found in the proof, TLC has a counterexample to the lemma beyond it, and
`ConstantsAssumption` checks it for the run.

`TouchIsoTpProofs`, first half (the transport is its instance `Tp`), for any set of
frames, any queue of the driver and any number of transports:

| theorem | says |
|---|---|
| `PoolInvariant`, `PoolTyped` | `Tp!Spec => []PoolInv`, `Tp!Spec => []Tp!TypeOK` |
| `NoFrameLost` | `Tp!Spec => []Tp!FramesKept`; a frame taken out by too long a payload is in `dropped` |
| `NoStaleCallback` | `Tp!Spec => []Tp!CallbackAlive` |

The pool is what can be reached from the head. That taking the head away takes
just one frame out of it needs the list to have no cycle and no two ways into a
frame (`PoolKept`), and that between two loads of a task the head is still what
it read or an interrupt has set `raced` (`TaskKnows`).

`TouchIsoTpProofs`, second half, for any buttons, with a waterproof guard or without,
any sizes of the two queues, any length of a long press and any calls:

| theorem | says |
|---|---|
| `TouchInvariant`, `TouchTyped` | `Spec => []TouchInv`, `Spec => []TypeOK` |
| `TouchInOrder` | `Spec => []EventsInOrder` |
| `TouchLockReturned` | `Spec => []PowerLockReturned` |

On its way to the application a touch is on the pad, in a message, in the state of
the device, in that of the button and in an event. `Good(b)`, for a button of
which nothing was dropped and that was not touched too early, ties the five
together: a press that is new or in a message finds device and button idle
and is the first message of its pad (`NewOK`, `PressOK`); the two states go round
one period apart (`StateOK`); the periods counted are at most those held
(`CountOK`), so that a long press is not early; and `QueueOK` reads the events that
wait from what the application was told, each in its turn, up to the state of the
button. Releases need no such care: one too many is a state the button ignores.
`LockOK` counts: one use for the thresholds, one for each pad seen touched, one for
each release that waits. `EventsOnce` is about the list of a period's events, of
which each button has at most one; `Process` takes the list from a set, so that
its proof need not say how a list is sorted.

`SearchImageProofs`, first half, for ROM numbers of any length, any devices and any
failures:

| theorem | says |
|---|---|
| `SearchInvariant`, `TypeCorrect` | `Spec => []IInv`, `Spec => []TypeOK` |
| `EachOnce` | `Spec => []FindsEachOnce` |

Devices are found in the order of their ROM numbers. Between two calls
`last_discrepancy` and the bits before it are a bound (`Target`): what was found is
what is below it (`Found`), and there is a device behind it (`Branch`). During a
walk `Walking` says which ways were left aside: behind `last_discrepancy` none that
goes to 0, behind `last_zero` none that goes to 1. `EndOfWalk` concludes that the
walk ends at the least device not found yet. A call that fails overwrites bits
only from `last_discrepancy` on, which is why the next one can start from what
it left.

`SearchImageProofs`, second half (the decoder is its instance `Img`), for any sizes
of the header's fields and of the block, any image and any way to cut it:

| theorem | says |
|---|---|
| `Buffers`, `ImageTypeCorrect` | `Img!Spec => []ImageInv`, `Img!Spec => []Img!TypeOK` |
| `DecryptsInOrder` | `Img!Spec => []Img!InOrder` |
| `EndsWhole` | `Img!Spec => []Img!OkIsWhole` |

`ImageInv` gives for each state the place in the image at which its field starts and
says that fields, cache and output together are the image up to where the walk
has come.

`ScheduleProofs`, for any tasks and schedules with any types and delays, any calls of
the application and of its callbacks, any number of timers and restarts and any
length of the timer's command queue. No task is held up for a second
(`~Preempted`; section 5 says what happens otherwise):

| theorem | says |
|---|---|
| `TypeCorrect` | `Spec => []TypeOK` |
| `NeverUsedAfterFree` | `Spec => []NoUseAfterFree` |
| `FiresAtMostOnce` | `Spec => []OneShotFiresOnce` |
| `NeverSilentlyLost` | `Spec => []ArmedHasTimer` |

`esp_schedule.c` takes no lock; its port has a mutex for the private data of a
timer and its callback. What keeps the calls apart is the order in which they
touch the memory of a schedule, its handle and the queue of the timer daemon.
`Part1` of the invariant says who owns what: a timer belongs to the schedule whose
handle it is or to the task that has created it and not published it yet
(`TimerOK`, `HandleOK`, `PublishOK`), what a call may rely on at each of its
places (`WorkOK`), that two calls on one schedule are the daemon's in the callback
of its timer and another's (`ShareOK`, `FrameOK`), and that a deleted timer has no
owner (`QueueOK`). `NeverUsedAfterFree` needs no more. `Good(s)` is about a
schedule that no full queue has lost (those in `lost` the properties except). It
looks at a timer through the commands that are under way: `EndsOn(t)` says that
the timer will run when the daemon has done them all, and it is `EndsOn` that a
call knows and that its steps change. A schedule that is off has a timer that does
not end on (`OffOK`), one that shows a time has one that does (`SettledOn`,
`HasTime`), starts and stops of a timer alternate, so that it expires once for
each start (`Alternate`), and a one-shot that has fired is over in memory, in the
store and in the daemon (`FiredOK`), which a restart relies on. There is a lemma
for each step; `Others` disposes of the schedules that a step does not touch.

`MCDevicesProofs` brings the last six to the composition that the run
`devices` checks: `LinkFlowTx`, `LinkFlowRx`, `IsoTpFrames`, `IsoTpCallbacks`,
`TouchOrder`, `TouchLock`, `ImageOrder`, `ImageWhole`, `RomOnce`, `ScheduleSafe`,
`ScheduleOnce`, `ScheduleTimer`, and `AllTyped` for the types of all.
A behaviour of `MCDevices` that starts as a
component is one of that component from then on (`LinkSpec` and its like), so the
general theorem gives the run's property. They say nothing beyond the general
theorems; they show that these are about the property TLC checks.

Every invariant was checked by TLC on small instances before it was proved
(`ProvMgr`'s on four, the largest of 2.9 million states). Where a proof needs
induction over data (the first bit in which two ROM numbers differ, the order of
the frames in the list of a new transport, the highest of a set of pads), it takes
the least counterexample: `LeastNumber` follows from the library's theorems on
well-founded relations.

Only model-checked: liveness (`CallReturns` of the dispatcher and of dhara,
`ReturnsLate`, `StopCompletes`, `AutoStops`, `DeinitReturns`, `ScheduleCallReturns`,
`RomEnds`), which TLAPS cannot do, as it has no `ENABLED`; `DeliveredInOrderLate`,
on a link that is not `Tuned`, whose truth depends on how many answers come late
and so on the bounds; and dhara, whose `KeepsStore` and
`CountExact` need an invariant of the tree on the flash.

## 5. Findings

1. `xmodem_sum8`, `xmodem.c:196`. A checksum receiver that is started first
   repeats its NAK while it waits. `xmodem_send()` takes one as the handshake and
   leaves the others on the line, reads the next as the answer to block 1 and sends
   that twice; both copies are acknowledged, and from then on each ACK belongs to
   the block before. A last block that is lost goes unnoticed: both functions
   return `ESP_OK` and the file is one block short. A CRC receiver repeats 'C',
   which the sender does not take for an answer: there the transfer is
   stop-and-wait (`SenderNotAhead` in `xmodem`).
2. `prov_lock`, `manager.c:2397`. `network_prov_mgr_deinit()` deletes the mutex
   of which comments at 205 and 2154 say that it is never deleted, and why.
3. `prov_deadlock`, `manager.c:2144`. The asynchronous stop waits for the
   transport with the lock held, which the comment at 2332 explains must not be.
4. `prov_reprov`, `manager.c:2768`. A request for a new provisioning during the
   delay of a stop sets the state back to STARTED; the stop is then ignored and
   the promised `NETWORK_PROV_END` never comes.
5. `dhara_copy`, `map.c:513`. A copy finds the page of its source once. When the
   write fails and it is in the source's block, the recovery moves the source and
   the block is marked bad, which begins with an erase; the copy is then repeated
   from the erased page and succeeds with a blank destination.
6. `dhara_mixed`, `journal.c:531`. A loss of power cuts off a write after a sync; the
   head resumes in the middle of a group whose metadata was in RAM. If the next
   write fails, `dump_meta()` dumps the empty buffer, `read_meta()` takes the dump
   for the metadata of the root's group, and the recovery finds only filler and
   erases the block: the write succeeds, and what was synced is gone, though
   `map.h:122-124` promises that it is "persistent and durable".

### Weaknesses no run shows

Met while modelling. Where a constant of the model lets them in, it is named.

- dhara, `journal.c:764`. A program operation that fails while nothing is mapped and
  the head is inside a block leaves a recovery root of `DHARA_PAGE_NONE`.
  `try_recover()` asks for the metadata of a page the chip does not have, and the
  assertion at `nand_impl.c:472` aborts the device (`op.pc = "aborted"`). Without
  assertions the recovery would not end, as `next_recoverable()` never comes to
  that root. `CallReturns` excepts it as `RecoversNothing`.
- NAND, `nand_impl.c:271-315, 536-560`. A block whose erase fails is not marked
  bad; a loss of power in `nand_mark_bad()` leaves it unmarked; the copy through RAM
  leaks its buffer on failure. `dhara_init()` ignores the result of the resume
  (`dhara_glue.c:56`).
- Provisioning. The auto-stop timer armed by a first address is not stopped when
  the connection is lost or reset (`manager.c:2055`) and may end a later attempt. A
  start that fails late keeps the copy of the secret, which `NothingLeft` excepts;
  with a kept transport
  a request may be inside a handler that is freed, so that `RequestUsesHandlers`
  is claimed for FULL mode only.
- `esp_schedule`. `disable()` against an expiry in progress is undone by the re-arm
  in the callback (`esp_schedule.c:789`; `esp_schedule.h:251` says that disable stops
  the schedule), and is not persisted; `edit()` races the expiry (956-988); a full
  command queue loses a slice (`timer.c:201`). A task that is held up for a second in
  the middle of a call (`Preempted = TRUE`) breaks `ScheduleKeepsTimer`, when the timer
  expires before its time is recorded, and `ScheduleNoUseAfterFree`: a callback that
  re-arms a schedule whose handle is not published yet creates a second timer, which
  nothing deletes.
- `esp_serial_slave_link`, `essl_spi.c:347-363, 437-453`. A register is read
  "until the last 2 reading result are same", which does not make it a value the
  register has had: when it grows by more than 65280 during the two readings, both
  may be torn alike. `Gradual` excludes it: the slave would have to
  load or produce that much within one such reading.
- Provisioning, `manager.c:231-242, 2483-2515`. A start with security 2 that fails
  late leaves `protocomm_sec_params` set. A start with security 1 and no proof of
  possession that follows keeps the pointer, and `free_sec_params()` then frees
  a field of the application's security 2 parameters as if it were the copy of the
  proof of possession. `SecretsApart` excludes it.
- `esp_serial_slave_link`. `reset_cnt()` leaves the cached counters
  (`essl_sdio.c:502`; `essl.h:73`), a multi-block write that fails half way leaves the
  host's count behind (318), SPI counts a packet before its end is written, and the
  loops that wait for room ignore `wait_ms`. `adrift` and `stale` mark these.
- `esp_encrypted_img`. `esp_encrypted_img_is_complete_data_received()` is true
  right after the start, as 0 = 0 (`esp_encrypted_img.c:1680`).
- `esp_isotp`. A payload of more than 8 bytes is refused (227) after its frame was
  unlinked (216-219), and no path puts that back: as many such calls as there are
  frames empty the pool. isotp-c sends 8 bytes at most. `dropped` marks these. The
  pool's take is not atomic (219) against the interrupt that puts back;
  `esp_isotp.h:104` calls the function ISR-safe. `IsoTpFramesKept` excepts what
  has `raced`. An enable that fails after the registration leaves callbacks with a
  freed context.
- `touch_element`. One message per interrupt (398); a timeout or the end of a scan
  takes the place of a change; a full queue drops; `touch_element_stop()` on a timer
  that is not running returns with the mutex held (227-230). `missed`, `hurried` and
  `leaked` mark these.

## 6. Plan

What is next, in this order, and why.

Proofs, from invariants TLC would check first:

1. `DharaMap`: the steps to `SectorStore` that do not resume, from the tree's
   invariant (a page of the tree is written and nothing behind the tail is used).
2. `DeliveredInOrderLate`: a form of it that does not depend on how many answers
   come late.

Models: the path cache of the map; the reader and the stop of `esp_linenoise` and
`esp_cli`; `ccomp_timer`; sliders and matrices of `touch_element`; the Thread build,
the scan lists and the capabilities in `ProvMgr`; the patch decoder of
`esp_delta_ota`.

## 7. Not modelled, limits

Of the components modelled in part: peripheral drivers (RMT and UART of
`onewire_bus`, SPI of `spi_nand_flash`), ciphers and key exchange of
`esp_encrypted_img`, the segmentation of `esp_isotp`, which is in a submodule, edits
of a schedule's trigger and the solar schedules, sliders, matrices, sleep and
waterproof settings of `touch_element`, the map's path cache and ECC errors of
single pages in dhara, the block devices over it. `PROJECT.json` has the reason for
each component that has no module: pure computation, packaging, or glue to a
library that is not here. Their code is the larger part of the tree (`iqmath`,
`esp_sysview` and the generated protobuf code alone are a fifth of it), has no
behaviour over time, and would be checked by tests over its inputs.

Liveness and `ENABLED` stay with TLC. No module has a recursive operator. Memory safety inside a
section that is one step here, timing, and what libraries outside `src/` do beyond
what their callers rely on are not modelled.
