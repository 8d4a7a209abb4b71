---------------------------- MODULE TouchButtons ----------------------------
(***************************************************************************)
(* touch_element: from the touch of a pad to the events of its button.     *)
(* The interrupt compares the trigger status with the last it saw and      *)
(* sends one message for it, whatever the number of pads that changed.  A  *)
(* periodic timer takes one message a period, updates the devices and runs *)
(* the state machine of every button, which gives events to a queue that   *)
(* the application reads.  A waterproof guard pad masks buttons.           *)
(*                                                                         *)
(* The sensor is outside this repository: pads change, and raise their     *)
(* interrupt together with the ends of scans and the measuring timeouts.   *)
(***************************************************************************)
EXTENDS Naturals, Sequences, FiniteSets, SequencesExt

CONSTANTS
  Buttons,        \* buttons, each the pad of its number
  Guard,          \* pad of the waterproof guard, or 0: no waterproofing
  Scans,          \* scan-done interrupts before thresholds are set (5)
  LongPress,      \* trigger_thr, in periods
  IntrSize,       \* intr_msg_queue
  EventSize,      \* event_msg_queue
  MaxChanges,     \* bound on changes of pads and measuring timeouts together
  MaxCalls        \* bound on calls of the application

Pads == Buttons \cup ({Guard} \ {0})

ConstantsOK ==
  /\ IsFiniteSet(Pads) /\ Pads \subseteq Nat \ {0} /\ Guard \notin Buttons
  /\ {Scans, LongPress, IntrSize, EventSize} \subseteq Nat \ {0}
  /\ {MaxChanges, MaxCalls} \subseteq Nat

States == {"idle", "press", "release"}

VARIABLES
  touched,     \* touch_trig_status
  seen,        \* touch_pre_trig_status
  pending,     \* interrupts raised
  scanOn,      \* the scan-done interrupt is enabled
  scans,       \* scan_done_cnt
  intrQueue,   \* intr_msg_queue
  running,     \* proc_timer
  leaked,      \* the mutex is held for ever
  isSet,       \* is_set_threshold
  pmLock,      \* uses of pm_lock
  device,      \* device->state of each pad
  last,        \* last_state of each button
  cnt,         \* trigger_cnt
  eventQueue,  \* event_msg_queue
  changes, calls,
  told,        \* history: the last press or release the application received
  held,        \* history: periods the button was held since its press event
  missed,      \* history: pads with a change or an event that was dropped
  hurried,     \* history: pads touched before the last touch was dealt with
  wrong        \* history: buttons with an event out of order

sensor == <<touched, seen, pending, scanOn, scans, changes>>
system == <<running, leaked, isSet, calls>>
button == <<device, last, cnt, held>>
vars == <<sensor, intrQueue, system, pmLock, button, eventQueue, told, missed,
          hurried, wrong>>

\* Installed, with its buttons created and subscribed, light sleep enabled,
\* and started.
Init ==
  /\ touched = {} /\ seen = {} /\ pending = {} /\ scanOn = TRUE /\ scans = 0
  /\ intrQueue = <<>> /\ running = TRUE /\ leaked = FALSE /\ isSet = FALSE
  /\ pmLock = 1   \* touch_element_enable_light_sleep()
  /\ device = [p \in Pads |-> "idle"] /\ last = [b \in Buttons |-> "idle"]
  /\ cnt = [b \in Buttons |-> 0] /\ eventQueue = <<>>
  /\ changes = 0 /\ calls = 0
  /\ told = [b \in Buttons |-> "release"] /\ held = [b \in Buttons |-> 0]
  /\ missed = {} /\ hurried = {} /\ wrong = {}

-----------------------------------------------------------------------------
(***************************************************************************)
(* The sensor.                                                             *)
(***************************************************************************)

\* A pad is being dealt with from its touch until its button is idle again.
Busy(p) == \/ device[p] # "idle" \/ (p \in Buttons /\ last[p] # "idle")
           \/ \E i \in DOMAIN intrQueue : intrQueue[i].pad = p
           \/ (p \in touched) # (p \in seen)

PadChanges ==
  /\ running /\ changes < MaxChanges /\ changes' = changes + 1
  /\ \E p \in Pads :
       /\ touched' = IF p \in touched THEN touched \ {p} ELSE touched \cup {p}
       /\ hurried' = IF p \notin touched /\ Busy(p) THEN hurried \cup {p}
                     ELSE hurried
  /\ pending' = pending \cup {"change"}
  /\ UNCHANGED <<seen, scanOn, scans, intrQueue, system, pmLock,
                 button, eventQueue, told, missed, wrong>>

ScanDone ==
  /\ running /\ scanOn /\ "scan" \notin pending
  /\ pending' = pending \cup {"scan"}
  /\ UNCHANGED <<touched, seen, scanOn, scans, changes, intrQueue,
                 system, pmLock, button, eventQueue, told, missed, hurried,
                 wrong>>

MeasureTimeout ==
  /\ running /\ changes < MaxChanges /\ changes' = changes + 1
  /\ pending' = pending \cup {"timeout"}
  /\ UNCHANGED <<touched, seen, scanOn, scans, intrQueue, system, pmLock,
                 button, eventQueue, told, missed, hurried, wrong>>

-----------------------------------------------------------------------------
(***************************************************************************)
(* te_intr_cb().                                                           *)
(***************************************************************************)

Highest(S) == CHOOSE p \in S : \A q \in S : q <= p

\* The message of an interrupt: a timeout or the end of a scan takes the place
\* of a change, the highest pad that of the others.  With nothing changed it
\* is the zeroed message, a press of pad 0.
Message(diff) ==
  IF "timeout" \in pending THEN [type |-> "timeout", pad |-> 0]
  ELSE IF "scan" \in pending THEN [type |-> "scan", pad |-> 0]
  ELSE IF diff = {} THEN [type |-> "press", pad |-> 0]
  ELSE [type |-> IF Highest(diff) \in touched THEN "press" ELSE "release",
        pad |-> Highest(diff)]

\* The bug: every change takes the lock.
PowerLocksOfEach(diff) == Cardinality(diff)

\* esp_pm_lock_acquire() for every pad that was pressed.
PowerLocks(diff) == Cardinality(diff \cap touched)

TeIntrCb ==
  /\ pending # {} /\ pending' = {}
  /\ LET diff == (touched \ seen) \cup (seen \ touched)
         msg == Message(diff)
         fifth == msg.type = "scan" /\ scans + 1 >= Scans
         sent == (msg.type # "scan" \/ fifth) /\ Len(intrQueue) < IntrSize
     IN /\ seen' = touched
        /\ pmLock' = pmLock + PowerLocks(diff)
        /\ scans' = IF fifth THEN 0 ELSE IF msg.type = "scan" THEN scans + 1
                    ELSE scans
        /\ scanOn' = (scanOn /\ ~fifth)
        /\ intrQueue' = IF sent THEN Append(intrQueue, msg) ELSE intrQueue
        /\ missed' = missed \cup (IF sent THEN diff \ {msg.pad} ELSE diff)
  /\ UNCHANGED <<touched, changes, system, button, eventQueue, told,
                 hurried, wrong>>

-----------------------------------------------------------------------------
(***************************************************************************)
(* te_proc_timer_cb().                                                     *)
(***************************************************************************)

\* waterproof_check_mask_handle(): the guard of devices d is wet.
Masked(d) == Guard # 0 /\ d[Guard] = "press"

\* te_object_update_state(): the guard first, then the buttons not masked.
Updated(msg) ==
  IF msg.pad \notin Pads THEN device
  ELSE IF msg.pad # Guard /\ Masked(device) THEN device
  ELSE [device EXCEPT ![msg.pad] = msg.type]

\* button_reset_state() of a masked button, or after a second period of
\* release; the last state is then idle too, but not for a masked button.
DeviceAfter(d, b) ==
  IF Masked(d) \/ (d[b] = "release" /\ last[b] = "release") THEN "idle"
  ELSE d[b]

LastAfter(d, b) ==
  IF Masked(d) THEN last[b] ELSE DeviceAfter(d, b)

\* The bug: the periods of the last touch still count.
CountAfterKept(d, b) ==
  IF Masked(d) THEN 0
  ELSE IF d[b] = "press" /\ last[b] = "press"
    THEN IF cnt[b] + 1 >= LongPress THEN 0 ELSE cnt[b] + 1
  ELSE cnt[b]

CountAfter(d, b) ==
  IF Masked(d) \/ (d[b] = "release" /\ last[b] = "release") THEN 0
  ELSE IF d[b] = "press" /\ last[b] = "press"
    THEN IF cnt[b] + 1 >= LongPress THEN 0 ELSE cnt[b] + 1
  ELSE cnt[b]

\* button_proc_state(), for a button that has subscribed to every event.
Event(d, b) ==
  IF Masked(d) THEN "none"
  ELSE IF d[b] = "press" /\ last[b] = "idle" THEN "press"
  ELSE IF d[b] = "press" /\ last[b] = "press" /\ cnt[b] + 1 >= LongPress
    THEN "longpress"
  ELSE IF d[b] = "release" /\ last[b] = "press" THEN "release"
  ELSE "none"

\* The events of a period, in the order of the list of buttons, which is that of
\* their numbers: a set with the one list.
Events(d, at) ==
  LET due == {b \in at : Event(d, b) # "none"}
      Sorted(list) == \A i, j \in DOMAIN list : i < j => list[i] < list[j]
  IN {[i \in DOMAIN list |-> [button |-> list[i], event |-> Event(d, list[i])]] :
        list \in {l \in SetToSeqs(due) : Sorted(l)}}

\* A period: one message, then every button whose mutex is free; an
\* application call holds the mutex of those in busy.
Process(msg, busy) ==
  LET d == Updated(msg)
      at == IF Masked(d) THEN Buttons ELSE Buttons \ busy
  IN /\ device' = [p \in Pads |-> IF p \in at THEN DeviceAfter(d, p) ELSE d[p]]
     /\ last' = [b \in Buttons |-> IF b \in at THEN LastAfter(d, b) ELSE last[b]]
     /\ cnt' = [b \in Buttons |-> IF b \in at THEN CountAfter(d, b) ELSE cnt[b]]
     /\ \E events \in Events(d, at) :
          LET room == EventSize - Len(eventQueue)
              given == IF Len(events) < room THEN Len(events) ELSE room
          IN /\ eventQueue' = eventQueue \o SubSeq(events, 1, given)
             /\ missed' = missed
                  \cup {events[i].button : i \in (given + 1)..Len(events)}
                  \cup (IF Masked(d) THEN Buttons ELSE {})
     /\ held' = [b \in Buttons |->
                   IF b \notin at THEN held[b]
                   ELSE IF Event(d, b) = "press" \/ d[b] # "press" THEN 0
                   ELSE IF held[b] < LongPress THEN held[b] + 1 ELSE held[b]]
     /\ wrong' = wrong \cup {b \in at : /\ Event(d, b) = "longpress"
                                        /\ held[b] + 1 < LongPress}

Holding ==
  \E busy \in SUBSET Buttons :
    /\ calls' = IF busy = {} THEN calls ELSE calls + 1
    /\ calls' <= MaxCalls
    /\ \/ /\ intrQueue = <<>>
          /\ Process([type |-> "none", pad |-> 0], busy)
          /\ UNCHANGED <<intrQueue, isSet, pmLock>>
       \/ /\ intrQueue # <<>> /\ intrQueue' = Tail(intrQueue)
          /\ LET msg == Head(intrQueue) IN
               /\ Process(IF msg.type \in {"press", "release"} THEN msg
                          ELSE [type |-> "none", pad |-> 0], busy)
               /\ isSet' = (isSet \/ msg.type = "scan")
               /\ pmLock' = IF msg.type = "release" \/ (msg.type = "scan" /\ ~isSet)
                            THEN IF pmLock = 0 THEN 0 ELSE pmLock - 1
                            ELSE pmLock

TeProcTimerCb ==
  /\ running /\ ~leaked
  /\ Holding
  /\ UNCHANGED <<sensor, running, leaked, told, hurried>>

-----------------------------------------------------------------------------
(***************************************************************************)
(* The application.                                                        *)
(***************************************************************************)

\* touch_element_message_receive().
Receive ==
  /\ eventQueue # <<>> /\ eventQueue' = Tail(eventQueue)
  /\ LET b == Head(eventQueue).button
         e == Head(eventQueue).event
     IN /\ told' = [told EXCEPT ![b] = IF e = "longpress" THEN @ ELSE e]
        /\ wrong' = IF (e = "press") = (told[b] = "release") THEN wrong
                    ELSE wrong \cup {b}
  /\ UNCHANGED <<sensor, intrQueue, system, pmLock, button, missed, hurried>>

\* touch_element_start(): a timer that runs already fails it, after the
\* thresholds were forgotten.  The queues are emptied.
Start ==
  /\ ~leaked /\ calls < MaxCalls /\ calls' = calls + 1
  /\ isSet' = FALSE
  /\ IF running THEN UNCHANGED <<running, scanOn, intrQueue, eventQueue, missed,
                                 pending>>
     ELSE /\ running' = TRUE /\ scanOn' = TRUE
          /\ pending' = IF touched = seen THEN pending
                        ELSE pending \cup {"change"}
          /\ intrQueue' = <<>> /\ eventQueue' = <<>>
          /\ missed' = missed
               \cup ({intrQueue[i].pad : i \in DOMAIN intrQueue} \ {0})
               \cup {eventQueue[i].button : i \in DOMAIN eventQueue}
  /\ UNCHANGED <<touched, seen, scans, changes, leaked, pmLock, button,
                 told, hurried, wrong>>

\* touch_element_stop(): a timer that does not run is an error, returned with
\* the mutex held.
Stop ==
  /\ ~leaked /\ calls < MaxCalls /\ calls' = calls + 1
  /\ scanOn' = FALSE
  /\ IF running THEN running' = FALSE /\ UNCHANGED leaked
     ELSE leaked' = TRUE /\ UNCHANGED running
  /\ UNCHANGED <<touched, seen, pending, scans, changes, intrQueue,
                 isSet, pmLock, button, eventQueue, told, missed, hurried, wrong>>

Next ==
  \/ PadChanges \/ ScanDone \/ MeasureTimeout
  \/ TeIntrCb \/ TeProcTimerCb
  \/ Receive \/ Start \/ Stop

Spec == Init /\ [][Next]_vars

-----------------------------------------------------------------------------
(***************************************************************************)
(* Properties.                                                             *)
(***************************************************************************)

Messages == [type : {"press", "release", "timeout", "scan"}, pad : Pads \cup {0}]

TypeOK ==
  /\ touched \subseteq Pads /\ seen \subseteq Pads
  /\ pending \subseteq {"change", "scan", "timeout"}
  /\ scanOn \in BOOLEAN /\ scans \in 0..(Scans - 1)
  /\ intrQueue \in Seq(Messages) /\ Len(intrQueue) <= IntrSize
  /\ running \in BOOLEAN /\ leaked \in BOOLEAN /\ isSet \in BOOLEAN
  /\ pmLock \in Nat
  /\ device \in [Pads -> States] /\ last \in [Buttons -> States]
  /\ cnt \in [Buttons -> 0..(LongPress - 1)]
  /\ Len(eventQueue) <= EventSize
  /\ changes \in 0..MaxChanges /\ calls \in 0..MaxCalls
  /\ told \in [Buttons -> {"press", "release"}]
  /\ held \in [Buttons -> 0..LongPress]
  /\ missed \subseteq Pads /\ hurried \subseteq Pads /\ wrong \subseteq Buttons

\* The application receives the events of a button in order: a press, then
\* long presses that were held for their time, then one release; unless a
\* change or an event of the pad was dropped, or the pad was touched again
\* before its last touch was dealt with (button_proc_state()).
EventsInOrder == wrong \subseteq missed \cup hurried

\* When no pad is touched and nothing is left to do, no use of the power lock
\* is left to keep the chip awake, unless a change was dropped (te_intr_cb()
\* takes it for every press, te_proc_timer_cb() returns it for every release
\* message).
PowerLockReturned ==
  touched = seen /\ seen = {} /\ intrQueue = <<>> /\ isSet /\ missed = {}
    => pmLock = 0

=============================================================================
