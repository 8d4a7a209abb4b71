------------------------------ MODULE Schedule ------------------------------
(***************************************************************************)
(* esp_schedule with its FreeRTOS port: application tasks and the timer    *)
(* daemon work on the same schedules.  A schedule owns at most one         *)
(* software timer; the daemon calls the schedule back when it expires, and *)
(* the user's trigger callback may itself call the API.  Dates are reduced *)
(* to a period in seconds, one tick is one second, names are the schedules *)
(* themselves.  What the non-volatile store keeps of a schedule is the     *)
(* next_scheduled_time_utc it was written with.                            *)
(***************************************************************************)
EXTENDS Integers, Sequences, FiniteSets

CONSTANTS
  Tasks,          \* application tasks
  Schedules,
  NONE,           \* NULL: no schedule, no owner
  Types,          \* trigger types each schedule may be created with
  Delay,          \* seconds between occurrences (or relative_seconds)
  EndTime,        \* validity.end_time, 0 when there is none
  Calls,          \* API functions an application task calls
  NestedCalls,    \* API functions a trigger callback calls
  QueueLen,       \* length of the timer command queue
  MaxPeriod,      \* ESP_SCHEDULE_TIMER_MAX_TICKS
  MaxTime, MaxBoots, MaxTimers,   \* bounds
  MaxCalls,       \* bounds the API calls and restarts together
  Preempted       \* TRUE: tasks and daemon may be held up for a second anywhere

ConstantsOK ==
  /\ NONE \notin Schedules \cup Tasks /\ "daemon" \notin Tasks
  /\ Types \in [Schedules -> SUBSET {"relative", "once", "repeating"}]
  /\ Delay \in [Schedules -> Nat \ {0}] /\ EndTime \in [Schedules -> Nat]
  /\ Calls \cup NestedCalls \subseteq
       {"create", "enable", "disable", "edit", "delete"}
  /\ QueueLen \in Nat \ {0} /\ MaxPeriod \in Nat \ {0}
  /\ MaxTime \in Nat \ {0} /\ MaxBoots \in Nat /\ MaxCalls \in Nat
  /\ MaxTimers \in Nat
  /\ Preempted \in BOOLEAN

Daemon == "daemon"
Actors == Tasks \cup {Daemon}
Timers == 1..MaxTimers
OneShot == {"relative", "once"}
VARIABLES
  now,             \* wall clock in seconds; 0 is "before 2020"
  mem,             \* the allocation of each schedule
  type,            \* RELATIVE, another one-shot, or repeating; also stored
  next,            \* trigger.next_scheduled_time_utc
  callback,        \* trigger_cb is set
  handle,          \* schedule->timer, 0 for NULL
  stored,          \* the store: no entry, or the next time of the entry
  timer,           \* the FreeRTOS timers and their private data
  commands,        \* the timer command queue
  op,              \* where each actor is in an API call or a re-arm
  frame,           \* the daemon's esp_schedule_timer_common_cb()
  dispatching,     \* s_dispatching
  deleted,         \* s_dispatch_deleted
  fires,           \* triggers since an API call on the schedule, other than the
                   \* edit() that restores its callback, began or ended, or
                   \* since a restart armed it
  off,             \* created or disabled, and not enabled since
  lost,            \* schedules whose stop or next period the daemon dropped,
                   \* or disabled or edited while their timer expired
  boots, calls     \* bounds

memVars == <<mem, type, next, callback, handle, stored>>
timerVars == <<timer, commands>>
cbVars == <<frame, dispatching, deleted>>
ghosts == <<fires, off, lost, boots, calls>>
vars == <<now, memVars, timerVars, op, cbVars, ghosts>>

NoEntry == -1
Idle == [call |-> "none", s |-> NONE, pc |-> "idle", arg |-> 0]
NoFrame == [t |-> 0, s |-> NONE, at |-> "idle"]
NoTimer == [state |-> "none", left |-> 0, id |-> NONE, remaining |-> 0,
            priv |-> "none"]

TypeOK ==
  /\ now \in 0..MaxTime
  /\ mem \in [Schedules -> {"none", "live", "freed"}]
  /\ type \in [Schedules -> {"none", "relative", "once", "repeating"}]
  /\ next \in [Schedules -> Nat] /\ callback \in [Schedules -> BOOLEAN]
  /\ handle \in [Schedules -> 0..MaxTimers]
  /\ stored \in [Schedules -> Nat \cup {NoEntry}]
  /\ timer \in [Timers -> [state : {"none", "dormant", "active", "deleted"},
                           left : 0..MaxPeriod, id : Schedules \cup {NONE},
                           remaining : Nat, priv : {"none", "live", "freed"}]]
  /\ Len(commands) <= QueueLen
  /\ frame.at \in {"idle", "enter", "trigger", "rearm"}
  /\ dispatching \in Schedules \cup {NONE} /\ deleted \in BOOLEAN
  /\ fires \in [Schedules -> Nat] /\ off \in [Schedules -> BOOLEAN]
  /\ lost \subseteq Schedules

Init ==
  /\ now \in {0, 1}
  /\ mem = [s \in Schedules |-> "none"]
  /\ type = [s \in Schedules |-> "none"]
  /\ next = [s \in Schedules |-> 0]
  /\ callback = [s \in Schedules |-> FALSE]
  /\ handle = [s \in Schedules |-> 0]
  /\ stored = [s \in Schedules |-> NoEntry]
  /\ timer = [t \in Timers |-> NoTimer]
  /\ commands = <<>>
  /\ op = [a \in Actors |-> Idle]
  /\ frame = NoFrame
  /\ dispatching = NONE /\ deleted = FALSE
  /\ fires = [s \in Schedules |-> 0] /\ off = [s \in Schedules |-> FALSE]
  /\ lost = {} /\ boots = 0 /\ calls = 0

-----------------------------------------------------------------------------
(* Helpers.                                                                *)

At(a, pc) == op[a].pc = pc
GoTo(a, pc) == op' = [op EXCEPT ![a].pc = pc]
Full == Len(commands) >= QueueLen

\* The bug: the daemon waits for room in the command queue it empties.
CanPostWaiting(a) == ~Full

\* An application task waits for room in the command queue; the daemon, which
\* empties it, must not.
CanPost(a) == a = Daemon \/ ~Full
Command(c, t, p) == [do |-> c, t |-> t, period |-> p]
Post(cmd) == commands' = IF Full THEN commands ELSE Append(commands, cmd)

Lose(s) == lost' = IF Full THEN lost \cup {s} ELSE lost

\* The bug: a delay longer than one period is not split.
ClampNot(n) == n

\* A period the timer can represent.
Clamp(n) == IF n > MaxPeriod THEN MaxPeriod ELSE n

\* The bug: the time of a one-shot that has fired is computed afresh.
FiredAndDoneForgotten(s) == FALSE

\* The trigger is a one-shot and its time has come.
FiredAndDone(s) == type[s] \in OneShot /\ next[s] > 0 /\ next[s] <= now

Occurrence(s) == (now \div Delay[s] + 1) * Delay[s]
Target(s) == IF type[s] = "relative"
               THEN IF next[s] = 0 THEN now + Delay[s] ELSE next[s]
               ELSE Occurrence(s)

\* The next time the schedule fires, 0 if it does not.
NextTime(s) ==
  IF \/ FiredAndDone(s)
     \/ EndTime[s] # 0 /\ Target(s) > EndTime[s]
     \/ Target(s) <= now
    THEN 0 ELSE Target(s)

\* What create() anchors for a RELATIVE schedule.
NewTarget(s) == LET t == now + Delay[s] IN
  IF EndTime[s] # 0 /\ t > EndTime[s] THEN 0 ELSE t

\* s_cb_mutex is held for the whole callback; a task holds it for one step.
CanTake(a) == a = Daemon \/ frame.at \notin {"trigger", "rearm"}

\* Something fails to arm, or there is nothing to arm: stop the timer if there
\* is one and forget the time.
GiveUp(a) == GoTo(a, "stop")

-----------------------------------------------------------------------------
(* esp_schedule_start_timer(), run by enable(), by the callback and by     *)
(* init.                                                                   *)

Compute(a) == LET s == op[a].s IN
  /\ At(a, "compute")
  /\ IF now = 0 \/ NextTime(s) = 0
       THEN /\ GiveUp(a)
            /\ next' = [next EXCEPT ![s] = IF now = 0 THEN @ ELSE 0]
       ELSE /\ next' = [next EXCEPT ![s] = NextTime(s)]
            /\ op' = [op EXCEPT ![a].pc = "arm", ![a].arg = NextTime(s) - now]
  /\ UNCHANGED <<now, mem, type, callback, handle, stored, timerVars, cbVars, ghosts>>

\* The first arm creates the timer; its handle is published after it runs.
ArmNew(a) == LET s == op[a].s
                 unused == {t \in Timers : timer[t].state = "none"}
                 secs == op[a].arg IN
  /\ At(a, "arm") /\ handle[s] = 0 /\ CanPost(a)
  /\ IF unused = {}
       THEN GiveUp(a) /\ UNCHANGED timerVars
       ELSE LET t == CHOOSE u \in unused : \A v \in unused : u <= v IN
            /\ timer' = [timer EXCEPT ![t] =
                 [state |-> "dormant", left |-> 0,
                  id |-> IF Full THEN NONE ELSE s,
                  remaining |-> secs - Clamp(secs),
                  priv |-> IF Full THEN "freed" ELSE "live"]]
            /\ Post(Command("start", t, Clamp(secs)))
            /\ IF Full THEN GiveUp(a)
                 ELSE op' = [op EXCEPT ![a].pc = "publish", ![a].arg = t]
  /\ UNCHANGED <<now, memVars, cbVars, ghosts>>

Publish(a) ==
  /\ At(a, "publish")
  /\ handle' = [handle EXCEPT ![op[a].s] = op[a].arg]
  /\ GoTo(a, "armed")
  /\ UNCHANGED <<now, mem, type, next, callback, stored, timerVars, cbVars, ghosts>>

\* Later arms rebind the private data under the mutex, then change the period.
Rebind(a) == LET t == handle[op[a].s] IN
  /\ At(a, "arm") /\ t # 0 /\ CanTake(a)
  /\ IF timer[t].id = NONE
       THEN GiveUp(a) /\ UNCHANGED timer
       ELSE /\ timer' = [timer EXCEPT ![t].remaining = op[a].arg - Clamp(op[a].arg),
                                      ![t].id = op[a].s]
            /\ GoTo(a, "change")
  /\ UNCHANGED <<now, memVars, commands, cbVars, ghosts>>

ChangePeriod(a) ==
  /\ At(a, "change") /\ CanPost(a)
  /\ Post(Command("start", handle[op[a].s], Clamp(op[a].arg)))
  /\ IF Full THEN GiveUp(a) ELSE GoTo(a, "armed")
  /\ UNCHANGED <<now, memVars, timer, cbVars, ghosts>>

\* esp_schedule_stop_timer(), then next_scheduled_time_utc = 0.
Stop(a) == LET t == handle[op[a].s] IN
  /\ At(a, "stop") /\ (t # 0 => CanPost(a))
  /\ IF t = 0 THEN UNCHANGED <<commands, lost>>
               ELSE Post(Command("stop", t, 0)) /\ Lose(op[a].s)
  /\ GoTo(a, "clear")
  /\ UNCHANGED <<now, memVars, timer, cbVars, fires, off, boots, calls>>

\* The bug: the stopped schedule keeps its time.
ClearNothing(a) ==
  /\ At(a, "clear") /\ GoTo(a, "armed")
  /\ UNCHANGED <<now, memVars, timerVars, cbVars, ghosts>>

Clear(a) ==
  /\ At(a, "clear")
  /\ next' = [next EXCEPT ![op[a].s] = 0]
  /\ GoTo(a, "armed")
  /\ UNCHANGED <<now, mem, type, callback, handle, stored, timerVars, cbVars, ghosts>>

\* The schedule is armed or it is not: what the function goes on to do.
\* enable() stores the time of a one-shot.
Armed(a) == LET s == op[a].s IN
  /\ At(a, "armed")
  /\ stored' = IF op[a].call = "enable" /\ type[s] \in OneShot /\ next[s] > 0
                 THEN [stored EXCEPT ![s] = next[s]] ELSE stored
  /\ off' = [off EXCEPT ![s] = CASE op[a].call = "disable" -> TRUE
                                 [] op[a].call = "enable" -> FALSE
                                 [] OTHER -> @]
  /\ op' = [op EXCEPT ![a] = IF op[a].call = "init"
                               THEN [Idle EXCEPT !.call = "init", !.pc = "load"]
                               ELSE Idle]
  /\ fires' = [fires EXCEPT ![s] = IF op[a].call \in {"enable", "disable"} THEN 0 ELSE @]
  /\ frame' = IF op[a].call = "rearm" THEN NoFrame ELSE frame
  /\ UNCHANGED <<now, mem, type, next, callback, handle, timerVars, dispatching,
                 deleted, lost, boots, calls>>

-----------------------------------------------------------------------------
(* The API.  An application does not use a schedule after deleting it, and *)
(* its calls on one schedule do not overlap, save those that the callback  *)
(* of the schedule makes.                                                  *)

Working(s) == {a \in Actors : op[a].s = s}
MayUse(a, s) ==
  /\ mem[s] = "live" /\ (s = frame.s => ~deleted)
  /\ (a = Daemon /\ s = frame.s) \/ \A b \in Working(s) : op[b].call = "rearm"
MayDelete(a, s) == mem[s] = "live" /\ Working(s) = {} /\ (s = frame.s => ~deleted)

\* Where a call may start: in an application task once init has returned, and
\* in a trigger callback.
MayCall(a, c) ==
  /\ At(a, "idle") /\ calls < MaxCalls
  /\ IF a = Daemon THEN c \in NestedCalls /\ frame.at = "trigger"
                    ELSE c \in Calls
  /\ \A b \in Tasks : op[b].call # "init"

Enter(a, c, s, pc) ==
  /\ MayCall(a, c)
  /\ op' = [op EXCEPT ![a] = [call |-> c, s |-> s, pc |-> pc, arg |-> 0]]
  /\ fires' = [fires EXCEPT ![s] = IF c = "edit" THEN @ ELSE 0]
  /\ off' = [off EXCEPT ![s] = @ /\ c # "enable"]
  /\ lost' = IF c \in {"disable", "edit"} /\ frame # NoFrame /\ timer[frame.t].id = s
               THEN lost \cup {s} ELSE lost
  /\ calls' = calls + 1
  /\ UNCHANGED boots

\* create() stores the schedule, then fixes the time of a RELATIVE one.
Create(a, s) ==
  /\ mem[s] = "none" /\ stored[s] = NoEntry
  /\ MayCall(a, "create")
  /\ mem' = [mem EXCEPT ![s] = "live"]
  /\ callback' = [callback EXCEPT ![s] = TRUE]
  /\ \E k \in Types[s] :
       /\ type' = [type EXCEPT ![s] = k]
       /\ next' = [next EXCEPT ![s] = IF k = "relative" THEN NewTarget(s) ELSE 0]
  /\ stored' = [stored EXCEPT ![s] = 0]
  /\ off' = [off EXCEPT ![s] = TRUE]
  /\ calls' = calls + 1
  /\ UNCHANGED <<now, handle, timerVars, op, cbVars, fires, lost, boots>>

\* For a schedule "after it has been created or if it has been disabled".
Enable(a, s) ==
  /\ off[s] /\ MayUse(a, s) /\ Enter(a, "enable", s, "compute")
  /\ UNCHANGED <<now, memVars, timerVars, cbVars>>

Disable(a, s) ==
  /\ MayUse(a, s) /\ Enter(a, "disable", s, "stop")
  /\ UNCHANGED <<now, memVars, timerVars, cbVars>>

\* A restored schedule gets its callback back through get() and edit(), as the
\* warning on esp_schedule_init() asks for.
EditGet(a, s) ==
  /\ MayUse(a, s) /\ ~callback[s] /\ Enter(a, "edit", s, "reset")
  /\ UNCHANGED <<now, memVars, timerVars, cbVars>>

EditReset(a) == LET s == op[a].s IN
  /\ At(a, "reset")
  /\ op' = [op EXCEPT ![a].pc = "set", ![a].arg = next[s]]
  /\ next' = [next EXCEPT ![s] = IF type[s] = "relative" THEN 0 ELSE @]
  /\ UNCHANGED <<now, mem, type, callback, handle, stored, timerVars, cbVars, ghosts>>

EditSet(a) == LET s == op[a].s
                  t == IF type[s] = "relative" THEN op[a].arg ELSE next[s] IN
  /\ At(a, "set")
  /\ next' = [next EXCEPT ![s] = t]
  /\ callback' = [callback EXCEPT ![s] = TRUE]
  /\ stored' = [stored EXCEPT ![s] = t]
  /\ op' = [op EXCEPT ![a] = Idle]
  /\ UNCHANGED <<now, mem, type, handle, timerVars, cbVars, ghosts>>

Delete(a, s) ==
  /\ MayDelete(a, s)
  /\ Enter(a, "delete", s, IF handle[s] # 0 THEN "stop_first" ELSE "erase")
  /\ UNCHANGED <<now, memVars, timerVars, cbVars>>

DeleteStop(a) ==
  /\ At(a, "stop_first") /\ CanPost(a)
  /\ Post(Command("stop", handle[op[a].s], 0))
  /\ GoTo(a, "cancel")
  /\ UNCHANGED <<now, memVars, timer, cbVars, ghosts>>

\* esp_timer_cancel(): stop an active timer, detach its private data under the
\* mutex, then delete the timer and free the data without it.
CancelStop(a) == LET t == handle[op[a].s] IN
  /\ At(a, "cancel")
  /\ timer[t].state = "active" => CanPost(a)
  /\ IF timer[t].state = "active"
       THEN Post(Command("stop", t, 0)) ELSE UNCHANGED commands
  /\ GoTo(a, "detach")
  /\ UNCHANGED <<now, memVars, timer, cbVars, ghosts>>

Detach(a) ==
  /\ At(a, "detach") /\ CanTake(a)
  /\ timer' = [timer EXCEPT ![handle[op[a].s]].id = NONE]
  /\ GoTo(a, "delete_timer")
  /\ UNCHANGED <<now, memVars, commands, cbVars, ghosts>>

DeleteTimer(a) == LET s == op[a].s IN
  /\ At(a, "delete_timer") /\ CanPost(a)
  /\ Post(Command("delete", handle[s], 0))
  /\ timer' = [timer EXCEPT ![handle[s]].priv = "freed"]
  /\ handle' = [handle EXCEPT ![s] = 0]
  /\ GoTo(a, "erase")
  /\ UNCHANGED <<now, mem, type, next, callback, stored, cbVars, ghosts>>

Erase(a) ==
  /\ At(a, "erase")
  /\ stored' = [stored EXCEPT ![op[a].s] = NoEntry]
  /\ GoTo(a, "free")
  /\ UNCHANGED <<now, mem, type, next, callback, handle, timerVars, cbVars, ghosts>>

\* The bug: the schedule is freed under its own callback.
FreeAtOnce(a) == LET s == op[a].s IN
  /\ At(a, "free")
  /\ mem' = [mem EXCEPT ![s] = "freed"]
  /\ op' = [op EXCEPT ![a] = IF op[a].call = "init"
                               THEN [Idle EXCEPT !.call = "init", !.pc = "load"]
                               ELSE Idle]
  /\ UNCHANGED <<now, type, next, callback, handle, stored, timerVars, cbVars, ghosts>>

\* The schedule that is being dispatched is freed by its callback.
Free(a) == LET s == op[a].s IN
  /\ At(a, "free")
  /\ IF s = dispatching
       THEN deleted' = TRUE /\ UNCHANGED mem
       ELSE mem' = [mem EXCEPT ![s] = "freed"] /\ UNCHANGED deleted
  /\ op' = [op EXCEPT ![a] = IF op[a].call = "init"
                               THEN [Idle EXCEPT !.call = "init", !.pc = "load"]
                               ELSE Idle]
  /\ UNCHANGED <<now, type, next, callback, handle, stored, timerVars, frame,
                 dispatching, ghosts>>

-----------------------------------------------------------------------------
(* esp_schedule_init_with_config() loads what is stored: an entry with no  *)
(* future is deleted, any other is armed.                                  *)

Load(a, s) ==
  /\ At(a, "load") /\ mem[s] = "none" /\ stored[s] # NoEntry
  /\ mem' = [mem EXCEPT ![s] = "live"]
  /\ next' = [next EXCEPT ![s] = stored[s]]
  /\ op' = [op EXCEPT ![a].s = s, ![a].pc = "check"]
  /\ UNCHANGED <<now, type, callback, handle, stored, timerVars, cbVars, ghosts>>

Check(a) == LET s == op[a].s IN
  /\ At(a, "check")
  /\ next' = [next EXCEPT ![s] = NextTime(s)]
  /\ GoTo(a, IF NextTime(s) = 0 THEN "erase" ELSE "compute")
  /\ UNCHANGED <<now, mem, type, callback, handle, stored, timerVars, cbVars, ghosts>>

Loaded(a) ==
  /\ At(a, "load") /\ \A s \in Schedules : mem[s] = "none" => stored[s] = NoEntry
  /\ op' = [op EXCEPT ![a] = Idle]
  /\ UNCHANGED <<now, memVars, timerVars, cbVars, ghosts>>

-----------------------------------------------------------------------------
(* The timer daemon: expiries, commands, callbacks.                        *)

\* A disable() or an edit() of its schedule is under way, or a stop is queued.
Stopping(t) ==
  \/ \E a \in Tasks : op[a].s = timer[t].id /\ op[a].call \in {"disable", "edit"}
  \/ \E i \in 1..Len(commands) : commands[i].t = t /\ commands[i].do = "stop"

Expire(t) ==
  /\ frame = NoFrame /\ timer[t].state = "active" /\ timer[t].left = 0
  /\ timer' = [timer EXCEPT ![t].state = "dormant"]
  /\ frame' = [t |-> t, s |-> NONE, at |-> "enter"]
  /\ lost' = IF Stopping(t) THEN lost \cup ({timer[t].id} \ {NONE}) ELSE lost
  /\ UNCHANGED <<now, memVars, commands, op, dispatching, deleted, fires, off,
                 boots, calls>>

ProcessCommand == LET c == Head(commands) IN
  /\ frame = NoFrame /\ commands # <<>>
  /\ commands' = Tail(commands)
  /\ timer' = [timer EXCEPT
       ![c.t].state = CASE c.do = "start" -> "active"
                        [] c.do = "stop" -> "dormant"
                        [] c.do = "delete" -> "deleted",
       ![c.t].left = c.period]
  /\ UNCHANGED <<now, memVars, op, cbVars, ghosts>>

\* esp_schedule_timer_common_cb(): the timer was cancelled before it got the
\* mutex, or a long delay has another period to go.
CallbackDetached ==
  /\ frame.at = "enter" /\ timer[frame.t].id = NONE
  /\ frame' = NoFrame
  /\ UNCHANGED <<now, memVars, timerVars, op, dispatching, deleted, ghosts>>

CallbackSlice == LET t == frame.t
                     period == Clamp(timer[t].remaining) IN
  /\ frame.at = "enter" /\ timer[t].id # NONE /\ timer[t].remaining > 0
  /\ Post(Command("start", t, period)) /\ Lose(timer[t].id)
  /\ timer' = IF Full THEN timer ELSE [timer EXCEPT ![t].remaining = @ - period]
  /\ frame' = NoFrame
  /\ UNCHANGED <<now, memVars, op, dispatching, deleted, fires, off, boots, calls>>

Expired(s) == EndTime[s] # 0 /\ now > EndTime[s]
Dispatches(s) == next[s] <= now /\ ~Expired(s)
Running(t) == timer[t].id # NONE /\ timer[t].remaining = 0

\* esp_schedule_common_timer_cb(): too early, too late, or nobody to call.
CallbackRearms == LET s == timer[frame.t].id IN
  /\ frame.at = "enter" /\ Running(frame.t)
  /\ ~Dispatches(s) \/ ~callback[s]
  /\ frame' = [frame EXCEPT !.s = s, !.at = "rearm"]
  /\ op' = [op EXCEPT ![Daemon] =
                [call |-> "rearm", s |-> s, pc |-> "compute", arg |-> 0]]
  /\ UNCHANGED <<now, memVars, timerVars, dispatching, deleted, ghosts>>

Trigger == LET s == timer[frame.t].id IN
  /\ frame.at = "enter" /\ Running(frame.t)
  /\ Dispatches(s) /\ callback[s]
  /\ frame' = [frame EXCEPT !.s = s, !.at = "trigger"]
  /\ dispatching' = s /\ deleted' = FALSE
  /\ fires' = [fires EXCEPT ![s] = @ + 1]
  /\ UNCHANGED <<now, memVars, timerVars, op, off, lost, boots, calls>>

TriggerReturns == LET s == frame.s IN
  /\ frame.at = "trigger" /\ At(Daemon, "idle")
  /\ dispatching' = NONE /\ deleted' = FALSE
  /\ IF deleted
       THEN /\ mem' = [mem EXCEPT ![s] = "freed"]
            /\ frame' = NoFrame /\ UNCHANGED op
       ELSE /\ frame' = [frame EXCEPT !.at = "rearm"]
            /\ op' = [op EXCEPT ![Daemon] =
                          [call |-> "rearm", s |-> s, pc |-> "compute", arg |-> 0]]
            /\ UNCHANGED mem
  /\ UNCHANGED <<now, type, next, callback, handle, stored, timerVars, ghosts>>

-----------------------------------------------------------------------------
(* Time passes; the device restarts with what is stored.                   *)

\* A second is long: nobody is held up for one between arming a timer and
\* recording it, nor inside edit(), and commands wait that long only behind a
\* callback.
HeldUp ==
  \/ \E a \in Tasks : op[a].pc \in {"publish", "armed", "set"}
  \/ frame = NoFrame /\ commands # <<>>

Tick ==
  /\ now < MaxTime /\ (Preempted \/ ~HeldUp)
  /\ now' = now + 1
  /\ timer' = [t \in Timers |->
                 [timer[t] EXCEPT !.left = IF @ > 0 THEN @ - 1 ELSE 0]]
  /\ UNCHANGED <<memVars, commands, op, cbVars, ghosts>>

Reboot(a) ==
  /\ boots < MaxBoots /\ calls < MaxCalls
  /\ boots' = boots + 1 /\ calls' = calls + 1
  /\ mem' = [s \in Schedules |-> "none"]
  /\ next' = [s \in Schedules |-> 0]
  /\ callback' = [s \in Schedules |-> FALSE]
  /\ handle' = [s \in Schedules |-> 0]
  /\ timer' = [t \in Timers |-> NoTimer] /\ commands' = <<>>
  /\ op' = [b \in Actors |-> IF b = a
              THEN [Idle EXCEPT !.call = "init", !.pc = "load"] ELSE Idle]
  /\ frame' = NoFrame /\ dispatching' = NONE /\ deleted' = FALSE
  /\ off' = [s \in Schedules |-> FALSE]
  /\ fires' = [s \in Schedules |->
                IF off[s] \/ (\E b \in Tasks : op[b].s = s) THEN 0 ELSE fires[s]]
  /\ UNCHANGED <<now, type, stored, lost>>

StartTimer(a) ==
  \/ Compute(a) \/ ArmNew(a) \/ Publish(a) \/ Rebind(a) \/ ChangePeriod(a)
  \/ Stop(a) \/ Clear(a) \/ Armed(a)
Deleting(a) ==
  DeleteStop(a) \/ CancelStop(a) \/ Detach(a) \/ DeleteTimer(a) \/ Erase(a) \/ Free(a)
Loading(a) == Loaded(a) \/ Check(a) \/ \E s \in Schedules : Load(a, s)

\* An actor goes on with what it does.
Continue(a) ==
  StartTimer(a) \/ Deleting(a) \/ Loading(a) \/ EditReset(a) \/ EditSet(a)

\* An actor calls the API.
Call(a) == \E s \in Schedules :
  Create(a, s) \/ Enable(a, s) \/ Disable(a, s) \/ EditGet(a, s) \/ Delete(a, s)

TimerDaemon ==
  \/ \E t \in Timers : Expire(t)
  \/ ProcessCommand \/ CallbackDetached \/ CallbackSlice \/ CallbackRearms
  \/ Trigger \/ TriggerReturns

Next ==
  \/ \E a \in Actors : Call(a) \/ Continue(a)
  \/ TimerDaemon \/ Tick \/ \E a \in Tasks : Reboot(a)

Spec == Init /\ [][Next]_vars

\* The daemon and the tasks are scheduled, and trigger callbacks return.
Fairness == WF_vars(TimerDaemon) /\ \A a \in Actors : WF_vars(Continue(a))
FairSpec == Spec /\ Fairness

-----------------------------------------------------------------------------
(* Properties.                                                             *)

\* No task and no callback touches a schedule, a timer or a timer's private
\* data that has been freed, whoever deletes what from where.
NoUseAfterFree ==
  /\ \A a \in Actors : op[a].s # NONE => mem[op[a].s] = "live"
  /\ frame.s # NONE => mem[frame.s] = "live"
  /\ LET t == frame.t IN
       frame.at = "enter" /\ timer[t].id # NONE =>
         timer[t].priv = "live" /\ mem[timer[t].id] = "live"
  /\ \A i \in 1..Len(commands) : timer[commands[i].t].state # "deleted"

\* An enabled one-shot schedule triggers at most once, however often the device
\* restarts and however a callback, a late expiry and the API interleave, as long
\* as the application makes no other call on it.  (Unless the daemon found the
\* command queue full, which the code logs and leaves at that.)
OneShotFiresOnce == \A s \in Schedules \ lost :
  type[s] \in OneShot /\ ~off[s] /\ (\A a \in Tasks : op[a].s # s) => fires[s] <= 1

\* A schedule that shows a next time, and on which nobody works, has a timer
\* that runs or is about to: an enabled schedule is not silently lost.  (With
\* the same exception.)
ArmedHasTimer == \A s \in Schedules \ lost :
  /\ next[s] > 0 /\ mem[s] = "live" /\ Working(s) = {} /\ frame = NoFrame
  /\ handle[s] # 0
  => LET t == handle[s] IN
       \/ timer[t].state = "active"
       \/ \E i \in 1..Len(commands) : commands[i].t = t /\ commands[i].do = "start"

\* Every API call returns: the daemon never waits for room in the queue that
\* it empties itself, and never for a task that waits for it.
CallReturns == \A a \in Tasks : ~At(a, "idle") ~> At(a, "idle")

=============================================================================
