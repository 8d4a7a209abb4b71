--------------------------- MODULE ScheduleProofs ---------------------------
EXTENDS Schedule, WellFoundedInduction, TLAPS

(* Theorems about Schedule, when no task is held up for a second.  IInv says *)
(* who owns each timer and each handle (Part1), and of each schedule that no *)
(* full queue has lost what its calls, its timer and its store agree on      *)
(* (Good).  A lemma for each step, <Action>Keeps, ends in TypeCorrect,       *)
(* NeverUsedAfterFree, FiresAtMostOnce and NeverSilentlyLost.                *)

\* What the queue holds for a timer.
IsStart(i, t) == i \in 1..Len(commands) /\ commands[i].t = t /\ commands[i].do = "start"
IsStop(i, t) == i \in 1..Len(commands) /\ commands[i].t = t /\ commands[i].do = "stop"
IsDelete(i, t) == i \in 1..Len(commands) /\ commands[i].t = t /\ commands[i].do = "delete"
Places == 1..Len(commands)
Mentions(t) == \E i \in Places : commands[i].t = t
Deletes(t) == \E i \in Places : IsDelete(i, t)
HasStop(t) == \E i \in Places : IsStop(i, t)
LastStart(t) == \E i \in Places : IsStart(i, t) /\ \A j \in Places : IsStop(j, t) => j < i
StopsFirst(t) == \A i \in Places : IsStart(i, t) => \E j \in Places : IsStop(j, t) /\ j < i
StartsApart(t) == \A i, k \in Places : IsStart(i, t) /\ IsStart(k, t) /\ k < i
  => \E j \in Places : IsStop(j, t) /\ k < j /\ j < i
NoneAfter == \A i, j \in Places :
  i < j /\ commands[i].do = "delete" => commands[j].t # commands[i].t
CommandSet == [do : {"start", "stop", "delete"}, t : Timers, period : 0..MaxPeriod]
QueueTyped ==
  /\ commands \in Seq(CommandSet) /\ NoneAfter
  /\ \A i \in Places : commands[i].do = "start" => commands[i].period > 0

\* The timer will run when all commands are processed.
EndsOn(t) == LastStart(t) \/ (timer[t].state = "active" /\ ~HasStop(t))

Kinds == {"none", "enable", "disable", "rearm", "init", "edit", "delete"}
Pcs == {"idle", "compute", "arm", "publish", "change", "stop", "clear", "armed", "load",
        "check", "erase", "free", "reset", "set", "stop_first", "cancel", "detach",
        "delete_timer"}
PcOK(c, p) ==
  \/ c = "none" /\ p = "idle"
  \/ c = "enable" /\ p \in {"compute", "arm", "publish", "change", "stop", "clear", "armed"}
  \/ c = "disable" /\ p \in {"stop", "clear", "armed"}
  \/ c = "rearm" /\ p \in {"compute", "arm", "change", "stop", "clear", "armed"}
  \/ c = "init" /\ p \in {"load", "check", "erase", "free", "compute", "arm", "publish", "stop", "clear", "armed"}
  \/ c = "edit" /\ p \in {"reset", "set"}
  \/ c = "delete" /\ p \in {"stop_first", "cancel", "detach", "delete_timer", "erase", "free"}
Alive == {"dormant", "active"}

OpSet == [call : Kinds, s : Schedules \cup {NONE}, pc : Pcs, arg : Nat]
OpOK ==
  /\ op \in [Actors -> OpSet]
  /\ \A a \in Actors :
       /\ PcOK(op[a].call, op[a].pc)
       /\ op[a].pc = "idle" => op[a] = Idle
       /\ op[a].s = NONE <=> op[a].pc \in {"idle", "load"}
       /\ op[a].call = "rearm" => a = Daemon
       /\ op[a].call = "init" => a # Daemon
       /\ op[a].pc \in {"arm", "change"} => op[a].arg > 0
       /\ op[a].pc = "publish" => op[a].arg \in Timers

\* A timer belongs to the handle of its schedule, or its creator will publish it.
TimerOK == \A t \in Timers : timer[t].id # NONE =>
  /\ mem[timer[t].id] = "live" /\ timer[t].priv = "live" /\ timer[t].state \in Alive
  /\ \/ handle[timer[t].id] = t
     \/ \E a \in Actors : op[a].pc = "publish" /\ op[a].s = timer[t].id /\ op[a].arg = t

\* A handle is a live timer, no other schedule's, which nobody has deleted.
HandleOK == \A s \in Schedules : handle[s] # 0 =>
  /\ mem[s] = "live" /\ timer[handle[s]].priv = "live" /\ timer[handle[s]].state \in Alive
  /\ \/ timer[handle[s]].id = s
     \/ /\ timer[handle[s]].id = NONE
        /\ \E a \in Actors : op[a].s = s /\ op[a].pc = "delete_timer"
  /\ ~Deletes(handle[s])
  /\ \A r \in Schedules : handle[r] = handle[s] => r = s

\* A timer that is not published yet is about to run and unknown to all others.
PublishOK == \A a \in Actors : op[a].pc = "publish" =>
    /\ handle[op[a].s] = 0 /\ timer[op[a].arg].id = op[a].s /\ frame.t # op[a].arg
    /\ a # Daemon => timer[op[a].arg].state = "dormant" \/ timer[op[a].arg].left > 0
    /\ ~HasStop(op[a].arg) /\ ~Deletes(op[a].arg) /\ EndsOn(op[a].arg)

\* The memory a call works on, and what it may rely on at each of its places.
WorkOK ==
  \A a \in Actors : op[a].s # NONE =>
       /\ mem[op[a].s] = "live"
       /\ op[a].pc \in {"stop_first", "cancel", "detach", "delete_timer", "change"} => handle[op[a].s] # 0
       /\ op[a].pc \in {"stop_first", "cancel", "detach"} => timer[handle[op[a].s]].id = op[a].s
       /\ op[a].pc = "delete_timer" => timer[handle[op[a].s]].id = NONE
       /\ op[a].pc \in {"erase", "free", "check"} => handle[op[a].s] = 0
       /\ op[a].call = "init" /\ op[a].pc \in {"check", "compute", "arm"} => handle[op[a].s] = 0

\* Two calls on a schedule: one is the daemon's, in the callback of its timer.
ShareOK == \A a, b \in Actors : a # b /\ op[a].s # NONE /\ op[a].s = op[b].s =>
       /\ a = Daemon \/ b = Daemon
       /\ frame.s = op[a].s /\ handle[frame.s] = frame.t /\ timer[frame.t].id = frame.s
       /\ op[Daemon].call # "delete"

\* The callback in progress: the schedule it has turned to lives, or it knows better.
FrameSet == [t : 0..MaxTimers, s : Schedules \cup {NONE}, at : {"idle", "enter", "trigger", "rearm"}]
FrameOK ==
  /\ frame \in FrameSet
  /\ frame.at = "idle" => frame = NoFrame
  /\ frame.at \in {"idle", "enter"} =>
       frame.s = NONE /\ dispatching = NONE /\ op[Daemon] = Idle
  /\ frame.at # "idle" => frame.t \in Timers /\ timer[frame.t].state # "none"
  /\ frame.at \in {"trigger", "rearm"} =>
       /\ frame.s \in Schedules /\ mem[frame.s] = "live"
       /\ \/ handle[frame.s] = frame.t /\ timer[frame.t].id = frame.s
          \/ /\ op[Daemon].call = "delete" /\ op[Daemon].s = frame.s
             /\ op[Daemon].pc \in {"delete_timer", "erase", "free"}
          \/ deleted
  /\ frame.at = "trigger" => dispatching = frame.s /\ op[Daemon].call # "rearm"
  /\ frame.at = "rearm" =>
       dispatching = NONE /\ op[Daemon].call = "rearm" /\ op[Daemon].s = frame.s
  /\ deleted => frame.at = "trigger" /\ handle[frame.s] = 0 /\ \A a \in Actors : op[a].s # frame.s

\* Commands are for timers that exist; a deleted timer has no owner.
QueueOK == \A t \in Timers :
  /\ Mentions(t) => timer[t].state \in Alive
  /\ Deletes(t) => timer[t].id = NONE /\ \A s \in Schedules : handle[s] # t

Part1 == TypeOK /\ OpOK /\ QueueTyped /\ TimerOK /\ HandleOK /\ PublishOK /\ WorkOK /\ ShareOK /\ FrameOK /\ QueueOK

Kept == Schedules \ lost
OnFrame(s) == frame.at # "idle" /\ timer[frame.t].id = s

\* A task that restores the schedules is alone but for a re-arm.
InitAlone == \A a \in Tasks : op[a].call = "init" =>
  /\ \A s \in Schedules : ~off[s]
  /\ \A b \in Actors : b # a => op[b].call \in {"none", "rearm"}

\* The callback runs for the timer of the schedule it has turned to, unless that
\* has been taken from it meanwhile.
FrameOwn == frame.at \in {"trigger", "rearm"} => timer[frame.t].id \in {frame.s, NONE}

\* Of one schedule: enable() is for a schedule that is off no more.
EnableOn(s) == \A a \in Actors : op[a].s = s /\ op[a].call = "enable" => ~off[s]

\* edit() sets the time that it has read.
EditKept(s) == \A a \in Actors : op[a].s = s /\ op[a].pc = "set" =>
  IF type[s] = "relative" THEN next[s] = 0 ELSE op[a].arg = next[s]

\* Whose callback runs is on, and nobody else works on it but to delete it.
FrameAlone(s) == OnFrame(s) =>
  /\ ~off[s]
  /\ \A a \in Actors : op[a].s = s => op[a].call \in {"delete", "rearm"}

\* The timer of a schedule that is off, or that is being armed or stopped, will
\* not run.  One just armed has not expired yet.
OffOK(s) == handle[s] # 0 =>
  /\ off[s] => ~EndsOn(handle[s])
  /\ \A a \in Actors : op[a].s = s =>
       /\ op[a].call = "enable" /\ op[a].pc \in {"compute", "arm", "change", "stop", "clear"}
            => ~EndsOn(handle[s])
       /\ op[a].call = "init" /\ op[a].pc # "armed" => ~EndsOn(handle[s])
       /\ op[a].pc = "clear" => ~EndsOn(handle[s])
       /\ op[a].call = "disable" /\ op[a].pc = "armed" => ~EndsOn(handle[s])
       /\ op[a].call \in {"enable", "init"} /\ op[a].pc = "armed" /\ a # Daemon =>
            \/ timer[handle[s]].state = "dormant" \/ timer[handle[s]].left > 0
            \/ HasStop(handle[s])

\* Nor will the timer whose callback runs, until that has armed it again.
FrameOff(s) == OnFrame(s) /\ ~(frame.at = "rearm" /\ op[Daemon].pc = "armed")
   => ~EndsOn(frame.t)

\* A time is shown, or on its way back, and no arm is under way: the timer will
\* run, unless its callback does.
HasNext(s) == next[s] > 0 \/ \E a \in Actors : op[a].s = s /\ op[a].pc = "set" /\ op[a].arg > 0
Settled(s) == HasNext(s) /\ \A a \in Actors : op[a].s = s => op[a].pc \in {"armed", "reset", "set"}
SettledOn(s) ==
  handle[s] # 0 /\ Settled(s) /\ (OnFrame(s) => frame.at = "rearm" /\ op[Daemon].pc = "armed")
    => EndsOn(handle[s])

\* What will run or is being armed has a time.
TimeShown(s) == handle[s] # 0 /\ EndsOn(handle[s]) => HasNext(s)
TimeCalled(s) ==
  OnFrame(s) /\ ~(frame.at = "rearm" /\ op[Daemon].pc \in {"stop", "clear", "armed"}) => next[s] > 0
TimeArmed(s) ==
  \A b \in Actors : op[b].s = s /\ op[b].pc \in {"arm", "change", "publish"} => next[s] > 0
HasTime(s) == TimeShown(s) /\ TimeCalled(s) /\ TimeArmed(s)

\* Starts and stops of a timer alternate: it expires once for each start.
Alternate(s) == \A t \in Timers : timer[t].id = s =>
  StartsApart(t) /\ (timer[t].state = "active" => StopsFirst(t))

\* The time of a one-shot that is not RELATIVE is a multiple of its delay.
OnceTime(s) == type[s] = "once" =>
  /\ next[s] > 0 => next[s] % Delay[s] = 0 /\ next[s] <= now + Delay[s]
  /\ stored[s] > 0 => stored[s] % Delay[s] = 0 /\ stored[s] <= now + Delay[s]

\* A schedule has no callback while it is restored.
NoCallback(s) ==
  /\ mem[s] = "none" => ~callback[s]
  /\ \A a \in Actors : op[a].s = s /\ op[a].call \in {"init", "edit"} => ~callback[s]

\* A one-shot is stored with its time.
StoredOK(s) ==
  /\ type[s] \in OneShot /\ ~off[s] /\ callback[s] /\ next[s] > 0
  /\ (\A a \in Actors : op[a].s = s => op[a].call # "enable")
  => stored[s] \in {NoEntry, next[s]}

\* A one-shot that has fired is over, in memory and in the store.
OverDaemon(s) == op[Daemon].s = s => op[Daemon].pc \notin {"arm", "change"}
OverStored(s) == stored[s] = NoEntry \/ stored[s] \in 1..now
OverLive(s) == mem[s] = "live" => callback[s] \/ \E b \in Tasks : op[b].s = s /\ op[b].call = "init"
OverCalls(s) == \A b \in Actors : op[b].s = s => op[b].call \in {"delete", "rearm", "init"}
OverInit(s) == \A b \in Actors :
  op[b].s = s /\ op[b].call = "init" => op[b].pc \in {"check", "erase", "free"}
OverCheck(s) == \A b \in Actors : op[b].s = s /\ op[b].pc = "check" => next[s] > 0
Over(s, h) ==
  /\ fires[s] = 1 /\ next[s] <= now
  /\ h # 0 => ~EndsOn(h)
  /\ OnFrame(s) => frame.at # "enter"
  /\ OverDaemon(s) /\ OverStored(s) /\ OverLive(s)
  /\ \A b \in Actors : op[b].s = s =>
       /\ op[b].call \in {"delete", "rearm", "init"}
       /\ op[b].call = "init" => op[b].pc \in {"check", "erase", "free"}
       /\ op[b].pc = "check" => next[s] > 0
FiredOK(s) == type[s] \in OneShot /\ ~off[s] /\ fires[s] > 0 => Over(s, handle[s])

Good(s) ==
  /\ EnableOn(s) /\ EditKept(s) /\ FrameAlone(s) /\ OffOK(s) /\ FrameOff(s) /\ SettledOn(s)
  /\ HasTime(s) /\ Alternate(s) /\ OnceTime(s) /\ NoCallback(s) /\ StoredOK(s) /\ FiredOK(s)

IInv == Part1 /\ InitAlone /\ FrameOwn /\ \A s \in Kept : Good(s)


-----------------------------------------------------------------------------
(* The queue of timer commands, seen from one timer.                       *)

\* Seen from a timer, the queue stays as it is.
SameFor(t) ==
  /\ (Mentions(t)' <=> Mentions(t)) /\ (Deletes(t)' <=> Deletes(t))
  /\ (HasStop(t)' <=> HasStop(t)) /\ (LastStart(t)' <=> LastStart(t))
  /\ (StopsFirst(t)' <=> StopsFirst(t)) /\ (StartsApart(t)' <=> StartsApart(t))

LEMMA QueueSame == commands' = commands => (QueueTyped => QueueTyped') /\ \A t : SameFor(t)
  BY Zenon DEF SameFor, Mentions, Deletes, HasStop, LastStart, StopsFirst, StartsApart, Places,
     IsStart, IsStop, IsDelete, QueueTyped, CommandSet, NoneAfter

\* What appending a command does to the places of the queue.
LEMMA Appended ==
  ASSUME QueueTyped, NEW c \in CommandSet, commands' = Append(commands, c)
  PROVE  /\ Len(commands) \in Nat /\ Len(commands') = Len(commands) + 1
         /\ commands' \in Seq(CommandSet)
         /\ \A i \in Places : commands'[i] = commands[i] /\ i \in 1..Len(commands')
         /\ commands'[Len(commands) + 1] = c
         /\ \A i \in 1..Len(commands') : i \in Places \/ i = Len(commands) + 1
  BY SMT DEF QueueTyped, Places

LEMMA PostedElse ==
  ASSUME QueueTyped, NEW c \in CommandSet, commands' = Append(commands, c),
         NEW t, t # c.t
  PROVE  SameFor(t)
<1>1. \A i : (IsStart(i, t)' <=> IsStart(i, t)) /\ (IsStop(i, t)' <=> IsStop(i, t))
             /\ (IsDelete(i, t)' <=> IsDelete(i, t))
  BY Appended, SMT DEF Places, IsStart, IsStop, IsDelete
<1>2. \A i \in Places : i \in Places'
  BY Appended, SMT DEF Places
<1>3. \A i : (IsStart(i, t) => i \in Places) /\ (IsStop(i, t) => i \in Places)
             /\ (IsDelete(i, t) => i \in Places)
  BY DEF Places, IsStart, IsStop, IsDelete
<1>4. Mentions(t)' <=> Mentions(t)
  BY Appended, SMT DEF Mentions, Places
<1>5. Deletes(t)' <=> Deletes(t)
  BY <1>1, <1>2, <1>3, Zenon DEF Deletes
<1>6. HasStop(t)' <=> HasStop(t)
  BY <1>1, <1>2, <1>3, Zenon DEF HasStop
<1>7. LastStart(t)' <=> LastStart(t)
  BY <1>1, <1>2, <1>3, Zenon DEF LastStart
<1>8. StopsFirst(t)' <=> StopsFirst(t)
  BY <1>1, <1>2, <1>3, Zenon DEF StopsFirst
<1>9. StartsApart(t)' <=> StartsApart(t)
  BY <1>1, <1>2, <1>3, Zenon DEF StartsApart
<1> QED
  BY <1>4, <1>5, <1>6, <1>7, <1>8, <1>9, Zenon DEF SameFor

\* A command may follow any but a deletion of its timer.
LEMMA PostedTyped ==
  ASSUME QueueTyped, NEW c \in CommandSet, commands' = Append(commands, c),
         c.do = "start" => c.period > 0, ~Deletes(c.t)
  PROVE  QueueTyped'
<1>1. CommandSet' = CommandSet
  BY DEF CommandSet, Timers
<1>2. \A i \in Places' : commands'[i].do = "start" => commands'[i].period > 0
  BY Appended, SMT DEF QueueTyped, Places
<1>3. \A i \in Places : commands[i].do = "delete" => commands[i].t # c.t
  BY DEF Deletes, IsDelete, Places
<1>4. NoneAfter'
  BY <1>3, Appended, SMT DEF QueueTyped, NoneAfter, Places
<1> QED
  BY <1>1, <1>2, <1>4, Appended, Zenon DEF QueueTyped

\* A start makes the timer run, a stop makes it stop, a deletion does neither.
LEMMA PostedStart ==
  ASSUME QueueTyped, NEW c \in CommandSet, commands' = Append(commands, c), c.do = "start",
         NEW t, t = c.t
  PROVE  /\ Mentions(t)' /\ LastStart(t)'
         /\ (Deletes(t)' <=> Deletes(t)) /\ (HasStop(t)' <=> HasStop(t))
         /\ StartsApart(t) /\ ~LastStart(t) => StartsApart(t)'
         /\ StopsFirst(t) /\ HasStop(t) => StopsFirst(t)'
<1> DEFINE n == Len(commands) + 1
<1>1. \A i : (IsStart(i, t)' <=> IsStart(i, t) \/ i = n) /\ (IsStop(i, t)' <=> IsStop(i, t))
             /\ (IsDelete(i, t)' <=> IsDelete(i, t))
  BY Appended, SMT DEF Places, IsStart, IsStop, IsDelete
<1>2. /\ \A i \in Places : i \in Places' /\ i \in Nat /\ i < n
      /\ \A i \in Places' : i \in Places \/ i = n
      /\ n \in Places' /\ n \notin Places /\ n \in Nat
  BY Appended, SMT DEF Places
<1>3. \A i : (IsStart(i, t) => i \in Places) /\ (IsStop(i, t) => i \in Places)
             /\ (IsDelete(i, t) => i \in Places)
  BY DEF Places, IsStart, IsStop, IsDelete
<1>4. Mentions(t)'
  BY Appended, <1>2, Zenon DEF Mentions, n
<1>5. Deletes(t)' <=> Deletes(t)
  BY <1>1, <1>2, <1>3, Zenon DEF Deletes
<1>6. HasStop(t)' <=> HasStop(t)
  BY <1>1, <1>2, <1>3, Zenon DEF HasStop
<1>7. LastStart(t)'
  BY <1>1, <1>2, <1>3, Zenon DEF LastStart
<1>8. StopsFirst(t) /\ HasStop(t) => StopsFirst(t)'
  BY <1>1, <1>2, <1>3, Zenon DEF StopsFirst, HasStop
<1>9. ASSUME StartsApart(t), ~LastStart(t) PROVE StartsApart(t)'
  <2> SUFFICES ASSUME NEW i \in Places', NEW k \in Places', IsStart(i, t)', IsStart(k, t)', k < i
               PROVE  \E j \in Places' : IsStop(j, t)' /\ k < j /\ j < i
    BY DEF StartsApart
  <2>1. k # n /\ k \in Places /\ IsStart(k, t)
    <3>1. i \in Nat /\ k \in Nat /\ i <= n
      BY <1>2, SMT
    <3> QED BY <3>1, <1>1, <1>2, SMT
  <2>2. CASE i # n
    BY <2>1, <2>2, <1>1, <1>2, <1>9, Zenon DEF StartsApart
  <2>3. CASE i = n
    <3>1. PICK j \in Places : IsStop(j, t) /\ ~(j < k)
      BY <2>1, <1>9, Zenon DEF LastStart
    <3>2. j # k
      BY <3>1, <2>1 DEF IsStart, IsStop
    <3>3. k < j /\ j < i
      BY <3>1, <3>2, <2>1, <2>3, <1>2, SMT
    <3> QED BY <3>1, <3>3, <1>1, <1>2, Zenon
  <2> QED BY <2>2, <2>3
<1> QED
  BY <1>4, <1>5, <1>6, <1>7, <1>8, <1>9, Zenon

LEMMA PostedStop ==
  ASSUME QueueTyped, NEW c \in CommandSet, commands' = Append(commands, c), c.do = "stop",
         NEW t, t = c.t
  PROVE  /\ Mentions(t)' /\ ~LastStart(t)' /\ HasStop(t)'
         /\ (Deletes(t)' <=> Deletes(t))
         /\ (StartsApart(t) => StartsApart(t)') /\ (StopsFirst(t) => StopsFirst(t)')
<1> DEFINE n == Len(commands) + 1
<1>1. \A i : (IsStart(i, t)' <=> IsStart(i, t)) /\ (IsStop(i, t)' <=> IsStop(i, t) \/ i = n)
             /\ (IsDelete(i, t)' <=> IsDelete(i, t))
  BY Appended, SMT DEF Places, IsStart, IsStop, IsDelete
<1>2. /\ \A i \in Places : i \in Places' /\ i \in Nat /\ i < n /\ ~(n < i)
      /\ \A i \in Places' : i \in Places \/ i = n
      /\ n \in Places' /\ n \notin Places /\ n \in Nat
  BY Appended, SMT DEF Places
<1>3. \A i : (IsStart(i, t) => i \in Places) /\ (IsStop(i, t) => i \in Places)
             /\ (IsDelete(i, t) => i \in Places)
  BY DEF Places, IsStart, IsStop, IsDelete
<1>4. Mentions(t)'
  BY Appended, <1>2, Zenon DEF Mentions, n
<1>5. Deletes(t)' <=> Deletes(t)
  BY <1>1, <1>2, <1>3, Zenon DEF Deletes
<1>6. HasStop(t)'
  BY <1>1, <1>2, <1>3, Zenon DEF HasStop
<1>7. ~LastStart(t)'
  BY <1>1, <1>2, <1>3, Zenon DEF LastStart
<1>8. StopsFirst(t) => StopsFirst(t)'
  BY <1>1, <1>2, <1>3, Zenon DEF StopsFirst
<1>9. StartsApart(t) => StartsApart(t)'
  BY <1>1, <1>2, <1>3, Zenon DEF StartsApart
<1> QED
  BY <1>4, <1>5, <1>6, <1>7, <1>8, <1>9, Zenon

LEMMA PostedDelete ==
  ASSUME QueueTyped, NEW c \in CommandSet, commands' = Append(commands, c), c.do = "delete",
         NEW t, t = c.t
  PROVE  /\ Mentions(t)' /\ Deletes(t)'
         /\ (LastStart(t)' <=> LastStart(t)) /\ (HasStop(t)' <=> HasStop(t))
         /\ (StartsApart(t)' <=> StartsApart(t)) /\ (StopsFirst(t)' <=> StopsFirst(t))
<1> DEFINE n == Len(commands) + 1
<1>1. \A i : (IsStart(i, t)' <=> IsStart(i, t)) /\ (IsStop(i, t)' <=> IsStop(i, t))
             /\ (IsDelete(i, t)' <=> IsDelete(i, t) \/ i = n)
  BY Appended, SMT DEF Places, IsStart, IsStop, IsDelete
<1>2. /\ \A i \in Places : i \in Places'
      /\ n \in Places'
  BY Appended, SMT DEF Places
<1>3. \A i : (IsStart(i, t) => i \in Places) /\ (IsStop(i, t) => i \in Places)
             /\ (IsDelete(i, t) => i \in Places)
  BY DEF Places, IsStart, IsStop, IsDelete
<1>4. Mentions(t)'
  BY Appended, <1>2, Zenon DEF Mentions, n
<1>5. Deletes(t)'
  BY <1>1, <1>2, <1>3, Zenon DEF Deletes
<1>6. HasStop(t)' <=> HasStop(t)
  BY <1>1, <1>2, <1>3, Zenon DEF HasStop
<1>7. LastStart(t)' <=> LastStart(t)
  BY <1>1, <1>2, <1>3, Zenon DEF LastStart
<1>8. StopsFirst(t)' <=> StopsFirst(t)
  BY <1>1, <1>2, <1>3, Zenon DEF StopsFirst
<1>9. StartsApart(t)' <=> StartsApart(t)
  BY <1>1, <1>2, <1>3, Zenon DEF StartsApart
<1> QED
  BY <1>4, <1>5, <1>6, <1>7, <1>8, <1>9, Zenon


\* What taking the first command does to the places.
LEMMA Taken ==
  ASSUME QueueTyped, commands # <<>>, commands' = Tail(commands)
  PROVE  /\ Len(commands) \in Nat /\ 1 \in Places /\ Head(commands) = commands[1]
         /\ Head(commands) \in CommandSet
         /\ Len(commands') = Len(commands) - 1
         /\ commands' \in Seq(CommandSet)
         /\ \A i \in 1..Len(commands') : commands'[i] = commands[i + 1] /\ i + 1 \in Places /\ i \in Nat
         /\ \A i \in Places : i = 1 \/ i - 1 \in 1..Len(commands')
         /\ \A i \in Places : i \in Nat /\ i >= 1
  BY SMT DEF QueueTyped, Places

LEMMA TakenTyped ==
  ASSUME QueueTyped, commands # <<>>, commands' = Tail(commands)
  PROVE  QueueTyped'
<1>1. CommandSet' = CommandSet
  BY DEF CommandSet, Timers
<1>2. \A i \in Places' : commands'[i].do = "start" => commands'[i].period > 0
  BY Taken, SMT DEF QueueTyped, Places
<1>4. NoneAfter'
  BY Taken, SMT DEF QueueTyped, NoneAfter, Places
<1> QED
  BY <1>1, <1>2, <1>4, Taken, Zenon DEF QueueTyped

LEMMA TakenOrder ==
  ASSUME QueueTyped, commands # <<>>, commands' = Tail(commands)
  PROVE  /\ \A i \in Places' : i + 1 \in Places /\ i + 1 # 1 /\ 1 < i + 1 /\ (i + 1) - 1 = i
         /\ \A i, j \in Places' : i < j <=> i + 1 < j + 1
         /\ \A i \in Places : i # 1 => i - 1 \in Places' /\ (i - 1) + 1 = i
         /\ \A i, j \in Places : i # 1 /\ j # 1 => (i < j <=> i - 1 < j - 1)
         /\ \A i \in Places', j \in Places : j # 1 => (i < j - 1 <=> i + 1 < j) /\ (j - 1 < i <=> j < i + 1)
         /\ \A i \in Places : i \in Nat /\ ~(i < 1) /\ (i # 1 => 1 < i)
         /\ 1 \in Places
<1>1. Len(commands) \in Nat /\ Len(commands') = Len(commands) - 1 /\ 1 <= Len(commands)
  BY Taken, SMT DEF Places
<1> DEFINE n == Len(commands)
           m == Len(commands')
<1>2. Places = 1..n /\ Places' = 1..m
  BY DEF Places
<1> HIDE DEF n, m
<1>3. n \in Nat /\ m = n - 1 /\ 1 <= n
  BY <1>1 DEF n, m
<1> QED BY <1>2, <1>3, SMT

\* The places of the commands of t other than the first move up by one.
LEMMA TakenPlaces ==
  ASSUME QueueTyped, commands # <<>>, commands' = Tail(commands), NEW t
  PROVE  /\ \A i \in Places' : /\ i + 1 \in Places
                               /\ IsStart(i, t)' <=> IsStart(i + 1, t)
                               /\ IsStop(i, t)' <=> IsStop(i + 1, t)
                               /\ IsDelete(i, t)' <=> IsDelete(i + 1, t)
                               /\ commands'[i] = commands[i + 1]
         /\ \A i \in Places : i # 1 =>
                               /\ i - 1 \in Places'
                               /\ IsStart(i - 1, t)' <=> IsStart(i, t)
                               /\ IsStop(i - 1, t)' <=> IsStop(i, t)
                               /\ IsDelete(i - 1, t)' <=> IsDelete(i, t)
                               /\ commands'[i - 1] = commands[i]
<1>1. \A i \in Places' : commands'[i] = commands[i + 1] /\ i + 1 \in Places
  BY Taken, SMT DEF Places
<1>4. \A i \in Places' : /\ IsStart(i, t)' <=> IsStart(i + 1, t)
                         /\ IsStop(i, t)' <=> IsStop(i + 1, t)
                         /\ IsDelete(i, t)' <=> IsDelete(i + 1, t)
  BY <1>1, Zenon DEF Places, IsStart, IsStop, IsDelete
<1>5. \A i \in Places : i # 1 => i - 1 \in Places' /\ (i - 1) + 1 = i
  BY TakenOrder, Zenon
<1>6. \A i \in Places : i # 1 =>
         /\ i - 1 \in Places'
         /\ IsStart(i - 1, t)' <=> IsStart(i, t)
         /\ IsStop(i - 1, t)' <=> IsStop(i, t)
         /\ IsDelete(i - 1, t)' <=> IsDelete(i, t)
         /\ commands'[i - 1] = commands[i]
  <2> SUFFICES ASSUME NEW i \in Places, i # 1
               PROVE  /\ i - 1 \in Places'
                      /\ IsStart(i - 1, t)' <=> IsStart(i, t)
                      /\ IsStop(i - 1, t)' <=> IsStop(i, t)
                      /\ IsDelete(i - 1, t)' <=> IsDelete(i, t)
                      /\ commands'[i - 1] = commands[i]
    OBVIOUS
  <2> DEFINE k == i - 1
  <2>1. k \in Places' /\ k + 1 = i
    BY <1>5, Zenon
  <2> HIDE DEF k
  <2>2. /\ k \in Places'
        /\ IsStart(k, t)' <=> IsStart(i, t)
        /\ IsStop(k, t)' <=> IsStop(i, t)
        /\ IsDelete(k, t)' <=> IsDelete(i, t)
        /\ commands'[k] = commands[i]
    BY <2>1, <1>1, <1>4, Zenon
  <2> QED BY <2>2 DEF k
<1> QED BY <1>1, <1>4, <1>6, Zenon


\* What is left of the queue, in terms of what it was.
LEMMA TakenViews ==
  ASSUME QueueTyped, commands # <<>>, commands' = Tail(commands), NEW t
  PROVE  /\ LastStart(t)' <=> \E i \in Places : i # 1 /\ IsStart(i, t) /\ \A j \in Places : IsStop(j, t) => j < i
         /\ StopsFirst(t)' <=> \A i \in Places : i # 1 /\ IsStart(i, t) =>
                                  \E j \in Places : j # 1 /\ IsStop(j, t) /\ j < i
         /\ StartsApart(t)' <=> \A i, k \in Places : i # 1 /\ k # 1 /\ IsStart(i, t) /\ IsStart(k, t) /\ k < i =>
                                  \E j \in Places : IsStop(j, t) /\ k < j /\ j < i
<1>1. ASSUME LastStart(t)'
      PROVE  \E i \in Places : i # 1 /\ IsStart(i, t) /\ \A j \in Places : IsStop(j, t) => j < i
  <2>1. PICK i \in Places' : IsStart(i, t)' /\ \A j \in Places' : IsStop(j, t)' => j < i
    BY <1>1, Zenon DEF LastStart
  <2>2. i + 1 \in Places /\ i + 1 # 1 /\ IsStart(i + 1, t) /\ 1 < i + 1
    BY <2>1, TakenPlaces, TakenOrder, Zenon
  <2>3. ASSUME NEW j \in Places, IsStop(j, t), j # 1 PROVE j < i + 1
    <3>1. j - 1 \in Places' /\ IsStop(j - 1, t)'
      BY <2>3, TakenPlaces, Zenon
    <3>2. j - 1 < i
      BY <3>1, <2>1, Zenon
    <3> QED BY <3>2, <2>3, TakenOrder, Zenon
  <2> QED BY <2>2, <2>3, Zenon
<1>2. ASSUME NEW i \in Places, i # 1, IsStart(i, t), \A j \in Places : IsStop(j, t) => j < i
      PROVE  LastStart(t)'
  <2>1. i - 1 \in Places' /\ IsStart(i - 1, t)'
    BY <1>2, TakenPlaces, Zenon
  <2>2. ASSUME NEW j \in Places', IsStop(j, t)' PROVE j < i - 1
    <3>1. j + 1 \in Places /\ IsStop(j + 1, t)
      BY <2>2, TakenPlaces, Zenon
    <3>2. j + 1 < i
      BY <3>1, <1>2, Zenon
    <3> QED BY <3>2, <1>2, TakenOrder, Zenon
  <2> QED BY <2>1, <2>2, Zenon DEF LastStart
<1>3. ASSUME StopsFirst(t)', NEW i \in Places, i # 1, IsStart(i, t)
      PROVE  \E j \in Places : j # 1 /\ IsStop(j, t) /\ j < i
  <2>1. i - 1 \in Places' /\ IsStart(i - 1, t)'
    BY <1>3, TakenPlaces, Zenon
  <2>2. PICK j \in Places' : IsStop(j, t)' /\ j < i - 1
    BY <2>1, <1>3, Zenon DEF StopsFirst
  <2>3. j + 1 \in Places /\ j + 1 # 1 /\ IsStop(j + 1, t)
    BY <2>2, TakenPlaces, TakenOrder, Zenon
  <2>4. j + 1 < i
    BY <2>2, <1>3, TakenOrder, Zenon
  <2> QED BY <2>3, <2>4, Zenon
<1>4. ASSUME \A i \in Places : i # 1 /\ IsStart(i, t) =>
               \E j \in Places : j # 1 /\ IsStop(j, t) /\ j < i
      PROVE  StopsFirst(t)'
  <2> SUFFICES ASSUME NEW i \in Places', IsStart(i, t)'
               PROVE  \E j \in Places' : IsStop(j, t)' /\ j < i
    BY Zenon DEF StopsFirst
  <2>1. i + 1 \in Places /\ i + 1 # 1 /\ IsStart(i + 1, t)
    BY TakenPlaces, TakenOrder, Zenon
  <2>2. PICK j \in Places : j # 1 /\ IsStop(j, t) /\ j < i + 1
    BY <2>1, <1>4, Zenon
  <2>3. j - 1 \in Places' /\ IsStop(j - 1, t)'
    BY <2>2, TakenPlaces, Zenon
  <2>4. j - 1 < i
    BY <2>2, TakenOrder, Zenon
  <2> QED BY <2>3, <2>4, Zenon
<1>5. ASSUME StartsApart(t)', NEW i \in Places, NEW k \in Places,
             i # 1, k # 1, IsStart(i, t), IsStart(k, t), k < i
      PROVE  \E j \in Places : IsStop(j, t) /\ k < j /\ j < i
  <2>1. /\ i - 1 \in Places' /\ IsStart(i - 1, t)' /\ k - 1 \in Places' /\ IsStart(k - 1, t)'
    BY <1>5, TakenPlaces, Zenon
  <2>2. k - 1 < i - 1
    BY <1>5, TakenOrder, Zenon
  <2>3. PICK j \in Places' : IsStop(j, t)' /\ k - 1 < j /\ j < i - 1
    BY <2>1, <2>2, <1>5, Zenon DEF StartsApart
  <2>4. j + 1 \in Places /\ IsStop(j + 1, t)
    BY <2>3, TakenPlaces, Zenon
  <2>5. k < j + 1 /\ j + 1 < i
    BY <2>3, <1>5, TakenOrder, Zenon
  <2> QED BY <2>4, <2>5, Zenon
<1>6. ASSUME \A i, k \in Places : i # 1 /\ k # 1 /\ IsStart(i, t) /\ IsStart(k, t) /\ k < i =>
               \E j \in Places : IsStop(j, t) /\ k < j /\ j < i
      PROVE  StartsApart(t)'
  <2> SUFFICES ASSUME NEW i \in Places', NEW k \in Places', IsStart(i, t)', IsStart(k, t)', k < i
               PROVE  \E j \in Places' : IsStop(j, t)' /\ k < j /\ j < i
    BY Zenon DEF StartsApart
  <2>1. /\ i + 1 \in Places /\ i + 1 # 1 /\ IsStart(i + 1, t)
        /\ k + 1 \in Places /\ k + 1 # 1 /\ IsStart(k + 1, t)
    BY TakenPlaces, TakenOrder, Zenon
  <2>2. k + 1 < i + 1
    BY TakenOrder, Zenon
  <2>3. PICK j \in Places : IsStop(j, t) /\ k + 1 < j /\ j < i + 1
    BY <2>1, <2>2, <1>6, Zenon
  <2>4. j # 1
    BY <2>1, <2>3, TakenOrder, SMT
  <2>5. j - 1 \in Places' /\ IsStop(j - 1, t)'
    BY <2>3, <2>4, TakenPlaces, Zenon
  <2>6. k < j - 1 /\ j - 1 < i
    BY <2>3, <2>4, TakenOrder, Zenon
  <2> QED BY <2>5, <2>6, Zenon
<1> QED
  BY <1>1, <1>2, <1>3, <1>4, <1>5, <1>6, Zenon


LEMMA TakenElse ==
  ASSUME QueueTyped, commands # <<>>, commands' = Tail(commands),
         NEW t, t # Head(commands).t
  PROVE  SameFor(t)
<1>1. ~IsStart(1, t) /\ ~IsStop(1, t) /\ ~IsDelete(1, t) /\ commands[1].t # t
  BY Taken, Zenon DEF IsStart, IsStop, IsDelete
<1>d. /\ LastStart(t) <=> \E i \in Places : IsStart(i, t) /\ \A j \in Places : IsStop(j, t) => j < i
      /\ StopsFirst(t) <=> \A i \in Places : IsStart(i, t) => \E j \in Places : IsStop(j, t) /\ j < i
      /\ StartsApart(t) <=> \A i, k \in Places : IsStart(i, t) /\ IsStart(k, t) /\ k < i =>
                              \E j \in Places : IsStop(j, t) /\ k < j /\ j < i
  BY Zenon DEF LastStart, StopsFirst, StartsApart
<1>v. /\ LastStart(t)' <=> \E i \in Places : i # 1 /\ IsStart(i, t) /\ \A j \in Places : IsStop(j, t) => j < i
      /\ StopsFirst(t)' <=> \A i \in Places : i # 1 /\ IsStart(i, t) =>
                               \E j \in Places : j # 1 /\ IsStop(j, t) /\ j < i
      /\ StartsApart(t)' <=> \A i, k \in Places : i # 1 /\ k # 1 /\ IsStart(i, t) /\ IsStart(k, t) /\ k < i =>
                               \E j \in Places : IsStop(j, t) /\ k < j /\ j < i
  BY TakenViews, Zenon
<1>o. \A i \in Places : ~(i < 1) /\ (i # 1 => 1 < i)
  BY TakenOrder, Zenon
<1>2. \A i : (IsStart(i, t) => i \in Places) /\ (IsStop(i, t) => i \in Places)
             /\ (IsDelete(i, t) => i \in Places)
  BY DEF Places, IsStart, IsStop, IsDelete
<1>5. Mentions(t)' <=> Mentions(t)
  <2>1. \A i \in Places' : i + 1 \in Places /\ commands'[i].t = commands[i + 1].t
    BY TakenPlaces, Zenon
  <2>2. \A i \in Places : i # 1 => i - 1 \in Places' /\ commands'[i - 1].t = commands[i].t
    BY TakenPlaces, Zenon
  <2> QED BY <1>1, <2>1, <2>2, Zenon DEF Mentions
<1>6. Deletes(t)' <=> Deletes(t)
  BY <1>1, <1>2, TakenPlaces, TakenOrder, Zenon DEF Deletes
<1>7. HasStop(t)' <=> HasStop(t)
  BY <1>1, <1>2, TakenPlaces, TakenOrder, Zenon DEF HasStop
<1>8. LastStart(t)' <=> LastStart(t)
  BY <1>1, <1>2, <1>d, <1>v, <1>o, Zenon
<1>9. StopsFirst(t)' <=> StopsFirst(t)
  BY <1>1, <1>2, <1>d, <1>v, <1>o, Zenon
<1>10. StartsApart(t)' <=> StartsApart(t)
  <2>1. ASSUME StartsApart(t) PROVE StartsApart(t)'
    BY <2>1, <1>1, <1>2, <1>d, <1>v, <1>o, Zenon
  <2>2. ASSUME StartsApart(t)' PROVE StartsApart(t)
    BY <2>2, <1>1, <1>2, <1>d, <1>v, <1>o, Zenon
  <2> QED BY <2>1, <2>2
<1> QED
  BY <1>5, <1>6, <1>7, <1>8, <1>9, <1>10, Zenon DEF SameFor

LEMMA TakenStart ==
  ASSUME QueueTyped, commands # <<>>, commands' = Tail(commands), Head(commands).do = "start",
         NEW t, t = Head(commands).t
  PROVE  /\ Mentions(t) /\ (Deletes(t)' <=> Deletes(t)) /\ (HasStop(t)' <=> HasStop(t))
         /\ LastStart(t) <=> LastStart(t)' \/ ~HasStop(t)
         /\ StartsApart(t) => StartsApart(t)' /\ StopsFirst(t)'
         /\ LastStart(t)' /\ StopsFirst(t)' => HasStop(t)
<1>1. IsStart(1, t) /\ ~IsStop(1, t) /\ ~IsDelete(1, t) /\ commands[1].t = t /\ 1 \in Places
  BY Taken, Zenon DEF IsStart, IsStop, IsDelete, Places
<1>d. /\ LastStart(t) <=> \E i \in Places : IsStart(i, t) /\ \A j \in Places : IsStop(j, t) => j < i
      /\ StopsFirst(t) <=> \A i \in Places : IsStart(i, t) => \E j \in Places : IsStop(j, t) /\ j < i
      /\ StartsApart(t) <=> \A i, k \in Places : IsStart(i, t) /\ IsStart(k, t) /\ k < i =>
                              \E j \in Places : IsStop(j, t) /\ k < j /\ j < i
  BY Zenon DEF LastStart, StopsFirst, StartsApart
<1>v. /\ LastStart(t)' <=> \E i \in Places : i # 1 /\ IsStart(i, t) /\ \A j \in Places : IsStop(j, t) => j < i
      /\ StopsFirst(t)' <=> \A i \in Places : i # 1 /\ IsStart(i, t) =>
                               \E j \in Places : j # 1 /\ IsStop(j, t) /\ j < i
      /\ StartsApart(t)' <=> \A i, k \in Places : i # 1 /\ k # 1 /\ IsStart(i, t) /\ IsStart(k, t) /\ k < i =>
                               \E j \in Places : IsStop(j, t) /\ k < j /\ j < i
  BY TakenViews, Zenon
<1>o. \A i \in Places : ~(i < 1) /\ (i # 1 => 1 < i)
  BY TakenOrder, Zenon
<1>2. \A i : (IsStart(i, t) => i \in Places) /\ (IsStop(i, t) => i \in Places)
             /\ (IsDelete(i, t) => i \in Places)
  BY DEF Places, IsStart, IsStop, IsDelete
<1>5. Mentions(t)
  BY <1>1, Zenon DEF Mentions
<1>6. Deletes(t)' <=> Deletes(t)
  BY <1>1, <1>2, TakenPlaces, TakenOrder, Zenon DEF Deletes
<1>7. HasStop(t)' <=> HasStop(t)
  BY <1>1, <1>2, TakenPlaces, TakenOrder, Zenon DEF HasStop
<1>8. ASSUME LastStart(t) PROVE LastStart(t)' \/ ~HasStop(t)
  <2>1. PICK i \in Places : IsStart(i, t) /\ \A j \in Places : IsStop(j, t) => j < i
    BY <1>8, Zenon DEF LastStart
  <2>2. CASE i = 1
    BY <2>1, <2>2, TakenOrder, Zenon DEF HasStop
  <2>3. CASE i # 1
    BY <2>1, <2>3, <1>1, <1>2, <1>d, <1>v, <1>o, Zenon
  <2> QED BY <2>2, <2>3
<1>9. ASSUME LastStart(t)' PROVE LastStart(t)
  BY <1>9, <1>1, <1>2, <1>d, <1>v, <1>o, Zenon
<1>10. ASSUME ~HasStop(t) PROVE LastStart(t)
  BY <1>10, <1>1, Zenon DEF LastStart, HasStop
<1>11. ASSUME StartsApart(t) PROVE StartsApart(t)'
  BY <1>11, <1>1, <1>2, <1>d, <1>v, <1>o, Zenon
<1>12. ASSUME StartsApart(t) PROVE StopsFirst(t)'
  <2> SUFFICES ASSUME NEW i \in Places', IsStart(i, t)'
               PROVE  \E j \in Places' : IsStop(j, t)' /\ j < i
    BY DEF StopsFirst
  <2>1. i + 1 \in Places /\ IsStart(i + 1, t) /\ 1 < i + 1
    BY TakenPlaces, TakenOrder, Zenon
  <2>2. PICK j \in Places : IsStop(j, t) /\ 1 < j /\ j < i + 1
    BY <2>1, <1>1, <1>12, Zenon DEF StartsApart
  <2>3. j # 1
    BY <2>2, <1>1
  <2>4. j - 1 \in Places' /\ IsStop(j - 1, t)'
    BY <2>2, <2>3, TakenPlaces, Zenon
  <2>5. j - 1 < i
    BY <2>2, TakenOrder, SMT
  <2> QED BY <2>4, <2>5
<1>13. ASSUME LastStart(t)', StopsFirst(t)' PROVE HasStop(t)
  <2>1. HasStop(t)'
    BY <1>13, <1>1, <1>2, TakenPlaces, TakenOrder, Zenon DEF LastStart, StopsFirst, HasStop
  <2> QED BY <2>1, <1>7
<1> QED
  BY <1>5, <1>6, <1>7, <1>8, <1>9, <1>10, <1>11, <1>12, <1>13, Zenon

LEMMA TakenStop ==
  ASSUME QueueTyped, commands # <<>>, commands' = Tail(commands), Head(commands).do = "stop",
         NEW t, t = Head(commands).t
  PROVE  /\ Mentions(t) /\ HasStop(t) /\ (Deletes(t)' <=> Deletes(t))
         /\ LastStart(t)' <=> LastStart(t)
         /\ StartsApart(t) => StartsApart(t)'
<1>1. ~IsStart(1, t) /\ IsStop(1, t) /\ ~IsDelete(1, t) /\ commands[1].t = t /\ 1 \in Places
  BY Taken, Zenon DEF IsStart, IsStop, IsDelete, Places
<1>d. /\ LastStart(t) <=> \E i \in Places : IsStart(i, t) /\ \A j \in Places : IsStop(j, t) => j < i
      /\ StopsFirst(t) <=> \A i \in Places : IsStart(i, t) => \E j \in Places : IsStop(j, t) /\ j < i
      /\ StartsApart(t) <=> \A i, k \in Places : IsStart(i, t) /\ IsStart(k, t) /\ k < i =>
                              \E j \in Places : IsStop(j, t) /\ k < j /\ j < i
  BY Zenon DEF LastStart, StopsFirst, StartsApart
<1>v. /\ LastStart(t)' <=> \E i \in Places : i # 1 /\ IsStart(i, t) /\ \A j \in Places : IsStop(j, t) => j < i
      /\ StopsFirst(t)' <=> \A i \in Places : i # 1 /\ IsStart(i, t) =>
                               \E j \in Places : j # 1 /\ IsStop(j, t) /\ j < i
      /\ StartsApart(t)' <=> \A i, k \in Places : i # 1 /\ k # 1 /\ IsStart(i, t) /\ IsStart(k, t) /\ k < i =>
                               \E j \in Places : IsStop(j, t) /\ k < j /\ j < i
  BY TakenViews, Zenon
<1>o. \A i \in Places : ~(i < 1) /\ (i # 1 => 1 < i)
  BY TakenOrder, Zenon
<1>2. \A i : (IsStart(i, t) => i \in Places) /\ (IsStop(i, t) => i \in Places)
             /\ (IsDelete(i, t) => i \in Places)
  BY DEF Places, IsStart, IsStop, IsDelete
<1>5. Mentions(t) /\ HasStop(t)
  BY <1>1, Zenon DEF Mentions, HasStop
<1>6. Deletes(t)' <=> Deletes(t)
  BY <1>1, <1>2, TakenPlaces, TakenOrder, Zenon DEF Deletes
<1>7. LastStart(t) => LastStart(t)'
  BY <1>1, <1>2, <1>d, <1>v, <1>o, Zenon
<1>8. LastStart(t)' => LastStart(t)
  BY <1>1, <1>2, <1>d, <1>v, <1>o, Zenon
<1>9. StartsApart(t) => StartsApart(t)'
  <2> SUFFICES ASSUME StartsApart(t), NEW i \in Places', NEW k \in Places',
                      IsStart(i, t)', IsStart(k, t)', k < i
               PROVE  \E j \in Places' : IsStop(j, t)' /\ k < j /\ j < i
    BY Zenon DEF StartsApart
  <2>1. /\ i + 1 \in Places /\ IsStart(i + 1, t) /\ k + 1 \in Places /\ IsStart(k + 1, t)
        /\ k + 1 < i + 1
    BY TakenPlaces, TakenOrder, Zenon
  <2>2. PICK j \in Places : IsStop(j, t) /\ k + 1 < j /\ j < i + 1
    BY <2>1, Zenon DEF StartsApart
  <2>3. j # 1 /\ k < j - 1 /\ j - 1 < i
    BY <2>2, TakenOrder, SMT
  <2>4. j - 1 \in Places' /\ IsStop(j - 1, t)'
    BY <2>2, <2>3, TakenPlaces, Zenon
  <2> QED BY <2>3, <2>4
<1> QED
  BY <1>5, <1>6, <1>7, <1>8, <1>9, Zenon

LEMMA TakenDelete ==
  ASSUME QueueTyped, commands # <<>>, commands' = Tail(commands), Head(commands).do = "delete",
         NEW t, t = Head(commands).t
  PROVE  Mentions(t) /\ Deletes(t) /\ ~Mentions(t)' /\ ~Deletes(t)'
<1>1. IsDelete(1, t) /\ commands[1].t = t /\ 1 \in Places /\ commands[1].do = "delete"
  BY Taken, Zenon DEF IsDelete, Places
<1>2. Mentions(t) /\ Deletes(t)
  BY <1>1, Zenon DEF Mentions, Deletes
<1>3. \A j \in Places : 1 < j => commands[j].t # t
  BY <1>1, Zenon DEF QueueTyped, NoneAfter
<1>4. \A i \in Places' : i + 1 \in Places /\ 1 < i + 1 /\ commands'[i].t = commands[i + 1].t
  BY TakenPlaces, TakenOrder, Zenon
<1>5. ~Mentions(t)'
  BY <1>3, <1>4, Zenon DEF Mentions
<1>6. ~Deletes(t)'
  BY <1>5, Zenon DEF Mentions, Deletes, IsDelete, Places
<1> QED
  BY <1>2, <1>5, <1>6


-----------------------------------------------------------------------------
(* Steps that every action is made of.                                     *)

LEMMA GoneTo ==
  ASSUME OpOK, NEW a \in Actors, NEW p \in Pcs, GoTo(a, p)
  PROVE  /\ op'[a].pc = p /\ op'[a].call = op[a].call /\ op'[a].s = op[a].s /\ op'[a].arg = op[a].arg
         /\ \A b \in Actors : b # a => op'[b] = op[b]
         /\ op' \in [Actors -> OpSet]
  BY SMT DEF OpOK, OpSet, GoTo, Actors

LEMMA GoneToWith ==
  ASSUME OpOK, NEW a \in Actors, NEW p \in Pcs, NEW n \in Nat,
         op' = [op EXCEPT ![a].pc = p, ![a].arg = n]
  PROVE  /\ op'[a].pc = p /\ op'[a].call = op[a].call /\ op'[a].s = op[a].s /\ op'[a].arg = n
         /\ \A b \in Actors : b # a => op'[b] = op[b]
         /\ op' \in [Actors -> OpSet]
<1>1. op \in [Actors -> OpSet]
  BY DEF OpOK
<1>2. op'[a] = [op[a] EXCEPT !.pc = p, !.arg = n]
  BY <1>1, Zenon
<1>3. \A b \in Actors : b # a => op'[b] = op[b]
  BY <1>1, Zenon
<1>4. op' = [b \in Actors |-> op'[b]]
  BY <1>1, Zenon
<1>5. PICK r : r = op[a] /\ r \in OpSet
  BY <1>1
<1>6. PICK q : q = [r EXCEPT !.pc = p, !.arg = n]
  OBVIOUS
<1>7. q = [call |-> r.call, s |-> r.s, pc |-> p, arg |-> n]
  <2>1. r \in OpSet
    BY <1>5
  <2>2. PICK k : k = [r EXCEPT !.pc = p]
    OBVIOUS
  <2>3. q = [k EXCEPT !.arg = n]
    BY ONLY <1>6, <2>2
  <2>4. k = [call |-> r.call, s |-> r.s, pc |-> p, arg |-> r.arg]
    BY ONLY <2>1, <2>2, SMT DEF OpSet
  <2> QED BY ONLY <2>3, <2>4, SMT
<1>8. r.call \in Kinds /\ r.s \in Schedules \cup {NONE}
  BY ONLY <1>5, SMT DEF OpSet
<1>9. q \in OpSet /\ q.pc = p /\ q.call = r.call /\ q.s = r.s /\ q.arg = n
  BY ONLY <1>7, <1>8, p \in Pcs, n \in Nat, SMT DEF OpSet
<1>10. op'[a] = q
  BY <1>2, <1>5, <1>6
<1>11. \A b \in Actors : op'[b] \in OpSet
  BY <1>1, <1>3, <1>9, <1>10, Zenon
<1>12. op' \in [Actors -> OpSet]
  BY ONLY <1>4, <1>11, Zenon
<1> QED BY <1>3, <1>5, <1>9, <1>10, <1>12

LEMMA Became ==
  ASSUME OpOK, NEW a \in Actors, NEW r \in OpSet, op' = [op EXCEPT ![a] = r]
  PROVE  /\ op'[a] = r /\ \A b \in Actors : b # a => op'[b] = op[b]
         /\ op' \in [Actors -> OpSet]
  BY SMT DEF OpOK

\* What an actor is at when a call or the loading of a schedule is over.
LEMMA Rests ==
  ASSUME ConstantsOK
  PROVE  /\ Idle \in OpSet /\ Idle.call = "none" /\ Idle.s = NONE /\ Idle.pc = "idle" /\ Idle.arg = 0
         /\ LET r == [Idle EXCEPT !.call = "init", !.pc = "load"] IN
              r \in OpSet /\ r.call = "init" /\ r.s = NONE /\ r.pc = "load" /\ r.arg = 0
<1>1. Idle \in OpSet /\ Idle.call = "none" /\ Idle.s = NONE /\ Idle.pc = "idle" /\ Idle.arg = 0
  BY SMT DEF Idle, OpSet, Kinds, Pcs
<1> DEFINE r == [Idle EXCEPT !.call = "init", !.pc = "load"]
<1>k. PICK k : k = [Idle EXCEPT !.call = "init"]
  OBVIOUS
<1>l. k = [call |-> "init", s |-> NONE, pc |-> "idle", arg |-> 0]
  BY <1>k, SMT DEF Idle
<1>m. r = [k EXCEPT !.pc = "load"]
  BY <1>k
<1> HIDE DEF r
<1>2. r = [call |-> "init", s |-> NONE, pc |-> "load", arg |-> 0]
  BY ONLY <1>l, <1>m, SMT
<1>3. r \in OpSet /\ r.call = "init" /\ r.s = NONE /\ r.pc = "load" /\ r.arg = 0
  BY <1>2, SMT DEF OpSet, Kinds, Pcs
<1> QED BY <1>1, <1>3 DEF r

\* The views of the queue when nothing is posted.
LEMMA Quiet ==
  ASSUME QueueTyped, commands' = commands
  PROVE  /\ QueueTyped'
         /\ \A t \in Timers : /\ Mentions(t)' <=> Mentions(t)
                              /\ Deletes(t)' <=> Deletes(t)
                              /\ HasStop(t)' <=> HasStop(t)
                              /\ LastStart(t)' <=> LastStart(t)
                              /\ StopsFirst(t)' <=> StopsFirst(t)
                              /\ StartsApart(t)' <=> StartsApart(t)
  BY QueueSame, Zenon DEF SameFor

LEMMA Posts ==
  ASSUME QueueTyped, NEW c \in CommandSet, Post(c), Len(commands) <= QueueLen, QueueLen \in Nat
  PROVE  /\ Len(commands') <= QueueLen
         /\ Full => commands' = commands
         /\ ~Full => commands' = Append(commands, c)
  BY Appended, SMT DEF Post, Full, QueueTyped

LEMMA StartPosted ==
  ASSUME ConstantsOK, QueueTyped, Len(commands) <= QueueLen, NEW u \in Timers, NEW p \in 1..MaxPeriod,
         Post(Command("start", u, p)), ~Deletes(u)
  PROVE  /\ QueueTyped' /\ Len(commands') <= QueueLen
         /\ \A t \in Timers : t # u \/ Full =>
              /\ Mentions(t)' <=> Mentions(t)
              /\ Deletes(t)' <=> Deletes(t)
              /\ HasStop(t)' <=> HasStop(t)
              /\ LastStart(t)' <=> LastStart(t)
              /\ StopsFirst(t)' <=> StopsFirst(t)
              /\ StartsApart(t)' <=> StartsApart(t)
         /\ ~Full =>
              /\ Mentions(u)' /\ LastStart(u)'
              /\ Deletes(u)' <=> Deletes(u)
              /\ HasStop(u)' <=> HasStop(u)
              /\ StartsApart(u) /\ ~LastStart(u) => StartsApart(u)'
              /\ StopsFirst(u) /\ HasStop(u) => StopsFirst(u)'
<1> DEFINE c == Command("start", u, p)
<1>1. c \in CommandSet /\ c.do = "start" /\ c.t = u /\ c.period > 0
  BY SMT DEF CommandSet, Command, ConstantsOK
<1> HIDE DEF c
<1>2. Post(c)
  BY DEF c
<1>3. QueueLen \in Nat
  BY DEF ConstantsOK
<1>4. CASE Full
  BY <1>1, <1>2, <1>3, <1>4, Posts, Quiet, Zenon
<1>5. CASE ~Full
  <2>1. commands' = Append(commands, c) /\ Len(commands') <= QueueLen
    BY <1>1, <1>2, <1>3, <1>5, Posts, Zenon
  <2>2. QueueTyped'
    BY <1>1, <2>1, PostedTyped, Zenon
  <2>3. \A t \in Timers : t # u => SameFor(t)
    BY <1>1, <2>1, PostedElse, Zenon
  <2>4. /\ Mentions(u)' /\ LastStart(u)'
        /\ (Deletes(u)' <=> Deletes(u)) /\ (HasStop(u)' <=> HasStop(u))
        /\ StartsApart(u) /\ ~LastStart(u) => StartsApart(u)'
        /\ StopsFirst(u) /\ HasStop(u) => StopsFirst(u)'
    BY <1>1, <2>1, PostedStart, Zenon
  <2> QED BY <1>5, <2>1, <2>2, <2>3, <2>4, Zenon DEF SameFor
<1> QED BY <1>4, <1>5

LEMMA StopPosted ==
  ASSUME ConstantsOK, QueueTyped, Len(commands) <= QueueLen, NEW u \in Timers,
         Post(Command("stop", u, 0)), ~Deletes(u)
  PROVE  /\ QueueTyped' /\ Len(commands') <= QueueLen
         /\ \A t \in Timers : t # u \/ Full =>
              /\ Mentions(t)' <=> Mentions(t)
              /\ Deletes(t)' <=> Deletes(t)
              /\ HasStop(t)' <=> HasStop(t)
              /\ LastStart(t)' <=> LastStart(t)
              /\ StopsFirst(t)' <=> StopsFirst(t)
              /\ StartsApart(t)' <=> StartsApart(t)
         /\ ~Full =>
              /\ Mentions(u)' /\ ~LastStart(u)' /\ HasStop(u)'
              /\ Deletes(u)' <=> Deletes(u)
              /\ StartsApart(u) => StartsApart(u)'
              /\ StopsFirst(u) => StopsFirst(u)'
<1> DEFINE c == Command("stop", u, 0)
<1>1. c \in CommandSet /\ c.do = "stop" /\ c.t = u
  BY SMT DEF CommandSet, Command, ConstantsOK
<1> HIDE DEF c
<1>2. Post(c)
  BY DEF c
<1>3. QueueLen \in Nat
  BY DEF ConstantsOK
<1>4. CASE Full
  BY <1>1, <1>2, <1>3, <1>4, Posts, Quiet, Zenon
<1>5. CASE ~Full
  <2>1. commands' = Append(commands, c) /\ Len(commands') <= QueueLen
    BY <1>1, <1>2, <1>3, <1>5, Posts, Zenon
  <2>2. QueueTyped'
    <3>1. c.do # "start"
      BY <1>1
    <3> QED BY <1>1, <2>1, <3>1, PostedTyped, Zenon
  <2>3. \A t \in Timers : t # u => SameFor(t)
    BY <1>1, <2>1, PostedElse, Zenon
  <2>4. /\ Mentions(u)' /\ ~LastStart(u)' /\ HasStop(u)'
        /\ (Deletes(u)' <=> Deletes(u))
        /\ (StartsApart(u) => StartsApart(u)') /\ (StopsFirst(u) => StopsFirst(u)')
    BY <1>1, <2>1, PostedStop, Zenon
  <2> QED BY <1>5, <2>1, <2>2, <2>3, <2>4, Zenon DEF SameFor
<1> QED BY <1>4, <1>5

LEMMA DeletePosted ==
  ASSUME ConstantsOK, QueueTyped, Len(commands) <= QueueLen, NEW u \in Timers,
         Post(Command("delete", u, 0)), ~Deletes(u)
  PROVE  /\ QueueTyped' /\ Len(commands') <= QueueLen
         /\ \A t \in Timers : t # u \/ Full =>
              /\ Mentions(t)' <=> Mentions(t)
              /\ Deletes(t)' <=> Deletes(t)
         /\ ~Full => Mentions(u)' /\ Deletes(u)'
         /\ \A t \in Timers : /\ HasStop(t)' <=> HasStop(t)
                              /\ LastStart(t)' <=> LastStart(t)
                              /\ StopsFirst(t)' <=> StopsFirst(t)
                              /\ StartsApart(t)' <=> StartsApart(t)
<1> DEFINE c == Command("delete", u, 0)
<1>1. c \in CommandSet /\ c.do = "delete" /\ c.t = u
  BY SMT DEF CommandSet, Command, ConstantsOK
<1> HIDE DEF c
<1>2. Post(c)
  BY DEF c
<1>3. QueueLen \in Nat
  BY DEF ConstantsOK
<1>4. CASE Full
  BY <1>1, <1>2, <1>3, <1>4, Posts, Quiet, Zenon
<1>5. CASE ~Full
  <2>1. commands' = Append(commands, c) /\ Len(commands') <= QueueLen
    BY <1>1, <1>2, <1>3, <1>5, Posts, Zenon
  <2>2. QueueTyped'
    <3>1. c.do # "start"
      BY <1>1
    <3> QED BY <1>1, <2>1, <3>1, PostedTyped, Zenon
  <2>3. \A t \in Timers : t # u => SameFor(t)
    BY <1>1, <2>1, PostedElse, Zenon
  <2>4. /\ Mentions(u)' /\ Deletes(u)'
        /\ (LastStart(u)' <=> LastStart(u)) /\ (HasStop(u)' <=> HasStop(u))
        /\ (StartsApart(u)' <=> StartsApart(u)) /\ (StopsFirst(u)' <=> StopsFirst(u))
    BY <1>1, <2>1, PostedDelete, Zenon
  <2> QED BY <1>5, <2>1, <2>2, <2>3, <2>4, Zenon DEF SameFor
<1> QED BY <1>4, <1>5


\* A period fits the timer and leaves the rest.
LEMMA Clamped ==
  ASSUME ConstantsOK, NEW n \in Nat
  PROVE  /\ Clamp(n) \in 0..MaxPeriod /\ n - Clamp(n) \in Nat
         /\ n > 0 => Clamp(n) \in 1..MaxPeriod
  BY SMT DEF Clamp, ConstantsOK

TimerSet == [state : {"none", "dormant", "active", "deleted"}, left : 0..MaxPeriod,
             id : Schedules \cup {NONE}, remaining : Nat, priv : {"none", "live", "freed"}]

\* Rebinding a timer to the schedule that has it changes its remaining delay.
LEMMA Rebound ==
  ASSUME ConstantsOK, timer \in [Timers -> TimerSet], NEW u \in Timers, NEW s \in Schedules,
         NEW n \in Nat, timer' = [timer EXCEPT ![u].remaining = n - Clamp(n), ![u].id = s]
  PROVE  /\ timer' \in [Timers -> TimerSet]
         /\ timer[u].id = s => \A t \in Timers :
              /\ timer'[t].state = timer[t].state /\ timer'[t].left = timer[t].left
              /\ timer'[t].id = timer[t].id /\ timer'[t].priv = timer[t].priv
<1>1. PICK m \in Nat : m = n - Clamp(n)
  BY Clamped, Zenon
<1>2. PICK r : r = timer[u] /\ r \in TimerSet
  OBVIOUS
<1>3. PICK k : k = [r EXCEPT !.remaining = m]
  OBVIOUS
<1>4. PICK q : q = [k EXCEPT !.id = s]
  OBVIOUS
<1>5. r \in TimerSet
  BY <1>2
<1>6. k = [state |-> r.state, left |-> r.left, id |-> r.id, remaining |-> m, priv |-> r.priv]
  BY ONLY <1>3, <1>5, SMT DEF TimerSet
<1>7. q = [state |-> r.state, left |-> r.left, id |-> s, remaining |-> m, priv |-> r.priv]
  BY ONLY <1>4, <1>6, SMT
<1>8. q \in TimerSet
  BY ONLY <1>5, <1>7, m \in Nat, s \in Schedules, SMT DEF TimerSet
<1>9. timer' = [timer EXCEPT ![u].remaining = m, ![u].id = s]
  BY <1>1
<1>10. timer'[u] = [timer[u] EXCEPT !.remaining = m, !.id = s]
  BY <1>9, Zenon
<1>11. timer'[u] = q
  <2>1. q = [r EXCEPT !.remaining = m, !.id = s]
    BY ONLY <1>3, <1>4
  <2> QED BY ONLY <1>10, <1>2, <2>1
<1>12. \A t \in Timers : t # u => timer'[t] = timer[t]
  BY <1>9, Zenon
<1>13. timer' = [t \in Timers |-> timer'[t]]
  BY <1>9, Zenon
<1>14. \A t \in Timers : timer'[t] \in TimerSet
  BY <1>8, <1>11, <1>12, Zenon
<1>15. timer' \in [Timers -> TimerSet]
  BY ONLY <1>13, <1>14, Zenon
<1>16. q.state = r.state /\ q.left = r.left /\ q.id = s /\ q.priv = r.priv
  BY ONLY <1>7, SMT
<1> QED BY <1>2, <1>11, <1>12, <1>15, <1>16, Zenon

\* Detaching the private data of a timer changes its owner alone.
LEMMA Detached ==
  ASSUME timer \in [Timers -> TimerSet], NEW u \in Timers,
         timer' = [timer EXCEPT ![u].id = NONE]
  PROVE  /\ timer' \in [Timers -> TimerSet]
         /\ timer'[u].state = timer[u].state /\ timer'[u].left = timer[u].left
         /\ timer'[u].id = NONE /\ timer'[u].priv = timer[u].priv
         /\ \A t \in Timers : t # u => timer'[t] = timer[t]
<1>1. timer' \in [Timers -> TimerSet]
  BY SMT DEF TimerSet
<1>2. /\ timer'[u].state = timer[u].state /\ timer'[u].left = timer[u].left
      /\ timer'[u].id = NONE /\ timer'[u].priv = timer[u].priv
  BY SMT DEF TimerSet
<1>3. \A t \in Timers : t # u => timer'[t] = timer[t]
  BY Zenon
<1> QED BY <1>1, <1>2, <1>3

LEMMA PrivFreed ==
  ASSUME timer \in [Timers -> TimerSet], NEW u \in Timers,
         timer' = [timer EXCEPT ![u].priv = "freed"]
  PROVE  /\ timer' \in [Timers -> TimerSet]
         /\ timer'[u].state = timer[u].state /\ timer'[u].left = timer[u].left
         /\ timer'[u].id = timer[u].id
         /\ \A t \in Timers : t # u => timer'[t] = timer[t]
<1>1. timer' \in [Timers -> TimerSet]
  BY SMT DEF TimerSet
<1>2. /\ timer'[u].state = timer[u].state /\ timer'[u].left = timer[u].left
      /\ timer'[u].id = timer[u].id
  BY SMT DEF TimerSet
<1>3. \A t \in Timers : t # u => timer'[t] = timer[t]
  BY Zenon
<1> QED BY <1>1, <1>2, <1>3

\* An expiry makes the timer dormant.
LEMMA Expires ==
  ASSUME timer \in [Timers -> TimerSet], NEW u \in Timers,
         timer' = [timer EXCEPT ![u].state = "dormant"]
  PROVE  /\ timer' \in [Timers -> TimerSet]
         /\ timer'[u].state = "dormant" /\ timer'[u].left = timer[u].left
         /\ timer'[u].id = timer[u].id /\ timer'[u].priv = timer[u].priv
         /\ \A t \in Timers : t # u => timer'[t] = timer[t]
<1>1. timer' \in [Timers -> TimerSet]
  BY SMT DEF TimerSet
<1>2. /\ timer'[u].state = "dormant" /\ timer'[u].left = timer[u].left
      /\ timer'[u].id = timer[u].id /\ timer'[u].priv = timer[u].priv
  BY SMT DEF TimerSet
<1>3. \A t \in Timers : t # u => timer'[t] = timer[t]
  BY Zenon
<1> QED BY <1>1, <1>2, <1>3

\* The next slice of a long delay shortens what remains of it.
LEMMA Sliced ==
  ASSUME timer \in [Timers -> TimerSet], NEW u \in Timers, NEW n \in Nat,
         timer' = [timer EXCEPT ![u].remaining = n]
  PROVE  /\ timer' \in [Timers -> TimerSet]
         /\ timer'[u].state = timer[u].state /\ timer'[u].left = timer[u].left
         /\ timer'[u].id = timer[u].id /\ timer'[u].priv = timer[u].priv
         /\ \A t \in Timers : t # u => timer'[t] = timer[t]
<1>1. timer' \in [Timers -> TimerSet]
  BY SMT DEF TimerSet
<1>2. /\ timer'[u].state = timer[u].state /\ timer'[u].left = timer[u].left
      /\ timer'[u].id = timer[u].id /\ timer'[u].priv = timer[u].priv
  BY SMT DEF TimerSet
<1>3. \A t \in Timers : t # u => timer'[t] = timer[t]
  BY Zenon
<1> QED BY <1>1, <1>2, <1>3

\* A command sets the state of its timer and the time it has left.
LEMMA Processed ==
  ASSUME timer \in [Timers -> TimerSet], NEW u \in Timers,
         NEW st \in {"dormant", "active", "deleted"}, NEW p \in 0..MaxPeriod,
         timer' = [timer EXCEPT ![u].state = st, ![u].left = p]
  PROVE  /\ timer' \in [Timers -> TimerSet]
         /\ timer'[u].state = st /\ timer'[u].left = p
         /\ timer'[u].id = timer[u].id /\ timer'[u].priv = timer[u].priv
         /\ \A t \in Timers : t # u => timer'[t] = timer[t]
<1>2. PICK r : r = timer[u] /\ r \in TimerSet
  OBVIOUS
<1>3. PICK k : k = [r EXCEPT !.state = st]
  OBVIOUS
<1>4. PICK q : q = [k EXCEPT !.left = p]
  OBVIOUS
<1>5. r \in TimerSet
  BY <1>2
<1>6. k = [state |-> st, left |-> r.left, id |-> r.id, remaining |-> r.remaining, priv |-> r.priv]
  BY ONLY <1>3, <1>5, SMT DEF TimerSet
<1>7. q = [state |-> st, left |-> p, id |-> r.id, remaining |-> r.remaining, priv |-> r.priv]
  BY ONLY <1>4, <1>6, SMT
<1>8. q \in TimerSet
  BY ONLY <1>5, <1>7, st \in {"dormant", "active", "deleted"}, p \in 0..MaxPeriod, SMT DEF TimerSet
<1>10. timer'[u] = [timer[u] EXCEPT !.state = st, !.left = p]
  BY Zenon
<1>11. timer'[u] = q
  <2>1. q = [r EXCEPT !.state = st, !.left = p]
    BY ONLY <1>3, <1>4
  <2> QED BY ONLY <1>10, <1>2, <2>1
<1>12. \A t \in Timers : t # u => timer'[t] = timer[t]
  BY Zenon
<1>13. timer' = [t \in Timers |-> timer'[t]]
  BY Zenon
<1>14. \A t \in Timers : timer'[t] \in TimerSet
  BY <1>8, <1>11, <1>12, Zenon
<1>15. timer' \in [Timers -> TimerSet]
  BY ONLY <1>13, <1>14, Zenon
<1>16. q.state = st /\ q.left = p /\ q.id = r.id /\ q.priv = r.priv
  BY ONLY <1>7, SMT
<1> QED BY <1>2, <1>11, <1>12, <1>15, <1>16, Zenon

\* A second less is left of every timer.
LEMMA Ticked ==
  ASSUME ConstantsOK, timer \in [Timers -> TimerSet],
         timer' = [t \in Timers |-> [timer[t] EXCEPT !.left = IF @ > 0 THEN @ - 1 ELSE 0]]
  PROVE  /\ timer' \in [Timers -> TimerSet]
         /\ \A t \in Timers : /\ timer'[t].state = timer[t].state
                              /\ timer'[t].id = timer[t].id /\ timer'[t].priv = timer[t].priv
<1>1. ASSUME NEW t \in Timers
      PROVE  /\ timer'[t] \in TimerSet /\ timer'[t].state = timer[t].state
             /\ timer'[t].id = timer[t].id /\ timer'[t].priv = timer[t].priv
  <2>1. PICK r : r = timer[t] /\ r \in TimerSet
    OBVIOUS
  <2>2. r.left \in 0..MaxPeriod /\ MaxPeriod \in Nat
    BY <2>1, SMT DEF TimerSet, ConstantsOK
  <2>3. PICK n : n = IF r.left > 0 THEN r.left - 1 ELSE 0
    OBVIOUS
  <2>4. n \in 0..MaxPeriod
    BY <2>2, <2>3, SMT
  <2>5. timer'[t] = [r EXCEPT !.left = n]
    BY <2>1, <2>3, Zenon
  <2> QED BY <2>1, <2>4, <2>5, SMT DEF TimerSet
<1>2. timer' = [t \in Timers |-> timer'[t]]
  BY Zenon
<1>3. timer' \in [Timers -> TimerSet]
  BY <1>1, <1>2, Zenon
<1> QED BY <1>1, <1>3

\* A stored schedule is loaded by the actor that restores them.
LEMMA TakesUp ==
  ASSUME OpOK, NEW a \in Actors, NEW s \in Schedules, NEW p \in Pcs,
         op' = [op EXCEPT ![a].s = s, ![a].pc = p]
  PROVE  /\ op'[a].pc = p /\ op'[a].call = op[a].call /\ op'[a].s = s /\ op'[a].arg = op[a].arg
         /\ \A b \in Actors : b # a => op'[b] = op[b]
         /\ op' \in [Actors -> OpSet]
<1>1. op \in [Actors -> OpSet]
  BY DEF OpOK
<1>2. op'[a] = [op[a] EXCEPT !.s = s, !.pc = p]
  BY <1>1, Zenon
<1>3. \A b \in Actors : b # a => op'[b] = op[b]
  BY <1>1, Zenon
<1>4. op' = [b \in Actors |-> op'[b]]
  BY <1>1, Zenon
<1>5. PICK r : r = op[a] /\ r \in OpSet
  BY <1>1
<1>6. PICK q : q = [r EXCEPT !.s = s, !.pc = p]
  OBVIOUS
<1>7. q = [call |-> r.call, s |-> s, pc |-> p, arg |-> r.arg]
  <2>1. r \in OpSet
    BY <1>5
  <2>2. PICK k : k = [r EXCEPT !.s = s]
    OBVIOUS
  <2>3. q = [k EXCEPT !.pc = p]
    BY ONLY <1>6, <2>2
  <2>4. k = [call |-> r.call, s |-> s, pc |-> r.pc, arg |-> r.arg]
    BY ONLY <2>1, <2>2, SMT DEF OpSet
  <2> QED BY ONLY <2>3, <2>4, SMT
<1>8. r.call \in Kinds /\ r.arg \in Nat
  BY ONLY <1>5, SMT DEF OpSet
<1>9. q \in OpSet /\ q.pc = p /\ q.call = r.call /\ q.s = s /\ q.arg = r.arg
  BY ONLY <1>7, <1>8, p \in Pcs, s \in Schedules, SMT DEF OpSet
<1>10. op'[a] = q
  BY <1>2, <1>5, <1>6
<1>11. \A b \in Actors : op'[b] \in OpSet
  BY <1>1, <1>3, <1>9, <1>10, Zenon
<1>12. op' \in [Actors -> OpSet]
  BY ONLY <1>4, <1>11, Zenon
<1> QED BY <1>3, <1>5, <1>9, <1>10, <1>12

\* Every set of numbers that has a member has a least one.
LEMMA LeastNumber ==
  ASSUME NEW T, T \subseteq Nat, T # {}
  PROVE  \E x \in T : \A y \in T : x <= y
<1> DEFINE less == OpToRel(<, Nat)
<1>1. IsWellFoundedOn(less, Nat)
  BY NatLessThanWellFounded, Zenon
<1>2. \A m, n \in Nat : m < n => <<m, n>> \in less
  BY DEF OpToRel
<1> HIDE DEF less
<1>3. PICK x \in T : \A y \in T : ~ (<<y, x>> \in less)
  BY <1>1, WFMin, Zenon
<1>4. \A y \in T : ~(y < x)
  BY <1>2, <1>3
<1> QED BY <1>4

\* The timer that the first arm of a schedule takes.
LEMMA FirstUnused ==
  ASSUME NEW T, T \subseteq Timers, T # {}
  PROVE  (CHOOSE u \in T : \A v \in T : u <= v) \in T
<1>1. T \subseteq Nat
  BY SMT DEF Timers
<1> QED BY <1>1, LeastNumber, Zenon

\* Nothing refers to a timer that is not in use.
LEMMA Untouched ==
  ASSUME ConstantsOK, Part1, NEW t \in Timers, timer[t].state = "none"
  PROVE  /\ timer[t].id = NONE /\ \A r \in Schedules : handle[r] # t
         /\ ~Mentions(t) /\ ~Deletes(t) /\ ~HasStop(t) /\ ~LastStart(t)
         /\ frame.t # t \/ frame.at = "idle"
         /\ \A b \in Actors : op[b].pc = "publish" => op[b].arg # t
<1>1. timer[t].state \notin Alive
  BY DEF Alive
<1>2. timer[t].id = NONE
  BY <1>1 DEF Part1, TimerOK
<1>3. \A r \in Schedules : handle[r] # t
  BY <1>1, SMT DEF Part1, HandleOK, Timers
<1>4. ~Mentions(t)
  BY <1>1 DEF Part1, QueueOK
<1>5. ~Deletes(t) /\ ~HasStop(t) /\ ~LastStart(t)
  BY <1>4, SMT DEF Mentions, Deletes, HasStop, LastStart, IsDelete, IsStop, IsStart, Places
<1>6. frame.t # t \/ frame.at = "idle"
  BY DEF Part1, FrameOK
<1>7. \A b \in Actors : op[b].pc = "publish" => op[b].arg # t
  <2>1. \A b \in Actors : op[b].pc = "publish" => op[b].s # NONE
    BY DEF Part1, OpOK
  <2> QED BY <2>1, <1>2 DEF Part1, PublishOK
<1> QED BY <1>2, <1>3, <1>4, <1>5, <1>6, <1>7

\* An actor that rests calls the API; the daemon does so in a trigger callback.
LEMMA Entered ==
  ASSUME ConstantsOK, OpOK, TypeOK, NEW a \in Actors, NEW s \in Schedules,
         NEW c \in Kinds, NEW p \in Pcs, Enter(a, c, s, p)
  PROVE  /\ op[a].pc = "idle" /\ (a = Daemon => frame.at = "trigger")
         /\ op'[a].pc = p /\ op'[a].call = c /\ op'[a].s = s /\ op'[a].arg = 0
         /\ \A b \in Actors : b # a => op'[b] = op[b]
         /\ op' \in [Actors -> OpSet]
         /\ fires' \in [Schedules -> Nat]
         /\ off' \in [Schedules -> BOOLEAN]
         /\ lost' \subseteq Schedules
<1>1. op[a].pc = "idle" /\ (a = Daemon => frame.at = "trigger")
  BY DEF Enter, MayCall, At
<1>2. PICK r : r = [call |-> c, s |-> s, pc |-> p, arg |-> 0]
  OBVIOUS
<1>3. r \in OpSet /\ r.pc = p /\ r.call = c /\ r.s = s /\ r.arg = 0
  BY <1>2, SMT DEF OpSet
<1>4. op' = [op EXCEPT ![a] = r]
  BY <1>2 DEF Enter
<1>5. /\ op'[a] = r /\ \A b \in Actors : b # a => op'[b] = op[b]
      /\ op' \in [Actors -> OpSet]
  BY <1>3, <1>4, Became, Zenon
<1>6. fires' \in [Schedules -> Nat]
  <2>1. fires \in [Schedules -> Nat]
    BY DEF TypeOK
  <2>2. fires' = [fires EXCEPT ![s] = IF c = "edit" THEN @ ELSE 0]
    BY DEF Enter
  <2> QED BY <2>1, <2>2, SMT
<1>7. off' \in [Schedules -> BOOLEAN]
  <2>1. off \in [Schedules -> BOOLEAN]
    BY DEF TypeOK
  <2>2. off' = [off EXCEPT ![s] = off[s] /\ c # "enable"]
    BY DEF Enter
  <2>3. (off[s] /\ c # "enable") \in BOOLEAN
    OBVIOUS
  <2> QED BY <2>1, <2>2, <2>3, Zenon
<1>8. lost' \subseteq Schedules
  <2>1. lost \subseteq Schedules
    BY DEF TypeOK
  <2>2. lost' = lost \cup {s} \/ lost' = lost
    BY DEF Enter
  <2> QED BY <2>1, <2>2
<1> QED BY <1>1, <1>3, <1>5, <1>6, <1>7, <1>8

\* The callback turns to the schedule of its timer.
LEMMA TurnsTo ==
  ASSUME frame \in FrameSet, NEW s \in Schedules, NEW p \in {"trigger", "rearm"},
         frame' = [frame EXCEPT !.s = s, !.at = p]
  PROVE  frame'.t = frame.t /\ frame'.s = s /\ frame'.at = p /\ frame' \in FrameSet
<1>1. PICK r : r = frame /\ r \in FrameSet
  OBVIOUS
<1>2. PICK k : k = [r EXCEPT !.s = s]
  OBVIOUS
<1>3. PICK q : q = [k EXCEPT !.at = p]
  OBVIOUS
<1>4. r \in FrameSet
  BY <1>1
<1>5. k = [t |-> r.t, s |-> s, at |-> r.at]
  BY ONLY <1>2, <1>4, SMT DEF FrameSet
<1>6. q = [t |-> r.t, s |-> s, at |-> p]
  BY ONLY <1>3, <1>5, SMT
<1>7. q \in FrameSet /\ q.t = r.t /\ q.s = s /\ q.at = p
  BY ONLY <1>4, <1>6, s \in Schedules, p \in {"trigger", "rearm"}, SMT DEF FrameSet
<1>8. q = [r EXCEPT !.s = s, !.at = p]
  BY ONLY <1>2, <1>3
<1>9. frame' = q
  BY ONLY <1>8, <1>1, frame' = [frame EXCEPT !.s = s, !.at = p]
<1> QED BY <1>1, <1>7, <1>9

\* An empty queue holds nothing for any timer.
LEMMA EmptyQueue ==
  ASSUME commands = <<>>
  PROVE  /\ QueueTyped
         /\ \A t : /\ ~Mentions(t) /\ ~Deletes(t) /\ ~HasStop(t) /\ ~LastStart(t)
                   /\ StopsFirst(t) /\ StartsApart(t)
<1>1. Places = {}
  BY SMT DEF Places
<1>2. QueueTyped
  BY <1>1, SMT DEF QueueTyped, NoneAfter
<1> QED BY <1>1, <1>2 DEF Mentions, Deletes, HasStop, LastStart, StopsFirst, StartsApart

LEMMA EmptiedQueue ==
  ASSUME commands' = <<>>
  PROVE  /\ QueueTyped'
         /\ \A t : /\ ~Mentions(t)' /\ ~Deletes(t)' /\ ~HasStop(t)' /\ ~LastStart(t)'
                   /\ StopsFirst(t)' /\ StartsApart(t)'
<1>1. Places' = {}
  BY SMT DEF Places
<1>2. QueueTyped'
  BY <1>1, SMT DEF QueueTyped, NoneAfter
<1> QED BY <1>1, <1>2 DEF Mentions, Deletes, HasStop, LastStart, StopsFirst, StartsApart

LEMMA NewTimer ==
  ASSUME ConstantsOK
  PROVE  NoTimer \in TimerSet /\ NoTimer.id = NONE /\ NoTimer.state = "none"
  BY SMT DEF NoTimer, TimerSet, ConstantsOK


DeletePcs == {"stop_first", "cancel", "detach", "delete_timer", "erase", "free"}
RearmPcs == {"compute", "arm", "change", "stop", "clear", "armed"}

-----------------------------------------------------------------------------
(* What the proofs of the steps begin with.  These definitions only give     *)
(* names to facts that every step needs; they are expanded everywhere.       *)

Parts ==
  /\ TypeOK /\ OpOK /\ QueueTyped /\ TimerOK /\ HandleOK /\ PublishOK
  /\ WorkOK /\ ShareOK /\ FrameOK /\ QueueOK

\* What the types say of the calls, the timers and the callback.
Plain ==
  /\ \A b \in Actors : op[b].s \in Schedules \cup {NONE} /\ op[b].arg \in Nat
  /\ \A b \in Actors : op[b].s = NONE <=> op[b].pc \in {"idle", "load"}
  /\ \A b \in Actors : op[b].pc = "publish" => op[b].s \in Schedules /\ op[b].arg \in Timers
  /\ \A r \in Schedules : r # NONE /\ (handle[r] # 0 => handle[r] \in Timers)
  /\ \A t \in Timers : t # 0 /\ timer[t].id \in Schedules \cup {NONE}
  /\ Idle.pc = "idle" /\ Idle.s = NONE /\ Idle.call = "none"
  /\ NoFrame.at = "idle" /\ NoFrame.s = NONE /\ NoFrame.t = 0
  /\ frame.at # "idle" => frame.t \in Timers
  /\ frame.s # NONE => frame.t \in Timers /\ frame.at \in {"trigger", "rearm"}

\* Whose timer the callback runs for, and who else works on its schedule.
Around ==
  /\ \A r \in Kept : r \in Schedules /\ r # NONE
  /\ \A r \in Schedules : OnFrame(r) =>
       /\ frame.at # "idle" /\ frame.t \in Timers /\ handle[r] = frame.t /\ handle[r] # 0
       /\ frame.at \in {"trigger", "rearm"} => frame.s = r
  /\ op[Daemon].call = "rearm" \/ frame.at = "rearm" =>
       /\ op[Daemon].call = "rearm" /\ frame.at = "rearm" /\ frame.s = op[Daemon].s
       /\ frame.s \in Schedules /\ OnFrame(frame.s)
  /\ \A r \in Kept : \A b, d \in Actors : b # d /\ op[b].s = r /\ op[d].s = r /\ FrameAlone(r) =>
       \/ b = Daemon /\ op[b].call = "rearm" /\ op[d].call = "delete"
       \/ d = Daemon /\ op[d].call = "rearm" /\ op[b].call = "delete"
  /\ \A b \in Actors : /\ op[b].call = "delete" => op[b].pc \in DeletePcs
                       /\ op[b].call = "rearm" => op[b].pc \in RearmPcs

\* Of the schedule s that a step works on, h being its handle.
Known(s) ==
  s \in Kept /\ s \in Schedules /\ s # NONE /\ handle[s] \in 0..MaxTimers /\ next[s] \in Nat /\ now \in Nat
Callback(s, h) ==
  /\ h # 0 => h \in Timers
  /\ OnFrame(s) => /\ frame.at # "idle" /\ h = frame.t /\ h # 0
                   /\ frame.at \in {"trigger", "rearm"} => frame.s = s
  /\ op[Daemon].call = "rearm" /\ op[Daemon].s = s => frame.at = "rearm" /\ OnFrame(s)
  /\ OnFrame(s) /\ frame.at = "rearm" => op[Daemon].call = "rearm" /\ op[Daemon].s = s
  /\ Daemon \in Actors /\ \A b \in Actors : op[b].call = "rearm" => b = Daemon
\* Who else works on the schedule of a: only a deletion against a re-arm.
Company(a, s) == \A b \in Actors : b # a /\ op[b].s = s =>
  \/ b = Daemon /\ op[b].call = "rearm" /\ op[a].call = "delete" /\ op[b].pc \in RearmPcs
  \/ a = Daemon /\ op[a].call = "rearm" /\ op[b].call = "delete" /\ op[b].pc \in DeletePcs

\* What a step leaves as it is.
SameQueue ==
  QueueTyped' /\ commands' = commands /\ \A t \in Timers :
    /\ Mentions(t)' <=> Mentions(t)
    /\ Deletes(t)' <=> Deletes(t)
    /\ HasStop(t)' <=> HasStop(t)
    /\ LastStart(t)' <=> LastStart(t)
SameMemory(r) ==
  /\ mem'[r] = mem[r] /\ type'[r] = type[r] /\ next'[r] = next[r] /\ handle'[r] = handle[r]
  /\ stored'[r] = stored[r] /\ fires'[r] = fires[r]
  /\ (callback'[r] <=> callback[r]) /\ (off'[r] <=> off[r])
SameRun(h) ==
  /\ h # 0 => (EndsOn(h)' <=> EndsOn(h)) /\ (HasStop(h)' <=> HasStop(h))
  /\ h # 0 => timer'[h].state = timer[h].state /\ timer'[h].left = timer[h].left

USE DEF Parts, Plain, Around, Known, Callback, Company, SameQueue, SameMemory, SameRun,
        TimeShown, TimeCalled, TimeArmed,
        Over, OverDaemon, OverStored, OverLive, OverCalls, OverInit, OverCheck


\* Whose timer the callback runs for, and who else works on its schedule.
LEMMA Surroundings ==
  ASSUME ConstantsOK, TypeOK, OpOK, TimerOK, PublishOK, ShareOK, FrameOK, FrameOwn
  PROVE  Around
<1>0. Daemon \in Actors /\ NONE \notin Schedules /\ Kept \subseteq Schedules
  BY DEF Actors, ConstantsOK, Kept
<1>1. \A r \in Kept : r \in Schedules /\ r # NONE
  BY <1>0
<1>2. ASSUME NEW r \in Schedules, OnFrame(r)
      PROVE  /\ frame.at # "idle" /\ frame.t \in Timers /\ handle[r] = frame.t /\ handle[r] # 0
             /\ frame.at \in {"trigger", "rearm"} => frame.s = r
  <2>1. frame.at # "idle" /\ timer[frame.t].id = r
    BY <1>2 DEF OnFrame
  <2>2. frame.t \in Timers /\ frame.t # 0
    BY <2>1, SMT DEF FrameOK, Timers
  <2>3. timer[frame.t].id # NONE
    BY <2>1, <1>0
  <2>4. handle[r] = frame.t
    <3>1. \/ handle[r] = frame.t
          \/ \E a \in Actors : op[a].pc = "publish" /\ op[a].s = r /\ op[a].arg = frame.t
      BY <2>1, <2>2, <2>3 DEF TimerOK
    <3>2. \A a \in Actors : op[a].pc = "publish" => op[a].arg # frame.t
      BY DEF PublishOK
    <3> QED BY <3>1, <3>2
  <2>5. frame.at \in {"trigger", "rearm"} => frame.s = r
    BY <2>1, <2>3 DEF FrameOwn
  <2> QED BY <2>1, <2>2, <2>4, <2>5
<1>4. op[Daemon].call = "rearm" \/ frame.at = "rearm" =>
        /\ op[Daemon].call = "rearm" /\ frame.at = "rearm" /\ frame.s = op[Daemon].s
        /\ frame.s \in Schedules /\ OnFrame(frame.s)
  <2> SUFFICES ASSUME op[Daemon].call = "rearm" \/ frame.at = "rearm"
               PROVE  /\ op[Daemon].call = "rearm" /\ frame.at = "rearm" /\ frame.s = op[Daemon].s
                      /\ frame.s \in Schedules /\ OnFrame(frame.s)
    OBVIOUS
  <2>1. frame \in FrameSet /\ Idle.call = "none"
    BY DEF FrameOK, Idle
  <2>2. frame.at = "rearm"
    BY <2>1, SMT DEF FrameOK, FrameSet
  <2>3. op[Daemon].call = "rearm" /\ frame.s = op[Daemon].s /\ frame.s \in Schedules /\ ~deleted
    BY <2>2, SMT DEF FrameOK
  <2>4. timer[frame.t].id = frame.s
    BY <2>2, <2>3, SMT DEF FrameOK
  <2> QED BY <2>2, <2>3, <2>4 DEF OnFrame
<1>5. ASSUME NEW r \in Kept, NEW b \in Actors, NEW c \in Actors, b # c, op[b].s = r, op[c].s = r,
             FrameAlone(r)
      PROVE  \/ b = Daemon /\ op[b].call = "rearm" /\ op[c].call = "delete"
             \/ c = Daemon /\ op[c].call = "rearm" /\ op[b].call = "delete"
  <2>1. op[b].s # NONE
    BY <1>1, <1>5
  <2>2. /\ b = Daemon \/ c = Daemon
        /\ frame.s = r /\ handle[frame.s] = frame.t /\ timer[frame.t].id = frame.s
        /\ op[Daemon].call # "delete"
    BY <2>1, <1>5, Zenon DEF ShareOK
  <2>3. frame.at # "idle"
    BY <2>2, <1>1, SMT DEF FrameOK, NoFrame
  <2>4. OnFrame(r)
    BY <2>2, <2>3 DEF OnFrame
  <2>5. op[b].call \in {"delete", "rearm"} /\ op[c].call \in {"delete", "rearm"}
    BY <1>5, <2>4 DEF FrameAlone
  <2>6. \A a \in Actors : op[a].call = "rearm" => a = Daemon
    BY DEF OpOK
  <2> QED BY <1>5, <2>2, <2>5, <2>6
<1>6. \A b \in Actors : /\ op[b].call = "delete" => op[b].pc \in DeletePcs
                        /\ op[b].call = "rearm" => op[b].pc \in RearmPcs
  BY SMT DEF OpOK, PcOK, DeletePcs, RearmPcs
<1> QED BY <1>1, <1>2, <1>4, <1>5, <1>6


-----------------------------------------------------------------------------
(* What a step leaves alone.                                               *)

SameTimer(t) ==
  /\ timer'[t].id = timer[t].id /\ timer'[t].state = timer[t].state
  /\ (EndsOn(t)' <=> EndsOn(t)) /\ (HasStop(t)' <=> HasStop(t))
  /\ (StartsApart(t)' <=> StartsApart(t)) /\ (StopsFirst(t)' <=> StopsFirst(t))
  /\ timer'[t].left = timer[t].left \/ \A a \in Tasks : op[a].pc # "armed"

Unmoved(r) ==
  /\ \A b \in Actors : op[b].s = r \/ op'[b].s = r => op'[b] = op[b]
  /\ mem'[r] = mem[r] /\ type'[r] = type[r] /\ next'[r] = next[r] /\ handle'[r] = handle[r]
  /\ stored'[r] = stored[r] /\ fires'[r] = fires[r]
  /\ (callback'[r] <=> callback[r]) /\ (off'[r] <=> off[r])
  /\ (OnFrame(r)' <=> OnFrame(r)) /\ (OnFrame(r) => frame' = frame)
  /\ \A t \in Timers : handle[r] = t \/ timer'[t].id = r => SameTimer(t)

\* A schedule that a step does not touch stays as it is.
LEMMA Others ==
  ASSUME ConstantsOK, TypeOK, OpOK, TimerOK, PublishOK, ShareOK, FrameOK, FrameOwn,
         now' \in Nat, now <= now',
         NEW r \in Kept, Good(r), Unmoved(r)
  PROVE  Good(r)'
<1>0. /\ r \in Schedules /\ now \in Nat /\ next[r] \in Nat /\ stored[r] \in Nat \cup {NoEntry}
      /\ Delay[r] \in Nat /\ handle[r] \in 0..MaxTimers
  BY SMT DEF Kept, TypeOK, ConstantsOK
<1>1. \A b \in Actors : op[b].s = r \/ op'[b].s = r => op'[b] = op[b]
  BY DEF Unmoved
<1>2. /\ mem'[r] = mem[r] /\ type'[r] = type[r] /\ next'[r] = next[r] /\ handle'[r] = handle[r]
      /\ stored'[r] = stored[r] /\ fires'[r] = fires[r]
  BY DEF Unmoved
<1>3. (callback'[r] <=> callback[r]) /\ (off'[r] <=> off[r])
  BY DEF Unmoved
<1>4. (OnFrame(r)' <=> OnFrame(r)) /\ (OnFrame(r) => frame' = frame)
  BY DEF Unmoved
<1>5. \A t \in Timers : handle[r] = t \/ timer'[t].id = r => SameTimer(t)
  BY DEF Unmoved
<1>6. handle[r] # 0 => handle[r] \in Timers /\ SameTimer(handle[r])
  BY <1>0, <1>5, SMT DEF Timers
<1>7. HasNext(r)' <=> HasNext(r)
  BY <1>1, <1>2, SMT DEF HasNext
<1>8. OnFrame(r) => handle[r] = frame.t /\ frame.t # 0
                    /\ (frame.at = "rearm" => op'[Daemon] = op[Daemon])
  <2>1. Daemon \in Actors
    BY DEF Actors
  <2> QED BY <1>0, <1>1, <2>1, Surroundings, Zenon
<1>11. EnableOn(r)'
  BY <1>1, <1>3, SMT DEF Good, EnableOn, Actors
<1>12. EditKept(r)'
  BY <1>1, <1>2, SMT DEF Good, EditKept, Actors
<1>13. FrameAlone(r)'
  BY <1>1, <1>3, <1>4, SMT DEF Good, FrameAlone, Actors
<1>14. OffOK(r)'
  BY <1>1, <1>2, <1>3, <1>6, SMT DEF Good, OffOK, SameTimer, Actors
<1>15. FrameOff(r)'
  BY <1>2, <1>4, <1>6, <1>8, SMT DEF Good, FrameOff, SameTimer
<1>16. SettledOn(r)'
  BY <1>1, <1>2, <1>4, <1>6, <1>7, <1>8, SMT DEF Good, SettledOn, Settled, SameTimer, Actors
<1>17. HasTime(r)'
  BY <1>1, <1>2, <1>4, <1>6, <1>7, <1>8, SMT DEF Good, HasTime, SameTimer, Actors
<1>18. Alternate(r)'
  BY <1>5, SMT DEF Good, Alternate, SameTimer, Timers
<1>19. OnceTime(r)'
  BY <1>0, <1>2, SMT DEF Good, OnceTime, NoEntry
<1>20. NoCallback(r)'
  BY <1>1, <1>2, <1>3, SMT DEF Good, NoCallback, Actors
<1>21. StoredOK(r)'
  BY <1>1, <1>2, <1>3, SMT DEF Good, StoredOK, Actors
<1>22. FiredOK(r)'
  <2> DEFINE Base == /\ fires[r] = 1 /\ next[r] <= now
                     /\ stored[r] = NoEntry \/ stored[r] \in 1..now
  <2> SUFFICES ASSUME type[r] \in OneShot, ~off[r], fires[r] > 0
               PROVE  FiredOK(r)'
    BY <1>2, <1>3, SMT DEF FiredOK, OneShot
  <2>1. fires'[r] = 1 /\ next'[r] <= now' /\ (stored'[r] = NoEntry \/ stored'[r] \in 1..now')
    BY <1>0, <1>2, SMT DEF Good, FiredOK, NoEntry
  <2>2. handle'[r] # 0 => ~EndsOn(handle[r])'
    BY <1>2, <1>6 DEF Good, FiredOK, SameTimer
  <2>3. OnFrame(r)' => frame'.at # "enter"
    BY <1>4 DEF Good, FiredOK
  <2>4. op'[Daemon].s = r => op'[Daemon].pc \notin {"arm", "change"}
    BY <1>1 DEF Good, FiredOK, Actors
  <2>5. mem'[r] = "live" => callback'[r] \/ \E a \in Tasks : op'[a].s = r /\ op'[a].call = "init"
    <3>1. Tasks \subseteq Actors
      BY DEF Actors
    <3> QED BY <1>1, <1>2, <1>3, <3>1, Zenon DEF Good, FiredOK
  <2>6. \A a \in Actors : op'[a].s = r =>
       /\ op'[a].call \in {"delete", "rearm", "init"}
       /\ op'[a].call = "init" => op'[a].pc \in {"check", "erase", "free"}
       /\ op'[a].pc = "check" => next'[r] > 0
    BY <1>1, <1>2 DEF Good, FiredOK
  <2> QED BY <2>1, <2>2, <2>3, <2>4, <2>5, <2>6, Zenon DEF FiredOK, Actors
<1> QED BY <1>11, <1>12, <1>13, <1>14, <1>15, <1>16, <1>17, <1>18, <1>19, <1>20, <1>21, <1>22
        DEF Good


-----------------------------------------------------------------------------
(* What a command does to the timers as the invariant sees them.           *)

Kin(t) == timer'[t].id = timer[t].id /\ timer'[t].state = timer[t].state /\ timer'[t].left = timer[t].left

LEMMA TimersSame ==
  ASSUME QueueTyped, commands' = commands
  PROVE  \A t \in Timers : Kin(t) => SameTimer(t)
  BY Quiet, Zenon DEF Kin, SameTimer, EndsOn

LEMMA TimersStart ==
  ASSUME ConstantsOK, QueueTyped, Len(commands) <= QueueLen, NEW u \in Timers, NEW p \in 1..MaxPeriod,
         Post(Command("start", u, p)), ~Deletes(u)
  PROVE  /\ \A t \in Timers : Kin(t) /\ (t # u \/ Full) => SameTimer(t)
         /\ ~Full => /\ EndsOn(u)' /\ (HasStop(u)' <=> HasStop(u))
                     /\ StartsApart(u) /\ ~LastStart(u) => StartsApart(u)'
                     /\ StopsFirst(u) /\ HasStop(u) => StopsFirst(u)'
<1>1. \A t \in Timers : t # u \/ Full =>
              /\ HasStop(t)' <=> HasStop(t)
              /\ LastStart(t)' <=> LastStart(t)
              /\ StopsFirst(t)' <=> StopsFirst(t)
              /\ StartsApart(t)' <=> StartsApart(t)
  BY StartPosted, Zenon
<1>2. ~Full => /\ LastStart(u)' /\ (HasStop(u)' <=> HasStop(u))
               /\ StartsApart(u) /\ ~LastStart(u) => StartsApart(u)'
               /\ StopsFirst(u) /\ HasStop(u) => StopsFirst(u)'
  BY StartPosted, Zenon
<1>3. \A t \in Timers : Kin(t) /\ (t # u \/ Full) => SameTimer(t)
  BY <1>1, Zenon DEF Kin, SameTimer, EndsOn
<1> QED BY <1>2, <1>3 DEF EndsOn

LEMMA TimersStop ==
  ASSUME ConstantsOK, QueueTyped, Len(commands) <= QueueLen, NEW u \in Timers,
         Post(Command("stop", u, 0)), ~Deletes(u)
  PROVE  /\ \A t \in Timers : Kin(t) /\ (t # u \/ Full) => SameTimer(t)
         /\ ~Full => /\ ~EndsOn(u)' /\ HasStop(u)'
                     /\ StartsApart(u) => StartsApart(u)'
                     /\ StopsFirst(u) => StopsFirst(u)'
<1>1. \A t \in Timers : t # u \/ Full =>
              /\ HasStop(t)' <=> HasStop(t)
              /\ LastStart(t)' <=> LastStart(t)
              /\ StopsFirst(t)' <=> StopsFirst(t)
              /\ StartsApart(t)' <=> StartsApart(t)
  BY StopPosted, Zenon
<1>2. ~Full => /\ ~LastStart(u)' /\ HasStop(u)'
               /\ StartsApart(u) => StartsApart(u)'
               /\ StopsFirst(u) => StopsFirst(u)'
  BY StopPosted, Zenon
<1>3. \A t \in Timers : Kin(t) /\ (t # u \/ Full) => SameTimer(t)
  BY <1>1, Zenon DEF Kin, SameTimer, EndsOn
<1> QED BY <1>2, <1>3 DEF EndsOn

LEMMA TimersDelete ==
  ASSUME ConstantsOK, QueueTyped, Len(commands) <= QueueLen, NEW u \in Timers,
         Post(Command("delete", u, 0)), ~Deletes(u)
  PROVE  \A t \in Timers : Kin(t) => SameTimer(t)
<1>1. \A t \in Timers : /\ HasStop(t)' <=> HasStop(t)
                        /\ LastStart(t)' <=> LastStart(t)
                        /\ StopsFirst(t)' <=> StopsFirst(t)
                        /\ StartsApart(t)' <=> StartsApart(t)
  BY DeletePosted, Zenon
<1> QED BY <1>1, Zenon DEF Kin, SameTimer, EndsOn


-----------------------------------------------------------------------------
(* The next time of a schedule.                                            *)

LEMMA NoMultipleBetween ==
  ASSUME NEW d \in Nat \ {0}, NEW k \in Int, d * k < d, 0 - d < d * k
  PROVE  k = 0
<1>1. ~(k >= 1)
  <2> SUFFICES ASSUME k >= 1 PROVE FALSE
    OBVIOUS
  <2>1. d * k >= d * 1
    BY SMT
  <2> QED BY <2>1, SMT
<1>2. ~(k <= 0 - 1)
  <2> SUFFICES ASSUME k <= 0 - 1 PROVE FALSE
    OBVIOUS
  <2>1. d * k <= d * (0 - 1)
    BY SMT
  <2> QED BY <2>1, SMT
<1> QED BY <1>1, <1>2, SMT

LEMMA DivMod ==
  ASSUME NEW a \in Int, NEW d \in Nat \ {0}
  PROVE  a \div d \in Int /\ a % d \in 0..(d - 1) /\ a = d * (a \div d) + (a % d)
  BY SMT

\* An occurrence is the one multiple of the delay within a delay from now.
LEMMA NextOccurrence ==
  ASSUME ConstantsOK, NEW s \in Schedules, now \in Nat
  PROVE  /\ Occurrence(s) \in Nat /\ now < Occurrence(s) /\ Occurrence(s) <= now + Delay[s]
         /\ Occurrence(s) % Delay[s] = 0
         /\ \A n \in Nat : n % Delay[s] = 0 /\ now < n /\ n <= now + Delay[s] => n = Occurrence(s)
<1>1. PICK d \in Nat \ {0} : d = Delay[s]
  BY SMT DEF ConstantsOK
<1>2. PICK q \in Int : q = now \div d /\ now - d * q \in 0..(d - 1)
  <2>1. now \div d \in Int /\ now % d \in 0..(d - 1) /\ now = d * (now \div d) + (now % d)
    BY DivMod
  <2>2. PICK q \in Int, r \in 0..(d - 1) : q = now \div d /\ now = d * q + r
    BY <2>1
  <2>3. d * q \in Int /\ now - d * q = r
    BY <2>2, SMT
  <2> QED BY <2>2, <2>3
<1>3. PICK o \in Int : o = Occurrence(s) /\ o = d * (q + 1)
  <2>1. (q + 1) * d = d * (q + 1) /\ d * (q + 1) \in Int
    BY SMT
  <2> QED BY <1>1, <1>2, <2>1 DEF Occurrence
<1>4. now < o /\ o <= now + d
  <2>1. d * (q + 1) = d * q + d /\ d * q \in Int
    BY SMT
  <2> QED BY <1>2, <1>3, <2>1, SMT
<1>5. \A n \in Nat : n % d = 0 /\ now < n /\ n <= now + d => n = o
  <2> SUFFICES ASSUME NEW n \in Nat, n % d = 0, now < n, n <= now + d
               PROVE  n = o
    OBVIOUS
  <2>1. PICK m \in Int : n = d * m
    <3>1. n \div d \in Int /\ n = d * (n \div d) + (n % d)
      BY DivMod
    <3>2. PICK m \in Int : n = d * m + 0
      BY <3>1
    <3>3. d * m \in Int
      BY SMT
    <3> QED BY <3>2, <3>3, SMT
  <2>2. d * (m - (q + 1)) = n - o
    <3>1. d * (m - (q + 1)) = d * m - d * (q + 1)
      BY SMT
    <3> QED BY <3>1, <2>1, <1>3
  <2>3. d * (m - (q + 1)) < d /\ 0 - d < d * (m - (q + 1))
    BY <2>2, <1>4, SMT
  <2>4. m - (q + 1) = 0
    BY <2>3, NoMultipleBetween, m - (q + 1) \in Int
  <2>5. m = q + 1
    BY <2>4, SMT
  <2> QED BY <2>1, <2>5, <1>3
<1>6. o % d = 0
  <2>1. o \div d \in Int /\ o % d \in 0..(d - 1) /\ o = d * (o \div d) + (o % d)
    BY DivMod
  <2>2. PICK m \in Int, r \in 0..(d - 1) : r = o % d /\ o = d * m + r
    BY <2>1
  <2>3. d * ((q + 1) - m) = r
    <3>1. PICK k \in Int : k = d * m
      BY SMT
    <3>2. d * ((q + 1) - m) = d * (q + 1) - d * m
      BY SMT
    <3>3. d * ((q + 1) - m) = o - k /\ o = k + r
      BY <3>1, <3>2, <2>2, <1>3
    <3>4. o - k = r
      BY <3>3, SMT
    <3> QED BY <3>3, <3>4
  <2>4. (q + 1) - m = 0
    <3>1. d * ((q + 1) - m) < d /\ 0 - d < d * ((q + 1) - m)
      BY <2>2, <2>3, SMT
    <3> QED BY <3>1, NoMultipleBetween, (q + 1) - m \in Int
  <2>5. d * ((q + 1) - m) = 0
    BY <2>4, SMT
  <2> QED BY <2>2, <2>3, <2>5
<1> QED BY <1>1, <1>3, <1>4, <1>5, <1>6, SMT

\* A one-shot keeps its time until that has come.
LEMMA NextTimeRules ==
  ASSUME ConstantsOK, TypeOK, NEW s \in Schedules
  PROVE  /\ NextTime(s) \in Nat /\ (NextTime(s) # 0 => NextTime(s) > now)
         /\ type[s] = "relative" /\ next[s] > 0 => NextTime(s) \in {0, next[s]}
         /\ type[s] \in OneShot /\ next[s] > 0 /\ next[s] <= now => NextTime(s) = 0
         /\ type[s] = "once" /\ NextTime(s) # 0 =>
              /\ NextTime(s) % Delay[s] = 0 /\ NextTime(s) <= now + Delay[s]
              /\ (next[s] > 0 /\ next[s] % Delay[s] = 0 /\ next[s] <= now + Delay[s]
                   => NextTime(s) = next[s])
<1>1. now \in Nat /\ next[s] \in Nat /\ Delay[s] \in Nat /\ Delay[s] > 0
  BY SMT DEF TypeOK, ConstantsOK
<1>2. /\ Occurrence(s) \in Nat /\ now < Occurrence(s) /\ Occurrence(s) <= now + Delay[s]
      /\ Occurrence(s) % Delay[s] = 0
      /\ \A n \in Nat : n % Delay[s] = 0 /\ now < n /\ n <= now + Delay[s] => n = Occurrence(s)
  BY <1>1, NextOccurrence
<1>3. Target(s) \in Nat
  BY <1>1, <1>2 DEF Target
<1>4. NextTime(s) = 0 \/ (NextTime(s) = Target(s) /\ ~(Target(s) <= now) /\ ~FiredAndDone(s))
  BY DEF NextTime
<1>5. NextTime(s) \in Nat /\ (NextTime(s) # 0 => NextTime(s) > now)
  BY <1>1, <1>3, <1>4, SMT
<1>6. type[s] = "relative" /\ next[s] > 0 => NextTime(s) \in {0, next[s]}
  BY <1>1, <1>4, SMT DEF Target
<1>7. type[s] \in OneShot /\ next[s] > 0 /\ next[s] <= now => NextTime(s) = 0
  BY <1>4 DEF FiredAndDone
<1>8. ASSUME type[s] = "once", NextTime(s) # 0
      PROVE  /\ NextTime(s) % Delay[s] = 0 /\ NextTime(s) <= now + Delay[s]
             /\ (next[s] > 0 /\ next[s] % Delay[s] = 0 /\ next[s] <= now + Delay[s]
                  => NextTime(s) = next[s])
  <2>1. NextTime(s) = Occurrence(s) /\ ~FiredAndDone(s)
    BY <1>4, <1>8 DEF Target
  <2>2. next[s] > 0 => now < next[s]
    BY <2>1, <1>8, <1>1, SMT DEF FiredAndDone, OneShot
  <2> QED BY <1>1, <1>2, <2>1, <2>2
<1> QED BY <1>5, <1>6, <1>7, <1>8


-----------------------------------------------------------------------------
(* Memory, timers and the calls under way: each step keeps the first part  *)
(* of the invariant.                                                       *)

LEMMA Basics ==
  ASSUME ConstantsOK, TypeOK, OpOK, FrameOK
  PROVE  /\ \A b \in Actors : op[b].s \in Schedules \cup {NONE} /\ op[b].arg \in Nat
         /\ \A b \in Actors : op[b].s = NONE <=> op[b].pc \in {"idle", "load"}
         /\ \A b \in Actors : op[b].pc = "publish" => op[b].s \in Schedules /\ op[b].arg \in Timers
         /\ \A r \in Schedules : r # NONE /\ (handle[r] # 0 => handle[r] \in Timers)
         /\ \A t \in Timers : t # 0 /\ timer[t].id \in Schedules \cup {NONE}
         /\ Idle.pc = "idle" /\ Idle.s = NONE /\ Idle.call = "none"
         /\ NoFrame.at = "idle" /\ NoFrame.s = NONE /\ NoFrame.t = 0
         /\ frame.at # "idle" => frame.t \in Timers
         /\ frame.s # NONE => frame.t \in Timers /\ frame.at \in {"trigger", "rearm"}
<1>1. \A b \in Actors : op[b].s \in Schedules \cup {NONE} /\ op[b].arg \in Nat
  BY SMT DEF OpOK, OpSet
<1>2. \A b \in Actors : op[b].s = NONE <=> op[b].pc \in {"idle", "load"}
  BY DEF OpOK
<1>3. \A b \in Actors : op[b].pc = "publish" => op[b].s \in Schedules /\ op[b].arg \in Timers
  BY <1>1, <1>2, SMT DEF OpOK
<1>4. \A r \in Schedules : r # NONE /\ (handle[r] # 0 => handle[r] \in Timers)
  BY SMT DEF TypeOK, ConstantsOK, Timers
<1>5. \A t \in Timers : t # 0 /\ timer[t].id \in Schedules \cup {NONE}
  BY SMT DEF TypeOK, Timers
<1>6. /\ Idle.pc = "idle" /\ Idle.s = NONE /\ Idle.call = "none"
      /\ NoFrame.at = "idle" /\ NoFrame.s = NONE /\ NoFrame.t = 0
  BY DEF Idle, NoFrame
<1>7. frame.at # "idle" => frame.t \in Timers
  BY DEF FrameOK
<1>8. frame.s # NONE => frame.at \in {"trigger", "rearm"}
  BY SMT DEF FrameOK, FrameSet
<1> QED BY <1>1, <1>2, <1>3, <1>4, <1>5, <1>6, <1>7, <1>8

LEMMA StopKeeps ==
  ASSUME ConstantsOK, ~Preempted, IInv,
         NEW a \in Actors, Stop(a)
  PROVE  IInv'
<1>i. Parts
  BY DEF IInv, Part1
<1>g. Plain
  BY <1>i, Basics, Zenon
<1>s. PICK s : s = op[a].s
  OBVIOUS
<1>u. PICK u : u = handle[s]
  OBVIOUS
<1>p. s \in Schedules /\ op[a].pc = "stop" /\ PcOK(op[a].call, op[a].pc)
  BY <1>s, <1>i, <1>g, SMT DEF OpOK, Stop, At
<1>c. op[a].call \in {"enable", "disable", "rearm", "init"} /\ PcOK(op[a].call, "clear")
  BY <1>p, SMT DEF PcOK
<1>o. /\ op'[a].pc = "clear" /\ op'[a].call = op[a].call /\ op'[a].s = op[a].s /\ op'[a].arg = op[a].arg
      /\ \A b \in Actors : b # a => op'[b] = op[b]
  BY <1>i, GoneTo, Zenon DEF Stop, Pcs
<1>k. op' \in [Actors -> OpSet]
  BY <1>i, GoneTo, Zenon DEF Stop, Pcs
<1>q. /\ QueueTyped' /\ Len(commands') <= QueueLen
      /\ \A t \in Timers : t # u \/ Full =>
           /\ Mentions(t)' <=> Mentions(t)
           /\ Deletes(t)' <=> Deletes(t)
           /\ HasStop(t)' <=> HasStop(t)
           /\ LastStart(t)' <=> LastStart(t)
      /\ ~Full /\ u # 0 =>
           /\ Mentions(u)' /\ ~LastStart(u)' /\ HasStop(u)'
           /\ Deletes(u)' <=> Deletes(u)
  <2>1. CASE u = 0
    <3>1. commands' = commands
      BY <2>1, <1>s, <1>u DEF Stop
    <3>2. Len(commands') <= QueueLen
      BY <3>1, <1>i DEF TypeOK
    <3> QED BY <2>1, <3>1, <3>2, <1>i, <1>g, Quiet, Zenon
  <2>2. CASE u # 0
    <3>1. u \in Timers
      BY <1>p, <1>g, <1>u, <2>2, Zenon
    <3>2. Post(Command("stop", u, 0)) /\ ~Deletes(u) /\ Len(commands) <= QueueLen
      BY <1>s, <1>u, <1>p, <1>i, <2>2, Zenon DEF Stop, HandleOK, TypeOK
    <3> QED BY <2>2, <3>1, <3>2, <1>i, StopPosted, Zenon
  <2> QED BY <2>1, <2>2
<1>v. /\ now' = now /\ mem' = mem /\ type' = type /\ next' = next /\ callback' = callback
      /\ handle' = handle /\ stored' = stored /\ timer' = timer
      /\ frame' = frame /\ dispatching' = dispatching /\ deleted' = deleted
  BY DEF Stop, memVars, cbVars
<1>w. fires' = fires /\ off' = off /\ lost' = IF u # 0 /\ Full THEN lost \cup {s} ELSE lost
  BY <1>s, <1>u DEF Stop, Lose
<1>11. TypeOK'
  BY <1>i, <1>p, <1>q, <1>v, <1>w, Zenon DEF TypeOK, Timers
<1>12. OpOK'
  BY <1>i, <1>g, <1>s, <1>u, <1>p, <1>c, <1>o, <1>k, <1>v, SMT DEF OpOK, OpSet, Timers, Actors, Daemon
<1>13. TimerOK'
  BY <1>i, <1>g, <1>s, <1>u, <1>p, <1>c, <1>o, <1>v, SMT DEF TimerOK, Timers, Actors, Daemon
<1>14. HandleOK'
  BY <1>i, <1>g, <1>s, <1>u, <1>p, <1>c, <1>o, <1>q, <1>v, SMT DEF HandleOK, Actors, Daemon
<1>15. PublishOK'
  BY <1>i, <1>g, <1>s, <1>u, <1>p, <1>c, <1>o, <1>q, <1>v, SMT DEF PublishOK, EndsOn, HandleOK, Actors, Daemon
<1>16. WorkOK'
  BY <1>i, <1>g, <1>s, <1>u, <1>p, <1>c, <1>o, <1>v, SMT DEF WorkOK, Actors, Daemon
<1>17. ShareOK'
  BY <1>i, <1>g, <1>s, <1>u, <1>p, <1>c, <1>o, <1>v, SMT DEF ShareOK, Actors, Daemon
<1>18. FrameOK'
  BY <1>i, <1>g, <1>s, <1>u, <1>p, <1>c, <1>o, <1>v, SMT DEF FrameOK, FrameSet, Timers, Actors, Daemon
<1>19. QueueOK'
  BY <1>i, <1>g, <1>s, <1>u, <1>p, <1>c, <1>o, <1>q, <1>v, SMT DEF QueueOK, Timers, HandleOK, Actors, Daemon
<1>31. InitAlone /\ FrameOwn /\ \A r \in Kept : Good(r)
  BY DEF IInv
<1>32. Around
  BY <1>i, <1>31, Surroundings, Zenon
<1>33. 
      /\ \A t \in Timers : (t # u \/ Full) => SameTimer(t)
      /\ ~Full /\ u # 0 => /\ ~EndsOn(u)' /\ HasStop(u)'
                           /\ StartsApart(u) => StartsApart(u)'
                           /\ StopsFirst(u) => StopsFirst(u)' 
  <2>1. \A t \in Timers : Kin(t)
    BY <1>v DEF Kin
  <2>2. CASE u = 0
    <3>1. commands' = commands
      BY <2>2, <1>s, <1>u DEF Stop
    <3> QED BY <2>1, <2>2, <3>1, <1>i, TimersSame, Zenon
  <2>3. CASE u # 0
    <3>1. u \in Timers
      BY <1>p, <1>g, <1>u, <2>3, Zenon
    <3>2. Post(Command("stop", u, 0)) /\ ~Deletes(u) /\ Len(commands) <= QueueLen
      BY <1>s, <1>u, <1>p, <1>i, <2>3, Zenon DEF Stop, HandleOK, TypeOK
    <3> QED BY <2>1, <2>3, <3>1, <3>2, <1>i, TimersStop, Zenon
  <2> QED BY <2>2, <2>3
<1>34. now' \in Nat /\ now <= now' /\ Kept' \subseteq Kept
  BY <1>i, <1>v, <1>w, SMT DEF TypeOK, Kept
<1>41. 
      /\ u # 0 => \A r \in Schedules : handle[r] = u => r = s
      /\ u # 0 => timer[u].id \in {s, NONE} /\ timer[u].state \in {"dormant", "active"}
  BY <1>i, <1>u, <1>p, <1>g, SMT DEF HandleOK, Alive
<1>35. ASSUME NEW r \in Kept', r # s
      PROVE  Good(r)'
  <2>1. r \in Kept /\ r \in Schedules /\ r # NONE /\ Good(r)
    BY <1>31, <1>32, <1>34
  <2>2. \A b \in Actors : op[b].s = r \/ op'[b].s = r => op'[b] = op[b]
    BY <1>35, <2>1, <1>s, <1>p, <1>c, <1>o, <1>w, <1>41
  <2>3. SameMemory(r)
    BY <1>35, <2>1, <1>v, <1>w
  <2>4. (OnFrame(r)' <=> OnFrame(r)) /\ (OnFrame(r) => frame' = frame)
    BY <1>v, <1>41 DEF OnFrame
  <2>5. \A t \in Timers : handle[r] = t \/ timer'[t].id = r => SameTimer(t)
    BY <1>33, <1>35, <1>v, <1>41, <2>1, SMT DEF Timers
  <2>6. Unmoved(r)
    BY <2>2, <2>3, <2>4, <2>5 DEF Unmoved
  <2> QED BY <1>i, <1>31, <1>34, <2>1, <2>6, Others, Zenon
<1>36. ASSUME s \in Kept'
      PROVE  Good(s)'
  <2>1. Known(s)
    BY <1>32, <1>34, <1>36, <1>i, SMT DEF TypeOK
  <2> USE DEF Good
  <2>2. Good(s)
    BY <1>31, <2>1
  <2>h. PICK h : h = handle[s]
    OBVIOUS
  <2>3. Callback(s, h)
    BY <2>1, <2>h, <1>32, <1>i, SMT DEF Timers, Actors, OpOK
  <2>4. Company(a, s)
    BY <2>1, <2>2, <1>32, <1>s, Zenon
  <2>5. /\ h # 0 => ~EndsOn(h)' /\ HasStop(h)' /\ h = u /\ ~Full
        /\ h # 0 => timer'[h].state = timer[h].state /\ timer'[h].left = timer[h].left
    BY <2>1, <2>h, <1>33, <1>36, <1>u, <1>v, <1>w DEF Kept
  <2>6. (OnFrame(s)' <=> OnFrame(s)) /\ frame' = frame
    BY <1>v DEF OnFrame
  <2>7. OnFrame(s) => op[a].call = "rearm" /\ a = Daemon /\ frame.at = "rearm"
    BY <2>2, <2>3, <1>c, <1>s, SMT DEF FrameAlone
  <2>11. EnableOn(s)'
    BY <2>1, <2>2, <2>h, <2>3, <2>4, <1>v, <1>s, <1>p, <1>c, <1>o, <1>w, SMT DEF EnableOn, DeletePcs, RearmPcs
  <2>12. EditKept(s)'
    BY <2>1, <2>2, <2>h, <2>3, <2>4, <1>v, <1>s, <1>p, <1>c, <1>o, <1>w, SMT DEF EditKept, DeletePcs, RearmPcs
  <2>13. FrameAlone(s)'
    BY <2>1, <2>2, <2>h, <2>3, <2>4, <2>6, <1>v, <1>s, <1>p, <1>c, <1>o, <1>w, <2>7, SMT DEF FrameAlone, DeletePcs, RearmPcs
  <2>14. OffOK(s)'
    BY <2>1, <2>2, <2>h, <2>3, <2>4, <2>5, <1>v, <1>s, <1>p, <1>c, <1>o, <1>w, SMT DEF OffOK, DeletePcs, RearmPcs
  <2>15. FrameOff(s)'
    BY <2>1, <2>2, <2>h, <2>3, <2>4, <2>5, <2>6, <1>v, <1>s, <1>p, <1>c, <1>o, <1>w, <2>7, SMT DEF FrameOff, DeletePcs, RearmPcs
  <2>16. SettledOn(s)'
    BY <2>1, <2>2, <2>h, <2>3, <2>4, <2>5, <2>6, <1>v, <1>s, <1>p, <1>c, <1>o, <1>w, <2>7, SMT DEF SettledOn, Settled, HasNext, DeletePcs, RearmPcs
  <2>17. HasTime(s)'
    <3>1. TimeShown(s)'
      BY <2>h, <2>5, <1>v, SMT
    <3>2. TimeCalled(s)'
      BY <2>6, <2>7, <1>o, <1>s, <1>v, SMT
    <3>3. TimeArmed(s)'
      BY <2>2, <2>4, <1>c, <1>o, <1>s, <1>v, SMT DEF DeletePcs
    <3> QED BY <3>1, <3>2, <3>3, Zenon DEF HasTime
  <2>18. Alternate(s)'
    <3>0. \A t \in Timers : timer[t].id = s => StartsApart(t) /\ (timer[t].state = "active" => StopsFirst(t))
      BY <2>2 DEF Alternate
    <3>1. ASSUME NEW t \in Timers, timer'[t].id = s
          PROVE  StartsApart(t)' /\ (timer'[t].state = "active" => StopsFirst(t)')
      <4>1. CASE t # u \/ Full
        BY <3>0, <3>1, <4>1, <1>33, <1>v DEF SameTimer
      <4>2. CASE ~(t # u \/ Full)
        BY <3>0, <3>1, <4>2, <1>33, <1>g, <1>v
      <4> QED BY <4>1, <4>2
    <3> QED BY <3>1 DEF Alternate
  <2>19. OnceTime(s)'
    BY <2>1, <2>2, <2>h, <2>3, <2>4, <1>v, <1>s, <1>p, <1>c, <1>o, <1>w, SMT DEF OnceTime, DeletePcs, RearmPcs
  <2>20. NoCallback(s)'
    BY <2>1, <2>2, <2>h, <2>3, <2>4, <1>v, <1>s, <1>p, <1>c, <1>o, <1>w, SMT DEF NoCallback, DeletePcs, RearmPcs
  <2>21. StoredOK(s)'
    BY <2>1, <2>2, <2>h, <2>3, <2>4, <1>v, <1>s, <1>p, <1>c, <1>o, <1>w, SMT DEF StoredOK, OneShot, DeletePcs, RearmPcs
  <2>22. FiredOK(s)'
    <3> SUFFICES ASSUME type[s] \in OneShot, ~off[s], fires[s] > 0
                 PROVE  FiredOK(s)'
      BY <1>v, <1>w, SMT DEF FiredOK, OneShot
    <3>0. Over(s, h)
      BY <2>2, <2>h DEF FiredOK
    <3>1. (fires[s] = 1 /\ next[s] <= now)'
      BY <3>0, <1>v, <1>w
    <3>2. (handle[s] # 0 => ~EndsOn(handle[s]))'
      BY <2>h, <2>5, <1>v, SMT
    <3>3. (OnFrame(s) => frame.at # "enter")'
      BY <3>0, <2>6
    <3>4. OverDaemon(s)'
      BY <3>0, <2>3, <1>o, <1>s, <1>p, SMT
    <3>5. OverStored(s)'
      BY <3>0, <1>v
    <3>6. OverLive(s)'
      BY <3>0, <1>v, <1>o, <1>s, SMT DEF Actors
    <3>7. OverCalls(s)'
      BY <3>0, <1>o, <1>s, SMT
    <3>8. OverInit(s)'
      BY <3>0, <1>p, <1>o, <1>s, SMT
    <3>9. OverCheck(s)'
      BY <3>0, <1>p, <1>v, <1>o, <1>s, SMT
    <3> QED BY <3>1, <3>2, <3>3, <3>4, <3>5, <3>6, <3>7, <3>8, <3>9, Zenon DEF FiredOK
  <2> QED BY <2>11, <2>12, <2>13, <2>14, <2>15, <2>16, <2>17, <2>18, <2>19, <2>20, <2>21, <2>22, Zenon
<1>37. \A r \in Kept' : Good(r)'
  BY <1>35, <1>36
<1>21. InitAlone'
  BY <1>31, <1>o, <1>v, <1>w, SMT DEF InitAlone, Actors
<1>22. FrameOwn'
  BY <1>31, <1>v, <1>41 DEF FrameOwn
<1> QED
  BY <1>q, <1>11, <1>12, <1>13, <1>14, <1>15, <1>16, <1>17, <1>18, <1>19, <1>21, <1>22, <1>37 DEF IInv, Part1

LEMMA ClearKeeps ==
  ASSUME ConstantsOK, ~Preempted, IInv,
         NEW a \in Actors, Clear(a)
  PROVE  IInv'
<1>i. Parts
  BY DEF IInv, Part1
<1>g. Plain
  BY <1>i, Basics, Zenon
<1>s. PICK s : s = op[a].s
  OBVIOUS
<1>p. s \in Schedules /\ op[a].pc = "clear" /\ PcOK(op[a].call, op[a].pc)
  BY <1>s, <1>i, <1>g, SMT DEF OpOK, Clear, At
<1>c. op[a].call \in {"enable", "disable", "rearm", "init"} /\ PcOK(op[a].call, "armed")
  BY <1>p, SMT DEF PcOK
<1>o. /\ op'[a].pc = "armed" /\ op'[a].call = op[a].call /\ op'[a].s = op[a].s /\ op'[a].arg = op[a].arg
      /\ \A b \in Actors : b # a => op'[b] = op[b]
  BY <1>i, GoneTo, Zenon DEF Clear, Pcs
<1>k. op' \in [Actors -> OpSet]
  BY <1>i, GoneTo, Zenon DEF Clear, Pcs
<1>q. SameQueue
  <2>1. commands' = commands
    BY DEF Clear, memVars, timerVars, cbVars, ghosts
  <2> QED BY <2>1, <1>i, Quiet, Zenon
<1>v. now' = now /\ mem' = mem /\ type' = type /\ callback' = callback /\ handle' = handle /\ stored' = stored /\ timer' = timer /\ frame' = frame /\ dispatching' = dispatching /\ deleted' = deleted /\ fires' = fires /\ off' = off /\ lost' = lost
  BY DEF Clear, memVars, timerVars, cbVars, ghosts
<1>w. next' \in [Schedules -> Nat]
  BY <1>i, <1>s, <1>p, SMT DEF Clear, TypeOK
<1>11. TypeOK'
  BY <1>i, <1>p, <1>q, <1>v, <1>w, Zenon DEF TypeOK, Timers
<1>12. OpOK'
  BY <1>i, <1>g, <1>s, <1>p, <1>c, <1>o, <1>k, <1>v, SMT DEF OpOK, OpSet, Timers, Actors, Daemon
<1>13. TimerOK'
  BY <1>i, <1>g, <1>s, <1>p, <1>c, <1>o, <1>v, SMT DEF TimerOK, Timers, Actors, Daemon
<1>14. HandleOK'
  BY <1>i, <1>g, <1>s, <1>p, <1>c, <1>o, <1>q, <1>v, SMT DEF HandleOK, Actors, Daemon
<1>15. PublishOK'
  BY <1>i, <1>g, <1>s, <1>p, <1>c, <1>o, <1>q, <1>v, SMT DEF PublishOK, EndsOn, Actors, Daemon
<1>16. WorkOK'
  BY <1>i, <1>g, <1>s, <1>p, <1>c, <1>o, <1>v, SMT DEF WorkOK, Actors, Daemon
<1>17. ShareOK'
  BY <1>i, <1>g, <1>s, <1>p, <1>c, <1>o, <1>v, SMT DEF ShareOK, Actors, Daemon
<1>18. FrameOK'
  BY <1>i, <1>g, <1>s, <1>p, <1>c, <1>o, <1>v, SMT DEF FrameOK, FrameSet, Timers, Actors, Daemon
<1>19. QueueOK'
  BY <1>i, <1>g, <1>s, <1>p, <1>c, <1>o, <1>q, <1>v, SMT DEF QueueOK, Timers, Actors, Daemon
<1>31. InitAlone /\ FrameOwn /\ \A r \in Kept : Good(r)
  BY DEF IInv
<1>32. Around
  BY <1>i, <1>31, Surroundings, Zenon
<1>33. \A t \in Timers : SameTimer(t)
  <2>1. commands' = commands
    BY <1>q
  <2>2. \A t \in Timers : Kin(t)
    BY <1>v DEF Kin
  <2> QED BY <2>1, <2>2, <1>i, TimersSame, Zenon
<1>34. now' \in Nat /\ now <= now' /\ Kept' \subseteq Kept
  BY <1>i, <1>v, SMT DEF TypeOK, Kept
<1>41. 
      /\ \A r \in Schedules : r # s => next'[r] = next[r]
      /\ next'[s] = 0
  BY <1>i, <1>s, <1>p, SMT DEF Clear, TypeOK
<1>35. ASSUME NEW r \in Kept', r # s
      PROVE  Good(r)'
  <2>1. r \in Kept /\ r \in Schedules /\ r # NONE /\ Good(r)
    BY <1>31, <1>32, <1>34
  <2>2. \A b \in Actors : op[b].s = r \/ op'[b].s = r => op'[b] = op[b]
    BY <1>35, <2>1, <1>s, <1>p, <1>c, <1>o, <1>41
  <2>3. SameMemory(r)
    BY <1>35, <2>1, <1>v, <1>41
  <2>4. (OnFrame(r)' <=> OnFrame(r)) /\ (OnFrame(r) => frame' = frame)
    BY <1>v, <1>41 DEF OnFrame
  <2>5. \A t \in Timers : handle[r] = t \/ timer'[t].id = r => SameTimer(t)
    BY <1>33, <1>41
  <2>6. Unmoved(r)
    BY <2>2, <2>3, <2>4, <2>5 DEF Unmoved
  <2> QED BY <1>i, <1>31, <1>34, <2>1, <2>6, Others, Zenon
<1>36. ASSUME s \in Kept'
      PROVE  Good(s)'
  <2>1. Known(s)
    BY <1>32, <1>34, <1>36, <1>i, SMT DEF TypeOK
  <2> USE DEF Good
  <2>2. Good(s)
    BY <1>31, <2>1
  <2>h. PICK h : h = handle[s]
    OBVIOUS
  <2>3. Callback(s, h)
    BY <2>1, <2>h, <1>32, <1>i, SMT DEF Timers, Actors, OpOK
  <2>4. Company(a, s)
    BY <2>1, <2>2, <1>32, <1>s, Zenon
  <2>5. SameRun(h)
    BY <2>3, <1>33, <1>v DEF SameTimer
  <2>6. (OnFrame(s)' <=> OnFrame(s)) /\ frame' = frame
    BY <1>v DEF OnFrame
  <2>7. OnFrame(s) => op[a].call = "rearm" /\ a = Daemon /\ frame.at = "rearm"
    BY <2>2, <2>3, <1>c, <1>s, SMT DEF FrameAlone
  <2>8. h # 0 => ~EndsOn(h) /\ (timer[h].state = "dormant" \/ HasStop(h))
    BY <2>1, <2>2, <2>h, <1>p, <1>s, <1>i, SMT DEF OffOK, EndsOn, HandleOK, Alive
  <2>11. EnableOn(s)'
    BY <2>1, <2>2, <2>h, <2>3, <2>4, <1>v, <1>s, <1>p, <1>c, <1>o, SMT DEF EnableOn, DeletePcs, RearmPcs
  <2>12. EditKept(s)'
    BY <2>1, <2>2, <2>h, <2>3, <2>4, <1>v, <1>s, <1>p, <1>c, <1>o, <1>41, SMT DEF EditKept, DeletePcs, RearmPcs
  <2>13. FrameAlone(s)'
    BY <2>1, <2>2, <2>h, <2>3, <2>4, <2>6, <1>v, <1>s, <1>p, <1>c, <1>o, <2>7, SMT DEF FrameAlone, DeletePcs, RearmPcs
  <2>14. OffOK(s)'
    BY <2>1, <2>2, <2>h, <2>3, <2>4, <2>5, <1>v, <1>s, <1>p, <1>c, <1>o, <2>8, SMT DEF OffOK, DeletePcs, RearmPcs
  <2>15. FrameOff(s)'
    BY <2>1, <2>2, <2>h, <2>3, <2>4, <2>5, <2>6, <1>v, <1>s, <1>p, <1>c, <1>o, <2>7, SMT DEF FrameOff, DeletePcs, RearmPcs
  <2>16. SettledOn(s)'
    BY <2>4, <1>41, <1>c, <1>o, <1>s, SMT DEF SettledOn, Settled, HasNext, DeletePcs
  <2>17. HasTime(s)'
    <3>1. TimeShown(s)'
      BY <2>h, <2>5, <2>8, <1>v, SMT
    <3>2. TimeCalled(s)'
      BY <2>6, <2>7, <1>o, <1>s, <1>v, SMT
    <3>3. TimeArmed(s)'
      BY <2>2, <2>4, <1>c, <1>o, <1>s, <1>v, SMT DEF DeletePcs
    <3> QED BY <3>1, <3>2, <3>3, Zenon DEF HasTime
  <2>18. Alternate(s)'
    BY <2>1, <2>2, <2>h, <2>3, <2>4, <1>33, <1>v, <1>s, <1>p, <1>c, <1>o, <1>41, SMT DEF Alternate, SameTimer, DeletePcs, RearmPcs
  <2>19. OnceTime(s)'
    BY <2>1, <2>2, <2>h, <2>3, <2>4, <1>v, <1>s, <1>p, <1>c, <1>o, <1>41, SMT DEF OnceTime, DeletePcs, RearmPcs
  <2>20. NoCallback(s)'
    BY <2>1, <2>2, <2>h, <2>3, <2>4, <1>v, <1>s, <1>p, <1>c, <1>o, SMT DEF NoCallback, DeletePcs, RearmPcs
  <2>21. StoredOK(s)'
    BY <2>1, <2>2, <2>h, <2>3, <2>4, <1>v, <1>s, <1>p, <1>c, <1>o, <1>41, SMT DEF StoredOK, OneShot, DeletePcs, RearmPcs
  <2>22. FiredOK(s)'
    <3> SUFFICES ASSUME type[s] \in OneShot, ~off[s], fires[s] > 0
                 PROVE  FiredOK(s)'
      BY <1>v, SMT DEF FiredOK, OneShot
    <3>0. Over(s, h)
      BY <2>2, <2>h DEF FiredOK
    <3>1. (fires[s] = 1 /\ next[s] <= now)'
      BY <3>0, <2>1, <1>41, <1>v, SMT
    <3>2. (handle[s] # 0 => ~EndsOn(handle[s]))'
      BY <3>0, <2>h, <2>5, <1>v, SMT
    <3>3. (OnFrame(s) => frame.at # "enter")'
      BY <3>0, <2>6
    <3>4. OverDaemon(s)'
      BY <3>0, <2>3, <1>o, <1>s, <1>p, SMT
    <3>5. OverStored(s)'
      BY <3>0, <1>v
    <3>6. OverLive(s)'
      BY <3>0, <1>v, <1>o, <1>s, SMT DEF Actors
    <3>7. OverCalls(s)'
      BY <3>0, <1>o, <1>s, SMT
    <3>8. OverInit(s)'
      BY <3>0, <1>p, <1>o, <1>s, SMT
    <3>9. OverCheck(s)'
      BY <3>0, <2>4, <1>c, <1>o, <1>s, SMT DEF DeletePcs
    <3> QED BY <3>1, <3>2, <3>3, <3>4, <3>5, <3>6, <3>7, <3>8, <3>9, Zenon DEF FiredOK
  <2> QED BY <2>11, <2>12, <2>13, <2>14, <2>15, <2>16, <2>17, <2>18, <2>19, <2>20, <2>21, <2>22, Zenon
<1>37. \A r \in Kept' : Good(r)'
  BY <1>35, <1>36
<1>21. InitAlone'
  BY <1>31, <1>v, <1>s, <1>p, <1>c, <1>o, <1>41, SMT DEF InitAlone, Actors, Daemon
<1>22. FrameOwn'
  BY <1>31, <1>v, <1>41 DEF FrameOwn
<1> QED
  BY <1>q, <1>11, <1>12, <1>13, <1>14, <1>15, <1>16, <1>17, <1>18, <1>19, <1>21, <1>22, <1>37 DEF IInv, Part1

LEMMA ComputeKeeps ==
  ASSUME ConstantsOK, ~Preempted, IInv,
         NEW a \in Actors, Compute(a)
  PROVE  IInv'
<1>i. Parts
  BY DEF IInv, Part1
<1>g. Plain
  BY <1>i, Basics, Zenon
<1>s. PICK s : s = op[a].s
  OBVIOUS
<1>p. s \in Schedules /\ op[a].pc = "compute" /\ PcOK(op[a].call, op[a].pc)
  BY <1>s, <1>i, <1>g, SMT DEF OpOK, Compute, At
<1>c. op[a].call \in {"enable", "rearm", "init"} /\ PcOK(op[a].call, "arm") /\ PcOK(op[a].call, "stop")
  BY <1>p, SMT DEF PcOK
<1>o. /\ op'[a].pc \in {"arm", "stop"} /\ op'[a].call = op[a].call /\ op'[a].s = op[a].s
      /\ op'[a].pc = "arm" => op'[a].arg > 0
      /\ \A b \in Actors : b # a => op'[b] = op[b]
      /\ op' \in [Actors -> OpSet]
  <2>1. CASE now = 0 \/ NextTime(s) = 0
    <3>1. GoTo(a, "stop")
      BY <2>1, <1>s DEF Compute, GiveUp
    <3>2. "stop" \in Pcs
      BY DEF Pcs
    <3> QED BY <3>1, <3>2, <1>i, GoneTo, SMT
  <2>2. CASE ~(now = 0 \/ NextTime(s) = 0)
    <3>1. op' = [op EXCEPT ![a].pc = "arm", ![a].arg = NextTime(s) - now]
      BY <2>2, <1>s DEF Compute
    <3>2. NextTime(s) - now \in Nat /\ NextTime(s) - now > 0
      <4>1. NextTime(s) \in Nat /\ (NextTime(s) # 0 => NextTime(s) > now)
        BY <1>p, <1>i, NextTimeRules, Zenon
      <4>2. now \in Nat
        BY <1>i, SMT DEF TypeOK
      <4> QED BY <4>1, <4>2, <2>2, SMT
    <3> DEFINE n == NextTime(s) - now
    <3> HIDE DEF n
    <3>3. op' = [op EXCEPT ![a].pc = "arm", ![a].arg = n] /\ n \in Nat /\ n > 0 /\ "arm" \in Pcs
      BY <3>1, <3>2 DEF n, Pcs
    <3> QED BY <3>3, <1>i, GoneToWith, Zenon
  <2> QED BY <2>1, <2>2
<1>k. /\ op'[a].pc \in {"arm", "stop"} /\ op'[a].call = op[a].call /\ op'[a].s = op[a].s
      /\ \A b \in Actors : b # a => op'[b] = op[b]
  BY <1>o
<1>q. SameQueue
  <2>1. commands' = commands
    BY DEF Compute, memVars, timerVars, cbVars, ghosts
  <2> QED BY <2>1, <1>i, Quiet, Zenon
<1>v. now' = now /\ mem' = mem /\ type' = type /\ callback' = callback /\ handle' = handle /\ stored' = stored /\ timer' = timer /\ frame' = frame /\ dispatching' = dispatching /\ deleted' = deleted /\ fires' = fires /\ off' = off /\ lost' = lost
  BY DEF Compute, memVars, timerVars, cbVars, ghosts
<1>w. next' \in [Schedules -> Nat]
  <2>1. NextTime(s) \in Nat
    BY <1>p, <1>i, NextTimeRules, Zenon
  <2>2. \E v \in Nat : next' = [next EXCEPT ![s] = v]
    BY <2>1, <1>i, <1>s, <1>p, SMT DEF Compute, TypeOK
  <2>3. next \in [Schedules -> Nat]
    BY <1>i DEF TypeOK
  <2> QED BY <2>2, <2>3, <1>p, SMT
<1>11. TypeOK'
  BY <1>i, <1>p, <1>q, <1>v, <1>w, Zenon DEF TypeOK, Timers
<1>12. OpOK'
  BY <1>i, <1>g, <1>s, <1>p, <1>c, <1>o, <1>v, SMT DEF OpOK, OpSet, Timers, Actors, Daemon
<1>13. TimerOK'
  BY <1>i, <1>g, <1>s, <1>p, <1>c, <1>k, <1>v, SMT DEF TimerOK, Timers, Actors, Daemon
<1>14. HandleOK'
  BY <1>i, <1>g, <1>s, <1>p, <1>c, <1>k, <1>q, <1>v, SMT DEF HandleOK, Actors, Daemon
<1>15. PublishOK'
  BY <1>i, <1>g, <1>s, <1>p, <1>c, <1>k, <1>q, <1>v, SMT DEF PublishOK, EndsOn, Actors, Daemon
<1>16. WorkOK'
  BY <1>i, <1>g, <1>s, <1>p, <1>c, <1>k, <1>v, SMT DEF WorkOK, Actors, Daemon
<1>17. ShareOK'
  BY <1>i, <1>g, <1>s, <1>p, <1>c, <1>k, <1>v, SMT DEF ShareOK, Actors, Daemon
<1>18. FrameOK'
  BY <1>i, <1>g, <1>s, <1>p, <1>c, <1>k, <1>v, SMT DEF FrameOK, FrameSet, Timers, Actors, Daemon
<1>19. QueueOK'
  BY <1>i, <1>g, <1>s, <1>p, <1>c, <1>k, <1>q, <1>v, SMT DEF QueueOK, Timers, Actors, Daemon
<1>31. InitAlone /\ FrameOwn /\ \A r \in Kept : Good(r)
  BY DEF IInv
<1>32. Around
  BY <1>i, <1>31, Surroundings, Zenon
<1>33. \A t \in Timers : SameTimer(t)
  <2>1. commands' = commands
    BY <1>q
  <2>2. \A t \in Timers : Kin(t)
    BY <1>v DEF Kin
  <2> QED BY <2>1, <2>2, <1>i, TimersSame, Zenon
<1>34. now' \in Nat /\ now <= now' /\ Kept' \subseteq Kept
  BY <1>i, <1>v, SMT DEF TypeOK, Kept
<1>41. 
      /\ \A r \in Schedules : r # s => next'[r] = next[r]
      /\ \/ now = 0 /\ next'[s] = next[s] /\ op'[a].pc = "stop"
         \/ now # 0 /\ next'[s] = NextTime(s) /\ (op'[a].pc = "stop" <=> NextTime(s) = 0)
  <2>0. next \in [Schedules -> Nat] /\ now \in Nat
    BY <1>i, SMT DEF TypeOK
  <2>1. CASE now = 0 \/ NextTime(s) = 0
    <3>1. GoTo(a, "stop") /\ next' = [next EXCEPT ![s] = IF now = 0 THEN next[s] ELSE 0]
      BY <2>1, <1>s DEF Compute, GiveUp
    <3>2. op'[a].pc = "stop"
      BY <3>1, <1>i, GoneTo, Zenon DEF Pcs
    <3> QED BY <2>0, <2>1, <3>1, <3>2, <1>p
  <2>2. CASE ~(now = 0 \/ NextTime(s) = 0)
    <3>1. next' = [next EXCEPT ![s] = NextTime(s)] /\ op' = [op EXCEPT ![a].pc = "arm", ![a].arg = NextTime(s) - now]
      BY <2>2, <1>s DEF Compute
    <3>2. op'[a].pc # "stop"
      BY <3>1, <1>i, SMT DEF OpOK, OpSet
    <3> QED BY <2>0, <2>2, <3>1, <3>2, <1>p
  <2> QED BY <2>1, <2>2
<1>42. 
      /\ NextTime(s) \in Nat /\ (NextTime(s) # 0 => NextTime(s) > now)
      /\ type[s] = "relative" /\ next[s] > 0 => NextTime(s) \in {0, next[s]}
      /\ type[s] \in OneShot /\ next[s] > 0 /\ next[s] <= now => NextTime(s) = 0
      /\ type[s] = "once" /\ NextTime(s) # 0 =>
           /\ NextTime(s) % Delay[s] = 0 /\ NextTime(s) <= now + Delay[s]
           /\ (next[s] > 0 /\ next[s] % Delay[s] = 0 /\ next[s] <= now + Delay[s]
                => NextTime(s) = next[s])
  BY <1>i, <1>p, NextTimeRules, Zenon
<1>35. ASSUME NEW r \in Kept', r # s
      PROVE  Good(r)'
  <2>1. r \in Kept /\ r \in Schedules /\ r # NONE /\ Good(r)
    BY <1>31, <1>32, <1>34
  <2>2. \A b \in Actors : op[b].s = r \/ op'[b].s = r => op'[b] = op[b]
    BY <1>35, <2>1, <1>s, <1>p, <1>o, <1>k, <1>41
  <2>3. SameMemory(r)
    BY <1>35, <2>1, <1>v, <1>41
  <2>4. (OnFrame(r)' <=> OnFrame(r)) /\ (OnFrame(r) => frame' = frame)
    BY <1>v, <1>41 DEF OnFrame
  <2>5. \A t \in Timers : handle[r] = t \/ timer'[t].id = r => SameTimer(t)
    BY <1>33, <1>41
  <2>6. Unmoved(r)
    BY <2>2, <2>3, <2>4, <2>5 DEF Unmoved
  <2> QED BY <1>i, <1>31, <1>34, <2>1, <2>6, Others, Zenon
<1>36. ASSUME s \in Kept'
      PROVE  Good(s)'
  <2>1. Known(s)
    BY <1>32, <1>34, <1>36, <1>i, SMT DEF TypeOK
  <2> USE DEF Good
  <2>2. Good(s)
    BY <1>31, <2>1
  <2>h. PICK h : h = handle[s]
    OBVIOUS
  <2>3. Callback(s, h)
    BY <2>1, <2>h, <1>32, <1>i, SMT DEF Timers, Actors, OpOK
  <2>4. Company(a, s)
    BY <2>1, <2>2, <1>32, <1>s, Zenon
  <2>5. SameRun(h)
    BY <2>3, <1>33, <1>v DEF SameTimer
  <2>6. (OnFrame(s)' <=> OnFrame(s)) /\ frame' = frame
    BY <1>v DEF OnFrame
  <2>7. h # 0 => ~EndsOn(h)
    BY <2>2, <2>h, <2>3, <1>c, <1>s, <1>p, SMT DEF OffOK, FrameOff, OpOK
  <2>8. op[a].call = "rearm" => OnFrame(s) /\ a = Daemon /\ frame.at = "rearm" /\ next[s] > 0
    BY <2>2, <2>3, <1>i, <1>c, <1>s, <1>p, SMT DEF HasTime, OpOK
  <2>9. op'[a].pc = "arm" => next'[s] > 0
    BY <1>41, <1>42, <1>k, SMT
  <2>11. EnableOn(s)'
    BY <2>1, <2>2, <2>h, <2>3, <2>4, <1>v, <1>s, <1>p, <1>o, <1>k, SMT DEF EnableOn, DeletePcs, RearmPcs
  <2>12. EditKept(s)'
    BY <2>1, <2>2, <2>h, <2>3, <2>4, <1>v, <1>s, <1>p, <1>o, <1>k, <1>41, SMT DEF EditKept, DeletePcs, RearmPcs
  <2>13. FrameAlone(s)'
    BY <2>1, <2>2, <2>h, <2>3, <2>4, <2>6, <1>v, <1>s, <1>p, <1>o, <1>k, SMT DEF FrameAlone, DeletePcs, RearmPcs
  <2>14. OffOK(s)'
    BY <2>1, <2>2, <2>h, <2>3, <2>4, <2>5, <1>v, <1>s, <1>p, <1>o, <1>k, SMT DEF OffOK, DeletePcs, RearmPcs
  <2>15. FrameOff(s)'
    BY <2>1, <2>2, <2>h, <2>3, <2>4, <2>5, <2>6, <1>v, <1>s, <1>p, <1>o, <1>k, SMT DEF FrameOff, DeletePcs, RearmPcs
  <2>16. SettledOn(s)'
    BY <2>1, <2>2, <2>h, <2>3, <2>4, <2>5, <2>6, <1>v, <1>s, <1>p, <1>o, <1>k, <1>41, SMT DEF SettledOn, Settled, HasNext, DeletePcs, RearmPcs
  <2>17. HasTime(s)'
    <3>1. TimeShown(s)'
      BY <2>h, <2>3, <2>5, <2>7, <1>v, SMT
    <3>2. TimeCalled(s)'
      BY <2>2, <2>3, <2>6, <2>8, <2>9, <1>c, <1>k, <1>s, SMT DEF FrameAlone
    <3>3. TimeArmed(s)'
      BY <2>4, <2>9, <1>c, <1>k, <1>s, SMT DEF DeletePcs
    <3> QED BY <3>1, <3>2, <3>3, Zenon DEF HasTime
  <2>18. Alternate(s)'
    BY <2>1, <2>2, <2>h, <2>3, <2>4, <1>33, <1>v, <1>s, <1>p, <1>o, <1>k, <1>41, SMT DEF Alternate, SameTimer, DeletePcs, RearmPcs
  <2>19. OnceTime(s)'
    BY <2>1, <2>2, <2>h, <2>3, <2>4, <1>v, <1>s, <1>p, <1>o, <1>k, <1>41, <1>42, SMT DEF OnceTime, DeletePcs, RearmPcs
  <2>20. NoCallback(s)'
    BY <2>1, <2>2, <2>h, <2>3, <2>4, <1>v, <1>s, <1>p, <1>o, <1>k, SMT DEF NoCallback, DeletePcs, RearmPcs
  <2>21. StoredOK(s)'
    <3> SUFFICES ASSUME type[s] \in OneShot, ~off[s], callback[s], next'[s] > 0,
                        \A b \in Actors : op[b].s = s => op[b].call # "enable"
                 PROVE  stored[s] \in {NoEntry, next'[s]}
      BY <1>k, <1>v, SMT DEF StoredOK
    <3>1. op[a].call = "rearm"
      BY <1>s, <1>c, <2>2 DEF NoCallback
    <3>2. next[s] > 0 /\ stored[s] \in {NoEntry, next[s]}
      BY <3>1, <2>2, <2>8 DEF StoredOK
    <3>3. next'[s] \in {0, next[s]}
      BY <3>2, <2>2, <1>41, <1>42, SMT DEF OneShot, OnceTime
    <3> QED BY <3>2, <3>3, SMT DEF NoEntry
  <2>22. FiredOK(s)'
    <3> SUFFICES ASSUME type[s] \in OneShot, ~off[s], fires[s] > 0
                 PROVE  FiredOK(s)'
      BY <1>v, SMT DEF FiredOK, OneShot
    <3>0. Over(s, h)
      BY <2>2, <2>h DEF FiredOK
    <3>10. op[a].call = "rearm" /\ next[s] > 0 /\ next[s] <= now
      BY <1>s, <1>c, <1>p, <2>2, <2>8, SMT DEF FiredOK
    <3>12. NextTime(s) = 0
      BY <3>10, <1>42
    <3>13. op'[a].pc = "stop" /\ (next'[s] = 0 \/ next'[s] = next[s]) /\ now \in Nat
      BY <3>12, <1>41, <1>34, <1>v
    <3>11. op'[a].pc = "stop" /\ next'[s] <= now /\ next'[s] >= 0
      BY <3>10, <3>13, <2>1, SMT
    <3>1. (fires[s] = 1 /\ next[s] <= now)'
      BY <3>0, <3>11, <1>v
    <3>2. (handle[s] # 0 => ~EndsOn(handle[s]))'
      BY <2>h, <2>5, <2>7, <1>v, SMT
    <3>3. (OnFrame(s) => frame.at # "enter")'
      BY <3>0, <2>6
    <3>4. OverDaemon(s)'
      BY <3>0, <3>11, <2>8, <3>10, <1>k
    <3>5. OverStored(s)'
      BY <3>0, <1>v
    <3>6. OverLive(s)'
      BY <3>0, <1>v, <1>k, <1>s, SMT DEF Actors
    <3>7. OverCalls(s)'
      BY <3>0, <1>k, <1>s, SMT
    <3>8. OverInit(s)'
      BY <3>0, <3>10, <1>k, <1>s, SMT
    <3>9. OverCheck(s)'
      BY <3>0, <3>10, <3>11, <2>4, <1>k, <1>s, SMT DEF DeletePcs
    <3> QED BY <3>1, <3>2, <3>3, <3>4, <3>5, <3>6, <3>7, <3>8, <3>9, Zenon DEF FiredOK
  <2> QED BY <2>11, <2>12, <2>13, <2>14, <2>15, <2>16, <2>17, <2>18, <2>19, <2>20, <2>21, <2>22, Zenon
<1>37. \A r \in Kept' : Good(r)'
  BY <1>35, <1>36
<1>21. InitAlone'
  BY <1>31, <1>v, <1>s, <1>p, <1>o, <1>k, <1>41, SMT DEF InitAlone, Actors, Daemon
<1>22. FrameOwn'
  BY <1>31, <1>v, <1>41 DEF FrameOwn
<1> QED
  BY <1>q, <1>11, <1>12, <1>13, <1>14, <1>15, <1>16, <1>17, <1>18, <1>19, <1>21, <1>22, <1>37 DEF IInv, Part1

LEMMA PublishKeeps ==
  ASSUME ConstantsOK, ~Preempted, IInv,
         NEW a \in Actors, Publish(a)
  PROVE  IInv'
<1>i. Parts
  BY DEF IInv, Part1
<1>g. Plain
  BY <1>i, Basics, Zenon
<1>s. PICK s : s = op[a].s
  OBVIOUS
<1>u. PICK u : u = op[a].arg
  OBVIOUS
<1>p. s \in Schedules /\ op[a].pc = "publish" /\ PcOK(op[a].call, op[a].pc)
  BY <1>s, <1>i, <1>g, SMT DEF OpOK, Publish, At
<1>c. op[a].call \in {"enable", "init"} /\ PcOK(op[a].call, "armed")
  BY <1>p, SMT DEF PcOK
<1>o. /\ op'[a].pc = "armed" /\ op'[a].call = op[a].call /\ op'[a].s = op[a].s /\ op'[a].arg = op[a].arg
      /\ \A b \in Actors : b # a => op'[b] = op[b]
  BY <1>i, GoneTo, Zenon DEF Publish, Pcs
<1>k. op' \in [Actors -> OpSet]
  BY <1>i, GoneTo, Zenon DEF Publish, Pcs
<1>q. SameQueue
  <2>1. commands' = commands
    BY DEF Publish, memVars, timerVars, cbVars, ghosts
  <2> QED BY <2>1, <1>i, Quiet, Zenon
<1>v. now' = now /\ mem' = mem /\ type' = type /\ next' = next /\ callback' = callback /\ stored' = stored /\ timer' = timer /\ frame' = frame /\ dispatching' = dispatching /\ deleted' = deleted /\ fires' = fires /\ off' = off /\ lost' = lost
  BY DEF Publish, memVars, timerVars, cbVars, ghosts
<1>w. /\ handle' = [handle EXCEPT ![s] = u] /\ u \in Timers /\ u = op[a].arg /\ handle[s] = 0
      /\ timer[u].id = s /\ ~Deletes(u)
  BY <1>i, <1>s, <1>u, <1>p, <1>g, Zenon DEF Publish, PublishOK
<1>h. /\ handle'[s] = u /\ \A r \in Schedules : r # s => handle'[r] = handle[r]
  BY <1>w, <1>i, <1>p, SMT DEF TypeOK
<1>n. \A b \in Actors : b # a => op[b].s # s
  BY <1>w, <1>i, <1>s, <1>p, <1>g, SMT DEF ShareOK, FrameOK, FrameSet
<1>m. handle' \in [Schedules -> 0..MaxTimers]
  <2>1. u \in 0..MaxTimers
    BY <1>w, SMT DEF Timers, ConstantsOK
  <2>2. handle \in [Schedules -> 0..MaxTimers]
    BY <1>i DEF TypeOK
  <2> QED BY <2>1, <2>2, <1>w, <1>p, SMT
<1>11. TypeOK'
  BY <1>i, <1>p, <1>q, <1>v, <1>m, Zenon DEF TypeOK, Timers
<1>12. OpOK'
  BY <1>i, <1>g, <1>s, <1>p, <1>c, <1>o, <1>k, <1>v, <1>h, <1>n, SMT DEF OpOK, OpSet, Timers, Actors, Daemon
<1>13. TimerOK'
  BY <1>i, <1>g, <1>s, <1>p, <1>c, <1>o, <1>v, <1>w, <1>h, <1>n, SMT DEF TimerOK, Timers, Actors, Daemon
<1>14. HandleOK'
  BY <1>i, <1>g, <1>s, <1>p, <1>c, <1>o, <1>q, <1>v, <1>w, <1>h, <1>n, SMT DEF HandleOK, TimerOK, Actors, Daemon
<1>15. PublishOK'
  BY <1>i, <1>g, <1>s, <1>p, <1>c, <1>o, <1>q, <1>v, <1>w, <1>h, <1>n, SMT DEF PublishOK, EndsOn, Actors, Daemon
<1>16. WorkOK'
  BY <1>i, <1>g, <1>s, <1>p, <1>c, <1>o, <1>v, <1>w, <1>h, <1>n, SMT DEF WorkOK, Actors, Daemon
<1>17. ShareOK'
  BY <1>i, <1>g, <1>s, <1>p, <1>c, <1>o, <1>v, <1>w, <1>h, <1>n, SMT DEF ShareOK, Actors, Daemon
<1>18. FrameOK'
  BY <1>i, <1>g, <1>s, <1>p, <1>c, <1>o, <1>v, <1>w, <1>h, <1>n, SMT DEF FrameOK, FrameSet, Timers, Actors, Daemon
<1>19. QueueOK'
  BY <1>i, <1>g, <1>s, <1>p, <1>c, <1>o, <1>q, <1>v, <1>w, <1>h, <1>n, SMT DEF QueueOK, Timers, Actors, Daemon
<1>31. InitAlone /\ FrameOwn /\ \A r \in Kept : Good(r)
  BY DEF IInv
<1>32. Around
  BY <1>i, <1>31, Surroundings, Zenon
<1>33. \A t \in Timers : SameTimer(t)
  <2>1. commands' = commands
    BY <1>q
  <2>2. \A t \in Timers : Kin(t)
    BY <1>v DEF Kin
  <2> QED BY <2>1, <2>2, <1>i, TimersSame, Zenon
<1>34. now' \in Nat /\ now <= now' /\ Kept' \subseteq Kept
  BY <1>i, <1>v, SMT DEF TypeOK, Kept
<1>41. 
      /\ EndsOn(u) /\ ~HasStop(u) /\ timer[u].id = s /\ frame.t # u /\ u # 0
      /\ a # Daemon => timer[u].state = "dormant" \/ timer[u].left > 0
  BY <1>i, <1>s, <1>u, <1>p, <1>w, <1>g, Zenon DEF PublishOK
<1>42. ~off[s] \/ ~(s \in Kept)
  <2>1. CASE op[a].call = "enable"
    BY <2>1, <1>31, <1>s, Zenon DEF Good, EnableOn
  <2>2. CASE op[a].call = "init"
    <3>1. a \in Tasks
      BY <2>2, <1>i, SMT DEF OpOK, Actors
    <3> QED BY <2>2, <3>1, <1>31, <1>p DEF InitAlone
  <2> QED BY <2>1, <2>2, <1>c
<1>35. ASSUME NEW r \in Kept', r # s
      PROVE  Good(r)'
  <2>1. r \in Kept /\ r \in Schedules /\ r # NONE /\ Good(r)
    BY <1>31, <1>32, <1>34
  <2>2. \A b \in Actors : op[b].s = r \/ op'[b].s = r => op'[b] = op[b]
    BY <1>35, <2>1, <1>s, <1>p, <1>c, <1>o
  <2>3. SameMemory(r)
    BY <1>35, <2>1, <1>v, <1>h
  <2>4. (OnFrame(r)' <=> OnFrame(r)) /\ (OnFrame(r) => frame' = frame)
    BY <1>v DEF OnFrame
  <2>5. \A t \in Timers : handle[r] = t \/ timer'[t].id = r => SameTimer(t)
    BY <1>33
  <2>6. Unmoved(r)
    BY <2>2, <2>3, <2>4, <2>5 DEF Unmoved
  <2> QED BY <1>i, <1>31, <1>34, <2>1, <2>6, Others, Zenon
<1>36. ASSUME s \in Kept'
      PROVE  Good(s)'
  <2>1. Known(s)
    BY <1>32, <1>34, <1>36, <1>i, SMT DEF TypeOK
  <2> USE DEF Good
  <2>2. Good(s)
    BY <1>31, <2>1
  <2>h. PICK h : h = handle[s]
    OBVIOUS
  <2>3. Callback(s, h)
    BY <2>1, <2>h, <1>32, <1>i, SMT DEF Timers, Actors, OpOK
  <2>4. \A b \in Actors : b # a => op[b].s # s
    BY <1>n
  <2>5. /\ h = 0 /\ handle'[s] = u /\ EndsOn(u)' /\ timer'[u].state = timer[u].state /\ timer'[u].left = timer[u].left
        /\ ~OnFrame(s) /\ next[s] > 0
    BY <2>1, <2>2, <2>3, <2>h, <1>s, <1>p, <1>h, <1>w, <1>v, <1>33, <1>41, SMT DEF SameTimer, HasTime
  <2>6. (OnFrame(s)' <=> OnFrame(s)) /\ frame' = frame
    BY <1>v DEF OnFrame
  <2>11. EnableOn(s)'
    BY <2>1, <2>2, <2>h, <2>3, <2>4, <1>v, <1>s, <1>p, <1>c, <1>o, SMT DEF EnableOn, DeletePcs, RearmPcs
  <2>12. EditKept(s)'
    BY <2>1, <2>2, <2>h, <2>3, <2>4, <1>v, <1>s, <1>p, <1>c, <1>o, SMT DEF EditKept, DeletePcs, RearmPcs
  <2>13. FrameAlone(s)'
    BY <2>1, <2>2, <2>h, <2>3, <2>4, <2>6, <1>v, <1>s, <1>p, <1>c, <1>o, SMT DEF FrameAlone, DeletePcs, RearmPcs
  <2>14. OffOK(s)'
    BY <2>1, <2>2, <2>h, <2>3, <2>4, <2>5, <1>v, <1>s, <1>p, <1>c, <1>o, <1>42, <1>41, SMT DEF OffOK, DeletePcs, RearmPcs
  <2>15. FrameOff(s)'
    BY <2>1, <2>2, <2>h, <2>3, <2>4, <2>5, <2>6, <1>v, <1>s, <1>p, <1>c, <1>o, SMT DEF FrameOff, DeletePcs, RearmPcs
  <2>16. SettledOn(s)'
    BY <2>1, <2>2, <2>h, <2>3, <2>4, <2>5, <2>6, <1>v, <1>s, <1>p, <1>c, <1>o, SMT DEF SettledOn, Settled, HasNext, DeletePcs, RearmPcs
  <2>17. HasTime(s)'
    <3>1. TimeShown(s)'
      BY <2>5, <1>v, SMT DEF HasNext
    <3>2. TimeCalled(s)'
      BY <2>5, <2>6, SMT
    <3>3. TimeArmed(s)'
      BY <2>4, <1>o, <1>s, <1>v, SMT
    <3> QED BY <3>1, <3>2, <3>3, Zenon DEF HasTime
  <2>18. Alternate(s)'
    BY <2>1, <2>2, <2>h, <2>3, <2>4, <1>33, <1>v, <1>s, <1>p, <1>c, <1>o, SMT DEF Alternate, SameTimer, DeletePcs, RearmPcs
  <2>19. OnceTime(s)'
    BY <2>1, <2>2, <2>h, <2>3, <2>4, <1>v, <1>s, <1>p, <1>c, <1>o, SMT DEF OnceTime, DeletePcs, RearmPcs
  <2>20. NoCallback(s)'
    BY <2>1, <2>2, <2>h, <2>3, <2>4, <1>v, <1>s, <1>p, <1>c, <1>o, SMT DEF NoCallback, DeletePcs, RearmPcs
  <2>21. StoredOK(s)'
    BY <2>1, <2>2, <2>h, <2>3, <2>4, <1>v, <1>s, <1>p, <1>c, <1>o, SMT DEF StoredOK, OneShot, DeletePcs, RearmPcs
  <2>22. FiredOK(s)'
    <3>1. ~(type[s] \in OneShot /\ ~off[s] /\ fires[s] > 0)
      BY <2>2, <1>s, <1>p, <1>c, SMT DEF FiredOK
    <3> QED BY <3>1, <1>v, SMT DEF FiredOK, OneShot
  <2> QED BY <2>11, <2>12, <2>13, <2>14, <2>15, <2>16, <2>17, <2>18, <2>19, <2>20, <2>21, <2>22, Zenon
<1>37. \A r \in Kept' : Good(r)'
  BY <1>35, <1>36
<1>21. InitAlone'
  BY <1>31, <1>v, <1>s, <1>p, <1>c, <1>o, SMT DEF InitAlone, Actors, Daemon
<1>22. FrameOwn'
  BY <1>31, <1>v DEF FrameOwn
<1> QED
  BY <1>q, <1>11, <1>12, <1>13, <1>14, <1>15, <1>16, <1>17, <1>18, <1>19, <1>21, <1>22, <1>37 DEF IInv, Part1

LEMMA RebindKeeps ==
  ASSUME ConstantsOK, ~Preempted, IInv,
         NEW a \in Actors, Rebind(a)
  PROVE  IInv'
<1>i. Parts
  BY DEF IInv, Part1
<1>g. Plain
  BY <1>i, Basics, Zenon
<1>s. PICK s : s = op[a].s
  OBVIOUS
<1>u. PICK u : u = handle[s]
  OBVIOUS
<1>p. s \in Schedules /\ op[a].pc = "arm" /\ PcOK(op[a].call, op[a].pc)
  BY <1>s, <1>i, <1>g, SMT DEF OpOK, Rebind, At
<1>r. u # 0 /\ op[a].arg \in Nat /\ op[a].arg > 0
  BY <1>s, <1>u, <1>g, <1>p, <1>i, Zenon DEF Rebind, OpOK
<1>c. op[a].call \in {"enable", "rearm"} /\ PcOK(op[a].call, "change") /\ PcOK(op[a].call, "stop")
  <2>1. op[a].call # "init"
    BY <1>p, <1>s, <1>r, <1>u, <1>i, <1>g, Zenon DEF WorkOK
  <2> QED BY <2>1, <1>p, SMT DEF PcOK
<1>o. /\ op'[a].pc \in {"change", "stop"} /\ op'[a].call = op[a].call /\ op'[a].s = op[a].s /\ op'[a].arg = op[a].arg
      /\ \A b \in Actors : b # a => op'[b] = op[b]
  <2>1. (GoTo(a, "change") \/ GoTo(a, "stop")) /\ "change" \in Pcs /\ "stop" \in Pcs
    BY DEF Rebind, GiveUp, Pcs
  <2> QED BY <2>1, <1>i, GoneTo, Zenon
<1>k. op' \in [Actors -> OpSet]
  <2>1. (GoTo(a, "change") \/ GoTo(a, "stop")) /\ "change" \in Pcs /\ "stop" \in Pcs
    BY DEF Rebind, GiveUp, Pcs
  <2> QED BY <2>1, <1>i, GoneTo, Zenon
<1>q. SameQueue
  <2>1. commands' = commands
    BY DEF Rebind, memVars, cbVars, ghosts
  <2> QED BY <2>1, <1>i, Quiet, Zenon
<1>v. now' = now /\ mem' = mem /\ type' = type /\ next' = next /\ callback' = callback /\ handle' = handle /\ stored' = stored /\ frame' = frame /\ dispatching' = dispatching /\ deleted' = deleted /\ fires' = fires /\ off' = off /\ lost' = lost
  BY DEF Rebind, memVars, cbVars, ghosts
<1>w. \A t \in Timers : /\ timer'[t].state = timer[t].state /\ timer'[t].left = timer[t].left
                           /\ timer'[t].id = timer[t].id /\ timer'[t].priv = timer[t].priv
  <2>1. CASE timer[u].id = NONE
    BY <2>1, <1>s, <1>u DEF Rebind
  <2>2. CASE timer[u].id # NONE
    <3>1. timer[u].id = s
      BY <2>2, <1>u, <1>p, <1>s, <1>i, SMT DEF HandleOK, Rebind
    <3>2. timer' = [timer EXCEPT ![u].remaining = op[a].arg - Clamp(op[a].arg), ![u].id = s]
      BY <2>2, <1>s, <1>u DEF Rebind
    <3>3. timer \in [Timers -> TimerSet]
      BY <1>i DEF TypeOK, TimerSet
    <3> QED BY <3>1, <3>2, <3>3, <1>p, <1>g, <1>u, <1>s, <1>r, Rebound, Zenon DEF Rebind
  <2> QED BY <2>1, <2>2
<1>11. TypeOK'
  <2>1. CASE timer[u].id = NONE
    <3>1. timer' = timer
      BY <2>1, <1>s, <1>u DEF Rebind
    <3> QED BY <3>1, <1>i, <1>q, <1>v, SMT DEF TypeOK, Timers
  <2>2. CASE timer[u].id # NONE
    <3>2. timer' = [timer EXCEPT ![u].remaining = op[a].arg - Clamp(op[a].arg), ![u].id = s]
      BY <2>2, <1>s, <1>u DEF Rebind
    <3>3. timer \in [Timers -> TimerSet]
      BY <1>i DEF TypeOK, TimerSet
    <3>4. timer' \in [Timers -> TimerSet]
      BY <3>2, <3>3, <1>p, <1>g, <1>u, <1>r, Rebound, Zenon
    <3> QED BY <3>4, <1>i, <1>q, <1>v, SMT DEF TypeOK, Timers, TimerSet
  <2> QED BY <2>1, <2>2
<1>12. OpOK'
  BY <1>i, <1>g, <1>s, <1>u, <1>p, <1>r, <1>c, <1>o, <1>k, <1>v, SMT DEF OpOK, OpSet, Timers, Actors, Daemon
<1>13. TimerOK'
  BY <1>i, <1>g, <1>s, <1>u, <1>p, <1>r, <1>c, <1>o, <1>v, <1>w, SMT DEF TimerOK, Timers, Actors, Daemon
<1>14. HandleOK'
  BY <1>i, <1>g, <1>s, <1>u, <1>p, <1>r, <1>c, <1>o, <1>q, <1>v, <1>w, SMT DEF HandleOK, Actors, Daemon
<1>15. PublishOK'
  BY <1>i, <1>g, <1>s, <1>u, <1>p, <1>r, <1>c, <1>o, <1>q, <1>v, <1>w, SMT DEF PublishOK, EndsOn, Actors, Daemon
<1>16. WorkOK'
  BY <1>i, <1>g, <1>s, <1>u, <1>p, <1>r, <1>c, <1>o, <1>v, <1>w, SMT DEF WorkOK, Actors, Daemon
<1>17. ShareOK'
  BY <1>i, <1>g, <1>s, <1>u, <1>p, <1>r, <1>c, <1>o, <1>v, <1>w, SMT DEF ShareOK, Actors, Daemon
<1>18. FrameOK'
  BY <1>i, <1>g, <1>s, <1>u, <1>p, <1>r, <1>c, <1>o, <1>v, <1>w, SMT DEF FrameOK, FrameSet, Timers, Actors, Daemon
<1>19. QueueOK'
  BY <1>i, <1>g, <1>s, <1>u, <1>p, <1>r, <1>c, <1>o, <1>q, <1>v, <1>w, SMT DEF QueueOK, Timers, Actors, Daemon
<1>31. InitAlone /\ FrameOwn /\ \A r \in Kept : Good(r)
  BY DEF IInv
<1>32. Around
  BY <1>i, <1>31, Surroundings, Zenon
<1>33. \A t \in Timers : SameTimer(t)
  <2>1. commands' = commands
    BY <1>q
  <2>2. \A t \in Timers : Kin(t)
    BY <1>w DEF Kin
  <2> QED BY <2>1, <2>2, <1>i, TimersSame, Zenon
<1>34. now' \in Nat /\ now <= now' /\ Kept' \subseteq Kept
  BY <1>i, <1>v, SMT DEF TypeOK, Kept
<1>41. \A t \in Timers : timer'[t].id = timer[t].id
  BY <1>w
<1>35. ASSUME NEW r \in Kept', r # s
      PROVE  Good(r)'
  <2>1. r \in Kept /\ r \in Schedules /\ r # NONE /\ Good(r)
    BY <1>31, <1>32, <1>34
  <2>2. \A b \in Actors : op[b].s = r \/ op'[b].s = r => op'[b] = op[b]
    BY <1>35, <2>1, <1>s, <1>p, <1>c, <1>o, <1>41
  <2>3. SameMemory(r)
    BY <1>35, <2>1, <1>v, <1>41
  <2>4. (OnFrame(r)' <=> OnFrame(r)) /\ (OnFrame(r) => frame' = frame)
    BY <1>v, <1>41, <1>g DEF OnFrame
  <2>5. \A t \in Timers : handle[r] = t \/ timer'[t].id = r => SameTimer(t)
    BY <1>33, <1>41
  <2>6. Unmoved(r)
    BY <2>2, <2>3, <2>4, <2>5 DEF Unmoved
  <2> QED BY <1>i, <1>31, <1>34, <2>1, <2>6, Others, Zenon
<1>36. ASSUME s \in Kept'
      PROVE  Good(s)'
  <2>1. Known(s)
    BY <1>32, <1>34, <1>36, <1>i, SMT DEF TypeOK
  <2> USE DEF Good
  <2>2. Good(s)
    BY <1>31, <2>1
  <2>h. PICK h : h = handle[s]
    OBVIOUS
  <2>3. Callback(s, h)
    BY <2>1, <2>h, <1>32, <1>i, SMT DEF Timers, Actors, OpOK
  <2>4. Company(a, s)
    BY <2>1, <2>2, <1>32, <1>s, Zenon
  <2>5. SameRun(h)
    BY <2>3, <1>33, <1>v, <1>w DEF SameTimer
  <2>6. (OnFrame(s)' <=> OnFrame(s)) /\ frame' = frame
    BY <1>v, <1>41, <1>g DEF OnFrame
  <2>7. OnFrame(s) => op[a].call = "rearm" /\ a = Daemon /\ frame.at = "rearm"
    BY <2>2, <2>3, <1>c, <1>s, SMT DEF FrameAlone
  <2>8. h # 0 => ~EndsOn(h)
    BY <2>2, <2>h, <2>3, <1>c, <1>s, <1>p, SMT DEF OffOK, FrameOff
  <2>9. next[s] > 0
    BY <2>2, <1>s, <1>p, SMT DEF HasTime
  <2>11. EnableOn(s)'
    BY <2>1, <2>2, <2>h, <2>3, <2>4, <1>v, <1>s, <1>p, <1>c, <1>o, SMT DEF EnableOn, DeletePcs, RearmPcs
  <2>12. EditKept(s)'
    BY <2>1, <2>2, <2>h, <2>3, <2>4, <1>v, <1>s, <1>p, <1>c, <1>o, SMT DEF EditKept, DeletePcs, RearmPcs
  <2>13. FrameAlone(s)'
    BY <2>1, <2>2, <2>h, <2>3, <2>4, <2>6, <1>v, <1>s, <1>p, <1>c, <1>o, <2>7, SMT DEF FrameAlone, DeletePcs, RearmPcs
  <2>14. OffOK(s)'
    BY <2>1, <2>2, <2>h, <2>3, <2>4, <2>5, <1>v, <1>s, <1>p, <1>c, <1>o, SMT DEF OffOK, DeletePcs, RearmPcs
  <2>15. FrameOff(s)'
    BY <2>1, <2>2, <2>h, <2>3, <2>4, <2>5, <2>6, <1>v, <1>s, <1>p, <1>c, <1>o, <2>7, SMT DEF FrameOff, DeletePcs, RearmPcs
  <2>16. SettledOn(s)'
    BY <2>1, <2>2, <2>h, <2>3, <2>4, <2>5, <2>6, <1>v, <1>s, <1>p, <1>c, <1>o, <2>7, SMT DEF SettledOn, Settled, HasNext, DeletePcs, RearmPcs
  <2>17. HasTime(s)'
    <3>1. TimeShown(s)'
      BY <2>h, <2>5, <2>8, <1>v, SMT
    <3>2. TimeCalled(s)'
      BY <2>9, <1>v
    <3>3. TimeArmed(s)'
      BY <2>9, <1>v
    <3> QED BY <3>1, <3>2, <3>3, Zenon DEF HasTime
  <2>18. Alternate(s)'
    BY <2>2, <1>33, <1>w, SMT DEF Alternate, SameTimer
  <2>19. OnceTime(s)'
    BY <2>1, <2>2, <2>h, <2>3, <2>4, <1>v, <1>s, <1>p, <1>c, <1>o, SMT DEF OnceTime, DeletePcs, RearmPcs
  <2>20. NoCallback(s)'
    BY <2>1, <2>2, <2>h, <2>3, <2>4, <1>v, <1>s, <1>p, <1>c, <1>o, SMT DEF NoCallback, DeletePcs, RearmPcs
  <2>21. StoredOK(s)'
    BY <2>1, <2>2, <2>h, <2>3, <2>4, <1>v, <1>s, <1>p, <1>c, <1>o, SMT DEF StoredOK, OneShot, DeletePcs, RearmPcs
  <2>22. FiredOK(s)'
    <3>1. ~(type[s] \in OneShot /\ ~off[s] /\ fires[s] > 0)
      BY <2>2, <2>3, <1>s, <1>p, <1>c, SMT DEF FiredOK
    <3> QED BY <3>1, <1>v, SMT DEF FiredOK, OneShot
  <2> QED BY <2>11, <2>12, <2>13, <2>14, <2>15, <2>16, <2>17, <2>18, <2>19, <2>20, <2>21, <2>22, Zenon
<1>37. \A r \in Kept' : Good(r)'
  BY <1>35, <1>36
<1>21. InitAlone'
  BY <1>31, <1>v, <1>s, <1>p, <1>c, <1>o, <1>41, SMT DEF InitAlone, Actors, Daemon
<1>22. FrameOwn'
  BY <1>31, <1>v, <1>41, <1>g DEF FrameOwn
<1> QED
  BY <1>q, <1>11, <1>12, <1>13, <1>14, <1>15, <1>16, <1>17, <1>18, <1>19, <1>21, <1>22, <1>37 DEF IInv, Part1

LEMMA ChangePeriodKeeps ==
  ASSUME ConstantsOK, ~Preempted, IInv,
         NEW a \in Actors, ChangePeriod(a)
  PROVE  IInv'
<1>i. Parts
  BY DEF IInv, Part1
<1>g. Plain
  BY <1>i, Basics, Zenon
<1>s. PICK s : s = op[a].s
  OBVIOUS
<1>u. PICK u : u = handle[s]
  OBVIOUS
<1>p. s \in Schedules /\ op[a].pc = "change" /\ PcOK(op[a].call, op[a].pc)
  BY <1>s, <1>i, <1>g, SMT DEF OpOK, ChangePeriod, At
<1>r. u \in Timers /\ ~Deletes(u) /\ Len(commands) <= QueueLen
  <2>1. u # 0
    BY <1>s, <1>u, <1>p, <1>i, <1>g, Zenon DEF ChangePeriod, WorkOK
  <2>2. Len(commands) <= QueueLen
    BY <1>i DEF TypeOK
  <2> QED BY <2>1, <2>2, <1>p, <1>g, <1>u, <1>i, Zenon DEF HandleOK
<1>c. op[a].call \in {"enable", "rearm"} /\ PcOK(op[a].call, "armed") /\ PcOK(op[a].call, "stop")
  BY <1>p, SMT DEF PcOK
<1>o. /\ op'[a].pc \in {"armed", "stop"} /\ op'[a].call = op[a].call /\ op'[a].s = op[a].s /\ op'[a].arg = op[a].arg
      /\ \A b \in Actors : b # a => op'[b] = op[b]
  <2>1. (GoTo(a, "armed") \/ GoTo(a, "stop")) /\ "armed" \in Pcs /\ "stop" \in Pcs
    BY DEF ChangePeriod, GiveUp, Pcs
  <2> QED BY <2>1, <1>i, GoneTo, Zenon
<1>k. op' \in [Actors -> OpSet]
  <2>1. (GoTo(a, "armed") \/ GoTo(a, "stop")) /\ "armed" \in Pcs /\ "stop" \in Pcs
    BY DEF ChangePeriod, GiveUp, Pcs
  <2> QED BY <2>1, <1>i, GoneTo, Zenon
<1>q. /\ QueueTyped' /\ Len(commands') <= QueueLen
      /\ \A t \in Timers : t # u \/ Full =>
           /\ Mentions(t)' <=> Mentions(t)
           /\ Deletes(t)' <=> Deletes(t)
           /\ HasStop(t)' <=> HasStop(t)
           /\ LastStart(t)' <=> LastStart(t)
      /\ ~Full =>
           /\ Mentions(u)' /\ LastStart(u)'
           /\ Deletes(u)' <=> Deletes(u)
           /\ HasStop(u)' <=> HasStop(u)
  <2>1. Clamp(op[a].arg) \in 1..MaxPeriod
    BY <1>s, <1>p, <1>g, <1>i, Clamped, Zenon DEF OpOK
  <2>2. Post(Command("start", u, Clamp(op[a].arg)))
    BY <1>s, <1>u DEF ChangePeriod
  <2> QED BY <2>1, <2>2, <1>i, <1>r, StartPosted, Zenon
<1>v. now' = now /\ mem' = mem /\ type' = type /\ next' = next /\ callback' = callback /\ handle' = handle /\ stored' = stored /\ timer' = timer /\ frame' = frame /\ dispatching' = dispatching /\ deleted' = deleted /\ fires' = fires /\ off' = off /\ lost' = lost
  BY DEF ChangePeriod, memVars, cbVars, ghosts
<1>11. TypeOK'
  BY <1>i, <1>p, <1>r, <1>q, <1>v, Zenon DEF TypeOK, Timers
<1>12. OpOK'
  BY <1>i, <1>g, <1>s, <1>u, <1>p, <1>c, <1>o, <1>k, <1>v, SMT DEF OpOK, OpSet, Timers, Actors, Daemon
<1>13. TimerOK'
  BY <1>i, <1>g, <1>s, <1>u, <1>p, <1>r, <1>c, <1>o, <1>v, SMT DEF TimerOK, Timers, Actors, Daemon
<1>14. HandleOK'
  BY <1>i, <1>g, <1>s, <1>u, <1>p, <1>r, <1>c, <1>o, <1>q, <1>v, SMT DEF HandleOK, Actors, Daemon
<1>15. PublishOK'
  BY <1>i, <1>g, <1>s, <1>u, <1>p, <1>r, <1>c, <1>o, <1>q, <1>v, SMT DEF PublishOK, EndsOn, HandleOK, Actors, Daemon
<1>16. WorkOK'
  BY <1>i, <1>g, <1>s, <1>u, <1>p, <1>r, <1>c, <1>o, <1>v, SMT DEF WorkOK, Actors, Daemon
<1>17. ShareOK'
  BY <1>i, <1>g, <1>s, <1>u, <1>p, <1>r, <1>c, <1>o, <1>v, SMT DEF ShareOK, Actors, Daemon
<1>18. FrameOK'
  BY <1>i, <1>g, <1>s, <1>u, <1>p, <1>r, <1>c, <1>o, <1>v, SMT DEF FrameOK, FrameSet, Timers, Actors, Daemon
<1>19. QueueOK'
  BY <1>i, <1>g, <1>s, <1>u, <1>p, <1>r, <1>c, <1>o, <1>q, <1>v, SMT DEF QueueOK, Timers, HandleOK, Actors, Daemon
<1>31. InitAlone /\ FrameOwn /\ \A r \in Kept : Good(r)
  BY DEF IInv
<1>32. Around
  BY <1>i, <1>31, Surroundings, Zenon
<1>33. 
      /\ \A t \in Timers : (t # u \/ Full) => SameTimer(t)
      /\ ~Full => /\ EndsOn(u)' /\ (HasStop(u)' <=> HasStop(u))
                  /\ StartsApart(u) /\ ~LastStart(u) => StartsApart(u)'
                  /\ StopsFirst(u) /\ HasStop(u) => StopsFirst(u)'
      /\ Full => op'[a].pc = "stop"
      /\ ~Full => op'[a].pc = "armed"
  <2>1. \A t \in Timers : Kin(t)
    BY <1>v DEF Kin
  <2>2. Clamp(op[a].arg) \in 1..MaxPeriod
    BY <1>s, <1>p, <1>g, <1>i, Clamped, Zenon DEF OpOK
  <2>3. Post(Command("start", u, Clamp(op[a].arg)))
    BY <1>s, <1>u DEF ChangePeriod
  <2>4. /\ Full => op'[a].pc = "stop"
        /\ ~Full => op'[a].pc = "armed"
    BY <1>i, GoneTo, Zenon DEF ChangePeriod, GiveUp, Pcs
  <2>5. /\ \A t \in Timers : Kin(t) /\ (t # u \/ Full) => SameTimer(t)
        /\ ~Full => /\ EndsOn(u)' /\ (HasStop(u)' <=> HasStop(u))
                    /\ StartsApart(u) /\ ~LastStart(u) => StartsApart(u)'
                    /\ StopsFirst(u) /\ HasStop(u) => StopsFirst(u)'
    BY <2>2, <2>3, <1>i, <1>r, TimersStart, Zenon
  <2> QED BY <2>1, <2>4, <2>5, Zenon
<1>34. now' \in Nat /\ now <= now' /\ Kept' \subseteq Kept
  BY <1>i, <1>v, SMT DEF TypeOK, Kept
<1>41. 
      /\ u # 0 => \A r \in Schedules : handle[r] = u => r = s
      /\ u # 0 => timer[u].id \in {s, NONE} /\ timer[u].state \in {"dormant", "active"}
  BY <1>i, <1>u, <1>p, <1>g, SMT DEF HandleOK, Alive
<1>35. ASSUME NEW r \in Kept', r # s
      PROVE  Good(r)'
  <2>1. r \in Kept /\ r \in Schedules /\ r # NONE /\ Good(r)
    BY <1>31, <1>32, <1>34
  <2>2. \A b \in Actors : op[b].s = r \/ op'[b].s = r => op'[b] = op[b]
    BY <1>35, <2>1, <1>s, <1>p, <1>c, <1>o, <1>41
  <2>3. SameMemory(r)
    BY <1>35, <2>1, <1>v, <1>41
  <2>4. (OnFrame(r)' <=> OnFrame(r)) /\ (OnFrame(r) => frame' = frame)
    BY <1>v, <1>41 DEF OnFrame
  <2>5. \A t \in Timers : handle[r] = t \/ timer'[t].id = r => SameTimer(t)
    BY <1>33, <1>35, <1>v, <1>41, <2>1, SMT DEF Timers
  <2>6. Unmoved(r)
    BY <2>2, <2>3, <2>4, <2>5 DEF Unmoved
  <2> QED BY <1>i, <1>31, <1>34, <2>1, <2>6, Others, Zenon
<1>36. ASSUME s \in Kept'
      PROVE  Good(s)'
  <2>1. Known(s)
    BY <1>32, <1>34, <1>36, <1>i, SMT DEF TypeOK
  <2> USE DEF Good
  <2>2. Good(s)
    BY <1>31, <2>1
  <2>h. PICK h : h = handle[s]
    OBVIOUS
  <2>3. Callback(s, h)
    BY <2>1, <2>h, <1>32, <1>i, SMT DEF Timers, Actors, OpOK
  <2>4. Company(a, s)
    BY <2>1, <2>2, <1>32, <1>s, Zenon
  <2>5. /\ h = u /\ h # 0 /\ ~EndsOn(h) /\ ~LastStart(h) /\ (timer[h].state = "dormant" \/ HasStop(h))
        /\ timer'[h].state = timer[h].state /\ timer'[h].left = timer[h].left /\ (HasStop(h)' <=> HasStop(h))
        /\ Full => ~EndsOn(h)' /\ op'[a].pc = "stop"
        /\ ~Full => EndsOn(h)' /\ op'[a].pc = "armed"
        /\ next[s] > 0 /\ ~off[s]
    <3>1. h = u /\ h # 0 /\ h \in Timers
      BY <2>h, <2>3, <1>r, <1>u, SMT DEF Timers
    <3>2. ~EndsOn(h)
      BY <2>2, <2>h, <2>3, <3>1, <1>c, <1>s, <1>p, SMT DEF OffOK, FrameOff
    <3>3. ~LastStart(h) /\ (timer[h].state = "dormant" \/ HasStop(h))
      BY <3>1, <3>2, <1>41 DEF EndsOn
    <3>4. next[s] > 0 /\ ~off[s]
      BY <2>2, <2>3, <1>s, <1>p, <1>c, SMT DEF HasTime, EnableOn, FrameAlone
    <3>5. Full => ~EndsOn(h)' /\ (HasStop(h)' <=> HasStop(h))
      BY <3>1, <3>2, <1>33 DEF SameTimer
    <3> QED BY <3>1, <3>2, <3>3, <3>4, <3>5, <1>33, <1>v
  <2>6. (OnFrame(s)' <=> OnFrame(s)) /\ frame' = frame
    BY <1>v DEF OnFrame
  <2>7. OnFrame(s) => op[a].call = "rearm" /\ a = Daemon /\ frame.at = "rearm"
    BY <2>2, <2>3, <1>c, <1>s, SMT DEF FrameAlone
  <2>11. EnableOn(s)'
    BY <2>1, <2>2, <2>h, <2>3, <2>4, <1>v, <1>s, <1>p, <1>c, <1>o, SMT DEF EnableOn, DeletePcs, RearmPcs
  <2>12. EditKept(s)'
    BY <2>1, <2>2, <2>h, <2>3, <2>4, <1>v, <1>s, <1>p, <1>c, <1>o, SMT DEF EditKept, DeletePcs, RearmPcs
  <2>13. FrameAlone(s)'
    BY <2>1, <2>2, <2>h, <2>3, <2>4, <2>6, <1>v, <1>s, <1>p, <1>c, <1>o, <2>7, SMT DEF FrameAlone, DeletePcs, RearmPcs
  <2>14. OffOK(s)'
    <3>1. ASSUME NEW b \in Actors, b # a, op'[b].s = s
          PROVE  op'[b].call = "delete" /\ op'[b].pc # "clear"
      BY <3>1, <2>4, <2>5, <2>2, <2>3, <1>c, <1>o, SMT DEF DeletePcs
    <3>2. op'[a].s = s /\ op'[a].pc \in {"stop", "armed"} /\ op'[a].call \in {"enable", "rearm"} /\ ~off'[s] /\ handle'[s] = h
      BY <2>5, <2>h, <1>o, <1>s, <1>c, <1>v
    <3>3. op'[a].pc = "stop" => ~EndsOn(h)'
      BY <2>5, <1>o
    <3>4. timer'[h].state = "dormant" \/ HasStop(h)'
      BY <2>5
    <3> QED BY <3>1, <3>2, <3>3, <3>4, SMT DEF OffOK
  <2>15. FrameOff(s)'
    BY <2>1, <2>2, <2>h, <2>3, <2>4, <2>5, <2>6, <1>v, <1>s, <1>p, <1>c, <1>o, <2>7, SMT DEF FrameOff, DeletePcs, RearmPcs
  <2>16. SettledOn(s)'
    <3>1. op'[a].s = s /\ op'[a].pc \in {"stop", "armed"} /\ handle'[s] = h
      BY <2>5, <2>h, <1>o, <1>s, <1>v
    <3> QED BY <3>1, <2>5, SMT DEF SettledOn, Settled
  <2>17. HasTime(s)'
    <3>1. TimeShown(s)'
      BY <2>5, <1>v DEF HasNext
    <3>2. TimeCalled(s)'
      BY <2>5, <1>v
    <3>3. TimeArmed(s)'
      BY <2>5, <1>v
    <3> QED BY <3>1, <3>2, <3>3, Zenon DEF HasTime
  <2>18. Alternate(s)'
    <3>0. \A t \in Timers : timer[t].id = s => StartsApart(t) /\ (timer[t].state = "active" => StopsFirst(t))
      BY <2>2 DEF Alternate
    <3>1. ASSUME NEW t \in Timers, timer'[t].id = s
          PROVE  StartsApart(t)' /\ (timer'[t].state = "active" => StopsFirst(t)')
      <4>1. CASE t # u \/ Full
        BY <3>0, <3>1, <4>1, <1>33, <1>v DEF SameTimer
      <4>2. CASE ~(t # u \/ Full)
        BY <3>0, <3>1, <4>2, <1>33, <1>g, <1>v, <2>5
      <4> QED BY <4>1, <4>2
    <3> QED BY <3>1 DEF Alternate
  <2>19. OnceTime(s)'
    BY <2>1, <2>2, <2>h, <2>3, <2>4, <1>v, <1>s, <1>p, <1>c, <1>o, SMT DEF OnceTime, DeletePcs, RearmPcs
  <2>20. NoCallback(s)'
    BY <2>1, <2>2, <2>h, <2>3, <2>4, <1>v, <1>s, <1>p, <1>c, <1>o, SMT DEF NoCallback, DeletePcs, RearmPcs
  <2>21. StoredOK(s)'
    BY <2>1, <2>2, <2>h, <2>3, <2>4, <1>v, <1>s, <1>p, <1>c, <1>o, SMT DEF StoredOK, OneShot, DeletePcs, RearmPcs
  <2>22. FiredOK(s)'
    <3>1. ~(type[s] \in OneShot /\ ~off[s] /\ fires[s] > 0)
      BY <2>2, <2>3, <1>s, <1>p, <1>c, SMT DEF FiredOK
    <3> QED BY <3>1, <1>v, SMT DEF FiredOK, OneShot
  <2> QED BY <2>11, <2>12, <2>13, <2>14, <2>15, <2>16, <2>17, <2>18, <2>19, <2>20, <2>21, <2>22, Zenon
<1>37. \A r \in Kept' : Good(r)'
  BY <1>35, <1>36
<1>21. InitAlone'
  BY <1>31, <1>v, <1>s, <1>p, <1>c, <1>o, <1>41, SMT DEF InitAlone, Actors, Daemon
<1>22. FrameOwn'
  BY <1>31, <1>v, <1>41 DEF FrameOwn
<1> QED
  BY <1>q, <1>11, <1>12, <1>13, <1>14, <1>15, <1>16, <1>17, <1>18, <1>19, <1>21, <1>22, <1>37 DEF IInv, Part1

LEMMA DeleteStopKeeps ==
  ASSUME ConstantsOK, ~Preempted, IInv,
         NEW a \in Actors, DeleteStop(a)
  PROVE  IInv'
<1>i. Parts
  BY DEF IInv, Part1
<1>g. Plain
  BY <1>i, Basics, Zenon
<1>s. PICK s : s = op[a].s
  OBVIOUS
<1>u. PICK u : u = handle[s]
  OBVIOUS
<1>p. s \in Schedules /\ op[a].pc = "stop_first" /\ PcOK(op[a].call, op[a].pc)
  BY <1>s, <1>i, <1>g, SMT DEF OpOK, DeleteStop, At
<1>r. u \in Timers /\ ~Deletes(u) /\ Len(commands) <= QueueLen
  <2>1. u # 0
    BY <1>s, <1>u, <1>p, <1>i, <1>g, Zenon DEF DeleteStop, WorkOK
  <2>2. Len(commands) <= QueueLen
    BY <1>i DEF TypeOK
  <2> QED BY <2>1, <2>2, <1>p, <1>g, <1>u, <1>i, Zenon DEF HandleOK
<1>c. op[a].call \in {"delete"} /\ PcOK(op[a].call, "cancel")
  BY <1>p, SMT DEF PcOK
<1>o. /\ op'[a].pc = "cancel" /\ op'[a].call = op[a].call /\ op'[a].s = op[a].s /\ op'[a].arg = op[a].arg
      /\ \A b \in Actors : b # a => op'[b] = op[b]
  BY <1>i, GoneTo, Zenon DEF DeleteStop, Pcs
<1>k. op' \in [Actors -> OpSet]
  BY <1>i, GoneTo, Zenon DEF DeleteStop, Pcs
<1>q. /\ QueueTyped' /\ Len(commands') <= QueueLen
      /\ \A t \in Timers : t # u \/ Full =>
           /\ Mentions(t)' <=> Mentions(t)
           /\ Deletes(t)' <=> Deletes(t)
           /\ HasStop(t)' <=> HasStop(t)
           /\ LastStart(t)' <=> LastStart(t)
      /\ ~Full =>
           /\ Mentions(u)' /\ ~LastStart(u)' /\ HasStop(u)'
           /\ Deletes(u)' <=> Deletes(u)
  <2>1. Post(Command("stop", u, 0))
    BY <1>s, <1>u DEF DeleteStop
  <2> QED BY <2>1, <1>i, <1>r, StopPosted, Zenon
<1>v. now' = now /\ mem' = mem /\ type' = type /\ next' = next /\ callback' = callback /\ handle' = handle /\ stored' = stored /\ timer' = timer /\ frame' = frame /\ dispatching' = dispatching /\ deleted' = deleted /\ fires' = fires /\ off' = off /\ lost' = lost
  BY DEF DeleteStop, memVars, cbVars, ghosts
<1>11. TypeOK'
  BY <1>i, <1>p, <1>r, <1>q, <1>v, Zenon DEF TypeOK, Timers
<1>12. OpOK'
  BY <1>i, <1>g, <1>s, <1>u, <1>p, <1>c, <1>o, <1>k, <1>v, SMT DEF OpOK, OpSet, Timers, Actors, Daemon
<1>13. TimerOK'
  BY <1>i, <1>g, <1>s, <1>u, <1>p, <1>r, <1>c, <1>o, <1>v, SMT DEF TimerOK, Timers, Actors, Daemon
<1>14. HandleOK'
  BY <1>i, <1>g, <1>s, <1>u, <1>p, <1>r, <1>c, <1>o, <1>q, <1>v, SMT DEF HandleOK, Actors, Daemon
<1>15. PublishOK'
  BY <1>i, <1>g, <1>s, <1>u, <1>p, <1>r, <1>c, <1>o, <1>q, <1>v, SMT DEF PublishOK, EndsOn, HandleOK, Actors, Daemon
<1>16. WorkOK'
  BY <1>i, <1>g, <1>s, <1>u, <1>p, <1>r, <1>c, <1>o, <1>v, SMT DEF WorkOK, Actors, Daemon
<1>17. ShareOK'
  BY <1>i, <1>g, <1>s, <1>u, <1>p, <1>r, <1>c, <1>o, <1>v, SMT DEF ShareOK, Actors, Daemon
<1>18. FrameOK'
  BY <1>i, <1>g, <1>s, <1>u, <1>p, <1>r, <1>c, <1>o, <1>v, SMT DEF FrameOK, FrameSet, Timers, Actors, Daemon
<1>19. QueueOK'
  BY <1>i, <1>g, <1>s, <1>u, <1>p, <1>r, <1>c, <1>o, <1>q, <1>v, SMT DEF QueueOK, Timers, HandleOK, Actors, Daemon
<1>31. InitAlone /\ FrameOwn /\ \A r \in Kept : Good(r)
  BY DEF IInv
<1>32. Around
  BY <1>i, <1>31, Surroundings, Zenon
<1>33. 
      /\ \A t \in Timers : t # u => SameTimer(t)
      /\ (EndsOn(u)' => EndsOn(u)) /\ (HasStop(u) => HasStop(u)')
      /\ StartsApart(u) => StartsApart(u)'
      /\ StopsFirst(u) => StopsFirst(u)' 
  <2>1. \A t \in Timers : Kin(t)
    BY <1>v DEF Kin
  <2>2. Post(Command("stop", u, 0))
    BY <1>s, <1>u DEF DeleteStop
  <2> QED
    <3>1. \A t \in Timers : t # u \/ Full => SameTimer(t)
      BY <2>1, <2>2, <1>i, <1>r, TimersStop, Zenon
    <3>2. ~Full => /\ ~EndsOn(u)' /\ HasStop(u)'
                   /\ StartsApart(u) => StartsApart(u)'
                   /\ StopsFirst(u) => StopsFirst(u)'
      BY <2>2, <1>i, <1>r, TimersStop, Zenon
    <3> QED BY <3>1, <3>2, <1>r DEF SameTimer
<1>34. now' \in Nat /\ now <= now' /\ Kept' \subseteq Kept
  BY <1>i, <1>v, SMT DEF TypeOK, Kept
<1>41. 
      /\ u # 0 => \A r \in Schedules : handle[r] = u => r = s
      /\ u # 0 => timer[u].id \in {s, NONE} /\ timer[u].state \in {"dormant", "active"}
  BY <1>i, <1>u, <1>p, <1>g, SMT DEF HandleOK, Alive
<1>35. ASSUME NEW r \in Kept', r # s
      PROVE  Good(r)'
  <2>1. r \in Kept /\ r \in Schedules /\ r # NONE /\ Good(r)
    BY <1>31, <1>32, <1>34
  <2>2. \A b \in Actors : op[b].s = r \/ op'[b].s = r => op'[b] = op[b]
    BY <1>35, <2>1, <1>s, <1>p, <1>c, <1>o, <1>41
  <2>3. SameMemory(r)
    BY <1>35, <2>1, <1>v, <1>41
  <2>4. (OnFrame(r)' <=> OnFrame(r)) /\ (OnFrame(r) => frame' = frame)
    BY <1>v, <1>41 DEF OnFrame
  <2>5. \A t \in Timers : handle[r] = t \/ timer'[t].id = r => SameTimer(t)
    BY <1>33, <1>35, <1>v, <1>41, <2>1, SMT DEF Timers
  <2>6. Unmoved(r)
    BY <2>2, <2>3, <2>4, <2>5 DEF Unmoved
  <2> QED BY <1>i, <1>31, <1>34, <2>1, <2>6, Others, Zenon
<1>36. ASSUME s \in Kept'
      PROVE  Good(s)'
  <2>1. Known(s)
    BY <1>32, <1>34, <1>36, <1>i, SMT DEF TypeOK
  <2> USE DEF Good
  <2>2. Good(s)
    BY <1>31, <2>1
  <2>h. PICK h : h = handle[s]
    OBVIOUS
  <2>3. Callback(s, h)
    BY <2>1, <2>h, <1>32, <1>i, SMT DEF Timers, Actors, OpOK
  <2>4. Company(a, s)
    BY <2>1, <2>2, <1>32, <1>s, Zenon
  <2>5. /\ h = u /\ h # 0 /\ (EndsOn(h)' => EndsOn(h)) /\ (HasStop(h) => HasStop(h)')
        /\ timer'[h].state = timer[h].state /\ timer'[h].left = timer[h].left
    BY <2>h, <1>33, <1>r, <1>u, <1>v, <1>g
  <2>6. (OnFrame(s)' <=> OnFrame(s)) /\ frame' = frame
    BY <1>v DEF OnFrame
  <2>9. HasNext(s) => HasNext(s)'
    BY <1>o, <1>v, <1>p, <1>s, SMT DEF HasNext
  <2>11. EnableOn(s)'
    BY <2>1, <2>2, <2>h, <2>3, <2>4, <1>v, <1>s, <1>p, <1>c, <1>o, SMT DEF EnableOn, DeletePcs, RearmPcs
  <2>12. EditKept(s)'
    BY <2>1, <2>2, <2>h, <2>3, <2>4, <1>v, <1>s, <1>p, <1>c, <1>o, SMT DEF EditKept, DeletePcs, RearmPcs
  <2>13. FrameAlone(s)'
    BY <2>1, <2>2, <2>h, <2>3, <2>4, <2>6, <1>v, <1>s, <1>p, <1>c, <1>o, SMT DEF FrameAlone, DeletePcs, RearmPcs
  <2>14. OffOK(s)'
    <3>1. ASSUME NEW b \in Actors, op'[b].s = s, op'[b].call # "delete"
          PROVE  op'[b] = op[b] /\ op[b].s = s /\ b # a
      BY <3>1, <1>c, <1>o
    <3>2. \A b \in Actors : op'[b].call = "delete" => op'[b].pc # "clear"
      BY <1>32, <1>o, <1>c, SMT DEF DeletePcs
    <3>3. handle'[s] = h /\ off'[s] = off[s]
      BY <2>h, <1>v
    <3>4. h # 0 => /\ off[s] => ~EndsOn(h)'
                   /\ \A b \in Actors : op'[b].s = s /\ op'[b].call # "delete" =>
                        /\ op'[b].call = "enable" /\ op'[b].pc \in {"compute", "arm", "change", "stop", "clear"} => ~EndsOn(h)'
                        /\ op'[b].call = "init" /\ op'[b].pc # "armed" => ~EndsOn(h)'
                        /\ op'[b].pc = "clear" => ~EndsOn(h)'
                        /\ op'[b].call = "disable" /\ op'[b].pc = "armed" => ~EndsOn(h)'
                        /\ op'[b].call \in {"enable", "init"} /\ op'[b].pc = "armed" /\ b # Daemon =>
                             \/ timer'[h].state = "dormant" \/ timer'[h].left > 0
                             \/ HasStop(h)'
      BY <3>1, <2>2, <2>h, <2>5, Zenon DEF OffOK
    <3> QED BY <3>2, <3>3, <3>4, SMT DEF OffOK
  <2>15. FrameOff(s)'
    BY <2>1, <2>2, <2>h, <2>3, <2>4, <2>5, <2>6, <1>v, <1>s, <1>p, <1>c, <1>o, SMT DEF FrameOff, DeletePcs, RearmPcs
  <2>16. SettledOn(s)'
    BY <2>1, <1>o, <1>s, SMT DEF SettledOn, Settled
  <2>17. HasTime(s)'
    <3>1. TimeShown(s)'
      BY <2>2, <2>h, <2>5, <2>9, <1>v DEF HasTime
    <3>2. TimeCalled(s)'
      BY <2>2, <2>3, <2>6, <1>c, <1>o, <1>v, SMT DEF HasTime
    <3>3. TimeArmed(s)'
      BY <2>2, <1>p, <1>c, <1>o, <1>v, SMT DEF HasTime
    <3> QED BY <3>1, <3>2, <3>3, Zenon DEF HasTime
  <2>18. Alternate(s)'
    <3>0. \A t \in Timers : timer[t].id = s => StartsApart(t) /\ (timer[t].state = "active" => StopsFirst(t))
      BY <2>2 DEF Alternate
    <3>1. ASSUME NEW t \in Timers, timer'[t].id = s
          PROVE  StartsApart(t)' /\ (timer'[t].state = "active" => StopsFirst(t)')
      <4>1. CASE t # u
        BY <3>0, <3>1, <4>1, <1>33, <1>v DEF SameTimer
      <4>2. CASE ~(t # u)
        BY <3>0, <3>1, <4>2, <1>33, <1>g, <1>v
      <4> QED BY <4>1, <4>2
    <3> QED BY <3>1 DEF Alternate
  <2>19. OnceTime(s)'
    BY <2>1, <2>2, <2>h, <2>3, <2>4, <1>v, <1>s, <1>p, <1>c, <1>o, SMT DEF OnceTime, DeletePcs, RearmPcs
  <2>20. NoCallback(s)'
    BY <2>1, <2>2, <2>h, <2>3, <2>4, <1>v, <1>s, <1>p, <1>c, <1>o, SMT DEF NoCallback, DeletePcs, RearmPcs
  <2>21. StoredOK(s)'
    BY <2>1, <2>2, <2>h, <2>3, <2>4, <1>v, <1>s, <1>p, <1>c, <1>o, SMT DEF StoredOK, OneShot, DeletePcs, RearmPcs
  <2>22. FiredOK(s)'
    <3> SUFFICES ASSUME type[s] \in OneShot, ~off[s], fires[s] > 0
                 PROVE  FiredOK(s)'
      BY <1>v, SMT DEF FiredOK, OneShot
    <3>0. Over(s, h)
      BY <2>2, <2>h DEF FiredOK
    <3>1. (fires[s] = 1 /\ next[s] <= now)'
      BY <3>0, <1>v
    <3>2. (handle[s] # 0 => ~EndsOn(handle[s]))'
      BY <3>0, <2>h, <2>5, <1>v
    <3>3. (OnFrame(s) => frame.at # "enter")'
      BY <3>0, <2>6
    <3>4. OverDaemon(s)'
      BY <3>0, <2>3, <1>o, <1>s, <1>p, SMT
    <3>5. OverStored(s)'
      BY <3>0, <1>v
    <3>6. OverLive(s)'
      BY <3>0, <1>v, <1>o, <1>s, SMT DEF Actors
    <3>7. OverCalls(s)'
      BY <3>0, <1>o, <1>s, SMT
    <3>8. OverInit(s)'
      BY <3>0, <1>p, <1>c, <1>o, <1>s, SMT
    <3>9. OverCheck(s)'
      BY <3>0, <1>p, <1>v, <1>o, <1>s, SMT
    <3> QED BY <3>1, <3>2, <3>3, <3>4, <3>5, <3>6, <3>7, <3>8, <3>9, Zenon DEF FiredOK
  <2> QED BY <2>11, <2>12, <2>13, <2>14, <2>15, <2>16, <2>17, <2>18, <2>19, <2>20, <2>21, <2>22, Zenon
<1>37. \A r \in Kept' : Good(r)'
  BY <1>35, <1>36
<1>21. InitAlone'
  BY <1>31, <1>v, <1>s, <1>p, <1>c, <1>o, <1>41, SMT DEF InitAlone, Actors, Daemon
<1>22. FrameOwn'
  BY <1>31, <1>v, <1>41 DEF FrameOwn
<1> QED
  BY <1>q, <1>11, <1>12, <1>13, <1>14, <1>15, <1>16, <1>17, <1>18, <1>19, <1>21, <1>22, <1>37 DEF IInv, Part1

LEMMA CancelStopKeeps ==
  ASSUME ConstantsOK, ~Preempted, IInv,
         NEW a \in Actors, CancelStop(a)
  PROVE  IInv'
<1>i. Parts
  BY DEF IInv, Part1
<1>g. Plain
  BY <1>i, Basics, Zenon
<1>s. PICK s : s = op[a].s
  OBVIOUS
<1>u. PICK u : u = handle[s]
  OBVIOUS
<1>p. s \in Schedules /\ op[a].pc = "cancel" /\ PcOK(op[a].call, op[a].pc)
  BY <1>s, <1>i, <1>g, SMT DEF OpOK, CancelStop, At
<1>r. u \in Timers /\ ~Deletes(u) /\ Len(commands) <= QueueLen
  <2>1. u # 0
    BY <1>s, <1>u, <1>p, <1>i, <1>g, Zenon DEF CancelStop, WorkOK
  <2>2. Len(commands) <= QueueLen
    BY <1>i DEF TypeOK
  <2> QED BY <2>1, <2>2, <1>p, <1>g, <1>u, <1>i, Zenon DEF HandleOK
<1>c. op[a].call \in {"delete"} /\ PcOK(op[a].call, "detach")
  BY <1>p, SMT DEF PcOK
<1>o. /\ op'[a].pc = "detach" /\ op'[a].call = op[a].call /\ op'[a].s = op[a].s /\ op'[a].arg = op[a].arg
      /\ \A b \in Actors : b # a => op'[b] = op[b]
  BY <1>i, GoneTo, Zenon DEF CancelStop, Pcs
<1>k. op' \in [Actors -> OpSet]
  BY <1>i, GoneTo, Zenon DEF CancelStop, Pcs
<1>q. /\ QueueTyped' /\ Len(commands') <= QueueLen
      /\ \A t \in Timers : t # u \/ Full \/ timer[u].state # "active" =>
           /\ Mentions(t)' <=> Mentions(t)
           /\ Deletes(t)' <=> Deletes(t)
           /\ HasStop(t)' <=> HasStop(t)
           /\ LastStart(t)' <=> LastStart(t)
      /\ ~Full /\ timer[u].state = "active" =>
           /\ Mentions(u)' /\ ~LastStart(u)' /\ HasStop(u)'
           /\ Deletes(u)' <=> Deletes(u)
  <2>1. CASE timer[u].state = "active"
    <3>1. Post(Command("stop", u, 0))
      BY <1>s, <1>u, <2>1 DEF CancelStop
    <3> QED BY <3>1, <2>1, <1>i, <1>r, StopPosted, Zenon
  <2>2. CASE timer[u].state # "active"
    <3>1. commands' = commands
      BY <1>s, <1>u, <2>2 DEF CancelStop
    <3> QED BY <3>1, <2>2, <1>i, <1>r, Quiet, Zenon
  <2> QED BY <2>1, <2>2
<1>v. now' = now /\ mem' = mem /\ type' = type /\ next' = next /\ callback' = callback /\ handle' = handle /\ stored' = stored /\ timer' = timer /\ frame' = frame /\ dispatching' = dispatching /\ deleted' = deleted /\ fires' = fires /\ off' = off /\ lost' = lost
  BY DEF CancelStop, memVars, cbVars, ghosts
<1>11. TypeOK'
  BY <1>i, <1>p, <1>r, <1>q, <1>v, Zenon DEF TypeOK, Timers
<1>12. OpOK'
  BY <1>i, <1>g, <1>s, <1>u, <1>p, <1>c, <1>o, <1>k, <1>v, SMT DEF OpOK, OpSet, Timers, Actors, Daemon
<1>13. TimerOK'
  BY <1>i, <1>g, <1>s, <1>u, <1>p, <1>r, <1>c, <1>o, <1>v, SMT DEF TimerOK, Timers, Actors, Daemon
<1>14. HandleOK'
  BY <1>i, <1>g, <1>s, <1>u, <1>p, <1>r, <1>c, <1>o, <1>q, <1>v, SMT DEF HandleOK, Actors, Daemon
<1>15. PublishOK'
  BY <1>i, <1>g, <1>s, <1>u, <1>p, <1>r, <1>c, <1>o, <1>q, <1>v, SMT DEF PublishOK, EndsOn, HandleOK, Actors, Daemon
<1>16. WorkOK'
  BY <1>i, <1>g, <1>s, <1>u, <1>p, <1>r, <1>c, <1>o, <1>v, SMT DEF WorkOK, Actors, Daemon
<1>17. ShareOK'
  BY <1>i, <1>g, <1>s, <1>u, <1>p, <1>r, <1>c, <1>o, <1>v, SMT DEF ShareOK, Actors, Daemon
<1>18. FrameOK'
  BY <1>i, <1>g, <1>s, <1>u, <1>p, <1>r, <1>c, <1>o, <1>v, SMT DEF FrameOK, FrameSet, Timers, Actors, Daemon
<1>19. QueueOK'
  BY <1>i, <1>g, <1>s, <1>u, <1>p, <1>r, <1>c, <1>o, <1>q, <1>v, SMT DEF QueueOK, Timers, HandleOK, Actors, Daemon
<1>31. InitAlone /\ FrameOwn /\ \A r \in Kept : Good(r)
  BY DEF IInv
<1>32. Around
  BY <1>i, <1>31, Surroundings, Zenon
<1>33. 
      /\ \A t \in Timers : t # u => SameTimer(t)
      /\ (EndsOn(u)' => EndsOn(u)) /\ (HasStop(u) => HasStop(u)')
      /\ StartsApart(u) => StartsApart(u)'
      /\ StopsFirst(u) => StopsFirst(u)' 
  <2>1. \A t \in Timers : Kin(t)
    BY <1>v DEF Kin
  <2>2. CASE timer[u].state = "active"
    <3>0. Post(Command("stop", u, 0))
      BY <2>2, <1>s, <1>u DEF CancelStop
    <3>1. \A t \in Timers : t # u \/ Full => SameTimer(t)
      BY <2>1, <3>0, <1>i, <1>r, TimersStop, Zenon
    <3>2. ~Full => /\ ~EndsOn(u)' /\ HasStop(u)'
                   /\ StartsApart(u) => StartsApart(u)'
                   /\ StopsFirst(u) => StopsFirst(u)'
      BY <3>0, <1>i, <1>r, TimersStop, Zenon
    <3> QED BY <3>1, <3>2, <1>r DEF SameTimer
  <2>3. CASE timer[u].state # "active"
    <3>1. commands' = commands
      BY <2>3, <1>s, <1>u DEF CancelStop
    <3>2. \A t \in Timers : SameTimer(t)
      BY <2>1, <3>1, <1>i, TimersSame, Zenon
    <3> QED BY <3>2, <1>r DEF SameTimer
  <2> QED BY <2>2, <2>3
<1>34. now' \in Nat /\ now <= now' /\ Kept' \subseteq Kept
  BY <1>i, <1>v, SMT DEF TypeOK, Kept
<1>41. 
      /\ u # 0 => \A r \in Schedules : handle[r] = u => r = s
      /\ u # 0 => timer[u].id \in {s, NONE} /\ timer[u].state \in {"dormant", "active"}
  BY <1>i, <1>u, <1>p, <1>g, SMT DEF HandleOK, Alive
<1>35. ASSUME NEW r \in Kept', r # s
      PROVE  Good(r)'
  <2>1. r \in Kept /\ r \in Schedules /\ r # NONE /\ Good(r)
    BY <1>31, <1>32, <1>34
  <2>2. \A b \in Actors : op[b].s = r \/ op'[b].s = r => op'[b] = op[b]
    BY <1>35, <2>1, <1>s, <1>p, <1>c, <1>o, <1>41
  <2>3. SameMemory(r)
    BY <1>35, <2>1, <1>v, <1>41
  <2>4. (OnFrame(r)' <=> OnFrame(r)) /\ (OnFrame(r) => frame' = frame)
    BY <1>v, <1>41 DEF OnFrame
  <2>5. \A t \in Timers : handle[r] = t \/ timer'[t].id = r => SameTimer(t)
    BY <1>33, <1>35, <1>v, <1>41, <2>1, SMT DEF Timers
  <2>6. Unmoved(r)
    BY <2>2, <2>3, <2>4, <2>5 DEF Unmoved
  <2> QED BY <1>i, <1>31, <1>34, <2>1, <2>6, Others, Zenon
<1>36. ASSUME s \in Kept'
      PROVE  Good(s)'
  <2>1. Known(s)
    BY <1>32, <1>34, <1>36, <1>i, SMT DEF TypeOK
  <2> USE DEF Good
  <2>2. Good(s)
    BY <1>31, <2>1
  <2>h. PICK h : h = handle[s]
    OBVIOUS
  <2>3. Callback(s, h)
    BY <2>1, <2>h, <1>32, <1>i, SMT DEF Timers, Actors, OpOK
  <2>4. Company(a, s)
    BY <2>1, <2>2, <1>32, <1>s, Zenon
  <2>5. /\ h = u /\ h # 0 /\ (EndsOn(h)' => EndsOn(h)) /\ (HasStop(h) => HasStop(h)')
        /\ timer'[h].state = timer[h].state /\ timer'[h].left = timer[h].left
    BY <2>h, <1>33, <1>r, <1>u, <1>v, <1>g
  <2>6. (OnFrame(s)' <=> OnFrame(s)) /\ frame' = frame
    BY <1>v DEF OnFrame
  <2>9. HasNext(s) => HasNext(s)'
    BY <1>o, <1>v, <1>p, <1>s, SMT DEF HasNext
  <2>11. EnableOn(s)'
    BY <2>1, <2>2, <2>h, <2>3, <2>4, <1>v, <1>s, <1>p, <1>c, <1>o, SMT DEF EnableOn, DeletePcs, RearmPcs
  <2>12. EditKept(s)'
    BY <2>1, <2>2, <2>h, <2>3, <2>4, <1>v, <1>s, <1>p, <1>c, <1>o, SMT DEF EditKept, DeletePcs, RearmPcs
  <2>13. FrameAlone(s)'
    BY <2>1, <2>2, <2>h, <2>3, <2>4, <2>6, <1>v, <1>s, <1>p, <1>c, <1>o, SMT DEF FrameAlone, DeletePcs, RearmPcs
  <2>14. OffOK(s)'
    <3>1. ASSUME NEW b \in Actors, op'[b].s = s, op'[b].call # "delete"
          PROVE  op'[b] = op[b] /\ op[b].s = s /\ b # a
      BY <3>1, <1>c, <1>o
    <3>2. \A b \in Actors : op'[b].call = "delete" => op'[b].pc # "clear"
      BY <1>32, <1>o, <1>c, SMT DEF DeletePcs
    <3>3. handle'[s] = h /\ off'[s] = off[s]
      BY <2>h, <1>v
    <3>4. h # 0 => /\ off[s] => ~EndsOn(h)'
                   /\ \A b \in Actors : op'[b].s = s /\ op'[b].call # "delete" =>
                        /\ op'[b].call = "enable" /\ op'[b].pc \in {"compute", "arm", "change", "stop", "clear"} => ~EndsOn(h)'
                        /\ op'[b].call = "init" /\ op'[b].pc # "armed" => ~EndsOn(h)'
                        /\ op'[b].pc = "clear" => ~EndsOn(h)'
                        /\ op'[b].call = "disable" /\ op'[b].pc = "armed" => ~EndsOn(h)'
                        /\ op'[b].call \in {"enable", "init"} /\ op'[b].pc = "armed" /\ b # Daemon =>
                             \/ timer'[h].state = "dormant" \/ timer'[h].left > 0
                             \/ HasStop(h)'
      BY <3>1, <2>2, <2>h, <2>5, Zenon DEF OffOK
    <3> QED BY <3>2, <3>3, <3>4, SMT DEF OffOK
  <2>15. FrameOff(s)'
    BY <2>1, <2>2, <2>h, <2>3, <2>4, <2>5, <2>6, <1>v, <1>s, <1>p, <1>c, <1>o, SMT DEF FrameOff, DeletePcs, RearmPcs
  <2>16. SettledOn(s)'
    BY <2>1, <1>o, <1>s, SMT DEF SettledOn, Settled
  <2>17. HasTime(s)'
    <3>1. TimeShown(s)'
      BY <2>2, <2>h, <2>5, <2>9, <1>v DEF HasTime
    <3>2. TimeCalled(s)'
      BY <2>2, <2>3, <2>6, <1>c, <1>o, <1>v, SMT DEF HasTime
    <3>3. TimeArmed(s)'
      BY <2>2, <1>p, <1>c, <1>o, <1>v, SMT DEF HasTime
    <3> QED BY <3>1, <3>2, <3>3, Zenon DEF HasTime
  <2>18. Alternate(s)'
    <3>0. \A t \in Timers : timer[t].id = s => StartsApart(t) /\ (timer[t].state = "active" => StopsFirst(t))
      BY <2>2 DEF Alternate
    <3>1. ASSUME NEW t \in Timers, timer'[t].id = s
          PROVE  StartsApart(t)' /\ (timer'[t].state = "active" => StopsFirst(t)')
      <4>1. CASE t # u
        BY <3>0, <3>1, <4>1, <1>33, <1>v DEF SameTimer
      <4>2. CASE ~(t # u)
        BY <3>0, <3>1, <4>2, <1>33, <1>g, <1>v
      <4> QED BY <4>1, <4>2
    <3> QED BY <3>1 DEF Alternate
  <2>19. OnceTime(s)'
    BY <2>1, <2>2, <2>h, <2>3, <2>4, <1>v, <1>s, <1>p, <1>c, <1>o, SMT DEF OnceTime, DeletePcs, RearmPcs
  <2>20. NoCallback(s)'
    BY <2>1, <2>2, <2>h, <2>3, <2>4, <1>v, <1>s, <1>p, <1>c, <1>o, SMT DEF NoCallback, DeletePcs, RearmPcs
  <2>21. StoredOK(s)'
    BY <2>1, <2>2, <2>h, <2>3, <2>4, <1>v, <1>s, <1>p, <1>c, <1>o, SMT DEF StoredOK, OneShot, DeletePcs, RearmPcs
  <2>22. FiredOK(s)'
    <3> SUFFICES ASSUME type[s] \in OneShot, ~off[s], fires[s] > 0
                 PROVE  FiredOK(s)'
      BY <1>v, SMT DEF FiredOK, OneShot
    <3>0. Over(s, h)
      BY <2>2, <2>h DEF FiredOK
    <3>1. (fires[s] = 1 /\ next[s] <= now)'
      BY <3>0, <1>v
    <3>2. (handle[s] # 0 => ~EndsOn(handle[s]))'
      BY <3>0, <2>h, <2>5, <1>v
    <3>3. (OnFrame(s) => frame.at # "enter")'
      BY <3>0, <2>6
    <3>4. OverDaemon(s)'
      BY <3>0, <2>3, <1>o, <1>s, <1>p, SMT
    <3>5. OverStored(s)'
      BY <3>0, <1>v
    <3>6. OverLive(s)'
      BY <3>0, <1>v, <1>o, <1>s, SMT DEF Actors
    <3>7. OverCalls(s)'
      BY <3>0, <1>o, <1>s, SMT
    <3>8. OverInit(s)'
      BY <3>0, <1>p, <1>c, <1>o, <1>s, SMT
    <3>9. OverCheck(s)'
      BY <3>0, <1>p, <1>v, <1>o, <1>s, SMT
    <3> QED BY <3>1, <3>2, <3>3, <3>4, <3>5, <3>6, <3>7, <3>8, <3>9, Zenon DEF FiredOK
  <2> QED BY <2>11, <2>12, <2>13, <2>14, <2>15, <2>16, <2>17, <2>18, <2>19, <2>20, <2>21, <2>22, Zenon
<1>37. \A r \in Kept' : Good(r)'
  BY <1>35, <1>36
<1>21. InitAlone'
  BY <1>31, <1>v, <1>s, <1>p, <1>c, <1>o, <1>41, SMT DEF InitAlone, Actors, Daemon
<1>22. FrameOwn'
  BY <1>31, <1>v, <1>41 DEF FrameOwn
<1> QED
  BY <1>q, <1>11, <1>12, <1>13, <1>14, <1>15, <1>16, <1>17, <1>18, <1>19, <1>21, <1>22, <1>37 DEF IInv, Part1

LEMMA EditResetKeeps ==
  ASSUME ConstantsOK, ~Preempted, IInv,
         NEW a \in Actors, EditReset(a)
  PROVE  IInv'
<1>i. Parts
  BY DEF IInv, Part1
<1>g. Plain
  BY <1>i, Basics, Zenon
<1>s. PICK s : s = op[a].s
  OBVIOUS
<1>p. s \in Schedules /\ op[a].pc = "reset" /\ PcOK(op[a].call, op[a].pc)
  BY <1>s, <1>i, <1>g, SMT DEF OpOK, EditReset, At
<1>c. op[a].call \in {"edit"} /\ PcOK(op[a].call, "set")
  BY <1>p, SMT DEF PcOK
<1>o. /\ op'[a].pc = "set" /\ op'[a].call = op[a].call /\ op'[a].s = op[a].s
      /\ \A b \in Actors : b # a => op'[b] = op[b]
  <2>1. op' = [op EXCEPT ![a].pc = "set", ![a].arg = next[s]] /\ next[s] \in Nat /\ "set" \in Pcs
    BY <1>s, <1>p, <1>i, SMT DEF EditReset, TypeOK, Pcs
  <2> QED BY <2>1, <1>i, GoneToWith, Zenon
<1>k. op' \in [Actors -> OpSet]
  <2>1. op' = [op EXCEPT ![a].pc = "set", ![a].arg = next[s]] /\ next[s] \in Nat /\ "set" \in Pcs
    BY <1>s, <1>p, <1>i, SMT DEF EditReset, TypeOK, Pcs
  <2> QED BY <2>1, <1>i, GoneToWith, Zenon
<1>q. SameQueue
  <2>1. commands' = commands
    BY DEF EditReset, timerVars, cbVars, ghosts
  <2> QED BY <2>1, <1>i, Quiet, Zenon
<1>v. now' = now /\ mem' = mem /\ type' = type /\ callback' = callback /\ handle' = handle /\ stored' = stored /\ timer' = timer /\ frame' = frame /\ dispatching' = dispatching /\ deleted' = deleted /\ fires' = fires /\ off' = off /\ lost' = lost
  BY DEF EditReset, timerVars, cbVars, ghosts
<1>w. next' \in [Schedules -> Nat]
  BY <1>i, <1>s, <1>p, SMT DEF EditReset, TypeOK
<1>11. TypeOK'
  BY <1>i, <1>p, <1>q, <1>v, <1>w, Zenon DEF TypeOK, Timers
<1>12. OpOK'
  BY <1>i, <1>g, <1>s, <1>p, <1>c, <1>o, <1>k, <1>v, SMT DEF OpOK, OpSet, Timers, Actors, Daemon
<1>13. TimerOK'
  BY <1>i, <1>g, <1>s, <1>p, <1>c, <1>o, <1>v, SMT DEF TimerOK, Timers, Actors, Daemon
<1>14. HandleOK'
  BY <1>i, <1>g, <1>s, <1>p, <1>c, <1>o, <1>q, <1>v, SMT DEF HandleOK, Actors, Daemon
<1>15. PublishOK'
  BY <1>i, <1>g, <1>s, <1>p, <1>c, <1>o, <1>q, <1>v, SMT DEF PublishOK, EndsOn, Actors, Daemon
<1>16. WorkOK'
  BY <1>i, <1>g, <1>s, <1>p, <1>c, <1>o, <1>v, SMT DEF WorkOK, Actors, Daemon
<1>17. ShareOK'
  BY <1>i, <1>g, <1>s, <1>p, <1>c, <1>o, <1>v, SMT DEF ShareOK, Actors, Daemon
<1>18. FrameOK'
  BY <1>i, <1>g, <1>s, <1>p, <1>c, <1>o, <1>v, SMT DEF FrameOK, FrameSet, Timers, Actors, Daemon
<1>19. QueueOK'
  BY <1>i, <1>g, <1>s, <1>p, <1>c, <1>o, <1>q, <1>v, SMT DEF QueueOK, Timers, Actors, Daemon
<1>31. InitAlone /\ FrameOwn /\ \A r \in Kept : Good(r)
  BY DEF IInv
<1>32. Around
  BY <1>i, <1>31, Surroundings, Zenon
<1>33. \A t \in Timers : SameTimer(t)
  <2>1. commands' = commands
    BY <1>q
  <2>2. \A t \in Timers : Kin(t)
    BY <1>v DEF Kin
  <2> QED BY <2>1, <2>2, <1>i, TimersSame, Zenon
<1>34. now' \in Nat /\ now <= now' /\ Kept' \subseteq Kept
  BY <1>i, <1>v, SMT DEF TypeOK, Kept
<1>41. 
      /\ \A r \in Schedules : r # s => next'[r] = next[r]
      /\ next'[s] = (IF type[s] = "relative" THEN 0 ELSE next[s]) /\ op'[a].arg = next[s]
  <2>1. op' = [op EXCEPT ![a].pc = "set", ![a].arg = next[s]] /\ next[s] \in Nat /\ "set" \in Pcs
    BY <1>s, <1>p, <1>i, SMT DEF EditReset, TypeOK, Pcs
  <2>2. op'[a].arg = next[s]
    <3>1. PICK n \in Nat : n = next[s]
      BY <2>1
    <3>2. op' = [op EXCEPT ![a].pc = "set", ![a].arg = n] /\ "set" \in Pcs
      BY <2>1, <3>1
    <3>3. op'[a].arg = n
      <4>1. OpOK
        BY <1>i
      <4>2. /\ op'[a].pc = "set" /\ op'[a].call = op[a].call /\ op'[a].s = op[a].s /\ op'[a].arg = n
            /\ \A b \in Actors : b # a => op'[b] = op[b]
            /\ op' \in [Actors -> OpSet]
        BY ONLY <4>1, <3>2, a \in Actors, n \in Nat, GoneToWith, Zenon
      <4> QED BY <4>2
    <3> QED BY <3>1, <3>3
  <2>3. next \in [Schedules -> Nat] /\ next' = [next EXCEPT ![s] = IF type[s] = "relative" THEN 0 ELSE next[s]]
    BY <1>i, <1>s DEF EditReset, TypeOK
  <2> QED BY <2>2, <2>3, <1>p
<1>35. ASSUME NEW r \in Kept', r # s
      PROVE  Good(r)'
  <2>1. r \in Kept /\ r \in Schedules /\ r # NONE /\ Good(r)
    BY <1>31, <1>32, <1>34
  <2>2. \A b \in Actors : op[b].s = r \/ op'[b].s = r => op'[b] = op[b]
    BY <1>35, <2>1, <1>s, <1>p, <1>c, <1>o, <1>41
  <2>3. SameMemory(r)
    BY <1>35, <2>1, <1>v, <1>41
  <2>4. (OnFrame(r)' <=> OnFrame(r)) /\ (OnFrame(r) => frame' = frame)
    BY <1>v, <1>41 DEF OnFrame
  <2>5. \A t \in Timers : handle[r] = t \/ timer'[t].id = r => SameTimer(t)
    BY <1>33, <1>41
  <2>6. Unmoved(r)
    BY <2>2, <2>3, <2>4, <2>5 DEF Unmoved
  <2> QED BY <1>i, <1>31, <1>34, <2>1, <2>6, Others, Zenon
<1>36. ASSUME s \in Kept'
      PROVE  Good(s)'
  <2>1. Known(s)
    BY <1>32, <1>34, <1>36, <1>i, SMT DEF TypeOK
  <2> USE DEF Good
  <2>2. Good(s)
    BY <1>31, <2>1
  <2>h. PICK h : h = handle[s]
    OBVIOUS
  <2>3. Callback(s, h)
    BY <2>1, <2>h, <1>32, <1>i, SMT DEF Timers, Actors, OpOK
  <2>4. Company(a, s)
    BY <2>1, <2>2, <1>32, <1>s, Zenon
  <2>5. SameRun(h)
    BY <2>3, <1>33, <1>v DEF SameTimer
  <2>6. (OnFrame(s)' <=> OnFrame(s)) /\ frame' = frame
    BY <1>v DEF OnFrame
  <2>7. ~OnFrame(s) /\ ~OnFrame(s)' /\ \A b \in Actors : b # a => op[b].s # s
    <3>2. ~OnFrame(s) /\ ~OnFrame(s)'
      BY <2>2, <2>6, <1>s, <1>c, SMT DEF FrameAlone
    <3>3. ASSUME NEW b \in Actors, b # a, op[b].s = s
          PROVE  FALSE
      BY <3>2, <3>3, <2>3, <2>4, <1>s, <1>c, SMT
    <3> QED BY <3>2, <3>3
  <2>8. HasNext(s)' <=> HasNext(s)
    <3>1. HasNext(s) <=> next[s] > 0
      BY <2>1, <2>7, <1>s, <1>p DEF HasNext
    <3>2. HasNext(s)' <=> next[s] > 0
      BY <2>1, <2>7, <1>41, <1>s, <1>o, SMT DEF HasNext
    <3> QED BY <3>1, <3>2
  <2>11. EnableOn(s)'
    BY <2>1, <2>2, <2>h, <2>3, <2>4, <1>v, <1>s, <1>p, <1>c, <1>o, <2>7, SMT DEF EnableOn, DeletePcs, RearmPcs
  <2>12. EditKept(s)'
    BY <2>1, <2>2, <2>h, <2>3, <2>4, <1>v, <1>s, <1>p, <1>c, <1>o, <1>41, <2>7, SMT DEF EditKept, DeletePcs, RearmPcs
  <2>13. FrameAlone(s)'
    BY <2>7 DEF FrameAlone
  <2>14. OffOK(s)'
    BY <2>1, <2>2, <2>h, <2>3, <2>5, <2>7, <1>v, <1>s, <1>c, <1>o, SMT DEF OffOK
  <2>15. FrameOff(s)'
    BY <2>7 DEF FrameOff
  <2>16. SettledOn(s)'
    <3>1. Settled(s)' => Settled(s)
      BY <2>7, <2>8, <1>p, <1>o, <1>s, Zenon DEF Settled
    <3> QED BY <3>1, <2>2, <2>5, <2>7, <2>h, <1>v DEF SettledOn
  <2>17. HasTime(s)'
    <3>1. TimeShown(s)'
      BY <2>2, <2>h, <2>5, <2>8, <1>v DEF HasTime
    <3>2. TimeCalled(s)'
      BY <2>7
    <3>3. TimeArmed(s)'
      BY <2>7, <1>o, <1>s, SMT
    <3> QED BY <3>1, <3>2, <3>3, Zenon DEF HasTime
  <2>18. Alternate(s)'
    BY <2>1, <2>2, <2>h, <2>3, <2>4, <1>33, <1>v, <1>s, <1>p, <1>c, <1>o, <2>7, SMT DEF Alternate, SameTimer, DeletePcs, RearmPcs
  <2>19. OnceTime(s)'
    BY <2>1, <2>2, <2>h, <2>3, <2>4, <1>v, <1>s, <1>p, <1>c, <1>o, <1>41, <2>7, SMT DEF OnceTime, DeletePcs, RearmPcs
  <2>20. NoCallback(s)'
    BY <2>1, <2>2, <2>h, <2>3, <2>4, <1>v, <1>s, <1>p, <1>c, <1>o, <2>7, SMT DEF NoCallback, DeletePcs, RearmPcs
  <2>21. StoredOK(s)'
    BY <2>1, <2>2, <2>h, <2>3, <2>4, <1>v, <1>s, <1>p, <1>c, <1>o, <1>41, <2>7, SMT DEF StoredOK, OneShot, DeletePcs, RearmPcs
  <2>22. FiredOK(s)'
    <3>1. ~(type[s] \in OneShot /\ ~off[s] /\ fires[s] > 0)
      BY <2>2, <1>s, <1>c, SMT DEF FiredOK
    <3> QED BY <3>1, <1>v, SMT DEF FiredOK, OneShot
  <2> QED BY <2>11, <2>12, <2>13, <2>14, <2>15, <2>16, <2>17, <2>18, <2>19, <2>20, <2>21, <2>22, Zenon
<1>37. \A r \in Kept' : Good(r)'
  BY <1>35, <1>36
<1>21. InitAlone'
  BY <1>31, <1>v, <1>s, <1>p, <1>c, <1>o, <1>41, SMT DEF InitAlone, Actors, Daemon
<1>22. FrameOwn'
  BY <1>31, <1>v, <1>41 DEF FrameOwn
<1> QED
  BY <1>q, <1>11, <1>12, <1>13, <1>14, <1>15, <1>16, <1>17, <1>18, <1>19, <1>21, <1>22, <1>37 DEF IInv, Part1

LEMMA EditSetKeeps ==
  ASSUME ConstantsOK, ~Preempted, IInv,
         NEW a \in Actors, EditSet(a)
  PROVE  IInv'
<1>i. Parts
  BY DEF IInv, Part1
<1>g. Plain
  BY <1>i, Basics, Zenon
<1>s. PICK s : s = op[a].s
  OBVIOUS
<1>p. s \in Schedules /\ op[a].pc = "set" /\ PcOK(op[a].call, op[a].pc)
  BY <1>s, <1>i, <1>g, SMT DEF OpOK, EditSet, At
<1>c. op[a].call \in {"edit"} /\ PcOK(op[a].call, "set")
  BY <1>p, SMT DEF PcOK
<1>o. op'[a] = Idle /\ \A b \in Actors : b # a => op'[b] = op[b]
  <2>1. op' = [op EXCEPT ![a] = Idle]
    BY DEF EditSet
  <2> QED BY <2>1, <1>i, Became, Rests, Zenon
<1>k. op' \in [Actors -> OpSet] /\ PcOK("none", "idle")
  <2>1. op' = [op EXCEPT ![a] = Idle]
    BY DEF EditSet
  <2>2. PcOK("none", "idle")
    BY DEF PcOK
  <2> QED BY <2>1, <2>2, <1>i, Became, Rests, Zenon
<1>q. SameQueue
  <2>1. commands' = commands
    BY DEF EditSet, timerVars, cbVars, ghosts
  <2> QED BY <2>1, <1>i, Quiet, Zenon
<1>v. now' = now /\ mem' = mem /\ type' = type /\ handle' = handle /\ timer' = timer /\ frame' = frame /\ dispatching' = dispatching /\ deleted' = deleted /\ fires' = fires /\ off' = off /\ lost' = lost
  BY DEF EditSet, timerVars, cbVars, ghosts
<1>w. next' \in [Schedules -> Nat] /\ callback' \in [Schedules -> BOOLEAN] /\ stored' \in [Schedules -> Nat \cup {NoEntry}]
  <2>0. next[s] \in Nat /\ op[a].arg \in Nat
    BY <1>i, <1>g, <1>p, SMT DEF TypeOK
  <2>1. \E v \in Nat : next' = [next EXCEPT ![s] = v] /\ stored' = [stored EXCEPT ![s] = v]
    BY <2>0, <1>s DEF EditSet
  <2>2. callback' = [callback EXCEPT ![s] = TRUE]
    BY <1>s DEF EditSet
  <2>3. callback' \in [Schedules -> BOOLEAN]
    BY <2>2, <1>i, Zenon DEF TypeOK
  <2> QED BY <2>1, <2>3, <1>i, <1>p, SMT DEF TypeOK
<1>11. TypeOK'
  BY <1>i, <1>p, <1>q, <1>v, <1>w, Zenon DEF TypeOK, Timers
<1>12. OpOK'
  BY <1>i, <1>g, <1>s, <1>p, <1>c, <1>o, <1>k, <1>v, SMT DEF OpOK, OpSet, Timers, Actors, Daemon
<1>13. TimerOK'
  BY <1>i, <1>g, <1>s, <1>p, <1>c, <1>o, <1>v, SMT DEF TimerOK, Timers, Actors, Daemon
<1>14. HandleOK'
  BY <1>i, <1>g, <1>s, <1>p, <1>c, <1>o, <1>q, <1>v, SMT DEF HandleOK, Actors, Daemon
<1>15. PublishOK'
  BY <1>i, <1>g, <1>s, <1>p, <1>c, <1>o, <1>q, <1>v, SMT DEF PublishOK, EndsOn, Actors, Daemon
<1>16. WorkOK'
  BY <1>i, <1>g, <1>s, <1>p, <1>c, <1>o, <1>v, SMT DEF WorkOK, Actors, Daemon
<1>17. ShareOK'
  BY <1>i, <1>g, <1>s, <1>p, <1>c, <1>o, <1>v, SMT DEF ShareOK, Actors, Daemon
<1>18. FrameOK'
  BY <1>i, <1>g, <1>s, <1>p, <1>c, <1>o, <1>v, SMT DEF FrameOK, FrameSet, Timers, Actors, Daemon
<1>19. QueueOK'
  BY <1>i, <1>g, <1>s, <1>p, <1>c, <1>o, <1>q, <1>v, SMT DEF QueueOK, Timers, Actors, Daemon
<1>31. InitAlone /\ FrameOwn /\ \A r \in Kept : Good(r)
  BY DEF IInv
<1>32. Around
  BY <1>i, <1>31, Surroundings, Zenon
<1>33. \A t \in Timers : SameTimer(t)
  <2>1. commands' = commands
    BY <1>q
  <2>2. \A t \in Timers : Kin(t)
    BY <1>v DEF Kin
  <2> QED BY <2>1, <2>2, <1>i, TimersSame, Zenon
<1>34. now' \in Nat /\ now <= now' /\ Kept' \subseteq Kept
  BY <1>i, <1>v, SMT DEF TypeOK, Kept
<1>44. op'[a].s = NONE /\ op'[a].pc = "idle" /\ op'[a].call = "none"
  BY <1>o, <1>g
<1>41. 
      /\ \A r \in Schedules : r # s => next'[r] = next[r] /\ stored'[r] = stored[r] /\ callback'[r] = callback[r]
      /\ next'[s] = (IF type[s] = "relative" THEN op[a].arg ELSE next[s]) /\ stored'[s] = next'[s]
  <2>1. /\ next \in [Schedules -> Nat] /\ callback \in [Schedules -> BOOLEAN]
        /\ stored \in [Schedules -> Nat \cup {NoEntry}]
    BY <1>i DEF TypeOK
  <2>2. PICK v : v = IF type[s] = "relative" THEN op[a].arg ELSE next[s]
    OBVIOUS
  <2>3. /\ next' = [next EXCEPT ![s] = v] /\ stored' = [stored EXCEPT ![s] = v]
        /\ callback' = [callback EXCEPT ![s] = TRUE]
    BY <2>2, <1>s DEF EditSet
  <2> QED BY <2>1, <2>2, <2>3, <1>p, Zenon
<1>35. ASSUME NEW r \in Kept', r # s
      PROVE  Good(r)'
  <2>1. r \in Kept /\ r \in Schedules /\ r # NONE /\ Good(r)
    BY <1>31, <1>32, <1>34
  <2>2. \A b \in Actors : op[b].s = r \/ op'[b].s = r => op'[b] = op[b]
    BY <1>35, <2>1, <1>s, <1>p, <1>c, <1>o, <1>44, <1>41
  <2>3. SameMemory(r)
    BY <1>35, <2>1, <1>v, <1>44, <1>41
  <2>4. (OnFrame(r)' <=> OnFrame(r)) /\ (OnFrame(r) => frame' = frame)
    BY <1>v, <1>44, <1>41 DEF OnFrame
  <2>5. \A t \in Timers : handle[r] = t \/ timer'[t].id = r => SameTimer(t)
    BY <1>33, <1>44, <1>41
  <2>6. Unmoved(r)
    BY <2>2, <2>3, <2>4, <2>5 DEF Unmoved
  <2> QED BY <1>i, <1>31, <1>34, <2>1, <2>6, Others, Zenon
<1>36. ASSUME s \in Kept'
      PROVE  Good(s)'
  <2>1. Known(s)
    BY <1>32, <1>34, <1>36, <1>i, SMT DEF TypeOK
  <2> USE DEF Good
  <2>2. Good(s)
    BY <1>31, <2>1
  <2>h. PICK h : h = handle[s]
    OBVIOUS
  <2>3. Callback(s, h)
    BY <2>1, <2>h, <1>32, <1>i, SMT DEF Timers, Actors, OpOK
  <2>4. Company(a, s)
    BY <2>1, <2>2, <1>32, <1>s, Zenon
  <2>5. SameRun(h)
    BY <2>3, <1>33, <1>v DEF SameTimer
  <2>6. (OnFrame(s)' <=> OnFrame(s)) /\ frame' = frame
    BY <1>v DEF OnFrame
  <2>7. ~OnFrame(s) /\ ~OnFrame(s)' /\ \A b \in Actors : b # a => op[b].s # s
    <3>2. ~OnFrame(s) /\ ~OnFrame(s)'
      BY <2>2, <2>6, <1>s, <1>c, SMT DEF FrameAlone
    <3>3. ASSUME NEW b \in Actors, b # a, op[b].s = s
          PROVE  FALSE
      BY <3>2, <3>3, <2>3, <2>4, <1>s, <1>c, SMT
    <3> QED BY <3>2, <3>3
  <2>8. (HasNext(s)' <=> HasNext(s)) /\ (HasNext(s) <=> next'[s] > 0) /\ next'[s] \in Nat
    <3>0. op[a].arg \in Nat /\ NONE # s
      BY <1>g, <2>1
    <3>1. HasNext(s) <=> next'[s] > 0
      <4>1. IF type[s] = "relative" THEN next[s] = 0 ELSE op[a].arg = next[s]
        BY <2>2, <1>p, <1>s, SMT DEF EditKept
      <4>2. HasNext(s) <=> next[s] > 0 \/ op[a].arg > 0
        BY <2>7, <1>s, <1>p DEF HasNext
      <4> QED BY <4>1, <4>2, <1>41, <2>1, <3>0, SMT
    <3>2. HasNext(s)' <=> next'[s] > 0
      BY <2>7, <1>g, <3>0, <1>o DEF HasNext
    <3> QED BY <3>0, <3>1, <3>2, <1>41, <2>1, SMT
  <2>11. EnableOn(s)'
    BY <2>1, <2>2, <2>h, <2>3, <2>4, <1>v, <1>s, <1>p, <1>c, <1>o, <1>44, <2>7, SMT DEF EnableOn, DeletePcs, RearmPcs
  <2>12. EditKept(s)'
    BY <2>1, <2>2, <2>h, <2>3, <2>4, <1>v, <1>s, <1>p, <1>c, <1>o, <1>44, <1>41, <2>7, SMT DEF EditKept, DeletePcs, RearmPcs
  <2>13. FrameAlone(s)'
    BY <2>7 DEF FrameAlone
  <2>14. OffOK(s)'
    BY <2>1, <2>2, <2>h, <2>3, <2>4, <2>5, <1>v, <1>s, <1>p, <1>c, <1>o, <1>44, <2>7, SMT DEF OffOK, DeletePcs, RearmPcs
  <2>15. FrameOff(s)'
    BY <2>7 DEF FrameOff
  <2>16. SettledOn(s)'
    <3>1. Settled(s)' => Settled(s)
      BY <2>7, <2>8, <1>p, <1>o, <1>s, Zenon DEF Settled
    <3> QED BY <3>1, <2>2, <2>5, <2>7, <2>h, <1>v DEF SettledOn
  <2>17. HasTime(s)'
    <3>1. TimeShown(s)'
      BY <2>2, <2>h, <2>5, <2>8, <1>v DEF HasTime
    <3>2. TimeCalled(s)'
      BY <2>7
    <3>3. TimeArmed(s)'
      BY <2>7, <2>1, <1>g, <1>o, <1>s, SMT
    <3> QED BY <3>1, <3>2, <3>3, Zenon DEF HasTime
  <2>18. Alternate(s)'
    BY <2>1, <2>2, <2>h, <2>3, <2>4, <1>33, <1>v, <1>s, <1>p, <1>c, <1>o, <1>44, <2>7, SMT DEF Alternate, SameTimer, DeletePcs, RearmPcs
  <2>19. OnceTime(s)'
    BY <2>2, <1>41, <1>v, SMT DEF OnceTime
  <2>20. NoCallback(s)'
    <3>1. mem'[s] # "none"
      BY <1>i, <1>s, <1>p, <1>g, <1>v, SMT DEF WorkOK
    <3>2. \A b \in Actors : op'[b].s # s
      BY <2>7, <2>1, <1>o, <1>g, <1>s
    <3> QED BY <3>1, <3>2 DEF NoCallback
  <2>21. StoredOK(s)'
    BY <1>41 DEF StoredOK
  <2>22. FiredOK(s)'
    <3>1. ~(type[s] \in OneShot /\ ~off[s] /\ fires[s] > 0)
      BY <2>2, <1>s, <1>c, SMT DEF FiredOK
    <3> QED BY <3>1, <1>v, SMT DEF FiredOK, OneShot
  <2> QED BY <2>11, <2>12, <2>13, <2>14, <2>15, <2>16, <2>17, <2>18, <2>19, <2>20, <2>21, <2>22, Zenon
<1>37. \A r \in Kept' : Good(r)'
  BY <1>35, <1>36
<1>21. InitAlone'
  BY <1>31, <1>v, <1>s, <1>p, <1>c, <1>o, <1>44, <1>41, SMT DEF InitAlone, Actors, Daemon
<1>22. FrameOwn'
  BY <1>31, <1>v, <1>44, <1>41 DEF FrameOwn
<1> QED
  BY <1>q, <1>11, <1>12, <1>13, <1>14, <1>15, <1>16, <1>17, <1>18, <1>19, <1>21, <1>22, <1>37 DEF IInv, Part1

LEMMA EraseKeeps ==
  ASSUME ConstantsOK, ~Preempted, IInv,
         NEW a \in Actors, Erase(a)
  PROVE  IInv'
<1>i. Parts
  BY DEF IInv, Part1
<1>g. Plain
  BY <1>i, Basics, Zenon
<1>s. PICK s : s = op[a].s
  OBVIOUS
<1>p. s \in Schedules /\ op[a].pc = "erase" /\ PcOK(op[a].call, op[a].pc)
  BY <1>s, <1>i, <1>g, SMT DEF OpOK, Erase, At
<1>c. op[a].call \in {"init", "delete"} /\ PcOK(op[a].call, "free")
  BY <1>p, SMT DEF PcOK
<1>o. /\ op'[a].pc = "free" /\ op'[a].call = op[a].call /\ op'[a].s = op[a].s /\ op'[a].arg = op[a].arg
      /\ \A b \in Actors : b # a => op'[b] = op[b]
  BY <1>i, GoneTo, Zenon DEF Erase, Pcs
<1>k. op' \in [Actors -> OpSet]
  BY <1>i, GoneTo, Zenon DEF Erase, Pcs
<1>q. SameQueue
  <2>1. commands' = commands
    BY DEF Erase, timerVars, cbVars, ghosts
  <2> QED BY <2>1, <1>i, Quiet, Zenon
<1>v. now' = now /\ mem' = mem /\ type' = type /\ next' = next /\ callback' = callback /\ handle' = handle /\ timer' = timer /\ frame' = frame /\ dispatching' = dispatching /\ deleted' = deleted /\ fires' = fires /\ off' = off /\ lost' = lost
  BY DEF Erase, timerVars, cbVars, ghosts
<1>w. stored' \in [Schedules -> Nat \cup {NoEntry}]
  BY <1>i, <1>s, <1>p, SMT DEF Erase, TypeOK
<1>11. TypeOK'
  BY <1>i, <1>p, <1>q, <1>v, <1>w, Zenon DEF TypeOK, Timers
<1>12. OpOK'
  BY <1>i, <1>g, <1>s, <1>p, <1>c, <1>o, <1>k, <1>v, SMT DEF OpOK, OpSet, Timers, Actors, Daemon
<1>13. TimerOK'
  BY <1>i, <1>g, <1>s, <1>p, <1>c, <1>o, <1>v, SMT DEF TimerOK, Timers, Actors, Daemon
<1>14. HandleOK'
  BY <1>i, <1>g, <1>s, <1>p, <1>c, <1>o, <1>q, <1>v, SMT DEF HandleOK, Actors, Daemon
<1>15. PublishOK'
  BY <1>i, <1>g, <1>s, <1>p, <1>c, <1>o, <1>q, <1>v, SMT DEF PublishOK, EndsOn, Actors, Daemon
<1>16. WorkOK'
  BY <1>i, <1>g, <1>s, <1>p, <1>c, <1>o, <1>v, SMT DEF WorkOK, Actors, Daemon
<1>17. ShareOK'
  BY <1>i, <1>g, <1>s, <1>p, <1>c, <1>o, <1>v, SMT DEF ShareOK, Actors, Daemon
<1>18. FrameOK'
  BY <1>i, <1>g, <1>s, <1>p, <1>c, <1>o, <1>v, SMT DEF FrameOK, FrameSet, Timers, Actors, Daemon
<1>19. QueueOK'
  BY <1>i, <1>g, <1>s, <1>p, <1>c, <1>o, <1>q, <1>v, SMT DEF QueueOK, Timers, Actors, Daemon
<1>31. InitAlone /\ FrameOwn /\ \A r \in Kept : Good(r)
  BY DEF IInv
<1>32. Around
  BY <1>i, <1>31, Surroundings, Zenon
<1>33. \A t \in Timers : SameTimer(t)
  <2>1. commands' = commands
    BY <1>q
  <2>2. \A t \in Timers : Kin(t)
    BY <1>v DEF Kin
  <2> QED BY <2>1, <2>2, <1>i, TimersSame, Zenon
<1>34. now' \in Nat /\ now <= now' /\ Kept' \subseteq Kept
  BY <1>i, <1>v, SMT DEF TypeOK, Kept
<1>41. stored'[s] = NoEntry /\ \A r \in Schedules : r # s => stored'[r] = stored[r]
  BY <1>i, <1>s, <1>p, SMT DEF Erase, TypeOK
<1>35. ASSUME NEW r \in Kept', r # s
      PROVE  Good(r)'
  <2>1. r \in Kept /\ r \in Schedules /\ r # NONE /\ Good(r)
    BY <1>31, <1>32, <1>34
  <2>2. \A b \in Actors : op[b].s = r \/ op'[b].s = r => op'[b] = op[b]
    BY <1>35, <2>1, <1>s, <1>p, <1>c, <1>o, <1>41
  <2>3. SameMemory(r)
    BY <1>35, <2>1, <1>v, <1>41
  <2>4. (OnFrame(r)' <=> OnFrame(r)) /\ (OnFrame(r) => frame' = frame)
    BY <1>v, <1>41 DEF OnFrame
  <2>5. \A t \in Timers : handle[r] = t \/ timer'[t].id = r => SameTimer(t)
    BY <1>33, <1>41
  <2>6. Unmoved(r)
    BY <2>2, <2>3, <2>4, <2>5 DEF Unmoved
  <2> QED BY <1>i, <1>31, <1>34, <2>1, <2>6, Others, Zenon
<1>36. ASSUME s \in Kept'
      PROVE  Good(s)'
  <2>1. Known(s)
    BY <1>32, <1>34, <1>36, <1>i, SMT DEF TypeOK
  <2> USE DEF Good
  <2>2. Good(s)
    BY <1>31, <2>1
  <2>h. PICK h : h = handle[s]
    OBVIOUS
  <2>3. Callback(s, h)
    BY <2>1, <2>h, <1>32, <1>i, SMT DEF Timers, Actors, OpOK
  <2>4. Company(a, s)
    BY <2>1, <2>2, <1>32, <1>s, Zenon
  <2>5. SameRun(h)
    BY <2>3, <1>33, <1>v DEF SameTimer
  <2>6. (OnFrame(s)' <=> OnFrame(s)) /\ frame' = frame
    BY <1>v DEF OnFrame
  <2>7. h = 0 /\ ~OnFrame(s) /\ ~OnFrame(s)' /\ \A b \in Actors : b # a => op[b].s # s
    <3>1. h = 0
      BY <2>h, <1>i, <1>s, <1>p, <1>g, Zenon DEF WorkOK
    <3>2. ~OnFrame(s) /\ ~OnFrame(s)'
      BY <3>1, <2>3, <2>6
    <3>3. ASSUME NEW b \in Actors, b # a, op[b].s = s
          PROVE  FALSE
      BY <3>2, <3>3, <2>3, <2>4, <1>s, <1>c, SMT
    <3> QED BY <3>1, <3>2, <3>3
  <2>11. EnableOn(s)'
    BY <2>1, <2>2, <2>h, <2>3, <2>4, <1>v, <1>s, <1>p, <1>c, <1>o, SMT DEF EnableOn, DeletePcs, RearmPcs
  <2>12. EditKept(s)'
    BY <2>1, <2>2, <2>h, <2>3, <2>4, <1>v, <1>s, <1>p, <1>c, <1>o, SMT DEF EditKept, DeletePcs, RearmPcs
  <2>13. FrameAlone(s)'
    BY <2>7 DEF FrameAlone
  <2>14. OffOK(s)'
    BY <2>7, <2>h, <1>v DEF OffOK
  <2>15. FrameOff(s)'
    BY <2>7 DEF FrameOff
  <2>16. SettledOn(s)'
    BY <2>7, <2>h, <1>v DEF SettledOn
  <2>17. HasTime(s)'
    <3>1. TimeShown(s)'
      BY <2>h, <2>7, <1>v
    <3>2. TimeCalled(s)'
      BY <2>7
    <3>3. TimeArmed(s)'
      BY <2>7, <1>o, <1>s, SMT
    <3> QED BY <3>1, <3>2, <3>3, Zenon DEF HasTime
  <2>18. Alternate(s)'
    BY <2>1, <2>2, <2>h, <2>3, <2>4, <1>33, <1>v, <1>s, <1>p, <1>c, <1>o, SMT DEF Alternate, SameTimer, DeletePcs, RearmPcs
  <2>19. OnceTime(s)'
    BY <2>2, <1>41, <1>v, SMT DEF OnceTime, NoEntry
  <2>20. NoCallback(s)'
    BY <2>1, <2>2, <2>h, <2>3, <2>4, <1>v, <1>s, <1>p, <1>c, <1>o, SMT DEF NoCallback, DeletePcs, RearmPcs
  <2>21. StoredOK(s)'
    BY <2>1, <2>2, <2>h, <2>3, <2>4, <1>v, <1>s, <1>p, <1>c, <1>o, <1>41, SMT DEF StoredOK, OneShot, DeletePcs, RearmPcs
  <2>22. FiredOK(s)'
    <3> SUFFICES ASSUME type[s] \in OneShot, ~off[s], fires[s] > 0
                 PROVE  FiredOK(s)'
      BY <1>v, SMT DEF FiredOK, OneShot
    <3>0. Over(s, h)
      BY <2>2, <2>h DEF FiredOK
    <3>1. (fires[s] = 1 /\ next[s] <= now)'
      BY <3>0, <1>v
    <3>2. (handle[s] # 0 => ~EndsOn(handle[s]))'
      BY <2>7, <2>h, <1>v
    <3>3. (OnFrame(s) => frame.at # "enter")'
      BY <2>7
    <3>4. OverDaemon(s)'
      BY <3>0, <2>3, <1>o, <1>s, <1>p, SMT
    <3>5. OverStored(s)'
      BY <1>41
    <3>6. OverLive(s)'
      BY <3>0, <1>v, <1>o, <1>s, SMT DEF Actors
    <3>7. OverCalls(s)'
      BY <3>0, <1>o, <1>s, <1>c, SMT
    <3>8. OverInit(s)'
      BY <3>0, <1>p, <1>c, <1>o, <1>s, SMT
    <3>9. OverCheck(s)'
      BY <2>7, <1>o, <1>s, SMT
    <3> QED BY <3>1, <3>2, <3>3, <3>4, <3>5, <3>6, <3>7, <3>8, <3>9, Zenon DEF FiredOK
  <2> QED BY <2>11, <2>12, <2>13, <2>14, <2>15, <2>16, <2>17, <2>18, <2>19, <2>20, <2>21, <2>22, Zenon
<1>37. \A r \in Kept' : Good(r)'
  BY <1>35, <1>36
<1>21. InitAlone'
  BY <1>31, <1>v, <1>s, <1>p, <1>c, <1>o, <1>41, SMT DEF InitAlone, Actors, Daemon
<1>22. FrameOwn'
  BY <1>31, <1>v, <1>41 DEF FrameOwn
<1> QED
  BY <1>q, <1>11, <1>12, <1>13, <1>14, <1>15, <1>16, <1>17, <1>18, <1>19, <1>21, <1>22, <1>37 DEF IInv, Part1

LEMMA CheckKeeps ==
  ASSUME ConstantsOK, ~Preempted, IInv,
         NEW a \in Actors, Check(a)
  PROVE  IInv'
<1>i. Parts
  BY DEF IInv, Part1
<1>g. Plain
  BY <1>i, Basics, Zenon
<1>s. PICK s : s = op[a].s
  OBVIOUS
<1>p. s \in Schedules /\ op[a].pc = "check" /\ PcOK(op[a].call, op[a].pc)
  BY <1>s, <1>i, <1>g, SMT DEF OpOK, Check, At
<1>c. op[a].call \in {"init"} /\ PcOK(op[a].call, "erase") /\ PcOK(op[a].call, "compute")
  BY <1>p, SMT DEF PcOK
<1>o. /\ op'[a].pc \in {"erase", "compute"} /\ op'[a].call = op[a].call /\ op'[a].s = op[a].s /\ op'[a].arg = op[a].arg
      /\ \A b \in Actors : b # a => op'[b] = op[b]
  <2>1. (GoTo(a, "erase") \/ GoTo(a, "compute")) /\ "erase" \in Pcs /\ "compute" \in Pcs
    BY DEF Check, Pcs
  <2> QED BY <2>1, <1>i, GoneTo, Zenon
<1>k. op' \in [Actors -> OpSet]
  <2>1. (GoTo(a, "erase") \/ GoTo(a, "compute")) /\ "erase" \in Pcs /\ "compute" \in Pcs
    BY DEF Check, Pcs
  <2> QED BY <2>1, <1>i, GoneTo, Zenon
<1>q. SameQueue
  <2>1. commands' = commands
    BY DEF Check, timerVars, cbVars, ghosts
  <2> QED BY <2>1, <1>i, Quiet, Zenon
<1>v. now' = now /\ mem' = mem /\ type' = type /\ callback' = callback /\ handle' = handle /\ stored' = stored /\ timer' = timer /\ frame' = frame /\ dispatching' = dispatching /\ deleted' = deleted /\ fires' = fires /\ off' = off /\ lost' = lost
  BY DEF Check, timerVars, cbVars, ghosts
<1>w. next' \in [Schedules -> Nat]
  <2>1. NextTime(s) \in Nat
    BY <1>p, <1>i, NextTimeRules, Zenon
  <2> QED BY <2>1, <1>i, <1>s, <1>p, SMT DEF Check, TypeOK
<1>11. TypeOK'
  BY <1>i, <1>p, <1>q, <1>v, <1>w, Zenon DEF TypeOK, Timers
<1>12. OpOK'
  BY <1>i, <1>g, <1>s, <1>p, <1>c, <1>o, <1>k, <1>v, SMT DEF OpOK, OpSet, Timers, Actors, Daemon
<1>13. TimerOK'
  BY <1>i, <1>g, <1>s, <1>p, <1>c, <1>o, <1>v, SMT DEF TimerOK, Timers, Actors, Daemon
<1>14. HandleOK'
  BY <1>i, <1>g, <1>s, <1>p, <1>c, <1>o, <1>q, <1>v, SMT DEF HandleOK, Actors, Daemon
<1>15. PublishOK'
  BY <1>i, <1>g, <1>s, <1>p, <1>c, <1>o, <1>q, <1>v, SMT DEF PublishOK, EndsOn, Actors, Daemon
<1>16. WorkOK'
  BY <1>i, <1>g, <1>s, <1>p, <1>c, <1>o, <1>v, SMT DEF WorkOK, Actors, Daemon
<1>17. ShareOK'
  BY <1>i, <1>g, <1>s, <1>p, <1>c, <1>o, <1>v, SMT DEF ShareOK, Actors, Daemon
<1>18. FrameOK'
  BY <1>i, <1>g, <1>s, <1>p, <1>c, <1>o, <1>v, SMT DEF FrameOK, FrameSet, Timers, Actors, Daemon
<1>19. QueueOK'
  BY <1>i, <1>g, <1>s, <1>p, <1>c, <1>o, <1>q, <1>v, SMT DEF QueueOK, Timers, Actors, Daemon
<1>31. InitAlone /\ FrameOwn /\ \A r \in Kept : Good(r)
  BY DEF IInv
<1>32. Around
  BY <1>i, <1>31, Surroundings, Zenon
<1>33. \A t \in Timers : SameTimer(t)
  <2>1. commands' = commands
    BY <1>q
  <2>2. \A t \in Timers : Kin(t)
    BY <1>v DEF Kin
  <2> QED BY <2>1, <2>2, <1>i, TimersSame, Zenon
<1>34. now' \in Nat /\ now <= now' /\ Kept' \subseteq Kept
  BY <1>i, <1>v, SMT DEF TypeOK, Kept
<1>41. 
      /\ \A r \in Schedules : r # s => next'[r] = next[r]
      /\ next'[s] = NextTime(s) /\ (op'[a].pc = "erase" <=> NextTime(s) = 0)
      /\ op'[a].pc \in {"erase", "compute"}
  <2>0. next \in [Schedules -> Nat] /\ next' = [next EXCEPT ![s] = NextTime(s)]
    BY <1>i, <1>s DEF TypeOK, Check
  <2>1. GoTo(a, IF NextTime(s) = 0 THEN "erase" ELSE "compute") /\ (IF NextTime(s) = 0 THEN "erase" ELSE "compute") \in Pcs
    BY <1>s DEF Check, Pcs
  <2>2. op'[a].pc = IF NextTime(s) = 0 THEN "erase" ELSE "compute"
    BY <2>1, <1>i, GoneTo, Zenon
  <2> QED BY <2>0, <2>2, <1>p
<1>42. 
      /\ NextTime(s) \in Nat /\ (NextTime(s) # 0 => NextTime(s) > now)
      /\ type[s] \in OneShot /\ next[s] > 0 /\ next[s] <= now => NextTime(s) = 0
      /\ type[s] = "once" /\ NextTime(s) # 0 =>
           NextTime(s) % Delay[s] = 0 /\ NextTime(s) <= now + Delay[s]
  BY <1>i, <1>p, NextTimeRules, Zenon
<1>35. ASSUME NEW r \in Kept', r # s
      PROVE  Good(r)'
  <2>1. r \in Kept /\ r \in Schedules /\ r # NONE /\ Good(r)
    BY <1>31, <1>32, <1>34
  <2>2. \A b \in Actors : op[b].s = r \/ op'[b].s = r => op'[b] = op[b]
    BY <1>35, <2>1, <1>s, <1>p, <1>c, <1>o, <1>41
  <2>3. SameMemory(r)
    BY <1>35, <2>1, <1>v, <1>41
  <2>4. (OnFrame(r)' <=> OnFrame(r)) /\ (OnFrame(r) => frame' = frame)
    BY <1>v, <1>41 DEF OnFrame
  <2>5. \A t \in Timers : handle[r] = t \/ timer'[t].id = r => SameTimer(t)
    BY <1>33, <1>41
  <2>6. Unmoved(r)
    BY <2>2, <2>3, <2>4, <2>5 DEF Unmoved
  <2> QED BY <1>i, <1>31, <1>34, <2>1, <2>6, Others, Zenon
<1>36. ASSUME s \in Kept'
      PROVE  Good(s)'
  <2>1. Known(s)
    BY <1>32, <1>34, <1>36, <1>i, SMT DEF TypeOK
  <2> USE DEF Good
  <2>2. Good(s)
    BY <1>31, <2>1
  <2>h. PICK h : h = handle[s]
    OBVIOUS
  <2>3. Callback(s, h)
    BY <2>1, <2>h, <1>32, <1>i, SMT DEF Timers, Actors, OpOK
  <2>4. Company(a, s)
    BY <2>1, <2>2, <1>32, <1>s, Zenon
  <2>5. SameRun(h)
    BY <2>3, <1>33, <1>v DEF SameTimer
  <2>6. (OnFrame(s)' <=> OnFrame(s)) /\ frame' = frame
    BY <1>v DEF OnFrame
  <2>7. ~OnFrame(s) /\ ~OnFrame(s)' /\ h = 0 /\ \A b \in Actors : b # a => op[b].s # s
    <3>1. h = 0
      BY <2>h, <1>i, <1>s, <1>p, <1>g, Zenon DEF WorkOK
    <3>2. ~OnFrame(s) /\ ~OnFrame(s)'
      BY <2>2, <2>6, <1>s, <1>c, SMT DEF FrameAlone
    <3>3. ASSUME NEW b \in Actors, b # a, op[b].s = s
          PROVE  FALSE
      BY <3>2, <3>3, <2>3, <2>4, <1>s, <1>c, SMT
    <3> QED BY <3>1, <3>2, <3>3
  <2>11. EnableOn(s)'
    BY <2>1, <2>2, <2>h, <2>3, <2>4, <1>v, <1>s, <1>p, <1>c, <1>o, <2>7, SMT DEF EnableOn, DeletePcs, RearmPcs
  <2>12. EditKept(s)'
    BY <2>1, <2>2, <2>h, <2>3, <2>4, <1>v, <1>s, <1>p, <1>c, <1>o, <1>41, <2>7, SMT DEF EditKept, DeletePcs, RearmPcs
  <2>13. FrameAlone(s)'
    BY <2>7 DEF FrameAlone
  <2>14. OffOK(s)'
    BY <2>7, <2>h, <1>v DEF OffOK
  <2>15. FrameOff(s)'
    BY <2>7 DEF FrameOff
  <2>16. SettledOn(s)'
    BY <2>7, <2>h, <1>v DEF SettledOn
  <2>17. HasTime(s)'
    <3>1. TimeShown(s)'
      BY <2>h, <2>7, <1>v
    <3>2. TimeCalled(s)'
      BY <2>7
    <3>3. TimeArmed(s)'
      BY <2>7, <1>41, <1>s, <1>o, SMT
    <3> QED BY <3>1, <3>2, <3>3, Zenon DEF HasTime
  <2>18. Alternate(s)'
    BY <2>1, <2>2, <2>h, <2>3, <2>4, <1>33, <1>v, <1>s, <1>p, <1>c, <1>o, <2>7, SMT DEF Alternate, SameTimer, DeletePcs, RearmPcs
  <2>19. OnceTime(s)'
    BY <2>1, <2>2, <2>h, <2>3, <2>4, <1>v, <1>s, <1>p, <1>c, <1>o, <1>41, <1>42, <2>7, SMT DEF OnceTime, DeletePcs, RearmPcs
  <2>20. NoCallback(s)'
    BY <2>1, <2>2, <2>h, <2>3, <2>4, <1>v, <1>s, <1>p, <1>c, <1>o, <1>41, <2>7, SMT DEF NoCallback, DeletePcs, RearmPcs
  <2>21. StoredOK(s)'
    BY <2>2, <1>v, <1>s, <1>c DEF StoredOK, NoCallback
  <2>22. FiredOK(s)'
    <3> SUFFICES ASSUME type[s] \in OneShot, ~off[s], fires[s] > 0
                 PROVE  FiredOK(s)'
      BY <1>v, SMT DEF FiredOK, OneShot
    <3>0. Over(s, h)
      BY <2>2, <2>h DEF FiredOK
    <3>10. next[s] > 0 /\ next[s] <= now
      BY <3>0, <1>s, <1>p
    <3>11. NextTime(s) = 0 /\ now \in Nat
      BY <3>10, <1>42, <2>1
    <3>12. next'[s] = 0 /\ op'[a].pc = "erase"
      BY <3>11, <1>41
    <3>1. (fires[s] = 1 /\ next[s] <= now)'
      BY <3>0, <3>11, <3>12, <1>v, SMT
    <3>2. (handle[s] # 0 => ~EndsOn(handle[s]))'
      BY <2>7, <2>h, <1>v
    <3>3. (OnFrame(s) => frame.at # "enter")'
      BY <2>7
    <3>4. OverDaemon(s)'
      BY <3>0, <2>3, <3>12, <1>o, <1>c, <1>s, SMT
    <3>5. OverStored(s)'
      BY <3>0, <1>v
    <3>6. OverLive(s)'
      BY <3>0, <1>v, <1>o, <1>s, SMT DEF Actors
    <3>7. OverCalls(s)'
      BY <3>0, <1>o, <1>s, SMT
    <3>8. OverInit(s)'
      BY <3>0, <3>12, <2>7, <1>o, <1>s, SMT
    <3>9. OverCheck(s)'
      BY <2>7, <3>12, <1>o, <1>s, SMT
    <3> QED BY <3>1, <3>2, <3>3, <3>4, <3>5, <3>6, <3>7, <3>8, <3>9, Zenon DEF FiredOK
  <2> QED BY <2>11, <2>12, <2>13, <2>14, <2>15, <2>16, <2>17, <2>18, <2>19, <2>20, <2>21, <2>22, Zenon
<1>37. \A r \in Kept' : Good(r)'
  BY <1>35, <1>36
<1>21. InitAlone'
  BY <1>31, <1>v, <1>s, <1>p, <1>c, <1>o, <1>41, SMT DEF InitAlone, Actors, Daemon
<1>22. FrameOwn'
  BY <1>31, <1>v, <1>41 DEF FrameOwn
<1> QED
  BY <1>q, <1>11, <1>12, <1>13, <1>14, <1>15, <1>16, <1>17, <1>18, <1>19, <1>21, <1>22, <1>37 DEF IInv, Part1

LEMMA LoadedKeeps ==
  ASSUME ConstantsOK, ~Preempted, IInv,
         NEW a \in Actors, Loaded(a)
  PROVE  IInv'
<1>i. Parts
  BY DEF IInv, Part1
<1>g. Plain
  BY <1>i, Basics, Zenon
<1>p. op[a].pc = "load" /\ op[a].s = NONE
  BY <1>g DEF Loaded, At
<1>o. op'[a] = Idle /\ \A b \in Actors : b # a => op'[b] = op[b]
  <2>1. op' = [op EXCEPT ![a] = Idle]
    BY DEF Loaded
  <2> QED BY <2>1, <1>i, Became, Rests, Zenon
<1>k. op' \in [Actors -> OpSet] /\ PcOK("none", "idle")
  <2>1. op' = [op EXCEPT ![a] = Idle]
    BY DEF Loaded
  <2>2. PcOK("none", "idle")
    BY DEF PcOK
  <2> QED BY <2>1, <2>2, <1>i, Became, Rests, Zenon
<1>q. SameQueue
  <2>1. commands' = commands
    BY DEF Loaded, timerVars
  <2> QED BY <2>1, <1>i, Quiet, Zenon
<1>v. now' = now /\ mem' = mem /\ type' = type /\ next' = next /\ callback' = callback /\ handle' = handle /\ stored' = stored /\ timer' = timer /\ frame' = frame /\ dispatching' = dispatching /\ deleted' = deleted /\ fires' = fires /\ off' = off /\ lost' = lost
  BY DEF Loaded, memVars, timerVars, cbVars, ghosts
<1>11. TypeOK'
  BY <1>i, <1>q, <1>v, Zenon DEF TypeOK, Timers
<1>12. OpOK'
  BY <1>i, <1>g, <1>p, <1>o, <1>k, <1>v, SMT DEF OpOK, OpSet, Timers, Actors, Daemon
<1>13. TimerOK'
  BY <1>i, <1>g, <1>p, <1>o, <1>v, SMT DEF TimerOK, Timers, Actors, Daemon
<1>14. HandleOK'
  BY <1>i, <1>g, <1>p, <1>o, <1>q, <1>v, SMT DEF HandleOK, Actors, Daemon
<1>15. PublishOK'
  BY <1>i, <1>g, <1>p, <1>o, <1>q, <1>v, SMT DEF PublishOK, EndsOn, Actors, Daemon
<1>16. WorkOK'
  BY <1>i, <1>g, <1>p, <1>o, <1>v, SMT DEF WorkOK, Actors, Daemon
<1>17. ShareOK'
  BY <1>i, <1>g, <1>p, <1>o, <1>v, SMT DEF ShareOK, Actors, Daemon
<1>18. FrameOK'
  BY <1>i, <1>g, <1>p, <1>o, <1>v, SMT DEF FrameOK, FrameSet, Timers, Actors, Daemon
<1>19. QueueOK'
  BY <1>i, <1>g, <1>p, <1>o, <1>q, <1>v, SMT DEF QueueOK, Timers, Actors, Daemon
<1>31. InitAlone /\ FrameOwn /\ \A r \in Kept : Good(r)
  BY DEF IInv
<1>32. Around
  BY <1>i, <1>31, Surroundings, Zenon
<1>33. \A t \in Timers : SameTimer(t)
  <2>1. commands' = commands
    BY <1>q
  <2>2. \A t \in Timers : Kin(t)
    BY <1>v DEF Kin
  <2> QED BY <2>1, <2>2, <1>i, TimersSame, Zenon
<1>34. now' \in Nat /\ now <= now' /\ Kept' \subseteq Kept
  BY <1>i, <1>v, SMT DEF TypeOK, Kept
<1>44. op'[a].s = NONE /\ op'[a].pc = "idle" /\ op'[a].call = "none"
  BY <1>o, <1>g
<1>35. ASSUME NEW r \in Kept'
      PROVE  Good(r)'
  <2>1. r \in Kept /\ r \in Schedules /\ r # NONE /\ Good(r)
    BY <1>31, <1>32, <1>34
  <2>2. \A b \in Actors : op[b].s = r \/ op'[b].s = r => op'[b] = op[b]
    BY <1>35, <2>1, <1>p, <1>o, <1>44
  <2>3. SameMemory(r)
    BY <1>35, <2>1, <1>v, <1>44
  <2>4. (OnFrame(r)' <=> OnFrame(r)) /\ (OnFrame(r) => frame' = frame)
    BY <1>v, <1>44 DEF OnFrame
  <2>5. \A t \in Timers : handle[r] = t \/ timer'[t].id = r => SameTimer(t)
    BY <1>33, <1>44
  <2>6. Unmoved(r)
    BY <2>2, <2>3, <2>4, <2>5 DEF Unmoved
  <2> QED BY <1>i, <1>31, <1>34, <2>1, <2>6, Others, Zenon
<1>37. \A r \in Kept' : Good(r)'
  BY <1>35
<1>21. InitAlone'
  BY <1>31, <1>v, <1>p, <1>o, <1>44, SMT DEF InitAlone, Actors, Daemon
<1>22. FrameOwn'
  BY <1>31, <1>v, <1>44 DEF FrameOwn
<1> QED
  BY <1>q, <1>11, <1>12, <1>13, <1>14, <1>15, <1>16, <1>17, <1>18, <1>19, <1>21, <1>22, <1>37 DEF IInv, Part1

LEMMA ArmedKeeps ==
  ASSUME ConstantsOK, ~Preempted, IInv,
         NEW a \in Actors, Armed(a)
  PROVE  IInv'
<1>i. Parts
  BY DEF IInv, Part1
<1>g. Plain
  BY <1>i, Basics, Zenon
<1>s. PICK s : s = op[a].s
  OBVIOUS
<1>p. s \in Schedules /\ op[a].pc = "armed" /\ PcOK(op[a].call, op[a].pc)
  BY <1>s, <1>i, <1>g, SMT DEF OpOK, Armed, At
<1>o. /\ op'[a].s = NONE /\ \A b \in Actors : b # a => op'[b] = op[b]
      /\ op[a].call = "init" => op'[a].call = "init" /\ op'[a].pc = "load"
      /\ op[a].call # "init" => op'[a] = Idle
      /\ op' \in [Actors -> OpSet]
  <2>1. CASE op[a].call = "init"
    <3> DEFINE r == [Idle EXCEPT !.call = "init", !.pc = "load"]
    <3>1. op' = [op EXCEPT ![a] = r]
      BY <2>1 DEF Armed
    <3>2. r \in OpSet /\ r.call = "init" /\ r.s = NONE /\ r.pc = "load"
      BY Rests, Zenon
    <3> QED BY <3>1, <3>2, <2>1, <1>i, Became, Zenon
  <2>2. CASE op[a].call # "init"
    <3>1. op' = [op EXCEPT ![a] = Idle]
      BY <2>2 DEF Armed
    <3> QED BY <3>1, <2>2, <1>i, Became, Rests, Zenon
  <2> QED BY <2>1, <2>2
<1>k. /\ op'[a].s = NONE /\ op'[a].pc \in {"idle", "load"} /\ op'[a].call \in {"none", "init"}
      /\ \A b \in Actors : b # a => op'[b] = op[b]
      /\ op[a].call = "rearm" => op'[a] = Idle
  BY <1>o, <1>g, SMT
<1>c. PcOK("none", "idle") /\ PcOK("init", "load") /\ (op[a].call = "init" => a # Daemon)
  BY <1>i DEF PcOK, OpOK
<1>q. SameQueue
  <2>1. commands' = commands
    BY DEF Armed, timerVars
  <2> QED BY <2>1, <1>i, Quiet, Zenon
<1>v. /\ now' = now /\ mem' = mem /\ type' = type /\ next' = next /\ callback' = callback
      /\ handle' = handle /\ timer' = timer /\ dispatching' = dispatching /\ deleted' = deleted /\ lost' = lost
  BY DEF Armed, timerVars
<1>x. /\ op[a].call = "rearm" => frame' = NoFrame
      /\ op[a].call # "rearm" => frame' = frame
  BY DEF Armed
<1>z. op[a].call = "rearm" => a = Daemon /\ frame.at = "rearm" /\ frame.s = s
  BY <1>i, <1>s, <1>g, <1>p, SMT DEF OpOK, FrameOK, FrameSet
<1>y. op[a].call # "delete" /\ (op[a].call = "rearm" => op[Daemon].call = "rearm" /\ dispatching = NONE /\ ~deleted) /\ NoFrame \in FrameSet
  <2>1. op[a].call # "delete"
    BY <1>p, SMT DEF PcOK
  <2>2. op[a].call = "rearm" => op[Daemon].call = "rearm" /\ dispatching = NONE /\ ~deleted
    BY <1>i, <1>z, SMT DEF FrameOK
  <2>3. NoFrame \in FrameSet
    BY SMT DEF NoFrame, FrameSet, ConstantsOK
  <2> QED BY <2>1, <2>2, <2>3
<1>w. /\ stored' \in [Schedules -> Nat \cup {NoEntry}] /\ fires' \in [Schedules -> Nat]
      /\ off' \in [Schedules -> BOOLEAN] /\ frame'.at \in {"idle", "enter", "trigger", "rearm"}
  <2>1. stored' \in [Schedules -> Nat \cup {NoEntry}]
    <3>1. stored' = stored \/ stored' = [stored EXCEPT ![s] = next[s]]
      BY <1>s DEF Armed
    <3>2. stored \in [Schedules -> Nat \cup {NoEntry}] /\ next[s] \in Nat
      BY <1>i, <1>p, SMT DEF TypeOK
    <3> QED BY <3>1, <3>2, <1>p, SMT
  <2>2. fires' \in [Schedules -> Nat]
    <3>1. fires \in [Schedules -> Nat] /\ fires[s] \in Nat
      BY <1>i, <1>p, SMT DEF TypeOK
    <3>2. fires' = [fires EXCEPT ![s] = 0] \/ fires' = [fires EXCEPT ![s] = fires[s]]
      BY <1>s DEF Armed
    <3> QED BY <3>1, <3>2, <1>p, SMT
  <2>3. off' \in [Schedules -> BOOLEAN]
    <3>0. off \in [Schedules -> BOOLEAN]
      BY <1>i DEF TypeOK
    <3>1. CASE op[a].call = "disable"
      <4>1. off' = [off EXCEPT ![s] = TRUE]
        BY <3>1, <1>s DEF Armed
      <4> QED BY <4>1, <3>0, Zenon
    <3>2. CASE op[a].call = "enable"
      <4>1. off' = [off EXCEPT ![s] = FALSE]
        BY <3>2, <1>s DEF Armed
      <4> QED BY <4>1, <3>0, Zenon
    <3>3. CASE op[a].call \notin {"enable", "disable"}
      <4>1. off' = [off EXCEPT ![s] = off[s]]
        BY <3>3, <1>s DEF Armed
      <4>2. off[s] \in BOOLEAN
        BY <3>0, <1>p, Zenon
      <4> QED BY <4>1, <4>2, <3>0, Zenon
    <3> QED BY <3>1, <3>2, <3>3
  <2>4. frame'.at \in {"idle", "enter", "trigger", "rearm"}
    BY <1>i, <1>g, <1>x DEF TypeOK
  <2> QED BY <2>1, <2>2, <2>3, <2>4
<1>11. TypeOK'
  BY <1>i, <1>p, <1>q, <1>v, <1>w, Zenon DEF TypeOK, Timers
<1>12. OpOK'
  BY <1>i, <1>g, <1>s, <1>p, <1>o, <1>c, <1>v, SMT DEF OpOK, OpSet, Timers, Actors, Daemon
<1>13. TimerOK'
  BY <1>i, <1>g, <1>s, <1>p, <1>k, <1>v, <1>x, <1>z, SMT DEF TimerOK, Timers, Actors, Daemon
<1>14. HandleOK'
  BY <1>i, <1>g, <1>s, <1>p, <1>k, <1>q, <1>v, <1>x, <1>z, SMT DEF HandleOK, Actors, Daemon
<1>15. PublishOK'
  BY <1>i, <1>g, <1>s, <1>p, <1>k, <1>q, <1>v, <1>x, <1>z, SMT DEF PublishOK, EndsOn, Actors, Daemon
<1>16. WorkOK'
  BY <1>i, <1>g, <1>s, <1>p, <1>k, <1>v, <1>x, <1>z, SMT DEF WorkOK, Actors, Daemon
<1>17. ShareOK'
  BY <1>i, <1>g, <1>s, <1>p, <1>k, <1>v, <1>x, <1>z, SMT DEF ShareOK, Actors, Daemon
<1>18. FrameOK'
  <2>1. CASE op[a].call = "rearm"
    <3>1. frame' = NoFrame /\ dispatching' = NONE /\ ~deleted' /\ op'[Daemon] = Idle
      BY <2>1, <1>x, <1>y, <1>v, <1>i, <1>k, <1>z
    <3> QED BY <3>1, <1>g, <1>y, SMT DEF FrameOK
  <2>2. CASE op[a].call # "rearm"
    <3>1. frame' = frame /\ dispatching' = dispatching /\ deleted' = deleted /\ handle' = handle /\ timer' = timer /\ mem' = mem
      BY <2>2, <1>x, <1>v
    <3>2. a = Daemon => frame.at = "trigger"
      BY <2>2, <1>i, <1>g, <1>p, <1>s, SMT DEF FrameOK, FrameSet
    <3> QED BY <2>2, <3>1, <3>2, <1>i, <1>g, <1>k, <1>p, <1>s, <1>y, SMT DEF FrameOK, Actors, Daemon
  <2> QED BY <2>1, <2>2
<1>19. QueueOK'
  BY <1>i, <1>g, <1>s, <1>p, <1>k, <1>q, <1>v, <1>x, <1>z, SMT DEF QueueOK, Timers, Actors, Daemon
<1>31. InitAlone /\ FrameOwn /\ \A r \in Kept : Good(r)
  BY DEF IInv
<1>32. Around
  BY <1>i, <1>31, Surroundings, Zenon
<1>33. \A t \in Timers : SameTimer(t)
  <2>1. commands' = commands
    BY <1>q
  <2>2. \A t \in Timers : Kin(t)
    BY <1>v DEF Kin
  <2> QED BY <2>1, <2>2, <1>i, TimersSame, Zenon
<1>34. now' \in Nat /\ now <= now' /\ Kept' \subseteq Kept
  BY <1>i, <1>v, SMT DEF TypeOK, Kept
<1>43. op[a].call \in {"enable", "disable", "rearm", "init"}
  BY <1>p, SMT DEF PcOK
<1>41. 
      /\ \A r \in Schedules : r # s => stored'[r] = stored[r] /\ fires'[r] = fires[r] /\ off'[r] = off[r]
      /\ op[a].call = "enable" => /\ ~off'[s] /\ fires'[s] = 0
                                  /\ type[s] \in OneShot /\ next[s] > 0 => stored'[s] = next[s]
      /\ op[a].call = "disable" => off'[s] /\ fires'[s] = 0
      /\ op[a].call \in {"rearm", "init"} => off'[s] = off[s] /\ fires'[s] = fires[s]
      /\ stored'[s] \in {stored[s], next[s]} /\ (op[a].call # "enable" => stored'[s] = stored[s])
  <2>0. /\ off \in [Schedules -> BOOLEAN] /\ fires \in [Schedules -> Nat]
        /\ stored \in [Schedules -> Nat \cup {NoEntry}]
    BY <1>i DEF TypeOK
  <2>1. CASE op[a].call = "enable"
    <3>1. off' = [off EXCEPT ![s] = FALSE] /\ fires' = [fires EXCEPT ![s] = 0]
      BY <2>1, <1>s DEF Armed
    <3>2. stored' = IF type[s] \in OneShot /\ next[s] > 0 THEN [stored EXCEPT ![s] = next[s]] ELSE stored
      BY <2>1, <1>s DEF Armed
    <3> QED BY <2>0, <2>1, <3>1, <3>2, <1>p
  <2>2. CASE op[a].call = "disable"
    <3>1. off' = [off EXCEPT ![s] = TRUE] /\ fires' = [fires EXCEPT ![s] = 0] /\ stored' = stored
      BY <2>2, <1>s DEF Armed
    <3> QED BY <2>0, <2>2, <3>1, <1>p
  <2>3. CASE op[a].call \in {"rearm", "init"}
    <3>1. off' = [off EXCEPT ![s] = off[s]] /\ fires' = [fires EXCEPT ![s] = fires[s]] /\ stored' = stored
      BY <2>3, <1>s DEF Armed
    <3> QED BY <2>0, <2>3, <3>1, <1>p
  <2> QED BY <2>1, <2>2, <2>3, <1>43
<1>35. ASSUME NEW r \in Kept', r # s
      PROVE  Good(r)'
  <2>1. r \in Kept /\ r \in Schedules /\ r # NONE /\ Good(r)
    BY <1>31, <1>32, <1>34
  <2>2. \A b \in Actors : op[b].s = r \/ op'[b].s = r => op'[b] = op[b]
    BY <1>35, <2>1, <1>s, <1>p, <1>k, <1>41
  <2>3. SameMemory(r)
    BY <1>35, <2>1, <1>v, <1>41
  <2>4. (OnFrame(r)' <=> OnFrame(r)) /\ (OnFrame(r) => frame' = frame)
    BY <1>35, <2>1, <1>32, <1>x, <1>z, <1>v, <1>g DEF OnFrame
  <2>5. \A t \in Timers : handle[r] = t \/ timer'[t].id = r => SameTimer(t)
    BY <1>33, <1>41
  <2>6. Unmoved(r)
    BY <2>2, <2>3, <2>4, <2>5 DEF Unmoved
  <2> QED BY <1>i, <1>31, <1>34, <2>1, <2>6, Others, Zenon
<1>36. ASSUME s \in Kept'
      PROVE  Good(s)'
  <2>1. Known(s)
    BY <1>32, <1>34, <1>36, <1>i, SMT DEF TypeOK
  <2> USE DEF Good
  <2>2. Good(s)
    BY <1>31, <2>1
  <2>h. PICK h : h = handle[s]
    OBVIOUS
  <2>3. Callback(s, h)
    BY <2>1, <2>h, <1>32, <1>i, SMT DEF Timers, Actors, OpOK
  <2>4. Company(a, s)
    BY <2>1, <2>2, <1>32, <1>s, Zenon
  <2>5. SameRun(h)
    BY <2>3, <1>33, <1>v DEF SameTimer
  <2>6. ~OnFrame(s)'
    <3>1. CASE op[a].call = "rearm"
      BY <3>1, <1>x, <1>g DEF OnFrame
    <3>2. CASE op[a].call # "rearm"
      BY <3>2, <2>2, <1>x, <1>v, <1>s, <1>43, SMT DEF FrameAlone, OnFrame
    <3> QED BY <3>1, <3>2
  <2>7. \A b \in Actors : op'[b].s = s => b # a /\ op'[b] = op[b] /\ op[a].call = "rearm" /\ op[b].call = "delete" /\ op[b].pc \in DeletePcs
    BY <2>1, <2>4, <1>k, <1>s, <1>43, SMT
  <2>8. HasNext(s)' <=> HasNext(s)
    BY <2>1, <1>k, <1>s, <1>p, <1>v, SMT DEF HasNext
  <2>10. ~off'[s] /\ fires'[s] > 0 => (off'[s] <=> off[s]) /\ fires'[s] = fires[s]
    BY <1>41, <1>43, SMT
  <2>11. EnableOn(s)'
    BY <2>7, SMT DEF EnableOn
  <2>12. EditKept(s)'
    BY <2>1, <2>2, <2>h, <2>3, <2>4, <1>v, <1>s, <1>p, <1>k, <1>43, SMT DEF EditKept, DeletePcs, RearmPcs
  <2>13. FrameAlone(s)'
    BY <2>6 DEF FrameAlone
  <2>14. OffOK(s)'
    <3>1. h # 0 /\ off'[s] => ~EndsOn(h)'
      <4> SUFFICES ASSUME h # 0, off'[s]
                   PROVE  ~EndsOn(h)'
        OBVIOUS
      <4>1. op[a].call = "disable" \/ off[s]
        BY <1>41, <1>43
      <4>2. CASE op[a].call = "disable"
        <5>1. h # 0 => ~EndsOn(h)
          BY <4>2, <2>2, <2>h, <1>s, <1>p, Zenon DEF OffOK
        <5> QED BY <5>1, <2>5
      <4>3. CASE off[s]
        <5>1. h # 0 => ~EndsOn(h)
          BY <4>3, <2>2, <2>h, Zenon DEF OffOK
        <5> QED BY <5>1, <2>5
      <4> QED BY <4>1, <4>2, <4>3
    <3> QED BY <3>1, <2>7, <2>h, <1>v, SMT DEF OffOK, DeletePcs
  <2>15. FrameOff(s)'
    BY <2>6 DEF FrameOff
  <2>16. SettledOn(s)'
    <3>1. Settled(s)' => Settled(s)
      BY <2>1, <2>8, <1>p, <1>k, <1>s, Zenon DEF Settled
    <3>2. OnFrame(s) => frame.at = "rearm" /\ op[Daemon].pc = "armed"
      BY <2>2, <1>s, <1>p, <1>43, <1>z, SMT DEF FrameAlone
    <3> QED BY <3>1, <3>2, <2>2, <2>5, <2>h, <1>v DEF SettledOn
  <2>17. HasTime(s)'
    <3>1. TimeShown(s)'
      BY <2>2, <2>h, <2>5, <2>8, <1>v DEF HasTime
    <3>2. TimeCalled(s)'
      BY <2>6
    <3>3. TimeArmed(s)'
      BY <2>7, SMT DEF DeletePcs
    <3> QED BY <3>1, <3>2, <3>3, Zenon DEF HasTime
  <2>18. Alternate(s)'
    BY <2>1, <2>2, <2>h, <2>3, <2>4, <1>33, <1>v, <1>s, <1>p, <1>k, <1>43, SMT DEF Alternate, SameTimer, DeletePcs, RearmPcs
  <2>19. OnceTime(s)'
    BY <2>1, <2>2, <2>h, <2>3, <2>4, <1>v, <1>s, <1>p, <1>k, <1>43, <1>41, SMT DEF OnceTime, DeletePcs, RearmPcs
  <2>20. NoCallback(s)'
    BY <2>1, <2>2, <2>h, <2>3, <2>4, <1>v, <1>s, <1>p, <1>k, <1>43, <2>7, SMT DEF NoCallback, DeletePcs, RearmPcs
  <2>21. StoredOK(s)'
    <3>1. CASE op[a].call = "enable"
      BY <3>1, <1>41, <1>v, SMT DEF StoredOK
    <3>2. CASE op[a].call = "disable"
      BY <3>2, <1>41 DEF StoredOK
    <3>3. CASE op[a].call \in {"rearm", "init"}
      <4>1. (\A b \in Actors : op'[b].s = s => op'[b].call # "enable") => \A b \in Actors : op[b].s = s => op[b].call # "enable"
        BY <3>3, <1>k, <1>s
      <4> QED BY <3>3, <4>1, <2>2, <1>41, <1>v DEF StoredOK
    <3> QED BY <3>1, <3>2, <3>3, <1>43
  <2>22. FiredOK(s)'
    <3> SUFFICES ASSUME type[s] \in OneShot, ~off[s], fires[s] > 0
                 PROVE  FiredOK(s)'
      BY <2>10, <1>v, SMT DEF FiredOK, OneShot
    <3>0. Over(s, h)
      BY <2>2, <2>h DEF FiredOK
    <3>10. op[a].call = "rearm" /\ a = Daemon /\ op'[a] = Idle
      BY <3>0, <1>s, <1>p, <1>z, <1>k, <1>43, SMT
    <3>11. fires'[s] = fires[s] /\ stored'[s] = stored[s]
      BY <3>10, <1>41
    <3>1. (fires[s] = 1 /\ next[s] <= now)'
      BY <3>0, <3>11, <1>v
    <3>2. (handle[s] # 0 => ~EndsOn(handle[s]))'
      BY <3>0, <2>h, <2>5, <1>v
    <3>3. (OnFrame(s) => frame.at # "enter")'
      BY <2>6
    <3>4. OverDaemon(s)'
      BY <3>10, <1>g, <2>1
    <3>5. OverStored(s)'
      BY <3>0, <3>11, <1>v
    <3>6. OverLive(s)'
      BY <3>0, <3>10, <1>v, <1>k, <1>s, SMT DEF Actors
    <3>7. OverCalls(s)'
      BY <2>7
    <3>8. OverInit(s)'
      BY <2>7
    <3>9. OverCheck(s)'
      BY <2>7, SMT DEF DeletePcs
    <3> QED BY <3>1, <3>2, <3>3, <3>4, <3>5, <3>6, <3>7, <3>8, <3>9, Zenon DEF FiredOK
  <2> QED BY <2>11, <2>12, <2>13, <2>14, <2>15, <2>16, <2>17, <2>18, <2>19, <2>20, <2>21, <2>22, Zenon
<1>37. \A r \in Kept' : Good(r)'
  BY <1>35, <1>36
<1>21. InitAlone'
  <2> SUFFICES ASSUME NEW c \in Tasks, op'[c].call = "init"
               PROVE  /\ \A r \in Schedules : ~off'[r]
                      /\ \A b \in Actors : b # c => op'[b].call \in {"none", "rearm"}
    BY DEF InitAlone
  <2>1. c \in Actors /\ op[c].call = "init"
    BY <1>o, <1>k, <1>g, SMT DEF Actors
  <2>2. (\A r \in Schedules : ~off[r]) /\ \A b \in Actors : b # c => op[b].call \in {"none", "rearm"}
    BY <2>1, <1>31 DEF InitAlone
  <2>3. op[a].call \in {"rearm", "init"}
    BY <2>1, <2>2, <1>43
  <2>4. \A b \in Actors : b # c => op'[b].call \in {"none", "rearm"}
    BY <2>1, <2>2, <2>3, <1>k, <1>g
  <2> QED BY <2>2, <2>3, <2>4, <1>41
<1>22. FrameOwn'
  BY <1>31, <1>v, <1>x, <1>g DEF FrameOwn
<1> QED
  BY <1>q, <1>11, <1>12, <1>13, <1>14, <1>15, <1>16, <1>17, <1>18, <1>19, <1>21, <1>22, <1>37 DEF IInv, Part1

LEMMA DetachKeeps ==
  ASSUME ConstantsOK, ~Preempted, IInv,
         NEW a \in Actors, Detach(a)
  PROVE  IInv'
<1>i. Parts
  BY DEF IInv, Part1
<1>g. Plain
  BY <1>i, Basics, Zenon
<1>s. PICK s : s = op[a].s
  OBVIOUS
<1>u. PICK u : u = handle[s]
  OBVIOUS
<1>p. s \in Schedules /\ op[a].pc = "detach" /\ PcOK(op[a].call, op[a].pc)
  BY <1>s, <1>i, <1>g, SMT DEF OpOK, Detach, At
<1>r. u \in Timers /\ ~Deletes(u) /\ Len(commands) <= QueueLen
  <2>1. u # 0
    BY <1>s, <1>u, <1>p, <1>i, <1>g, Zenon DEF Detach, WorkOK
  <2>2. Len(commands) <= QueueLen
    BY <1>i DEF TypeOK
  <2> QED BY <2>1, <2>2, <1>p, <1>g, <1>u, <1>i, Zenon DEF HandleOK
<1>c. op[a].call \in {"delete"} /\ PcOK(op[a].call, "delete_timer")
  BY <1>p, SMT DEF PcOK
<1>o. /\ op'[a].pc = "delete_timer" /\ op'[a].call = op[a].call /\ op'[a].s = op[a].s /\ op'[a].arg = op[a].arg
      /\ \A b \in Actors : b # a => op'[b] = op[b]
  BY <1>i, GoneTo, Zenon DEF Detach, Pcs
<1>k. op' \in [Actors -> OpSet]
  BY <1>i, GoneTo, Zenon DEF Detach, Pcs
<1>q. SameQueue
  <2>1. commands' = commands
    BY DEF Detach
  <2> QED BY <2>1, <1>i, Quiet, Zenon
<1>v. now' = now /\ mem' = mem /\ type' = type /\ next' = next /\ callback' = callback /\ handle' = handle /\ stored' = stored /\ frame' = frame /\ dispatching' = dispatching /\ deleted' = deleted /\ fires' = fires /\ off' = off /\ lost' = lost
  BY DEF Detach, memVars, cbVars, ghosts
<1>w. /\ timer'[u].state = timer[u].state /\ timer'[u].left = timer[u].left
      /\ timer'[u].id = NONE /\ timer'[u].priv = timer[u].priv
      /\ \A t \in Timers : t # u => timer'[t] = timer[t]
  <2>1. timer' = [timer EXCEPT ![u].id = NONE]
    BY <1>s, <1>u DEF Detach
  <2>2. timer \in [Timers -> TimerSet]
    BY <1>i DEF TypeOK, TimerSet
  <2> QED BY <2>1, <2>2, <1>r, Detached, Zenon
<1>x. timer' \in [Timers -> TimerSet]
  <2>1. timer' = [timer EXCEPT ![u].id = NONE]
    BY <1>s, <1>u DEF Detach
  <2>2. timer \in [Timers -> TimerSet]
    BY <1>i DEF TypeOK, TimerSet
  <2> QED BY <2>1, <2>2, <1>r, Detached, Zenon
<1>y. timer[u].id = s /\ \A b \in Actors : b # a => op[b].s # s
  <2>1. timer[u].id = s
    BY <1>i, <1>g, <1>s, <1>u, <1>p, Zenon DEF WorkOK
  <2>2. a = Daemon \/ frame.s = NONE
    BY <1>g DEF Detach, CanTake
  <2>3. \A b \in Actors : b # a => op[b].s # s
    BY <2>2, <1>i, <1>g, <1>s, <1>p, <1>c, SMT DEF ShareOK
  <2> QED BY <2>1, <2>3
<1>f. frame.s = s => a = Daemon
  BY <1>i, <1>g, <1>s, <1>p, SMT DEF FrameOK, Detach, CanTake
<1>11. TypeOK'
  BY <1>i, <1>p, <1>r, <1>q, <1>v, <1>x, Zenon DEF TypeOK, Timers, TimerSet
<1>12. OpOK'
  BY <1>i, <1>g, <1>s, <1>u, <1>p, <1>c, <1>o, <1>k, <1>v, SMT DEF OpOK, OpSet, Timers, Actors, Daemon
<1>13. TimerOK'
  BY <1>i, <1>g, <1>s, <1>u, <1>p, <1>r, <1>c, <1>o, <1>v, <1>w, <1>y, SMT DEF TimerOK, Timers, HandleOK, Actors, Daemon
<1>14. HandleOK'
  BY <1>i, <1>g, <1>s, <1>u, <1>p, <1>r, <1>c, <1>o, <1>q, <1>v, <1>w, <1>y, SMT DEF HandleOK, Actors, Daemon
<1>15. PublishOK'
  BY <1>i, <1>g, <1>s, <1>u, <1>p, <1>r, <1>c, <1>o, <1>q, <1>v, <1>w, <1>y, SMT DEF PublishOK, EndsOn, HandleOK, Actors, Daemon
<1>16. WorkOK'
  BY <1>i, <1>g, <1>s, <1>u, <1>p, <1>r, <1>c, <1>o, <1>v, <1>w, <1>y, SMT DEF WorkOK, Actors, Daemon
<1>17. ShareOK'
  BY <1>i, <1>g, <1>s, <1>u, <1>p, <1>r, <1>c, <1>o, <1>v, <1>w, <1>y, SMT DEF ShareOK, Actors, Daemon
<1>18. FrameOK'
  BY <1>i, <1>g, <1>s, <1>u, <1>p, <1>r, <1>c, <1>o, <1>v, <1>w, <1>y, <1>f, SMT DEF FrameOK, FrameSet, Timers, Actors, Daemon
<1>19. QueueOK'
  BY <1>i, <1>g, <1>s, <1>u, <1>p, <1>r, <1>c, <1>o, <1>q, <1>v, <1>w, <1>y, SMT DEF QueueOK, Timers, Actors, Daemon
<1>31. InitAlone /\ FrameOwn /\ \A r \in Kept : Good(r)
  BY DEF IInv
<1>32. Around
  BY <1>i, <1>31, Surroundings, Zenon
<1>33. 
      /\ \A t \in Timers : t # u => SameTimer(t)
      /\ (EndsOn(u)' <=> EndsOn(u)) /\ (HasStop(u)' <=> HasStop(u))
  <2>1. \A t \in Timers : t # u => Kin(t)
    BY <1>w DEF Kin
  <2>2. commands' = commands
    BY <1>q
  <2>3. \A t \in Timers : t # u => SameTimer(t)
    BY <2>1, <2>2, <1>i, TimersSame, Zenon
  <2>4. SameFor(u)
    BY <2>2, QueueSame, Zenon
  <2> QED BY <2>3, <2>4, <1>w DEF EndsOn, SameFor
<1>34. now' \in Nat /\ now <= now' /\ Kept' \subseteq Kept
  BY <1>i, <1>v, SMT DEF TypeOK, Kept
<1>41. 
      /\ u # 0 => \A r \in Schedules : handle[r] = u => r = s
      /\ u # 0 => timer[u].id \in {s, NONE} /\ timer[u].state \in {"dormant", "active"}
  BY <1>i, <1>u, <1>p, <1>g, SMT DEF HandleOK, Alive
<1>35. ASSUME NEW r \in Kept', r # s
      PROVE  Good(r)'
  <2>1. r \in Kept /\ r \in Schedules /\ r # NONE /\ Good(r)
    BY <1>31, <1>32, <1>34
  <2>2. \A b \in Actors : op[b].s = r \/ op'[b].s = r => op'[b] = op[b]
    BY <1>35, <2>1, <1>s, <1>p, <1>c, <1>o, <1>y, <1>41
  <2>3. SameMemory(r)
    BY <1>35, <2>1, <1>v, <1>41
  <2>4. (OnFrame(r)' <=> OnFrame(r)) /\ (OnFrame(r) => frame' = frame)
    BY <1>35, <2>1, <1>v, <1>w, <1>y, <1>g DEF OnFrame
  <2>5. \A t \in Timers : handle[r] = t \/ timer'[t].id = r => SameTimer(t)
    BY <1>33, <1>35, <1>w, <1>41, <2>1, SMT DEF Timers
  <2>6. Unmoved(r)
    BY <2>2, <2>3, <2>4, <2>5 DEF Unmoved
  <2> QED BY <1>i, <1>31, <1>34, <2>1, <2>6, Others, Zenon
<1>36. ASSUME s \in Kept'
      PROVE  Good(s)'
  <2>1. Known(s)
    BY <1>32, <1>34, <1>36, <1>i, SMT DEF TypeOK
  <2> USE DEF Good
  <2>2. Good(s)
    BY <1>31, <2>1
  <2>h. PICK h : h = handle[s]
    OBVIOUS
  <2>3. Callback(s, h)
    BY <2>1, <2>h, <1>32, <1>i, SMT DEF Timers, Actors, OpOK
  <2>4. Company(a, s)
    BY <2>1, <2>2, <1>32, <1>s, Zenon
  <2>5. /\ h = u /\ h # 0 /\ (EndsOn(h)' <=> EndsOn(h)) /\ (HasStop(h)' <=> HasStop(h))
        /\ timer'[h].state = timer[h].state /\ timer'[h].left = timer[h].left
    BY <2>h, <1>33, <1>r, <1>u, <1>w, <1>g
  <2>6. ~OnFrame(s)'
    BY <2>1, <2>3, <2>h, <1>u, <1>w, <1>y, <1>v, <1>g DEF OnFrame
  <2>9. HasNext(s) => HasNext(s)'
    BY <1>o, <1>v, <1>p, <1>s, SMT DEF HasNext
  <2>11. EnableOn(s)'
    BY <2>1, <2>2, <2>h, <2>3, <2>4, <1>v, <1>s, <1>p, <1>c, <1>o, <1>y, SMT DEF EnableOn, DeletePcs, RearmPcs
  <2>12. EditKept(s)'
    BY <2>1, <2>2, <2>h, <2>3, <2>4, <1>v, <1>s, <1>p, <1>c, <1>o, <1>y, SMT DEF EditKept, DeletePcs, RearmPcs
  <2>13. FrameAlone(s)'
    BY <2>6 DEF FrameAlone
  <2>14. OffOK(s)'
    <3>1. ASSUME NEW b \in Actors, op'[b].s = s, op'[b].call # "delete"
          PROVE  op'[b] = op[b] /\ op[b].s = s /\ b # a
      BY <3>1, <1>c, <1>o
    <3>2. \A b \in Actors : op'[b].call = "delete" => op'[b].pc # "clear"
      BY <1>32, <1>o, <1>c, SMT DEF DeletePcs
    <3>3. handle'[s] = h /\ off'[s] = off[s]
      BY <2>h, <1>v
    <3>4. h # 0 => /\ off[s] => ~EndsOn(h)'
                   /\ \A b \in Actors : op'[b].s = s /\ op'[b].call # "delete" =>
                        /\ op'[b].call = "enable" /\ op'[b].pc \in {"compute", "arm", "change", "stop", "clear"} => ~EndsOn(h)'
                        /\ op'[b].call = "init" /\ op'[b].pc # "armed" => ~EndsOn(h)'
                        /\ op'[b].pc = "clear" => ~EndsOn(h)'
                        /\ op'[b].call = "disable" /\ op'[b].pc = "armed" => ~EndsOn(h)'
                        /\ op'[b].call \in {"enable", "init"} /\ op'[b].pc = "armed" /\ b # Daemon =>
                             \/ timer'[h].state = "dormant" \/ timer'[h].left > 0
                             \/ HasStop(h)'
      BY <3>1, <2>2, <2>h, <2>5, Zenon DEF OffOK
    <3> QED BY <3>2, <3>3, <3>4, SMT DEF OffOK
  <2>15. FrameOff(s)'
    BY <2>6 DEF FrameOff
  <2>16. SettledOn(s)'
    BY <2>1, <1>o, <1>s, SMT DEF SettledOn, Settled
  <2>17. HasTime(s)'
    <3>1. TimeShown(s)'
      BY <2>2, <2>h, <2>5, <2>9, <1>v DEF HasTime
    <3>2. TimeCalled(s)'
      BY <2>6
    <3>3. TimeArmed(s)'
      BY <2>2, <1>p, <1>c, <1>o, <1>v, SMT DEF HasTime
    <3> QED BY <3>1, <3>2, <3>3, Zenon DEF HasTime
  <2>18. Alternate(s)'
    BY <2>1, <2>2, <1>33, <1>w, <1>y, SMT DEF Alternate, SameTimer
  <2>19. OnceTime(s)'
    BY <2>1, <2>2, <2>h, <2>3, <2>4, <1>v, <1>s, <1>p, <1>c, <1>o, <1>y, SMT DEF OnceTime, DeletePcs, RearmPcs
  <2>20. NoCallback(s)'
    BY <2>1, <2>2, <2>h, <2>3, <2>4, <1>v, <1>s, <1>p, <1>c, <1>o, <1>y, SMT DEF NoCallback, DeletePcs, RearmPcs
  <2>21. StoredOK(s)'
    BY <2>1, <2>2, <2>h, <2>3, <2>4, <1>v, <1>s, <1>p, <1>c, <1>o, <1>y, SMT DEF StoredOK, OneShot, DeletePcs, RearmPcs
  <2>22. FiredOK(s)'
    <3> SUFFICES ASSUME type[s] \in OneShot, ~off[s], fires[s] > 0
                 PROVE  FiredOK(s)'
      BY <1>v, SMT DEF FiredOK, OneShot
    <3>0. Over(s, h)
      BY <2>2, <2>h DEF FiredOK
    <3>1. (fires[s] = 1 /\ next[s] <= now)'
      BY <3>0, <1>v
    <3>2. (handle[s] # 0 => ~EndsOn(handle[s]))'
      BY <3>0, <2>h, <2>5, <1>v
    <3>3. (OnFrame(s) => frame.at # "enter")'
      BY <2>6
    <3>4. OverDaemon(s)'
      BY <3>0, <2>3, <1>o, <1>s, <1>p, SMT
    <3>5. OverStored(s)'
      BY <3>0, <1>v
    <3>6. OverLive(s)'
      BY <3>0, <1>v, <1>o, <1>s, SMT DEF Actors
    <3>7. OverCalls(s)'
      BY <3>0, <1>o, <1>s, <1>c, SMT
    <3>8. OverInit(s)'
      BY <3>0, <1>p, <1>c, <1>o, <1>s, SMT
    <3>9. OverCheck(s)'
      BY <3>0, <1>p, <1>v, <1>o, <1>s, SMT
    <3> QED BY <3>1, <3>2, <3>3, <3>4, <3>5, <3>6, <3>7, <3>8, <3>9, Zenon DEF FiredOK
  <2> QED BY <2>11, <2>12, <2>13, <2>14, <2>15, <2>16, <2>17, <2>18, <2>19, <2>20, <2>21, <2>22, Zenon
<1>37. \A r \in Kept' : Good(r)'
  BY <1>35, <1>36
<1>21. InitAlone'
  BY <1>31, <1>v, <1>s, <1>p, <1>c, <1>o, <1>y, <1>41, SMT DEF InitAlone, Actors, Daemon
<1>22. FrameOwn'
  BY <1>31, <1>v, <1>w, <1>g DEF FrameOwn
<1> QED
  BY <1>q, <1>11, <1>12, <1>13, <1>14, <1>15, <1>16, <1>17, <1>18, <1>19, <1>21, <1>22, <1>37 DEF IInv, Part1

LEMMA ArmNewFailsKeeps ==
  ASSUME ConstantsOK, ~Preempted, IInv,
         NEW a \in Actors, ArmNew(a),
         Full \/ \A t \in Timers : timer[t].state # "none"
  PROVE  IInv'
<1>i. Parts
  BY DEF IInv, Part1
<1>g. Plain
  BY <1>i, Basics, Zenon
<1>s. PICK s : s = op[a].s
  OBVIOUS
<1>a. PICK T : T = {t \in Timers : timer[t].state = "none"}
  OBVIOUS
<1>b. PICK u : u = CHOOSE t \in T : \A v \in T : t <= v
  OBVIOUS
<1>d. T # {} => u \in Timers /\ timer[u].state = "none"
  <2>1. T \subseteq Timers
    BY <1>a
  <2>2. T # {} => u \in T
    BY ONLY <1>b, <2>1, FirstUnused, Zenon
  <2> QED BY <2>2, <1>a
<1>p. s \in Schedules /\ op[a].pc = "arm" /\ PcOK(op[a].call, op[a].pc)
  BY <1>s, <1>i, <1>g, SMT DEF OpOK, ArmNew, At
<1>r. handle[s] = 0 /\ op[a].arg \in Nat /\ op[a].arg > 0
  BY <1>s, <1>p, <1>g, <1>i, Zenon DEF ArmNew, OpOK
<1>c. op[a].call \in {"enable", "rearm", "init"} /\ PcOK(op[a].call, "stop")
  BY <1>p, SMT DEF PcOK
<1>z. \A t \in Timers : timer[t].state = "none" =>
         /\ timer[t].id = NONE /\ \A r \in Schedules : handle[r] # t
         /\ ~Mentions(t) /\ ~Deletes(t) /\ ~HasStop(t) /\ ~LastStart(t)
         /\ frame.t # t \/ frame.at = "idle"
         /\ \A b \in Actors : op[b].pc = "publish" => op[b].arg # t
  BY <1>i, Untouched DEF Part1
<1>o. /\ op'[a].pc = "stop" /\ op'[a].call = op[a].call /\ op'[a].s = op[a].s
      /\ \A b \in Actors : b # a => op'[b] = op[b]
  <2>1. GoTo(a, "stop") /\ "stop" \in Pcs
    BY <1>a DEF ArmNew, GiveUp, Pcs
  <2> QED BY <2>1, <1>i, GoneTo, Zenon
<1>k. op' \in [Actors -> OpSet]
  <2>1. GoTo(a, "stop") /\ "stop" \in Pcs
    BY <1>a DEF ArmNew, GiveUp, Pcs
  <2> QED BY <2>1, <1>i, GoneTo, Zenon
<1>q. SameQueue
  <2>1. commands' = commands
    BY <1>a DEF ArmNew, Post, timerVars
  <2> QED BY <2>1, <1>i, Quiet, Zenon
<1>v. now' = now /\ mem' = mem /\ type' = type /\ next' = next /\ callback' = callback /\ handle' = handle /\ stored' = stored /\ frame' = frame /\ dispatching' = dispatching /\ deleted' = deleted /\ fires' = fires /\ off' = off /\ lost' = lost
  BY DEF ArmNew, memVars, cbVars, ghosts
<1>w. \A t \in Timers : \/ timer'[t] = timer[t]
                           \/ /\ timer[t].state = "none" /\ timer'[t].state = "dormant"
                              /\ timer'[t].id = NONE
  <2>1. CASE T = {}
    BY <2>1, <1>a DEF ArmNew, timerVars
  <2>2. CASE T # {}
    <3>1. PICK r : r = [state |-> "dormant", left |-> 0, id |-> NONE,
                        remaining |-> op[a].arg - Clamp(op[a].arg), priv |-> "freed"]
      OBVIOUS
    <3>2. timer' = [timer EXCEPT ![u] = r]
      BY <2>2, <3>1, <1>a, <1>b DEF ArmNew
    <3>3. r.state = "dormant" /\ r.id = NONE
      BY <3>1
    <3>4. timer \in [Timers -> TimerSet]
      BY <1>i DEF TypeOK, TimerSet
    <3> QED BY <2>2, <3>2, <3>3, <3>4, <1>d, Zenon
  <2> QED BY <2>1, <2>2
<1>x. timer' \in [Timers -> TimerSet]
  <2>0. timer \in [Timers -> TimerSet]
    BY <1>i DEF TypeOK, TimerSet
  <2>1. CASE T = {}
    <3>1. timer' = timer
      BY <2>1, <1>a DEF ArmNew, timerVars
    <3> QED BY <3>1, <2>0
  <2>2. CASE T # {}
    <3>0. PICK m \in Nat : m = op[a].arg - Clamp(op[a].arg)
      BY <1>r, Clamped, Zenon
    <3>1. PICK r : r = [state |-> "dormant", left |-> 0, id |-> NONE, remaining |-> m, priv |-> "freed"]
      OBVIOUS
    <3>2. timer' = [timer EXCEPT ![u] = r]
      BY <2>2, <3>0, <3>1, <1>a, <1>b DEF ArmNew
    <3>3. r \in TimerSet
      BY <3>1, SMT DEF TimerSet, ConstantsOK
    <3> QED BY <2>2, <3>2, <3>3, <2>0, <1>d, SMT
  <2> QED BY <2>1, <2>2
<1>11. TypeOK'
  BY <1>i, <1>p, <1>q, <1>v, <1>x, Zenon DEF TypeOK, Timers, TimerSet
<1>12. OpOK'
  BY <1>i, <1>g, <1>s, <1>p, <1>r, <1>c, <1>o, <1>k, <1>v, SMT DEF OpOK, OpSet, Timers, Actors, Daemon
<1>13. TimerOK'
  BY <1>i, <1>g, <1>s, <1>p, <1>c, <1>z, <1>o, <1>v, <1>w, SMT DEF TimerOK, Timers, Alive, Actors, Daemon
<1>14. HandleOK'
  BY <1>i, <1>g, <1>s, <1>p, <1>c, <1>z, <1>o, <1>q, <1>v, <1>w, SMT DEF HandleOK, Alive, Actors, Daemon
<1>15. PublishOK'
  BY <1>i, <1>g, <1>s, <1>p, <1>r, <1>c, <1>z, <1>o, <1>q, <1>v, <1>w, SMT DEF PublishOK, EndsOn, Alive, Actors, Daemon
<1>16. WorkOK'
  BY <1>i, <1>g, <1>s, <1>p, <1>r, <1>c, <1>z, <1>o, <1>v, <1>w, SMT DEF WorkOK, Actors, Daemon
<1>17. ShareOK'
  BY <1>i, <1>g, <1>s, <1>p, <1>c, <1>z, <1>o, <1>v, <1>w, SMT DEF ShareOK, Actors, Daemon
<1>18. FrameOK'
  BY <1>i, <1>g, <1>s, <1>p, <1>c, <1>z, <1>o, <1>v, <1>w, SMT DEF FrameOK, FrameSet, Timers, Actors, Daemon
<1>19. QueueOK'
  BY <1>i, <1>g, <1>s, <1>p, <1>c, <1>z, <1>o, <1>q, <1>v, <1>w, SMT DEF QueueOK, Timers, Alive, Actors, Daemon
<1>31. InitAlone /\ FrameOwn /\ \A r \in Kept : Good(r)
  BY DEF IInv
<1>32. Around
  BY <1>i, <1>31, Surroundings, Zenon
<1>33. \A t \in Timers :
        /\ timer[t].state # "none" => timer'[t] = timer[t] /\ SameTimer(t)
        /\ timer[t].state = "none" => timer'[t].id = NONE
  <2>1. commands' = commands
    BY <1>q
  <2>2. \A t \in Timers : timer[t].state # "none" => timer'[t] = timer[t] /\ Kin(t)
    BY <1>w DEF Kin
  <2>3. \A t \in Timers : timer[t].state # "none" => timer'[t] = timer[t] /\ SameTimer(t)
    BY <2>1, <2>2, <1>i, TimersSame, Zenon
  <2>4. \A t \in Timers : timer[t].state = "none" => timer'[t].id = NONE
    BY <1>w, <1>z
  <2> QED BY <2>3, <2>4
<1>34. now' \in Nat /\ now <= now' /\ Kept' \subseteq Kept
  BY <1>i, <1>v, SMT DEF TypeOK, Kept
<1>41. frame.at # "idle" => timer'[frame.t] = timer[frame.t]
  BY <1>33, <1>z, <1>g, <1>i, SMT DEF FrameOK
<1>35. ASSUME NEW r \in Kept', r # s
      PROVE  Good(r)'
  <2>1. r \in Kept /\ r \in Schedules /\ r # NONE /\ Good(r)
    BY <1>31, <1>32, <1>34
  <2>2. \A b \in Actors : op[b].s = r \/ op'[b].s = r => op'[b] = op[b]
    BY <1>35, <2>1, <1>s, <1>p, <1>c, <1>o, <1>41
  <2>3. SameMemory(r)
    BY <1>35, <2>1, <1>v, <1>41
  <2>4. (OnFrame(r)' <=> OnFrame(r)) /\ (OnFrame(r) => frame' = frame)
    BY <1>35, <2>1, <1>v, <1>41 DEF OnFrame
  <2>5. \A t \in Timers : handle[r] = t \/ timer'[t].id = r => SameTimer(t)
    BY <1>33, <1>35, <1>v, <1>z, <2>1
  <2>6. Unmoved(r)
    BY <2>2, <2>3, <2>4, <2>5 DEF Unmoved
  <2> QED BY <1>i, <1>31, <1>34, <2>1, <2>6, Others, Zenon
<1>36. ASSUME s \in Kept'
      PROVE  Good(s)'
  <2>1. Known(s)
    BY <1>32, <1>34, <1>36, <1>i, SMT DEF TypeOK
  <2> USE DEF Good
  <2>2. Good(s)
    BY <1>31, <2>1
  <2>h. PICK h : h = handle[s]
    OBVIOUS
  <2>3. Callback(s, h)
    BY <2>1, <2>h, <1>32, <1>i, SMT DEF Timers, Actors, OpOK
  <2>4. Company(a, s)
    BY <2>1, <2>2, <1>32, <1>s, Zenon
  <2>6. (OnFrame(s)' <=> OnFrame(s)) /\ frame' = frame
    BY <1>v, <1>41 DEF OnFrame
  <2>7. ~OnFrame(s) /\ ~OnFrame(s)' /\ h = 0 /\ op[a].call # "rearm" /\ \A b \in Actors : b # a => op[b].s # s
    <3>1. h = 0 /\ op[a].call # "rearm"
      BY <2>h, <1>r, <2>3, <1>s, SMT
    <3>2. ~OnFrame(s) /\ ~OnFrame(s)'
      BY <3>1, <2>3, <2>6
    <3>3. ASSUME NEW b \in Actors, b # a, op[b].s = s
          PROVE  FALSE
      BY <3>2, <3>3, <2>3, <2>4, <1>s, <1>c, SMT
    <3> QED BY <3>1, <3>2, <3>3
  <2>11. EnableOn(s)'
    BY <2>1, <2>2, <2>h, <2>3, <2>4, <1>v, <1>s, <1>p, <1>c, <1>o, <2>7, SMT DEF EnableOn, DeletePcs, RearmPcs
  <2>12. EditKept(s)'
    BY <2>1, <2>2, <2>h, <2>3, <2>4, <1>v, <1>s, <1>p, <1>c, <1>o, <2>7, SMT DEF EditKept, DeletePcs, RearmPcs
  <2>13. FrameAlone(s)'
    BY <2>7 DEF FrameAlone
  <2>14. OffOK(s)'
    BY <2>7, <2>h, <1>v DEF OffOK
  <2>15. FrameOff(s)'
    BY <2>7 DEF FrameOff
  <2>16. SettledOn(s)'
    BY <2>7, <2>h, <1>v DEF SettledOn
  <2>17. HasTime(s)'
    <3>1. TimeShown(s)'
      BY <2>h, <2>7, <1>v
    <3>2. TimeCalled(s)'
      BY <2>7
    <3>3. TimeArmed(s)'
      BY <2>7, <1>o, <1>s, SMT
    <3> QED BY <3>1, <3>2, <3>3, Zenon DEF HasTime
  <2>18. Alternate(s)'
    <3>1. \A t \in Timers : timer'[t].id = s => SameTimer(t)
      BY <1>33, <2>1
    <3> QED BY <2>2, <3>1 DEF Alternate, SameTimer
  <2>19. OnceTime(s)'
    BY <2>1, <2>2, <2>h, <2>3, <2>4, <1>v, <1>s, <1>p, <1>c, <1>o, <2>7, SMT DEF OnceTime, DeletePcs, RearmPcs
  <2>20. NoCallback(s)'
    BY <2>1, <2>2, <2>h, <2>3, <2>4, <1>v, <1>s, <1>p, <1>c, <1>o, <2>7, SMT DEF NoCallback, DeletePcs, RearmPcs
  <2>21. StoredOK(s)'
    BY <2>1, <2>2, <2>h, <2>3, <2>4, <1>v, <1>s, <1>p, <1>c, <1>o, <2>7, SMT DEF StoredOK, OneShot, DeletePcs, RearmPcs
  <2>22. FiredOK(s)'
    <3>1. ~(type[s] \in OneShot /\ ~off[s] /\ fires[s] > 0)
      BY <2>2, <2>7, <1>s, <1>p, <1>c, SMT DEF FiredOK
    <3> QED BY <3>1, <1>v, SMT DEF FiredOK, OneShot
  <2> QED BY <2>11, <2>12, <2>13, <2>14, <2>15, <2>16, <2>17, <2>18, <2>19, <2>20, <2>21, <2>22, Zenon
<1>37. \A r \in Kept' : Good(r)'
  BY <1>35, <1>36
<1>21. InitAlone'
  BY <1>31, <1>v, <1>s, <1>p, <1>c, <1>o, <1>41, SMT DEF InitAlone, Actors, Daemon
<1>22. FrameOwn'
  BY <1>31, <1>v, <1>41 DEF FrameOwn
<1> QED
  BY <1>q, <1>11, <1>12, <1>13, <1>14, <1>15, <1>16, <1>17, <1>18, <1>19, <1>21, <1>22, <1>37 DEF IInv, Part1

LEMMA ArmNewStartsKeeps ==
  ASSUME ConstantsOK, ~Preempted, IInv,
         NEW a \in Actors, ArmNew(a),
         ~Full, NEW n \in Timers, timer[n].state = "none"
  PROVE  IInv'
<1>i. Parts
  BY DEF IInv, Part1
<1>g. Plain
  BY <1>i, Basics, Zenon
<1>s. PICK s : s = op[a].s
  OBVIOUS
<1>a. PICK T : T = {t \in Timers : timer[t].state = "none"}
  OBVIOUS
<1>b. PICK u : u = CHOOSE t \in T : \A v \in T : t <= v
  OBVIOUS
<1>d. T # {} => u \in Timers /\ timer[u].state = "none"
  <2>1. T \subseteq Timers
    BY <1>a
  <2>2. T # {} => u \in T
    BY ONLY <1>b, <2>1, FirstUnused, Zenon
  <2> QED BY <2>2, <1>a
<1>p. s \in Schedules /\ op[a].pc = "arm" /\ PcOK(op[a].call, op[a].pc)
  BY <1>s, <1>i, <1>g, SMT DEF OpOK, ArmNew, At
<1>r. handle[s] = 0 /\ op[a].arg \in Nat /\ op[a].arg > 0
  BY <1>s, <1>p, <1>g, <1>i, Zenon DEF ArmNew, OpOK
<1>c. op[a].call \in {"enable", "init"} /\ PcOK(op[a].call, "publish")
  <2>1. op[a].call # "rearm"
    BY <1>i, <1>s, <1>p, <1>r, <1>g, SMT DEF OpOK, FrameOK, FrameSet, PcOK
  <2> QED BY <2>1, <1>p, SMT DEF PcOK
<1>z. \A t \in Timers : timer[t].state = "none" =>
         /\ timer[t].id = NONE /\ \A r \in Schedules : handle[r] # t
         /\ ~Mentions(t) /\ ~Deletes(t) /\ ~HasStop(t) /\ ~LastStart(t)
         /\ frame.t # t \/ frame.at = "idle"
         /\ \A b \in Actors : op[b].pc = "publish" => op[b].arg # t
  BY <1>i, Untouched DEF Part1
<1>f. u \in Timers /\ timer[u].state = "none" /\ T # {} /\ frame.t # u
  <2>1. u \in Timers /\ timer[u].state = "none" /\ T # {}
    BY <1>a, <1>d
  <2>2. frame.t # u
    BY <2>1, <1>z, <1>g, <1>i, SMT DEF FrameOK
  <2> QED BY <2>1, <2>2
<1>o. /\ op'[a].pc = "publish" /\ op'[a].call = op[a].call /\ op'[a].s = op[a].s /\ op'[a].arg = u
      /\ \A b \in Actors : b # a => op'[b] = op[b]
  <2>1. op' = [op EXCEPT ![a].pc = "publish", ![a].arg = u]
    BY <1>f, <1>a, <1>b DEF ArmNew
  <2>2. u \in Nat /\ "publish" \in Pcs
    BY <1>f, SMT DEF Timers, Pcs
  <2>3. OpOK
    BY <1>i
  <2>4. /\ op'[a].pc = "publish" /\ op'[a].call = op[a].call /\ op'[a].s = op[a].s /\ op'[a].arg = u
        /\ \A b \in Actors : b # a => op'[b] = op[b]
        /\ op' \in [Actors -> OpSet]
    BY ONLY <2>1, <2>2, <2>3, a \in Actors, GoneToWith, Zenon
  <2> QED BY <2>4
<1>k. op' \in [Actors -> OpSet]
  <2>1. op' = [op EXCEPT ![a].pc = "publish", ![a].arg = u]
    BY <1>f, <1>a, <1>b DEF ArmNew
  <2>2. u \in Nat /\ "publish" \in Pcs
    BY <1>f, SMT DEF Timers, Pcs
  <2> QED BY <2>1, <2>2, <1>i, GoneToWith, Zenon
<1>q. /\ QueueTyped' /\ Len(commands') <= QueueLen
      /\ \A t \in Timers : t # u =>
           /\ Mentions(t)' <=> Mentions(t)
           /\ Deletes(t)' <=> Deletes(t)
           /\ HasStop(t)' <=> HasStop(t)
           /\ LastStart(t)' <=> LastStart(t)
      /\ Mentions(u)' /\ LastStart(u)'
      /\ Deletes(u)' <=> Deletes(u)
      /\ HasStop(u)' <=> HasStop(u)
  <2>1. Clamp(op[a].arg) \in 1..MaxPeriod
    BY <1>r, Clamped, Zenon
  <2>2. Post(Command("start", u, Clamp(op[a].arg)))
    BY <1>f, <1>a, <1>b DEF ArmNew
  <2>3. ~Deletes(u) /\ Len(commands) <= QueueLen
    BY <1>f, <1>z, <1>i DEF TypeOK
  <2> QED BY <2>1, <2>2, <2>3, <1>i, <1>f, StartPosted, Zenon
<1>v. now' = now /\ mem' = mem /\ type' = type /\ next' = next /\ callback' = callback /\ handle' = handle /\ stored' = stored /\ frame' = frame /\ dispatching' = dispatching /\ deleted' = deleted /\ fires' = fires /\ off' = off /\ lost' = lost
  BY DEF ArmNew, memVars, cbVars, ghosts
<1>w. /\ timer'[u].state = "dormant" /\ timer'[u].left = 0 /\ timer'[u].id = s /\ timer'[u].priv = "live"
      /\ \A t \in Timers : t # u => timer'[t] = timer[t]
  <2>1. PICK r : r = [state |-> "dormant", left |-> 0, id |-> s,
                      remaining |-> op[a].arg - Clamp(op[a].arg), priv |-> "live"]
    OBVIOUS
  <2>2. timer' = [timer EXCEPT ![u] = r]
    BY <2>1, <1>f, <1>s, <1>a, <1>b DEF ArmNew
  <2>3. r.state = "dormant" /\ r.id = s /\ r.left = 0 /\ r.priv = "live"
    BY <2>1
  <2>4. timer \in [Timers -> TimerSet]
    BY <1>i DEF TypeOK, TimerSet
  <2> QED BY <2>2, <2>3, <2>4, <1>f, Zenon
<1>x. timer' \in [Timers -> TimerSet]
  <2>0. timer \in [Timers -> TimerSet]
    BY <1>i DEF TypeOK, TimerSet
  <2>1. PICK m \in Nat : m = op[a].arg - Clamp(op[a].arg)
    BY <1>r, Clamped, Zenon
  <2>2. PICK r : r = [state |-> "dormant", left |-> 0, id |-> s, remaining |-> m, priv |-> "live"]
    OBVIOUS
  <2>3. timer' = [timer EXCEPT ![u] = r]
    BY <2>1, <2>2, <1>f, <1>s, <1>a, <1>b DEF ArmNew
  <2>4. r \in TimerSet
    BY <2>2, <1>p, SMT DEF TimerSet, ConstantsOK
  <2> QED BY <2>3, <2>4, <2>0, <1>f, SMT
<1>11. TypeOK'
  BY <1>i, <1>p, <1>q, <1>v, <1>x, Zenon DEF TypeOK, Timers, TimerSet
<1>12. OpOK'
  BY <1>i, <1>g, <1>s, <1>p, <1>r, <1>c, <1>f, <1>o, <1>k, <1>v, SMT DEF OpOK, Actors, Daemon
<1>13. TimerOK'
  BY <1>i, <1>g, <1>s, <1>p, <1>c, <1>z, <1>f, <1>o, <1>v, <1>w, SMT DEF TimerOK, Timers, Alive, WorkOK, Actors, Daemon
<1>14. HandleOK'
  BY <1>i, <1>g, <1>s, <1>p, <1>c, <1>z, <1>f, <1>o, <1>q, <1>v, <1>w, SMT DEF HandleOK, Actors, Daemon
<1>15. PublishOK'
  BY <1>i, <1>g, <1>s, <1>p, <1>r, <1>c, <1>z, <1>f, <1>o, <1>q, <1>v, <1>w, SMT DEF PublishOK, EndsOn, Actors, Daemon
<1>16. WorkOK'
  BY <1>i, <1>g, <1>s, <1>p, <1>r, <1>c, <1>z, <1>f, <1>o, <1>v, <1>w, SMT DEF WorkOK, Actors, Daemon
<1>17. ShareOK'
  BY <1>i, <1>g, <1>s, <1>p, <1>c, <1>z, <1>f, <1>o, <1>v, <1>w, SMT DEF ShareOK, Actors, Daemon
<1>18. FrameOK'
  BY <1>i, <1>g, <1>s, <1>p, <1>c, <1>z, <1>f, <1>o, <1>v, <1>w, SMT DEF FrameOK, FrameSet, Timers, Actors, Daemon
<1>19. QueueOK'
  BY <1>i, <1>g, <1>s, <1>p, <1>c, <1>z, <1>f, <1>o, <1>q, <1>v, <1>w, SMT DEF QueueOK, Timers, Alive, Actors, Daemon
<1>31. InitAlone /\ FrameOwn /\ \A r \in Kept : Good(r)
  BY DEF IInv
<1>32. Around
  BY <1>i, <1>31, Surroundings, Zenon
<1>33. 
      /\ \A t \in Timers : t # u => SameTimer(t)
      /\ EndsOn(u)' /\ StartsApart(u)' /\ timer'[u].state = "dormant" 
  <2>1. \A t \in Timers : t # u => Kin(t)
    BY <1>w DEF Kin
  <2>2. Clamp(op[a].arg) \in 1..MaxPeriod
    BY <1>r, Clamped, Zenon
  <2>3. Post(Command("start", u, Clamp(op[a].arg)))
    BY <1>f, <1>a, <1>b DEF ArmNew
  <2>4. u \in Timers /\ ~Mentions(u) /\ ~Deletes(u) /\ ~LastStart(u) /\ Len(commands) <= QueueLen /\ ~Full
    BY <1>f, <1>z, <1>i DEF TypeOK
  <2>5. \A t \in Timers : t # u => SameTimer(t)
    BY <2>1, <2>2, <2>3, <2>4, <1>i, TimersStart, Zenon
  <2>6. StartsApart(u)
    BY <2>4 DEF StartsApart, Mentions, IsStart, Places
  <2>7. EndsOn(u)' /\ StartsApart(u)'
    BY <2>2, <2>3, <2>4, <2>6, <1>i, TimersStart, Zenon
  <2> QED BY <2>5, <2>7, <1>w
<1>34. now' \in Nat /\ now <= now' /\ Kept' \subseteq Kept
  BY <1>i, <1>v, SMT DEF TypeOK, Kept
<1>41. frame.at # "idle" => timer'[frame.t] = timer[frame.t]
  BY <1>w, <1>f, <1>g
<1>35. ASSUME NEW r \in Kept', r # s
      PROVE  Good(r)'
  <2>1. r \in Kept /\ r \in Schedules /\ r # NONE /\ Good(r)
    BY <1>31, <1>32, <1>34
  <2>2. \A b \in Actors : op[b].s = r \/ op'[b].s = r => op'[b] = op[b]
    BY <1>35, <2>1, <1>s, <1>p, <1>c, <1>o, <1>f, <1>41
  <2>3. SameMemory(r)
    BY <1>35, <2>1, <1>v, <1>41
  <2>4. (OnFrame(r)' <=> OnFrame(r)) /\ (OnFrame(r) => frame' = frame)
    BY <1>35, <2>1, <1>v, <1>41 DEF OnFrame
  <2>5. \A t \in Timers : handle[r] = t \/ timer'[t].id = r => SameTimer(t)
    BY <1>33, <1>35, <1>v, <1>z, <1>f, <1>w, <2>1
  <2>6. Unmoved(r)
    BY <2>2, <2>3, <2>4, <2>5 DEF Unmoved
  <2> QED BY <1>i, <1>31, <1>34, <2>1, <2>6, Others, Zenon
<1>36. ASSUME s \in Kept'
      PROVE  Good(s)'
  <2>1. Known(s)
    BY <1>32, <1>34, <1>36, <1>i, SMT DEF TypeOK
  <2> USE DEF Good
  <2>2. Good(s)
    BY <1>31, <2>1
  <2>h. PICK h : h = handle[s]
    OBVIOUS
  <2>3. Callback(s, h)
    BY <2>1, <2>h, <1>32, <1>i, SMT DEF Timers, Actors, OpOK
  <2>4. Company(a, s)
    BY <2>1, <2>2, <1>32, <1>s, Zenon
  <2>6. (OnFrame(s)' <=> OnFrame(s)) /\ frame' = frame
    BY <1>v, <1>41 DEF OnFrame
  <2>7. ~OnFrame(s) /\ ~OnFrame(s)' /\ h = 0 /\ \A b \in Actors : b # a => op[b].s # s
    <3>1. h = 0
      BY <2>h, <1>r
    <3>2. ~OnFrame(s) /\ ~OnFrame(s)'
      BY <2>2, <2>6, <1>s, <1>c, SMT DEF FrameAlone
    <3>3. ASSUME NEW b \in Actors, b # a, op[b].s = s
          PROVE  FALSE
      BY <3>2, <3>3, <2>3, <2>4, <1>s, <1>c, SMT
    <3> QED BY <3>1, <3>2, <3>3
  <2>11. EnableOn(s)'
    BY <2>1, <2>2, <2>h, <2>3, <2>4, <1>v, <1>s, <1>p, <1>c, <1>o, <1>f, <2>7, SMT DEF EnableOn, DeletePcs, RearmPcs
  <2>12. EditKept(s)'
    BY <2>1, <2>2, <2>h, <2>3, <2>4, <1>v, <1>s, <1>p, <1>c, <1>o, <1>f, <2>7, SMT DEF EditKept, DeletePcs, RearmPcs
  <2>13. FrameAlone(s)'
    BY <2>7 DEF FrameAlone
  <2>14. OffOK(s)'
    BY <2>7, <2>h, <1>v DEF OffOK
  <2>15. FrameOff(s)'
    BY <2>7 DEF FrameOff
  <2>16. SettledOn(s)'
    BY <2>7, <2>h, <1>v DEF SettledOn
  <2>17. HasTime(s)'
    <3>1. TimeShown(s)'
      BY <2>h, <2>7, <1>v
    <3>2. TimeCalled(s)'
      BY <2>7
    <3>3. TimeArmed(s)'
      BY <2>2, <2>7, <1>o, <1>p, <1>s, <1>v, SMT DEF HasTime
    <3> QED BY <3>1, <3>2, <3>3, Zenon DEF HasTime
  <2>18. Alternate(s)'
    <3>1. ASSUME NEW t \in Timers, timer'[t].id = s, t # u
          PROVE  StartsApart(t)' /\ (timer'[t].state = "active" => StopsFirst(t)')
      BY <3>1, <1>33, <2>2 DEF Alternate, SameTimer
    <3> QED BY <3>1, <1>33 DEF Alternate
  <2>19. OnceTime(s)'
    BY <2>1, <2>2, <2>h, <2>3, <2>4, <1>v, <1>s, <1>p, <1>c, <1>o, <1>f, <2>7, SMT DEF OnceTime, DeletePcs, RearmPcs
  <2>20. NoCallback(s)'
    BY <2>1, <2>2, <2>h, <2>3, <2>4, <1>v, <1>s, <1>p, <1>c, <1>o, <1>f, <2>7, SMT DEF NoCallback, DeletePcs, RearmPcs
  <2>21. StoredOK(s)'
    BY <2>1, <2>2, <2>h, <2>3, <2>4, <1>v, <1>s, <1>p, <1>c, <1>o, <1>f, <2>7, SMT DEF StoredOK, OneShot, DeletePcs, RearmPcs
  <2>22. FiredOK(s)'
    <3>1. ~(type[s] \in OneShot /\ ~off[s] /\ fires[s] > 0)
      BY <2>2, <1>s, <1>p, <1>c, SMT DEF FiredOK
    <3> QED BY <3>1, <1>v, SMT DEF FiredOK, OneShot
  <2> QED BY <2>11, <2>12, <2>13, <2>14, <2>15, <2>16, <2>17, <2>18, <2>19, <2>20, <2>21, <2>22, Zenon
<1>37. \A r \in Kept' : Good(r)'
  BY <1>35, <1>36
<1>21. InitAlone'
  BY <1>31, <1>v, <1>s, <1>p, <1>c, <1>o, <1>f, <1>41, SMT DEF InitAlone, Actors, Daemon
<1>22. FrameOwn'
  BY <1>31, <1>v, <1>41 DEF FrameOwn
<1> QED
  BY <1>q, <1>11, <1>12, <1>13, <1>14, <1>15, <1>16, <1>17, <1>18, <1>19, <1>21, <1>22, <1>37 DEF IInv, Part1

LEMMA DeleteTimerKeeps ==
  ASSUME ConstantsOK, ~Preempted, IInv,
         NEW a \in Actors, DeleteTimer(a)
  PROVE  IInv'
<1>i. Parts
  BY DEF IInv, Part1
<1>g. Plain
  BY <1>i, Basics, Zenon
<1>s. PICK s : s = op[a].s
  OBVIOUS
<1>u. PICK u : u = handle[s]
  OBVIOUS
<1>p. s \in Schedules /\ op[a].pc = "delete_timer" /\ PcOK(op[a].call, op[a].pc)
  BY <1>s, <1>i, <1>g, SMT DEF OpOK, DeleteTimer, At
<1>r. u \in Timers /\ ~Deletes(u) /\ Len(commands) <= QueueLen
  <2>1. u # 0
    BY <1>s, <1>u, <1>p, <1>i, <1>g, Zenon DEF DeleteTimer, WorkOK
  <2>2. Len(commands) <= QueueLen
    BY <1>i DEF TypeOK
  <2> QED BY <2>1, <2>2, <1>p, <1>g, <1>u, <1>i, Zenon DEF HandleOK
<1>c. op[a].call \in {"delete"} /\ PcOK(op[a].call, "erase")
  BY <1>p, SMT DEF PcOK
<1>y. timer[u].id = NONE /\ (\A b \in Actors : b # a => op[b].s # s)
  <2>1. timer[u].id = NONE
    BY <1>i, <1>s, <1>u, <1>p, <1>g, Zenon DEF WorkOK
  <2>2. \A b \in Actors : b # a /\ op[b].s = s => handle[frame.s] = frame.t /\ timer[frame.t].id = frame.s /\ frame.s = s
    BY <1>i, <1>s, <1>p, <1>g, Zenon DEF ShareOK
  <2> QED BY <2>1, <2>2, <1>u, <1>p, <1>g
<1>f. frame.s = s => a = Daemon
  BY <1>i, <1>g, <1>s, <1>u, <1>p, <1>y, SMT DEF FrameOK, Actors, Daemon
<1>o. /\ op'[a].pc = "erase" /\ op'[a].call = op[a].call /\ op'[a].s = op[a].s /\ op'[a].arg = op[a].arg
      /\ \A b \in Actors : b # a => op'[b] = op[b]
  BY <1>i, GoneTo, Zenon DEF DeleteTimer, Pcs
<1>k. op' \in [Actors -> OpSet]
  BY <1>i, GoneTo, Zenon DEF DeleteTimer, Pcs
<1>q. /\ QueueTyped' /\ Len(commands') <= QueueLen
      /\ \A t \in Timers : t # u =>
           /\ Mentions(t)' <=> Mentions(t)
           /\ Deletes(t)' <=> Deletes(t)
      /\ \A t \in Timers : HasStop(t)' <=> HasStop(t)
      /\ \A t \in Timers : LastStart(t)' <=> LastStart(t)
  <2>1. Post(Command("delete", u, 0))
    BY <1>s, <1>u DEF DeleteTimer
  <2> QED BY <2>1, <1>i, <1>r, DeletePosted, Zenon
<1>v. now' = now /\ mem' = mem /\ type' = type /\ next' = next /\ callback' = callback /\ stored' = stored /\ frame' = frame /\ dispatching' = dispatching /\ deleted' = deleted /\ fires' = fires /\ off' = off /\ lost' = lost
  BY DEF DeleteTimer, cbVars, ghosts
<1>w. /\ handle'[s] = 0 /\ \A b \in Schedules : b # s => handle'[b] = handle[b]
  BY <1>i, <1>s, <1>p, Zenon DEF DeleteTimer, TypeOK
<1>x. /\ timer'[u].state = timer[u].state /\ timer'[u].left = timer[u].left /\ timer'[u].id = NONE
      /\ \A t \in Timers : t # u => timer'[t] = timer[t]
  <2>1. timer' = [timer EXCEPT ![u].priv = "freed"]
    BY <1>s, <1>u DEF DeleteTimer
  <2>2. timer \in [Timers -> TimerSet]
    BY <1>i DEF TypeOK, TimerSet
  <2> QED BY <2>1, <2>2, <1>r, <1>y, PrivFreed, Zenon
<1>z. timer' \in [Timers -> TimerSet] /\ handle' \in [Schedules -> 0..MaxTimers]
  <2>1. timer' = [timer EXCEPT ![u].priv = "freed"]
    BY <1>s, <1>u DEF DeleteTimer
  <2>2. timer \in [Timers -> TimerSet]
    BY <1>i DEF TypeOK, TimerSet
  <2>3. handle' \in [Schedules -> 0..MaxTimers]
    <3>1. handle' = [handle EXCEPT ![s] = 0] /\ handle \in [Schedules -> 0..MaxTimers]
      BY <1>s, <1>i DEF DeleteTimer, TypeOK
    <3>2. 0 \in 0..MaxTimers
      BY SMT DEF ConstantsOK
    <3> QED BY <3>1, <3>2, <1>p, SMT
  <2>4. timer' \in [Timers -> TimerSet]
    BY <2>1, <2>2, <1>r, PrivFreed, Zenon
  <2> QED BY <2>3, <2>4
<1>11. TypeOK'
  <2>1. Len(commands') <= QueueLen
    BY <1>q
  <2>2. timer' \in [Timers -> TimerSet] /\ handle' \in [Schedules -> 0..MaxTimers]
    BY <1>z
  <2> QED BY <2>1, <2>2, <1>i, <1>v, SMT DEF TypeOK, TimerSet
<1>12. OpOK'
  BY <1>i, <1>g, <1>s, <1>u, <1>p, <1>c, <1>o, <1>k, <1>v, SMT DEF OpOK, OpSet, Timers, Actors, Daemon
<1>13. TimerOK'
  BY <1>i, <1>g, <1>s, <1>u, <1>p, <1>r, <1>c, <1>y, <1>o, <1>v, <1>w, <1>x, SMT DEF TimerOK, Timers, HandleOK, Actors, Daemon
<1>14. HandleOK'
  BY <1>i, <1>g, <1>s, <1>u, <1>p, <1>r, <1>c, <1>y, <1>o, <1>q, <1>v, <1>w, <1>x, SMT DEF HandleOK, Actors, Daemon
<1>15. PublishOK'
  BY <1>i, <1>g, <1>s, <1>u, <1>p, <1>r, <1>c, <1>y, <1>o, <1>q, <1>v, <1>w, <1>x, SMT DEF PublishOK, EndsOn, HandleOK, Actors, Daemon
<1>16. WorkOK'
  BY <1>i, <1>g, <1>s, <1>u, <1>p, <1>r, <1>c, <1>y, <1>o, <1>v, <1>w, <1>x, SMT DEF WorkOK, Actors, Daemon
<1>17. ShareOK'
  BY <1>i, <1>g, <1>s, <1>u, <1>p, <1>r, <1>c, <1>y, <1>o, <1>v, <1>w, <1>x, SMT DEF ShareOK, Actors, Daemon
<1>18. FrameOK'
  BY <1>i, <1>g, <1>s, <1>u, <1>p, <1>r, <1>c, <1>y, <1>f, <1>o, <1>v, <1>w, <1>x, SMT DEF FrameOK, FrameSet, Timers, Actors, Daemon
<1>19. QueueOK'
  BY <1>i, <1>g, <1>s, <1>u, <1>p, <1>r, <1>c, <1>y, <1>o, <1>q, <1>v, <1>w, <1>x, SMT DEF QueueOK, Timers, HandleOK, Actors, Daemon
<1>31. InitAlone /\ FrameOwn /\ \A r \in Kept : Good(r)
  BY DEF IInv
<1>32. Around
  BY <1>i, <1>31, Surroundings, Zenon
<1>33. \A t \in Timers : SameTimer(t)
  <2>1. \A t \in Timers : Kin(t)
    BY <1>x, <1>y DEF Kin
  <2>2. Post(Command("delete", u, 0))
    BY <1>s, <1>u DEF DeleteTimer
  <2> QED BY <2>1, <2>2, <1>i, <1>r, TimersDelete, Zenon
<1>34. now' \in Nat /\ now <= now' /\ Kept' \subseteq Kept
  BY <1>i, <1>v, SMT DEF TypeOK, Kept
<1>35. ASSUME NEW r \in Kept', r # s
      PROVE  Good(r)'
  <2>1. r \in Kept /\ r \in Schedules /\ r # NONE /\ Good(r)
    BY <1>31, <1>32, <1>34
  <2>2. \A b \in Actors : op[b].s = r \/ op'[b].s = r => op'[b] = op[b]
    BY <1>35, <2>1, <1>s, <1>p, <1>c, <1>o, <1>y
  <2>3. SameMemory(r)
    BY <1>35, <2>1, <1>v, <1>w
  <2>4. (OnFrame(r)' <=> OnFrame(r)) /\ (OnFrame(r) => frame' = frame)
    BY <1>v, <1>x, <1>y, <1>g DEF OnFrame
  <2>5. \A t \in Timers : handle[r] = t \/ timer'[t].id = r => SameTimer(t)
    BY <1>33
  <2>6. Unmoved(r)
    BY <2>2, <2>3, <2>4, <2>5 DEF Unmoved
  <2> QED BY <1>i, <1>31, <1>34, <2>1, <2>6, Others, Zenon
<1>36. ASSUME s \in Kept'
      PROVE  Good(s)'
  <2>1. Known(s)
    BY <1>32, <1>34, <1>36, <1>i, SMT DEF TypeOK
  <2> USE DEF Good
  <2>2. Good(s)
    BY <1>31, <2>1
  <2>h. PICK h : h = handle[s]
    OBVIOUS
  <2>3. Callback(s, h)
    BY <2>1, <2>h, <1>32, <1>i, SMT DEF Timers, Actors, OpOK
  <2>4. Company(a, s)
    BY <2>1, <2>2, <1>32, <1>s, Zenon
  <2>5. handle'[s] = 0
    BY <1>w
  <2>6. ~OnFrame(s) /\ ~OnFrame(s)'
    BY <2>1, <2>3, <2>h, <1>u, <1>x, <1>y, <1>v, <1>g DEF OnFrame
  <2>11. EnableOn(s)'
    BY <2>1, <2>2, <2>h, <2>3, <2>4, <1>v, <1>s, <1>p, <1>c, <1>o, <1>y, SMT DEF EnableOn, DeletePcs, RearmPcs
  <2>12. EditKept(s)'
    BY <2>1, <2>2, <2>h, <2>3, <2>4, <1>v, <1>s, <1>p, <1>c, <1>o, <1>y, SMT DEF EditKept, DeletePcs, RearmPcs
  <2>13. FrameAlone(s)'
    BY <2>6 DEF FrameAlone
  <2>14. OffOK(s)'
    BY <2>5 DEF OffOK
  <2>15. FrameOff(s)'
    BY <2>6 DEF FrameOff
  <2>16. SettledOn(s)'
    BY <2>5 DEF SettledOn
  <2>17. HasTime(s)'
    <3>1. TimeShown(s)'
      BY <2>5
    <3>2. TimeCalled(s)'
      BY <2>6
    <3>3. TimeArmed(s)'
      BY <2>2, <1>p, <1>c, <1>o, <1>v, <1>y, SMT DEF HasTime
    <3> QED BY <3>1, <3>2, <3>3, Zenon DEF HasTime
  <2>18. Alternate(s)'
    BY <2>2, <1>33, <1>x, <1>y, SMT DEF Alternate, SameTimer
  <2>19. OnceTime(s)'
    BY <2>1, <2>2, <2>h, <2>3, <2>4, <1>v, <1>s, <1>p, <1>c, <1>o, <1>y, SMT DEF OnceTime, DeletePcs, RearmPcs
  <2>20. NoCallback(s)'
    BY <2>1, <2>2, <2>h, <2>3, <2>4, <1>v, <1>s, <1>p, <1>c, <1>o, <1>y, SMT DEF NoCallback, DeletePcs, RearmPcs
  <2>21. StoredOK(s)'
    BY <2>1, <2>2, <2>h, <2>3, <2>4, <1>v, <1>s, <1>p, <1>c, <1>o, <1>y, SMT DEF StoredOK, OneShot, DeletePcs, RearmPcs
  <2>22. FiredOK(s)'
    <3> SUFFICES ASSUME type[s] \in OneShot, ~off[s], fires[s] > 0
                 PROVE  FiredOK(s)'
      BY <1>v, SMT DEF FiredOK, OneShot
    <3>0. Over(s, h)
      BY <2>2, <2>h DEF FiredOK
    <3>1. (fires[s] = 1 /\ next[s] <= now)'
      BY <3>0, <1>v
    <3>2. (handle[s] # 0 => ~EndsOn(handle[s]))'
      BY <2>5
    <3>3. (OnFrame(s) => frame.at # "enter")'
      BY <2>6
    <3>4. OverDaemon(s)'
      BY <3>0, <2>3, <1>o, <1>s, <1>p, SMT
    <3>5. OverStored(s)'
      BY <3>0, <1>v
    <3>6. OverLive(s)'
      BY <3>0, <1>v, <1>o, <1>s, SMT DEF Actors
    <3>7. OverCalls(s)'
      BY <3>0, <1>o, <1>s, <1>c, SMT
    <3>8. OverInit(s)'
      BY <3>0, <1>p, <1>c, <1>o, <1>s, SMT
    <3>9. OverCheck(s)'
      BY <3>0, <1>p, <1>v, <1>o, <1>s, SMT
    <3> QED BY <3>1, <3>2, <3>3, <3>4, <3>5, <3>6, <3>7, <3>8, <3>9, Zenon DEF FiredOK
  <2> QED BY <2>11, <2>12, <2>13, <2>14, <2>15, <2>16, <2>17, <2>18, <2>19, <2>20, <2>21, <2>22, Zenon
<1>37. \A r \in Kept' : Good(r)'
  BY <1>35, <1>36
<1>21. InitAlone'
  BY <1>31, <1>v, <1>s, <1>p, <1>c, <1>o, <1>y, SMT DEF InitAlone, Actors, Daemon
<1>22. FrameOwn'
  BY <1>31, <1>v, <1>x, <1>y, <1>g DEF FrameOwn
<1> QED
  BY <1>q, <1>11, <1>12, <1>13, <1>14, <1>15, <1>16, <1>17, <1>18, <1>19, <1>21, <1>22, <1>37 DEF IInv, Part1

LEMMA FreeKeeps ==
  ASSUME ConstantsOK, ~Preempted, IInv,
         NEW a \in Actors, Free(a)
  PROVE  IInv'
<1>i. Parts
  BY DEF IInv, Part1
<1>g. Plain
  BY <1>i, Basics, Zenon
<1>s. PICK s : s = op[a].s
  OBVIOUS
<1>p. s \in Schedules /\ op[a].pc = "free" /\ PcOK(op[a].call, op[a].pc)
  BY <1>s, <1>i, <1>g, SMT DEF OpOK, Free, At
<1>o. /\ op'[a].s = NONE /\ \A b \in Actors : b # a => op'[b] = op[b]
      /\ op[a].call = "init" => op'[a].call = "init" /\ op'[a].pc = "load"
      /\ op[a].call # "init" => op'[a] = Idle
      /\ op' \in [Actors -> OpSet]
  <2>1. CASE op[a].call = "init"
    <3> DEFINE r == [Idle EXCEPT !.call = "init", !.pc = "load"]
    <3>1. op' = [op EXCEPT ![a] = r]
      BY <2>1 DEF Free
    <3>2. r \in OpSet /\ r.call = "init" /\ r.s = NONE /\ r.pc = "load"
      BY Rests, Zenon
    <3> QED BY <3>1, <3>2, <2>1, <1>i, Became, Zenon
  <2>2. CASE op[a].call # "init"
    <3>1. op' = [op EXCEPT ![a] = Idle]
      BY <2>2 DEF Free
    <3> QED BY <3>1, <2>2, <1>i, Became, Rests, Zenon
  <2> QED BY <2>1, <2>2
<1>k. /\ op'[a].s = NONE /\ op'[a].pc \in {"idle", "load"} /\ op'[a].call \in {"none", "init"}
      /\ \A b \in Actors : b # a => op'[b] = op[b]
      /\ op[a].call # "init" => op'[a] = Idle
  BY <1>o, <1>g, SMT
<1>c. op[a].call \in {"init", "delete"} /\ PcOK("none", "idle") /\ PcOK("init", "load") /\ (op[a].call = "init" => a # Daemon)
  BY <1>i, <1>p, SMT DEF PcOK, OpOK
<1>y. handle[s] = 0 /\ (\A b \in Actors : b # a => op[b].s # s)
  <2>1. handle[s] = 0
    BY <1>i, <1>s, <1>p, <1>g, Zenon DEF WorkOK
  <2>2. \A b \in Actors : b # a /\ op[b].s = s => handle[frame.s] = frame.t /\ timer[frame.t].id = frame.s /\ frame.s = s
    BY <1>i, <1>s, <1>p, <1>g, Zenon DEF ShareOK
  <2> QED BY <2>1, <2>2, <1>p, <1>g
<1>n. \A t \in Timers : timer[t].id # s
  BY <1>i, <1>s, <1>p, <1>g, <1>y, SMT DEF TimerOK
<1>q. SameQueue
  <2>1. commands' = commands
    BY DEF Free, timerVars
  <2> QED BY <2>1, <1>i, Quiet, Zenon
<1>v. now' = now /\ type' = type /\ next' = next /\ callback' = callback /\ handle' = handle /\ stored' = stored /\ timer' = timer /\ frame' = frame /\ dispatching' = dispatching /\ fires' = fires /\ off' = off /\ lost' = lost
  BY DEF Free, timerVars, ghosts
<1>w. /\ s = dispatching => deleted' = TRUE /\ mem' = mem
      /\ s # dispatching => deleted' = deleted /\ mem'[s] = "freed"
      /\ \A r \in Schedules : r # s => mem'[r] = mem[r]
  BY <1>s, <1>i, <1>p, SMT DEF Free, TypeOK
<1>x. mem' \in [Schedules -> {"none", "live", "freed"}] /\ deleted' \in BOOLEAN
  <2>0. deleted \in BOOLEAN
    BY <1>i DEF TypeOK
  <2>1. mem \in [Schedules -> {"none", "live", "freed"}]
    BY <1>i DEF TypeOK
  <2>2. CASE s = dispatching
    BY <2>0, <2>1, <2>2, <1>s DEF Free
  <2>3. CASE s # dispatching
    <3>0. deleted' = deleted
      BY <2>3, <1>s DEF Free
    <3>1. mem' = [mem EXCEPT ![s] = "freed"]
      BY <2>3, <1>s DEF Free
    <3>2. mem' \in [Schedules -> {"none", "live", "freed"}]
      BY <3>1, <2>1, <1>p, Zenon
    <3> QED BY <3>0, <3>2, <2>0
  <2> QED BY <2>2, <2>3
<1>f. /\ frame.s = s => dispatching = s /\ frame.at = "trigger"
      /\ dispatching = s => frame.s = s /\ frame.at = "trigger"
      /\ a = Daemon => frame.at = "trigger"
  BY <1>i, <1>g, <1>s, <1>p, <1>c, <1>y, SMT DEF FrameOK, FrameSet, Actors, Daemon, PcOK
<1>11. TypeOK'
  BY <1>i, <1>p, <1>q, <1>v, <1>x, Zenon DEF TypeOK, Timers
<1>12. OpOK'
  BY <1>i, <1>g, <1>s, <1>p, <1>o, <1>c, <1>v, SMT DEF OpOK, OpSet, Timers, Actors, Daemon
<1>13. TimerOK'
  BY <1>i, <1>g, <1>s, <1>p, <1>k, <1>c, <1>y, <1>n, <1>v, <1>w, SMT DEF TimerOK, Timers, Actors, Daemon
<1>14. HandleOK'
  BY <1>i, <1>g, <1>s, <1>p, <1>k, <1>c, <1>y, <1>n, <1>q, <1>v, <1>w, SMT DEF HandleOK, Actors, Daemon
<1>15. PublishOK'
  BY <1>i, <1>g, <1>s, <1>p, <1>k, <1>c, <1>y, <1>q, <1>v, <1>w, SMT DEF PublishOK, EndsOn, Actors, Daemon
<1>16. WorkOK'
  BY <1>i, <1>g, <1>s, <1>p, <1>k, <1>c, <1>y, <1>v, <1>w, SMT DEF WorkOK, Actors, Daemon
<1>17. ShareOK'
  BY <1>i, <1>g, <1>s, <1>p, <1>k, <1>c, <1>y, <1>v, <1>w, SMT DEF ShareOK, Actors, Daemon
<1>18. FrameOK'
  BY <1>i, <1>g, <1>s, <1>p, <1>k, <1>c, <1>y, <1>n, <1>v, <1>w, <1>f, SMT DEF FrameOK, FrameSet, Timers, Actors, Daemon
<1>19. QueueOK'
  BY <1>i, <1>g, <1>s, <1>p, <1>k, <1>c, <1>y, <1>q, <1>v, <1>w, SMT DEF QueueOK, Timers, Actors, Daemon
<1>31. InitAlone /\ FrameOwn /\ \A r \in Kept : Good(r)
  BY DEF IInv
<1>32. Around
  BY <1>i, <1>31, Surroundings, Zenon
<1>33. \A t \in Timers : SameTimer(t)
  <2>1. commands' = commands
    BY <1>q
  <2>2. \A t \in Timers : Kin(t)
    BY <1>v DEF Kin
  <2> QED BY <2>1, <2>2, <1>i, TimersSame, Zenon
<1>34. now' \in Nat /\ now <= now' /\ Kept' \subseteq Kept
  BY <1>i, <1>v, SMT DEF TypeOK, Kept
<1>41. op[a].call = "init" => s # dispatching
  <2> SUFFICES ASSUME op[a].call = "init", s = dispatching
               PROVE  FALSE
    OBVIOUS
  <2>1. frame.at = "trigger" /\ frame.s = s
    BY <1>f
  <2>2. a \in Tasks /\ Daemon \in Actors /\ a # Daemon
    BY <1>c, SMT DEF Actors
  <2>3. op[Daemon].call \in {"none", "rearm"}
    BY <2>2, <1>31 DEF InitAlone
  <2>4. ~deleted
    BY <2>1, <1>i, <1>s DEF FrameOK
  <2> QED BY <2>1, <2>3, <2>4, <1>y, <1>n, <1>g, <1>i, SMT DEF FrameOK
<1>42. Idle.s = NONE /\ Idle.call = "none"
  BY <1>g
<1>35. ASSUME NEW r \in Kept', r # s
      PROVE  Good(r)'
  <2>1. r \in Kept /\ r \in Schedules /\ r # NONE /\ Good(r)
    BY <1>31, <1>32, <1>34
  <2>2. \A b \in Actors : op[b].s = r \/ op'[b].s = r => op'[b] = op[b]
    BY <1>35, <2>1, <1>s, <1>p, <1>k, <1>y, <1>42
  <2>3. SameMemory(r)
    BY <1>35, <2>1, <1>v, <1>w
  <2>4. (OnFrame(r)' <=> OnFrame(r)) /\ (OnFrame(r) => frame' = frame)
    BY <1>v, <1>42 DEF OnFrame
  <2>5. \A t \in Timers : handle[r] = t \/ timer'[t].id = r => SameTimer(t)
    BY <1>33, <1>42
  <2>6. Unmoved(r)
    BY <2>2, <2>3, <2>4, <2>5 DEF Unmoved
  <2> QED BY <1>i, <1>31, <1>34, <2>1, <2>6, Others, Zenon
<1>36. ASSUME s \in Kept'
      PROVE  Good(s)'
  <2>1. Known(s)
    BY <1>32, <1>34, <1>36, <1>i, SMT DEF TypeOK
  <2> USE DEF Good
  <2>2. Good(s)
    BY <1>31, <2>1
  <2>h. PICK h : h = handle[s]
    OBVIOUS
  <2>3. Callback(s, h)
    BY <2>1, <2>h, <1>32, <1>i, SMT DEF Timers, Actors, OpOK
  <2>6. (OnFrame(s)' <=> OnFrame(s)) /\ frame' = frame
    BY <1>v DEF OnFrame
  <2>7. (\A b \in Actors : op'[b].s # s) /\ ~OnFrame(s)' /\ h = 0 /\ handle'[s] = 0
    <3>1. \A b \in Actors : op'[b].s # s
      BY <1>k, <1>y, <2>1
    <3>2. h = 0 /\ handle'[s] = 0
      BY <1>y, <1>v, <2>h
    <3>3. ~OnFrame(s)'
      BY <3>2, <2>3, <2>6
    <3> QED BY <3>1, <3>2, <3>3
  <2>11. EnableOn(s)'
    BY <2>7 DEF EnableOn
  <2>12. EditKept(s)'
    BY <2>7 DEF EditKept
  <2>13. FrameAlone(s)'
    BY <2>7 DEF FrameAlone
  <2>14. OffOK(s)'
    BY <2>7 DEF OffOK
  <2>15. FrameOff(s)'
    BY <2>7 DEF FrameOff
  <2>16. SettledOn(s)'
    BY <2>7 DEF SettledOn
  <2>17. HasTime(s)'
    <3>1. TimeShown(s)'
      BY <2>7
    <3>2. TimeCalled(s)'
      BY <2>7
    <3>3. TimeArmed(s)'
      BY <2>7
    <3> QED BY <3>1, <3>2, <3>3, Zenon DEF HasTime
  <2>18. Alternate(s)'
    BY <2>1, <2>2, <2>h, <2>3, <1>33, <1>v, <1>s, <1>p, <1>k, <1>y, <2>7, SMT DEF Alternate, SameTimer
  <2>19. OnceTime(s)'
    BY <2>1, <2>2, <2>h, <2>3, <1>v, <1>s, <1>p, <1>k, <1>y, <2>7, SMT DEF OnceTime
  <2>20. NoCallback(s)'
    <3>1. mem'[s] # "none"
      BY <1>i, <1>s, <1>p, <1>g, <1>w, SMT DEF WorkOK
    <3> QED BY <3>1, <2>7 DEF NoCallback
  <2>21. StoredOK(s)'
    <3>1. \A b \in Actors : op[b].s = s => op[b].call # "enable"
      BY <1>y, <1>c, <1>s
    <3> QED BY <3>1, <2>2, <1>v DEF StoredOK
  <2>22. FiredOK(s)'
    <3> SUFFICES ASSUME type[s] \in OneShot, ~off[s], fires[s] > 0
                 PROVE  FiredOK(s)'
      BY <1>v, SMT DEF FiredOK, OneShot
    <3>0. Over(s, h)
      BY <2>2, <2>h DEF FiredOK
    <3>10. mem'[s] = "live" => callback[s]
      <4>1. mem'[s] = "live" => s = dispatching /\ mem[s] = "live"
        BY <1>w
      <4>2. op[a].call # "init" => \A b \in Tasks : op[b].s = s => op[b].call # "init"
        BY <1>y, <1>s DEF Actors
      <4> QED BY <4>1, <4>2, <1>41, <3>0
    <3>1. (fires[s] = 1 /\ next[s] <= now)'
      BY <3>0, <1>v
    <3>2. (handle[s] # 0 => ~EndsOn(handle[s]))'
      BY <2>7
    <3>3. (OnFrame(s) => frame.at # "enter")'
      BY <2>7
    <3>4. OverDaemon(s)'
      BY <2>7, <2>3
    <3>5. OverStored(s)'
      BY <3>0, <1>v
    <3>6. OverLive(s)'
      BY <3>10, <1>v
    <3>7. OverCalls(s)'
      BY <2>7
    <3>8. OverInit(s)'
      BY <2>7
    <3>9. OverCheck(s)'
      BY <2>7
    <3> QED BY <3>1, <3>2, <3>3, <3>4, <3>5, <3>6, <3>7, <3>8, <3>9, Zenon DEF FiredOK
  <2> QED BY <2>11, <2>12, <2>13, <2>14, <2>15, <2>16, <2>17, <2>18, <2>19, <2>20, <2>21, <2>22, Zenon
<1>37. \A r \in Kept' : Good(r)'
  BY <1>35, <1>36
<1>21. InitAlone'
  <2>1. \A b \in Actors : op'[b].call \in {"init", "rearm"} => op[b].call = op'[b].call
    BY <1>o, <1>k, <1>c, <1>g
  <2>2. \A b \in Actors : op[b].call \in {"none", "rearm"} => op'[b].call \in {"none", "rearm"}
    BY <1>o, <1>k, <1>c, <1>g
  <2> QED BY <2>1, <2>2, <1>31, <1>v DEF InitAlone, Actors
<1>22. FrameOwn'
  BY <1>31, <1>v, <1>42 DEF FrameOwn
<1> QED
  BY <1>q, <1>11, <1>12, <1>13, <1>14, <1>15, <1>16, <1>17, <1>18, <1>19, <1>21, <1>22, <1>37 DEF IInv, Part1

LEMMA LoadKeeps ==
  ASSUME ConstantsOK, ~Preempted, IInv,
         NEW a \in Actors, NEW s \in Schedules, Load(a, s)
  PROVE  IInv'
<1>i. Parts
  BY DEF IInv, Part1
<1>g. Plain
  BY <1>i, Basics, Zenon
<1>p. op[a].pc = "load" /\ mem[s] = "none" /\ op[a].s = NONE /\ PcOK(op[a].call, op[a].pc)
  BY <1>i, <1>g, SMT DEF Load, At, OpOK
<1>c. op[a].call = "init" /\ PcOK(op[a].call, "check") /\ a # Daemon
  <2>1. op[a].call = "init"
    BY <1>p, SMT DEF PcOK
  <2> QED BY <2>1, <1>i, SMT DEF PcOK, OpOK
<1>y. handle[s] = 0 /\ (\A b \in Actors : op[b].s # s) /\ frame.s # s
  BY <1>i, <1>p, <1>g, SMT DEF HandleOK, WorkOK, FrameOK
<1>o. /\ op'[a].pc = "check" /\ op'[a].call = op[a].call /\ op'[a].s = s /\ op'[a].arg = op[a].arg
      /\ \A b \in Actors : b # a => op'[b] = op[b]
  <2>1. op' = [op EXCEPT ![a].s = s, ![a].pc = "check"] /\ "check" \in Pcs
    BY DEF Load, Pcs
  <2>2. OpOK
    BY <1>i
  <2>3. /\ op'[a].pc = "check" /\ op'[a].call = op[a].call /\ op'[a].s = s /\ op'[a].arg = op[a].arg
        /\ \A b \in Actors : b # a => op'[b] = op[b]
        /\ op' \in [Actors -> OpSet]
    BY ONLY <2>1, <2>2, a \in Actors, s \in Schedules, TakesUp, Zenon
  <2> QED BY <2>3
<1>k. op' \in [Actors -> OpSet]
  <2>1. op' = [op EXCEPT ![a].s = s, ![a].pc = "check"] /\ "check" \in Pcs
    BY DEF Load, Pcs
  <2> QED BY <2>1, <1>i, TakesUp, Zenon
<1>q. SameQueue
  <2>1. commands' = commands
    BY DEF Load, timerVars
  <2> QED BY <2>1, <1>i, Quiet, Zenon
<1>v. now' = now /\ type' = type /\ callback' = callback /\ handle' = handle /\ stored' = stored /\ timer' = timer /\ frame' = frame /\ dispatching' = dispatching /\ deleted' = deleted /\ fires' = fires /\ off' = off /\ lost' = lost
  BY DEF Load, timerVars, cbVars, ghosts
<1>w. /\ mem'[s] = "live" /\ \A r \in Schedules : r # s => mem'[r] = mem[r]
  BY <1>i, SMT DEF Load, TypeOK
<1>x. mem' \in [Schedules -> {"none", "live", "freed"}] /\ next' \in [Schedules -> Nat]
  <2>1. stored[s] \in Nat
    BY <1>i, SMT DEF Load, TypeOK
  <2> QED BY <2>1, <1>i, SMT DEF Load, TypeOK
<1>11. TypeOK'
  BY <1>i, <1>q, <1>v, <1>x, Zenon DEF TypeOK, Timers
<1>12. OpOK'
  BY <1>i, <1>g, <1>p, <1>c, <1>o, <1>k, <1>v, SMT DEF OpOK, OpSet, Timers, Actors, Daemon
<1>13. TimerOK'
  BY <1>i, <1>g, <1>p, <1>c, <1>y, <1>o, <1>v, <1>w, SMT DEF TimerOK, Timers, Actors, Daemon
<1>14. HandleOK'
  BY <1>i, <1>g, <1>p, <1>c, <1>y, <1>o, <1>q, <1>v, <1>w, SMT DEF HandleOK, Actors, Daemon
<1>15. PublishOK'
  BY <1>i, <1>g, <1>p, <1>c, <1>y, <1>o, <1>q, <1>v, <1>w, SMT DEF PublishOK, EndsOn, Actors, Daemon
<1>16. WorkOK'
  BY <1>i, <1>g, <1>p, <1>c, <1>y, <1>o, <1>v, <1>w, SMT DEF WorkOK, Actors, Daemon
<1>17. ShareOK'
  BY <1>i, <1>g, <1>p, <1>c, <1>y, <1>o, <1>v, <1>w, SMT DEF ShareOK, Actors, Daemon
<1>18. FrameOK'
  BY <1>i, <1>g, <1>p, <1>c, <1>y, <1>o, <1>v, <1>w, SMT DEF FrameOK, FrameSet, Timers, Actors, Daemon
<1>19. QueueOK'
  BY <1>i, <1>g, <1>p, <1>c, <1>y, <1>o, <1>q, <1>v, <1>w, SMT DEF QueueOK, Timers, Actors, Daemon
<1>31. InitAlone /\ FrameOwn /\ \A r \in Kept : Good(r)
  BY DEF IInv
<1>32. Around
  BY <1>i, <1>31, Surroundings, Zenon
<1>33. \A t \in Timers : SameTimer(t)
  <2>1. commands' = commands
    BY <1>q
  <2>2. \A t \in Timers : Kin(t)
    BY <1>v DEF Kin
  <2> QED BY <2>1, <2>2, <1>i, TimersSame, Zenon
<1>34. now' \in Nat /\ now <= now' /\ Kept' \subseteq Kept
  BY <1>i, <1>v, SMT DEF TypeOK, Kept
<1>41. 
      /\ \A r \in Schedules : r # s => next'[r] = next[r]
      /\ next'[s] = stored[s] /\ stored[s] # NoEntry /\ mem'[s] = "live"
  <2>1. next \in [Schedules -> Nat] /\ next' = [next EXCEPT ![s] = stored[s]] /\ stored[s] # NoEntry
    BY <1>i DEF TypeOK, Load
  <2> QED BY <2>1, <1>w
<1>35. ASSUME NEW r \in Kept', r # s
      PROVE  Good(r)'
  <2>1. r \in Kept /\ r \in Schedules /\ r # NONE /\ Good(r)
    BY <1>31, <1>32, <1>34
  <2>2. \A b \in Actors : op[b].s = r \/ op'[b].s = r => op'[b] = op[b]
    BY <1>35, <2>1, <1>p, <1>c, <1>y, <1>o, <1>41
  <2>3. SameMemory(r)
    BY <1>35, <2>1, <1>v, <1>w, <1>41
  <2>4. (OnFrame(r)' <=> OnFrame(r)) /\ (OnFrame(r) => frame' = frame)
    BY <1>v, <1>41 DEF OnFrame
  <2>5. \A t \in Timers : handle[r] = t \/ timer'[t].id = r => SameTimer(t)
    BY <1>33, <1>41
  <2>6. Unmoved(r)
    BY <2>2, <2>3, <2>4, <2>5 DEF Unmoved
  <2> QED BY <1>i, <1>31, <1>34, <2>1, <2>6, Others, Zenon
<1>36. ASSUME s \in Kept'
      PROVE  Good(s)'
  <2>1. Known(s)
    BY <1>32, <1>34, <1>36, <1>i, SMT DEF TypeOK
  <2> USE DEF Good
  <2>2. Good(s)
    BY <1>31, <2>1
  <2>h. PICK h : h = handle[s]
    OBVIOUS
  <2>3. Callback(s, h)
    BY <2>1, <2>h, <1>32, <1>i, SMT DEF Timers, Actors, OpOK
  <2>6. (OnFrame(s)' <=> OnFrame(s)) /\ frame' = frame
    BY <1>v DEF OnFrame
  <2>7. h = 0 /\ ~OnFrame(s) /\ ~OnFrame(s)' /\ \A b \in Actors : op'[b].s = s => b = a
    <3>1. h = 0
      BY <2>h, <1>y
    <3>2. ~OnFrame(s) /\ ~OnFrame(s)'
      BY <3>1, <2>3, <2>6
    <3>3. \A b \in Actors : op'[b].s = s => b = a
      BY <1>o, <1>y
    <3> QED BY <3>1, <3>2, <3>3
  <2>11. EnableOn(s)'
    BY <2>1, <2>2, <2>h, <2>3, <1>v, <1>p, <1>c, <1>y, <1>o, <2>7, SMT DEF EnableOn
  <2>12. EditKept(s)'
    BY <2>1, <2>2, <2>h, <2>3, <1>v, <1>p, <1>c, <1>y, <1>o, <1>41, <2>7, SMT DEF EditKept
  <2>13. FrameAlone(s)'
    BY <2>7 DEF FrameAlone
  <2>14. OffOK(s)'
    BY <2>7, <2>h, <1>v DEF OffOK
  <2>15. FrameOff(s)'
    BY <2>7 DEF FrameOff
  <2>16. SettledOn(s)'
    BY <2>7, <2>h, <1>v DEF SettledOn
  <2>17. HasTime(s)'
    <3>1. TimeShown(s)'
      BY <2>h, <2>7, <1>v
    <3>2. TimeCalled(s)'
      BY <2>7
    <3>3. TimeArmed(s)'
      BY <2>7, <1>o, SMT
    <3> QED BY <3>1, <3>2, <3>3, Zenon DEF HasTime
  <2>18. Alternate(s)'
    BY <2>1, <2>2, <2>h, <2>3, <1>33, <1>v, <1>p, <1>c, <1>y, <1>o, <2>7, SMT DEF Alternate, SameTimer
  <2>19. OnceTime(s)'
    BY <2>2, <1>41, <1>v, SMT DEF OnceTime
  <2>20. NoCallback(s)'
    BY <2>2, <1>p, <1>v, SMT DEF NoCallback
  <2>21. StoredOK(s)'
    BY <2>2, <1>p, <1>v DEF StoredOK, NoCallback
  <2>22. FiredOK(s)'
    <3> SUFFICES ASSUME type[s] \in OneShot, ~off[s], fires[s] > 0
                 PROVE  FiredOK(s)'
      BY <1>v, SMT DEF FiredOK, OneShot
    <3>0. Over(s, h)
      BY <2>2, <2>h DEF FiredOK
    <3>10. stored[s] \in 1..now /\ a \in Tasks
      BY <3>0, <1>41, <1>c, SMT DEF Actors
    <3>1. (fires[s] = 1 /\ next[s] <= now)'
      BY <3>0, <3>10, <2>1, <1>41, <1>v, SMT
    <3>2. (handle[s] # 0 => ~EndsOn(handle[s]))'
      BY <2>7, <2>h, <1>v
    <3>3. (OnFrame(s) => frame.at # "enter")'
      BY <2>7
    <3>4. OverDaemon(s)'
      BY <2>3, <2>7, <1>c
    <3>5. OverStored(s)'
      BY <3>0, <1>v
    <3>6. OverLive(s)'
      BY <3>10, <1>o, <1>c
    <3>7. OverCalls(s)'
      BY <2>7, <1>o, <1>c
    <3>8. OverInit(s)'
      BY <2>7, <1>o
    <3>9. OverCheck(s)'
      BY <3>10, <2>1, <1>41, SMT
    <3> QED BY <3>1, <3>2, <3>3, <3>4, <3>5, <3>6, <3>7, <3>8, <3>9, Zenon DEF FiredOK
  <2> QED BY <2>11, <2>12, <2>13, <2>14, <2>15, <2>16, <2>17, <2>18, <2>19, <2>20, <2>21, <2>22, Zenon
<1>37. \A r \in Kept' : Good(r)'
  BY <1>35, <1>36
<1>21. InitAlone'
  BY <1>31, <1>v, <1>p, <1>c, <1>y, <1>o, <1>41, SMT DEF InitAlone, Actors, Daemon
<1>22. FrameOwn'
  BY <1>31, <1>v, <1>41 DEF FrameOwn
<1> QED
  BY <1>q, <1>11, <1>12, <1>13, <1>14, <1>15, <1>16, <1>17, <1>18, <1>19, <1>21, <1>22, <1>37 DEF IInv, Part1

LEMMA CreateKeeps ==
  ASSUME ConstantsOK, ~Preempted, IInv,
         NEW a \in Actors, NEW s \in Schedules, Create(a, s)
  PROVE  IInv'
<1>i. Parts
  BY DEF IInv, Part1
<1>g. Plain
  BY <1>i, Basics, Zenon
<1>p. mem[s] = "none"
  BY DEF Create
<1>y. handle[s] = 0 /\ (\A b \in Actors : op[b].s # s) /\ frame.s # s
  BY <1>i, <1>p, <1>g, SMT DEF HandleOK, WorkOK, FrameOK
<1>q. SameQueue
  <2>1. commands' = commands
    BY DEF Create, timerVars
  <2> QED BY <2>1, <1>i, Quiet, Zenon
<1>v. now' = now /\ handle' = handle /\ timer' = timer /\ op' = op /\ frame' = frame /\ dispatching' = dispatching /\ deleted' = deleted /\ fires' = fires /\ lost' = lost
  BY DEF Create, timerVars, cbVars
<1>w. /\ mem'[s] = "live" /\ \A r \in Schedules : r # s => mem'[r] = mem[r]
  BY <1>i, SMT DEF Create, TypeOK
<1>x. /\ mem' \in [Schedules -> {"none", "live", "freed"}] /\ next' \in [Schedules -> Nat]
      /\ type' \in [Schedules -> {"none", "relative", "once", "repeating"}]
      /\ callback' \in [Schedules -> BOOLEAN] /\ stored' \in [Schedules -> Nat \cup {NoEntry}]
      /\ off' \in [Schedules -> BOOLEAN]
  <2>1. PICK k \in Types[s] : /\ type' = [type EXCEPT ![s] = k]
                              /\ next' = [next EXCEPT ![s] = IF k = "relative" THEN NewTarget(s) ELSE 0]
    BY DEF Create
  <2>2. k \in {"relative", "once", "repeating"}
    BY <2>1, SMT DEF ConstantsOK
  <2>3. type' \in [Schedules -> {"none", "relative", "once", "repeating"}]
    BY <2>1, <2>2, <1>i, SMT DEF TypeOK
  <2>4. now \in Nat /\ Delay[s] \in Nat
    BY <1>i, SMT DEF TypeOK, ConstantsOK
  <2>5. (IF k = "relative" THEN NewTarget(s) ELSE 0) \in Nat
    BY <2>4, SMT DEF NewTarget
  <2>6. next' \in [Schedules -> Nat]
    BY <2>1, <2>5, <1>i, SMT DEF TypeOK
  <2>7. mem' \in [Schedules -> {"none", "live", "freed"}]
    BY <1>i, SMT DEF Create, TypeOK
  <2>8. callback' \in [Schedules -> BOOLEAN] /\ off' \in [Schedules -> BOOLEAN]
    <3>1. /\ callback' = [callback EXCEPT ![s] = TRUE] /\ off' = [off EXCEPT ![s] = TRUE]
          /\ callback \in [Schedules -> BOOLEAN] /\ off \in [Schedules -> BOOLEAN]
      BY <1>i DEF Create, TypeOK
    <3> QED BY <3>1, Zenon
  <2>9. stored' \in [Schedules -> Nat \cup {NoEntry}]
    BY <1>i, SMT DEF Create, TypeOK
  <2> QED BY <2>3, <2>6, <2>7, <2>8, <2>9
<1>11. TypeOK'
  BY <1>i, <1>q, <1>v, <1>x, Zenon DEF TypeOK, Timers
<1>12. OpOK'
  BY <1>i, <1>g, <1>v, SMT DEF OpOK, OpSet, Timers, Actors, Daemon
<1>13. TimerOK'
  BY <1>i, <1>g, <1>p, <1>y, <1>v, <1>w, SMT DEF TimerOK, Timers, Actors, Daemon
<1>14. HandleOK'
  BY <1>i, <1>g, <1>p, <1>y, <1>q, <1>v, <1>w, SMT DEF HandleOK, Actors, Daemon
<1>15. PublishOK'
  BY <1>i, <1>g, <1>p, <1>y, <1>q, <1>v, <1>w, SMT DEF PublishOK, EndsOn, Actors, Daemon
<1>16. WorkOK'
  BY <1>i, <1>g, <1>p, <1>y, <1>v, <1>w, SMT DEF WorkOK, Actors, Daemon
<1>17. ShareOK'
  BY <1>i, <1>g, <1>p, <1>y, <1>v, <1>w, SMT DEF ShareOK, Actors, Daemon
<1>18. FrameOK'
  BY <1>i, <1>g, <1>p, <1>y, <1>v, <1>w, SMT DEF FrameOK, FrameSet, Timers, Actors, Daemon
<1>19. QueueOK'
  BY <1>i, <1>g, <1>p, <1>y, <1>q, <1>v, <1>w, SMT DEF QueueOK, Timers, Actors, Daemon
<1>31. InitAlone /\ FrameOwn /\ \A r \in Kept : Good(r)
  BY DEF IInv
<1>32. Around
  BY <1>i, <1>31, Surroundings, Zenon
<1>33. \A t \in Timers : SameTimer(t)
  <2>1. commands' = commands
    BY <1>q
  <2>2. \A t \in Timers : Kin(t)
    BY <1>v DEF Kin
  <2> QED BY <2>1, <2>2, <1>i, TimersSame, Zenon
<1>34. now' \in Nat /\ now <= now' /\ Kept' \subseteq Kept
  BY <1>i, <1>v, SMT DEF TypeOK, Kept
<1>41. 
      /\ \A r \in Schedules : r # s =>
           /\ type'[r] = type[r] /\ next'[r] = next[r] /\ callback'[r] = callback[r]
           /\ stored'[r] = stored[r] /\ off'[r] = off[r]
      /\ off'[s] /\ stored'[s] = 0 /\ (type'[s] = "once" => next'[s] = 0) /\ mem'[s] = "live"
  <2>0. /\ type \in [Schedules -> {"none", "relative", "once", "repeating"}] /\ next \in [Schedules -> Nat]
        /\ callback \in [Schedules -> BOOLEAN] /\ off \in [Schedules -> BOOLEAN]
        /\ stored \in [Schedules -> Nat \cup {NoEntry}]
    BY <1>i DEF TypeOK
  <2>1. PICK k : /\ type' = [type EXCEPT ![s] = k]
                 /\ next' = [next EXCEPT ![s] = IF k = "relative" THEN NewTarget(s) ELSE 0]
    BY DEF Create
  <2>2. /\ callback' = [callback EXCEPT ![s] = TRUE] /\ off' = [off EXCEPT ![s] = TRUE]
        /\ stored' = [stored EXCEPT ![s] = 0]
    BY DEF Create
  <2>3. type'[s] = k /\ (k = "once" => next'[s] = 0)
    BY <2>0, <2>1
  <2> QED BY <2>0, <2>1, <2>2, <2>3, <1>w
<1>35. ASSUME NEW r \in Kept', r # s
      PROVE  Good(r)'
  <2>1. r \in Kept /\ r \in Schedules /\ r # NONE /\ Good(r)
    BY <1>31, <1>32, <1>34
  <2>2. \A b \in Actors : op[b].s = r \/ op'[b].s = r => op'[b] = op[b]
    BY <1>v
  <2>3. SameMemory(r)
    BY <1>35, <2>1, <1>v, <1>w, <1>41
  <2>4. (OnFrame(r)' <=> OnFrame(r)) /\ (OnFrame(r) => frame' = frame)
    BY <1>v, <1>41 DEF OnFrame
  <2>5. \A t \in Timers : handle[r] = t \/ timer'[t].id = r => SameTimer(t)
    BY <1>33, <1>41
  <2>6. Unmoved(r)
    BY <2>2, <2>3, <2>4, <2>5 DEF Unmoved
  <2> QED BY <1>i, <1>31, <1>34, <2>1, <2>6, Others, Zenon
<1>36. ASSUME s \in Kept'
      PROVE  Good(s)'
  <2>1. Known(s)
    BY <1>32, <1>34, <1>36, <1>i, SMT DEF TypeOK
  <2> USE DEF Good
  <2>2. Good(s)
    BY <1>31, <2>1
  <2>h. PICK h : h = handle[s]
    OBVIOUS
  <2>3. Callback(s, h)
    BY <2>1, <2>h, <1>32, <1>i, SMT DEF Timers, Actors, OpOK
  <2>6. (OnFrame(s)' <=> OnFrame(s)) /\ frame' = frame
    BY <1>v DEF OnFrame
  <2>7. h = 0 /\ ~OnFrame(s) /\ ~OnFrame(s)' /\ \A b \in Actors : op'[b].s # s
    <3>1. h = 0
      BY <2>h, <1>y
    <3>2. ~OnFrame(s) /\ ~OnFrame(s)'
      BY <3>1, <2>3, <2>6
    <3>3. \A b \in Actors : op'[b].s # s
      BY <1>v, <1>y
    <3> QED BY <3>1, <3>2, <3>3
  <2>11. EnableOn(s)'
    BY <2>7 DEF EnableOn
  <2>12. EditKept(s)'
    BY <2>7 DEF EditKept
  <2>13. FrameAlone(s)'
    BY <2>7 DEF FrameAlone
  <2>14. OffOK(s)'
    BY <2>7, <2>h, <1>v DEF OffOK
  <2>15. FrameOff(s)'
    BY <2>7 DEF FrameOff
  <2>16. SettledOn(s)'
    BY <2>7, <2>h, <1>v DEF SettledOn
  <2>17. HasTime(s)'
    <3>1. TimeShown(s)'
      BY <2>h, <2>7, <1>v
    <3>2. TimeCalled(s)'
      BY <2>7
    <3>3. TimeArmed(s)'
      BY <2>7
    <3> QED BY <3>1, <3>2, <3>3, Zenon DEF HasTime
  <2>18. Alternate(s)'
    BY <2>1, <2>2, <2>h, <2>3, <1>33, <1>v, <1>y, <1>41, <2>7, SMT DEF Alternate, SameTimer
  <2>19. OnceTime(s)'
    BY <1>41, SMT DEF OnceTime
  <2>20. NoCallback(s)'
    BY <2>7, <1>41 DEF NoCallback
  <2>21. StoredOK(s)'
    BY <1>41 DEF StoredOK
  <2>22. FiredOK(s)'
    BY <1>41 DEF FiredOK
  <2> QED BY <2>11, <2>12, <2>13, <2>14, <2>15, <2>16, <2>17, <2>18, <2>19, <2>20, <2>21, <2>22, Zenon
<1>37. \A r \in Kept' : Good(r)'
  BY <1>35, <1>36
<1>21. InitAlone'
  BY <1>v DEF InitAlone, Create, MayCall
<1>22. FrameOwn'
  BY <1>31, <1>v, <1>41 DEF FrameOwn
<1> QED
  BY <1>q, <1>11, <1>12, <1>13, <1>14, <1>15, <1>16, <1>17, <1>18, <1>19, <1>21, <1>22, <1>37 DEF IInv, Part1

LEMMA EnableKeeps ==
  ASSUME ConstantsOK, ~Preempted, IInv,
         NEW a \in Actors, NEW s \in Schedules, Enable(a, s)
  PROVE  IInv'
<1>i. Parts
  BY DEF IInv, Part1
<1>g. Plain
  BY <1>i, Basics, Zenon
<1>x. PICK x \in {"compute"} : Enter(a, "enable", s, x) /\ (x = "stop_first" => handle[s] # 0) /\ (x = "erase" => handle[s] = 0)
  BY DEF Enable
<1>e. /\ op[a].pc = "idle" /\ (a = Daemon => frame.at = "trigger")
      /\ op'[a].pc = x /\ op'[a].call = "enable" /\ op'[a].s = s /\ op'[a].arg = 0
      /\ \A b \in Actors : b # a => op'[b] = op[b]
      /\ op' \in [Actors -> OpSet]
      /\ fires' \in [Schedules -> Nat]
      /\ off' \in [Schedules -> BOOLEAN]
      /\ lost' \subseteq Schedules
  <2>1. "enable" \in Kinds /\ x \in Pcs
    BY DEF Kinds, Pcs
  <2>2. OpOK /\ TypeOK
    BY <1>i
  <2> QED BY ONLY <2>1, <2>2, <1>x, a \in Actors, s \in Schedules, ConstantsOK, Entered, Zenon
<1>o. /\ op[a].pc = "idle" /\ (a = Daemon => frame.at = "trigger") /\ op[a].s = NONE /\ op[a] = Idle
      /\ op'[a].pc = x /\ op'[a].call = "enable" /\ op'[a].s = s /\ op'[a].arg = 0
      /\ \A b \in Actors : b # a => op'[b] = op[b]
  BY <1>e, <1>i, <1>g DEF OpOK
<1>k. op' \in [Actors -> OpSet] /\ PcOK("enable", "compute")
  BY <1>e, SMT DEF PcOK
<1>m. mem[s] = "live" /\ (s = frame.s => ~deleted)
  BY DEF Enable, MayUse, MayDelete
<1>w. fires' \in [Schedules -> Nat] /\ off' \in [Schedules -> BOOLEAN] /\ lost' \subseteq Schedules
  BY <1>e
<1>q. SameQueue
  <2>1. commands' = commands
    BY DEF Enable, timerVars
  <2> QED BY <2>1, <1>i, Quiet, Zenon
<1>v. now' = now /\ mem' = mem /\ type' = type /\ next' = next /\ callback' = callback /\ handle' = handle /\ stored' = stored /\ timer' = timer /\ frame' = frame /\ dispatching' = dispatching /\ deleted' = deleted
  BY DEF Enable, memVars, timerVars, cbVars
<1>n. \A b \in Actors : b # a /\ op[b].s = s =>
        \/ a = Daemon /\ s = frame.s
        \/ b = Daemon /\ op[b].call = "rearm"
  BY <1>i DEF Enable, MayUse, Working, OpOK
<1>f. (a = Daemon /\ s = frame.s) \/ (op[Daemon].call = "rearm" /\ op[Daemon].s = s)
      => /\ frame.s = s /\ handle[frame.s] = frame.t /\ timer[frame.t].id = frame.s
         /\ op[Daemon].call # "delete"
  BY <1>i, <1>g, <1>m, <1>o, SMT DEF FrameOK, FrameSet
<1>11. TypeOK'
  BY <1>i, <1>w, <1>q, <1>v, Zenon DEF TypeOK, Timers
<1>12. OpOK'
  BY <1>i, <1>g, <1>x, <1>o, <1>k, <1>v, SMT DEF OpOK, OpSet, Timers, Actors, Daemon
<1>13. TimerOK'
  BY <1>i, <1>g, <1>x, <1>o, <1>m, <1>v, SMT DEF TimerOK, Timers, Actors, Daemon
<1>14. HandleOK'
  BY <1>i, <1>g, <1>x, <1>o, <1>m, <1>q, <1>v, SMT DEF HandleOK, Actors, Daemon
<1>15. PublishOK'
  BY <1>i, <1>g, <1>x, <1>o, <1>m, <1>q, <1>v, SMT DEF PublishOK, EndsOn, Actors, Daemon
<1>16. WorkOK'
  BY <1>i, <1>g, <1>x, <1>o, <1>m, <1>v, SMT DEF WorkOK, Actors, Daemon
<1>17. ShareOK'
  BY <1>i, <1>g, <1>x, <1>o, <1>m, <1>v, <1>n, <1>f, SMT DEF ShareOK, Actors, Daemon
<1>18. FrameOK'
  BY <1>i, <1>g, <1>x, <1>o, <1>m, <1>v, SMT DEF FrameOK, FrameSet, Timers, Actors, Daemon
<1>19. QueueOK'
  BY <1>i, <1>g, <1>x, <1>o, <1>m, <1>q, <1>v, SMT DEF QueueOK, Timers, Actors, Daemon
<1>31. InitAlone /\ FrameOwn /\ \A r \in Kept : Good(r)
  BY DEF IInv
<1>32. Around
  BY <1>i, <1>31, Surroundings, Zenon
<1>33. \A t \in Timers : SameTimer(t)
  <2>1. commands' = commands
    BY <1>q
  <2>2. \A t \in Timers : Kin(t)
    BY <1>v DEF Kin
  <2> QED BY <2>1, <2>2, <1>i, TimersSame, Zenon
<1>34. now' \in Nat /\ now <= now' /\ Kept' \subseteq Kept
  BY <1>i, <1>v, <1>x, SMT DEF TypeOK, Kept, Enter
<1>41. 
      /\ \A r \in Schedules : r # s => fires'[r] = fires[r] /\ off'[r] = off[r]
      /\ fires'[s] = 0 /\ ~off'[s]
  <2>0. off \in [Schedules -> BOOLEAN] /\ fires \in [Schedules -> Nat]
    BY <1>i DEF TypeOK
  <2>1. /\ off' = [off EXCEPT ![s] = off[s] /\ "enable" # "enable"]
        /\ fires' = [fires EXCEPT ![s] = IF "enable" = "edit" THEN fires[s] ELSE 0]
    BY <1>x DEF Enter
  <2>2. fires'[s] = 0 /\ ~off'[s] /\ \A r \in Schedules : r # s => fires'[r] = fires[r] /\ off'[r] = off[r]
    BY <2>0, <2>1, Zenon
  <2> QED BY <2>2
<1>35. ASSUME NEW r \in Kept', r # s
      PROVE  Good(r)'
  <2>1. r \in Kept /\ r \in Schedules /\ r # NONE /\ Good(r)
    BY <1>31, <1>32, <1>34
  <2>2. \A b \in Actors : op[b].s = r \/ op'[b].s = r => op'[b] = op[b]
    BY <1>35, <2>1, <1>o, <1>41
  <2>3. SameMemory(r)
    BY <1>35, <2>1, <1>v, <1>41
  <2>4. (OnFrame(r)' <=> OnFrame(r)) /\ (OnFrame(r) => frame' = frame)
    BY <1>v, <1>41 DEF OnFrame
  <2>5. \A t \in Timers : handle[r] = t \/ timer'[t].id = r => SameTimer(t)
    BY <1>33, <1>41
  <2>6. Unmoved(r)
    BY <2>2, <2>3, <2>4, <2>5 DEF Unmoved
  <2> QED BY <1>i, <1>31, <1>34, <2>1, <2>6, Others, Zenon
<1>36. ASSUME s \in Kept'
      PROVE  Good(s)'
  <2>1. Known(s)
    BY <1>32, <1>34, <1>36, <1>i, SMT DEF TypeOK
  <2> USE DEF Good
  <2>2. Good(s)
    BY <1>31, <2>1
  <2>h. PICK h : h = handle[s]
    OBVIOUS
  <2>3. Callback(s, h)
    BY <2>1, <2>h, <1>32, <1>i, SMT DEF Timers, Actors, OpOK
  <2>5. SameRun(h)
    BY <2>3, <1>33, <1>v DEF SameTimer
  <2>6. (OnFrame(s)' <=> OnFrame(s)) /\ frame' = frame
    BY <1>v DEF OnFrame
  <2>7. ~OnFrame(s) /\ ~OnFrame(s)' /\ \A b \in Actors : op[b].s # s /\ (b # a => op'[b].s # s)
    <3>1. ~OnFrame(s)
      BY <2>2 DEF Enable, FrameAlone
    <3>2. ~((a = Daemon /\ s = frame.s) \/ (op[Daemon].call = "rearm" /\ op[Daemon].s = s))
      <4>1. a = Daemon => frame.at = "trigger"
        BY <1>o
      <4> QED BY <3>1, <4>1, <2>3, <1>f DEF OnFrame
    <3>3. \A b \in Actors : op[b].s # s
      BY <3>2, <1>n, <1>o, <2>1
    <3> QED BY <3>1, <3>3, <2>6, <1>o
  <2>8. h # 0 => ~EndsOn(h)
    BY <2>2, <2>h, Zenon DEF OffOK, Enable
  <2>11. EnableOn(s)'
    BY <2>1, <2>2, <2>h, <2>3, <1>v, <1>o, <1>41, <2>7, SMT DEF EnableOn
  <2>12. EditKept(s)'
    BY <2>7, <1>o, SMT DEF EditKept
  <2>13. FrameAlone(s)'
    BY <2>7 DEF FrameAlone
  <2>14. OffOK(s)'
    <3>1. h # 0 => ~EndsOn(h)'
      <4>1. off[s]
        BY DEF Enable
      <4>2. h # 0 => ~EndsOn(h)
        BY <4>1, <2>2, <2>h, Zenon DEF OffOK
      <4> QED BY <4>2, <2>5
    <3>2. op'[a].call = "enable" /\ op'[a].pc = "compute"
      BY <1>o
    <3> QED BY <3>1, <3>2, <2>7, <2>h, <1>v, SMT DEF OffOK
  <2>15. FrameOff(s)'
    BY <2>7 DEF FrameOff
  <2>16. SettledOn(s)'
    BY <2>1, <1>o, SMT DEF SettledOn, Settled
  <2>17. HasTime(s)'
    <3>1. TimeShown(s)'
      BY <2>8, <2>5, <2>h, <1>v
    <3>2. TimeCalled(s)'
      BY <2>7
    <3>3. TimeArmed(s)'
      BY <2>7, <1>o, SMT
    <3> QED BY <3>1, <3>2, <3>3, Zenon DEF HasTime
  <2>18. Alternate(s)'
    BY <2>1, <2>2, <2>h, <2>3, <1>33, <1>v, <1>o, <1>41, <2>7, SMT DEF Alternate, SameTimer
  <2>19. OnceTime(s)'
    BY <2>2, <1>v DEF OnceTime
  <2>20. NoCallback(s)'
    BY <2>2, <2>7, <1>v, <1>o, SMT DEF NoCallback
  <2>21. StoredOK(s)'
    BY <1>o DEF StoredOK
  <2>22. FiredOK(s)'
    BY <1>41, SMT DEF FiredOK
  <2> QED BY <2>11, <2>12, <2>13, <2>14, <2>15, <2>16, <2>17, <2>18, <2>19, <2>20, <2>21, <2>22, Zenon
<1>37. \A r \in Kept' : Good(r)'
  BY <1>35, <1>36
<1>21. InitAlone'
  <2>1. \A b \in Tasks : op[b].call # "init"
    BY <1>x DEF Enter, MayCall
  <2>2. \A b \in Tasks : op'[b].call # "init"
    BY <2>1, <1>o, SMT DEF Actors
  <2> QED BY <2>2 DEF InitAlone
<1>22. FrameOwn'
  BY <1>31, <1>v, <1>41 DEF FrameOwn
<1> QED
  BY <1>q, <1>11, <1>12, <1>13, <1>14, <1>15, <1>16, <1>17, <1>18, <1>19, <1>21, <1>22, <1>37 DEF IInv, Part1

LEMMA DisableKeeps ==
  ASSUME ConstantsOK, ~Preempted, IInv,
         NEW a \in Actors, NEW s \in Schedules, Disable(a, s)
  PROVE  IInv'
<1>i. Parts
  BY DEF IInv, Part1
<1>g. Plain
  BY <1>i, Basics, Zenon
<1>x. PICK x \in {"stop"} : Enter(a, "disable", s, x) /\ (x = "stop_first" => handle[s] # 0) /\ (x = "erase" => handle[s] = 0)
  BY DEF Disable
<1>e. /\ op[a].pc = "idle" /\ (a = Daemon => frame.at = "trigger")
      /\ op'[a].pc = x /\ op'[a].call = "disable" /\ op'[a].s = s /\ op'[a].arg = 0
      /\ \A b \in Actors : b # a => op'[b] = op[b]
      /\ op' \in [Actors -> OpSet]
      /\ fires' \in [Schedules -> Nat]
      /\ off' \in [Schedules -> BOOLEAN]
      /\ lost' \subseteq Schedules
  <2>1. "disable" \in Kinds /\ x \in Pcs
    BY DEF Kinds, Pcs
  <2>2. OpOK /\ TypeOK
    BY <1>i
  <2> QED BY ONLY <2>1, <2>2, <1>x, a \in Actors, s \in Schedules, ConstantsOK, Entered, Zenon
<1>o. /\ op[a].pc = "idle" /\ (a = Daemon => frame.at = "trigger") /\ op[a].s = NONE /\ op[a] = Idle
      /\ op'[a].pc = x /\ op'[a].call = "disable" /\ op'[a].s = s /\ op'[a].arg = 0
      /\ \A b \in Actors : b # a => op'[b] = op[b]
  BY <1>e, <1>i, <1>g DEF OpOK
<1>k. op' \in [Actors -> OpSet] /\ PcOK("disable", "stop")
  BY <1>e, SMT DEF PcOK
<1>m. mem[s] = "live" /\ (s = frame.s => ~deleted)
  BY DEF Disable, MayUse, MayDelete
<1>w. fires' \in [Schedules -> Nat] /\ off' \in [Schedules -> BOOLEAN] /\ lost' \subseteq Schedules
  BY <1>e
<1>q. SameQueue
  <2>1. commands' = commands
    BY DEF Disable, timerVars
  <2> QED BY <2>1, <1>i, Quiet, Zenon
<1>v. now' = now /\ mem' = mem /\ type' = type /\ next' = next /\ callback' = callback /\ handle' = handle /\ stored' = stored /\ timer' = timer /\ frame' = frame /\ dispatching' = dispatching /\ deleted' = deleted
  BY DEF Disable, memVars, timerVars, cbVars
<1>n. \A b \in Actors : b # a /\ op[b].s = s =>
        \/ a = Daemon /\ s = frame.s
        \/ b = Daemon /\ op[b].call = "rearm"
  BY <1>i DEF Disable, MayUse, Working, OpOK
<1>f. (a = Daemon /\ s = frame.s) \/ (op[Daemon].call = "rearm" /\ op[Daemon].s = s)
      => /\ frame.s = s /\ handle[frame.s] = frame.t /\ timer[frame.t].id = frame.s
         /\ op[Daemon].call # "delete"
  BY <1>i, <1>g, <1>m, <1>o, SMT DEF FrameOK, FrameSet
<1>11. TypeOK'
  BY <1>i, <1>w, <1>q, <1>v, Zenon DEF TypeOK, Timers
<1>12. OpOK'
  BY <1>i, <1>g, <1>x, <1>o, <1>k, <1>v, SMT DEF OpOK, OpSet, Timers, Actors, Daemon
<1>13. TimerOK'
  BY <1>i, <1>g, <1>x, <1>o, <1>m, <1>v, SMT DEF TimerOK, Timers, Actors, Daemon
<1>14. HandleOK'
  BY <1>i, <1>g, <1>x, <1>o, <1>m, <1>q, <1>v, SMT DEF HandleOK, Actors, Daemon
<1>15. PublishOK'
  BY <1>i, <1>g, <1>x, <1>o, <1>m, <1>q, <1>v, SMT DEF PublishOK, EndsOn, Actors, Daemon
<1>16. WorkOK'
  BY <1>i, <1>g, <1>x, <1>o, <1>m, <1>v, SMT DEF WorkOK, Actors, Daemon
<1>17. ShareOK'
  BY <1>i, <1>g, <1>x, <1>o, <1>m, <1>v, <1>n, <1>f, SMT DEF ShareOK, Actors, Daemon
<1>18. FrameOK'
  BY <1>i, <1>g, <1>x, <1>o, <1>m, <1>v, SMT DEF FrameOK, FrameSet, Timers, Actors, Daemon
<1>19. QueueOK'
  BY <1>i, <1>g, <1>x, <1>o, <1>m, <1>q, <1>v, SMT DEF QueueOK, Timers, Actors, Daemon
<1>31. InitAlone /\ FrameOwn /\ \A r \in Kept : Good(r)
  BY DEF IInv
<1>32. Around
  BY <1>i, <1>31, Surroundings, Zenon
<1>33. \A t \in Timers : SameTimer(t)
  <2>1. commands' = commands
    BY <1>q
  <2>2. \A t \in Timers : Kin(t)
    BY <1>v DEF Kin
  <2> QED BY <2>1, <2>2, <1>i, TimersSame, Zenon
<1>34. now' \in Nat /\ now <= now' /\ Kept' \subseteq Kept
  BY <1>i, <1>v, <1>x, SMT DEF TypeOK, Kept, Enter
<1>41. 
      /\ \A r \in Schedules : r # s => fires'[r] = fires[r] /\ off'[r] = off[r]
      /\ fires'[s] = 0 /\ off'[s] = off[s]
      /\ (s \notin lost' => frame.at = "idle" \/ timer[frame.t].id # s)
  <2>0. off \in [Schedules -> BOOLEAN] /\ fires \in [Schedules -> Nat]
    BY <1>i DEF TypeOK
  <2>1. /\ off' = [off EXCEPT ![s] = off[s] /\ "disable" # "enable"]
        /\ fires' = [fires EXCEPT ![s] = IF "disable" = "edit" THEN fires[s] ELSE 0]
    BY <1>x DEF Enter
  <2>2. fires'[s] = 0 /\ off'[s] = off[s] /\ \A r \in Schedules : r # s => fires'[r] = fires[r] /\ off'[r] = off[r]
    BY <2>0, <2>1
  <2>3. s \notin lost' => frame.at = "idle" \/ timer[frame.t].id # s
    BY <1>x, <1>g DEF Enter
  <2> QED BY <2>2, <2>3
<1>35. ASSUME NEW r \in Kept', r # s
      PROVE  Good(r)'
  <2>1. r \in Kept /\ r \in Schedules /\ r # NONE /\ Good(r)
    BY <1>31, <1>32, <1>34
  <2>2. \A b \in Actors : op[b].s = r \/ op'[b].s = r => op'[b] = op[b]
    BY <1>35, <2>1, <1>o, <1>41
  <2>3. SameMemory(r)
    BY <1>35, <2>1, <1>v, <1>41
  <2>4. (OnFrame(r)' <=> OnFrame(r)) /\ (OnFrame(r) => frame' = frame)
    BY <1>v, <1>41 DEF OnFrame
  <2>5. \A t \in Timers : handle[r] = t \/ timer'[t].id = r => SameTimer(t)
    BY <1>33, <1>41
  <2>6. Unmoved(r)
    BY <2>2, <2>3, <2>4, <2>5 DEF Unmoved
  <2> QED BY <1>i, <1>31, <1>34, <2>1, <2>6, Others, Zenon
<1>36. ASSUME s \in Kept'
      PROVE  Good(s)'
  <2>1. Known(s)
    BY <1>32, <1>34, <1>36, <1>i, SMT DEF TypeOK
  <2> USE DEF Good
  <2>2. Good(s)
    BY <1>31, <2>1
  <2>h. PICK h : h = handle[s]
    OBVIOUS
  <2>3. Callback(s, h)
    BY <2>1, <2>h, <1>32, <1>i, SMT DEF Timers, Actors, OpOK
  <2>5. SameRun(h)
    BY <2>3, <1>33, <1>v DEF SameTimer
  <2>6. (OnFrame(s)' <=> OnFrame(s)) /\ frame' = frame
    BY <1>v DEF OnFrame
  <2>7. ~OnFrame(s) /\ ~OnFrame(s)' /\ \A b \in Actors : op[b].s # s /\ (b # a => op'[b].s # s)
    <3>1. ~OnFrame(s)
      BY <1>36, <1>41 DEF Kept, OnFrame
    <3>2. ~((a = Daemon /\ s = frame.s) \/ (op[Daemon].call = "rearm" /\ op[Daemon].s = s))
      <4>1. a = Daemon => frame.at = "trigger"
        BY <1>o
      <4> QED BY <3>1, <4>1, <2>3, <1>f DEF OnFrame
    <3>3. \A b \in Actors : op[b].s # s
      BY <3>2, <1>n, <1>o, <2>1
    <3> QED BY <3>1, <3>3, <2>6, <1>o
  <2>8. HasNext(s) => HasNext(s)'
    BY <2>7, <1>v DEF HasNext
  <2>11. EnableOn(s)'
    BY <2>7, <1>o, SMT DEF EnableOn
  <2>12. EditKept(s)'
    BY <2>7, <1>o, SMT DEF EditKept
  <2>13. FrameAlone(s)'
    BY <2>7 DEF FrameAlone
  <2>14. OffOK(s)'
    <3>1. h # 0 /\ off'[s] => ~EndsOn(h)'
      <4>1. h # 0 /\ off[s] => ~EndsOn(h)
        BY <2>2, <2>h, Zenon DEF OffOK
      <4> QED BY <4>1, <2>5, <1>41
    <3>2. op'[a].call = "disable" /\ op'[a].pc = "stop"
      BY <1>o
    <3> QED BY <3>1, <3>2, <2>7, <2>h, <1>v, SMT DEF OffOK
  <2>15. FrameOff(s)'
    BY <2>7 DEF FrameOff
  <2>16. SettledOn(s)'
    BY <2>1, <1>o, SMT DEF SettledOn, Settled
  <2>17. HasTime(s)'
    <3>1. TimeShown(s)'
      BY <2>2, <2>h, <2>5, <2>8, <1>v DEF HasTime
    <3>2. TimeCalled(s)'
      BY <2>7
    <3>3. TimeArmed(s)'
      BY <2>7, <1>o, SMT
    <3> QED BY <3>1, <3>2, <3>3, Zenon DEF HasTime
  <2>18. Alternate(s)'
    BY <2>1, <2>2, <2>h, <2>3, <1>33, <1>v, <1>o, <1>41, <2>7, SMT DEF Alternate, SameTimer
  <2>19. OnceTime(s)'
    BY <2>2, <1>v DEF OnceTime
  <2>20. NoCallback(s)'
    BY <2>2, <2>7, <1>v, <1>o, SMT DEF NoCallback
  <2>21. StoredOK(s)'
    BY <2>2, <2>7, <1>41, <1>v DEF StoredOK
  <2>22. FiredOK(s)'
    BY <1>41, SMT DEF FiredOK
  <2> QED BY <2>11, <2>12, <2>13, <2>14, <2>15, <2>16, <2>17, <2>18, <2>19, <2>20, <2>21, <2>22, Zenon
<1>37. \A r \in Kept' : Good(r)'
  BY <1>35, <1>36
<1>21. InitAlone'
  <2>1. \A b \in Tasks : op[b].call # "init"
    BY <1>x DEF Enter, MayCall
  <2>2. \A b \in Tasks : op'[b].call # "init"
    BY <2>1, <1>o, SMT DEF Actors
  <2> QED BY <2>2 DEF InitAlone
<1>22. FrameOwn'
  BY <1>31, <1>v, <1>41 DEF FrameOwn
<1> QED
  BY <1>q, <1>11, <1>12, <1>13, <1>14, <1>15, <1>16, <1>17, <1>18, <1>19, <1>21, <1>22, <1>37 DEF IInv, Part1

LEMMA EditGetKeeps ==
  ASSUME ConstantsOK, ~Preempted, IInv,
         NEW a \in Actors, NEW s \in Schedules, EditGet(a, s)
  PROVE  IInv'
<1>i. Parts
  BY DEF IInv, Part1
<1>g. Plain
  BY <1>i, Basics, Zenon
<1>x. PICK x \in {"reset"} : Enter(a, "edit", s, x) /\ (x = "stop_first" => handle[s] # 0) /\ (x = "erase" => handle[s] = 0)
  BY DEF EditGet
<1>e. /\ op[a].pc = "idle" /\ (a = Daemon => frame.at = "trigger")
      /\ op'[a].pc = x /\ op'[a].call = "edit" /\ op'[a].s = s /\ op'[a].arg = 0
      /\ \A b \in Actors : b # a => op'[b] = op[b]
      /\ op' \in [Actors -> OpSet]
      /\ fires' \in [Schedules -> Nat]
      /\ off' \in [Schedules -> BOOLEAN]
      /\ lost' \subseteq Schedules
  <2>1. "edit" \in Kinds /\ x \in Pcs
    BY DEF Kinds, Pcs
  <2>2. OpOK /\ TypeOK
    BY <1>i
  <2> QED BY ONLY <2>1, <2>2, <1>x, a \in Actors, s \in Schedules, ConstantsOK, Entered, Zenon
<1>o. /\ op[a].pc = "idle" /\ (a = Daemon => frame.at = "trigger") /\ op[a].s = NONE /\ op[a] = Idle
      /\ op'[a].pc = x /\ op'[a].call = "edit" /\ op'[a].s = s /\ op'[a].arg = 0
      /\ \A b \in Actors : b # a => op'[b] = op[b]
  BY <1>e, <1>i, <1>g DEF OpOK
<1>k. op' \in [Actors -> OpSet] /\ PcOK("edit", "reset")
  BY <1>e, SMT DEF PcOK
<1>m. mem[s] = "live" /\ (s = frame.s => ~deleted)
  BY DEF EditGet, MayUse, MayDelete
<1>w. fires' \in [Schedules -> Nat] /\ off' \in [Schedules -> BOOLEAN] /\ lost' \subseteq Schedules
  BY <1>e
<1>q. SameQueue
  <2>1. commands' = commands
    BY DEF EditGet, timerVars
  <2> QED BY <2>1, <1>i, Quiet, Zenon
<1>v. now' = now /\ mem' = mem /\ type' = type /\ next' = next /\ callback' = callback /\ handle' = handle /\ stored' = stored /\ timer' = timer /\ frame' = frame /\ dispatching' = dispatching /\ deleted' = deleted
  BY DEF EditGet, memVars, timerVars, cbVars
<1>n. \A b \in Actors : b # a /\ op[b].s = s =>
        \/ a = Daemon /\ s = frame.s
        \/ b = Daemon /\ op[b].call = "rearm"
  BY <1>i DEF EditGet, MayUse, Working, OpOK
<1>f. (a = Daemon /\ s = frame.s) \/ (op[Daemon].call = "rearm" /\ op[Daemon].s = s)
      => /\ frame.s = s /\ handle[frame.s] = frame.t /\ timer[frame.t].id = frame.s
         /\ op[Daemon].call # "delete"
  BY <1>i, <1>g, <1>m, <1>o, SMT DEF FrameOK, FrameSet
<1>11. TypeOK'
  BY <1>i, <1>w, <1>q, <1>v, Zenon DEF TypeOK, Timers
<1>12. OpOK'
  BY <1>i, <1>g, <1>x, <1>o, <1>k, <1>v, SMT DEF OpOK, OpSet, Timers, Actors, Daemon
<1>13. TimerOK'
  BY <1>i, <1>g, <1>x, <1>o, <1>m, <1>v, SMT DEF TimerOK, Timers, Actors, Daemon
<1>14. HandleOK'
  BY <1>i, <1>g, <1>x, <1>o, <1>m, <1>q, <1>v, SMT DEF HandleOK, Actors, Daemon
<1>15. PublishOK'
  BY <1>i, <1>g, <1>x, <1>o, <1>m, <1>q, <1>v, SMT DEF PublishOK, EndsOn, Actors, Daemon
<1>16. WorkOK'
  BY <1>i, <1>g, <1>x, <1>o, <1>m, <1>v, SMT DEF WorkOK, Actors, Daemon
<1>17. ShareOK'
  BY <1>i, <1>g, <1>x, <1>o, <1>m, <1>v, <1>n, <1>f, SMT DEF ShareOK, Actors, Daemon
<1>18. FrameOK'
  BY <1>i, <1>g, <1>x, <1>o, <1>m, <1>v, SMT DEF FrameOK, FrameSet, Timers, Actors, Daemon
<1>19. QueueOK'
  BY <1>i, <1>g, <1>x, <1>o, <1>m, <1>q, <1>v, SMT DEF QueueOK, Timers, Actors, Daemon
<1>31. InitAlone /\ FrameOwn /\ \A r \in Kept : Good(r)
  BY DEF IInv
<1>32. Around
  BY <1>i, <1>31, Surroundings, Zenon
<1>33. \A t \in Timers : SameTimer(t)
  <2>1. commands' = commands
    BY <1>q
  <2>2. \A t \in Timers : Kin(t)
    BY <1>v DEF Kin
  <2> QED BY <2>1, <2>2, <1>i, TimersSame, Zenon
<1>34. now' \in Nat /\ now <= now' /\ Kept' \subseteq Kept
  BY <1>i, <1>v, <1>x, SMT DEF TypeOK, Kept, Enter
<1>41. 
      /\ \A r \in Schedules : r # s => fires'[r] = fires[r] /\ off'[r] = off[r]
      /\ fires'[s] = fires[s] /\ off'[s] = off[s]
      /\ (s \notin lost' => frame.at = "idle" \/ timer[frame.t].id # s)
  <2>0. off \in [Schedules -> BOOLEAN] /\ fires \in [Schedules -> Nat]
    BY <1>i DEF TypeOK
  <2>1. /\ off' = [off EXCEPT ![s] = off[s] /\ "edit" # "enable"]
        /\ fires' = [fires EXCEPT ![s] = IF "edit" = "edit" THEN fires[s] ELSE 0]
    BY <1>x DEF Enter
  <2>2. fires'[s] = fires[s] /\ off'[s] = off[s] /\ \A r \in Schedules : r # s => fires'[r] = fires[r] /\ off'[r] = off[r]
    BY <2>0, <2>1
  <2>3. s \notin lost' => frame.at = "idle" \/ timer[frame.t].id # s
    BY <1>x, <1>g DEF Enter
  <2> QED BY <2>2, <2>3
<1>35. ASSUME NEW r \in Kept', r # s
      PROVE  Good(r)'
  <2>1. r \in Kept /\ r \in Schedules /\ r # NONE /\ Good(r)
    BY <1>31, <1>32, <1>34
  <2>2. \A b \in Actors : op[b].s = r \/ op'[b].s = r => op'[b] = op[b]
    BY <1>35, <2>1, <1>o, <1>41
  <2>3. SameMemory(r)
    BY <1>35, <2>1, <1>v, <1>41
  <2>4. (OnFrame(r)' <=> OnFrame(r)) /\ (OnFrame(r) => frame' = frame)
    BY <1>v, <1>41 DEF OnFrame
  <2>5. \A t \in Timers : handle[r] = t \/ timer'[t].id = r => SameTimer(t)
    BY <1>33, <1>41
  <2>6. Unmoved(r)
    BY <2>2, <2>3, <2>4, <2>5 DEF Unmoved
  <2> QED BY <1>i, <1>31, <1>34, <2>1, <2>6, Others, Zenon
<1>36. ASSUME s \in Kept'
      PROVE  Good(s)'
  <2>1. Known(s)
    BY <1>32, <1>34, <1>36, <1>i, SMT DEF TypeOK
  <2> USE DEF Good
  <2>2. Good(s)
    BY <1>31, <2>1
  <2>h. PICK h : h = handle[s]
    OBVIOUS
  <2>3. Callback(s, h)
    BY <2>1, <2>h, <1>32, <1>i, SMT DEF Timers, Actors, OpOK
  <2>5. SameRun(h)
    BY <2>3, <1>33, <1>v DEF SameTimer
  <2>6. (OnFrame(s)' <=> OnFrame(s)) /\ frame' = frame
    BY <1>v DEF OnFrame
  <2>7. ~OnFrame(s) /\ ~OnFrame(s)' /\ \A b \in Actors : op[b].s # s /\ (b # a => op'[b].s # s)
    <3>1. ~OnFrame(s)
      BY <1>36, <1>41 DEF Kept, OnFrame
    <3>2. ~((a = Daemon /\ s = frame.s) \/ (op[Daemon].call = "rearm" /\ op[Daemon].s = s))
      <4>1. a = Daemon => frame.at = "trigger"
        BY <1>o
      <4> QED BY <3>1, <4>1, <2>3, <1>f DEF OnFrame
    <3>3. \A b \in Actors : op[b].s # s
      BY <3>2, <1>n, <1>o, <2>1
    <3> QED BY <3>1, <3>3, <2>6, <1>o
  <2>8. HasNext(s) <=> HasNext(s)'
    BY <2>7, <1>v, <1>o, SMT DEF HasNext
  <2>11. EnableOn(s)'
    BY <2>7, <1>o, SMT DEF EnableOn
  <2>12. EditKept(s)'
    BY <2>7, <1>o, SMT DEF EditKept
  <2>13. FrameAlone(s)'
    BY <2>7 DEF FrameAlone
  <2>14. OffOK(s)'
    <3>1. h # 0 /\ off'[s] => ~EndsOn(h)'
      <4>1. h # 0 /\ off[s] => ~EndsOn(h)
        BY <2>2, <2>h, Zenon DEF OffOK
      <4> QED BY <4>1, <2>5, <1>41
    <3>2. op'[a].call = "edit" /\ op'[a].pc = "reset"
      BY <1>o
    <3> QED BY <3>1, <3>2, <2>7, <2>h, <1>v, SMT DEF OffOK
  <2>15. FrameOff(s)'
    BY <2>7 DEF FrameOff
  <2>16. SettledOn(s)'
    <3>1. Settled(s)' => Settled(s)
      BY <2>7, <2>8 DEF Settled
    <3> QED BY <3>1, <2>2, <2>5, <2>7, <2>h, <1>v DEF SettledOn
  <2>17. HasTime(s)'
    <3>1. TimeShown(s)'
      BY <2>2, <2>h, <2>5, <2>8, <1>v DEF HasTime
    <3>2. TimeCalled(s)'
      BY <2>7
    <3>3. TimeArmed(s)'
      BY <2>7, <1>o, SMT
    <3> QED BY <3>1, <3>2, <3>3, Zenon DEF HasTime
  <2>18. Alternate(s)'
    BY <2>1, <2>2, <2>h, <2>3, <1>33, <1>v, <1>o, <1>41, <2>7, SMT DEF Alternate, SameTimer
  <2>19. OnceTime(s)'
    BY <2>2, <1>v DEF OnceTime
  <2>20. NoCallback(s)'
    <3>1. ~callback[s]
      BY DEF EditGet
    <3> QED BY <3>1, <1>v DEF NoCallback
  <2>21. StoredOK(s)'
    <3>1. ~callback[s]
      BY DEF EditGet
    <3> QED BY <3>1, <1>v DEF StoredOK
  <2>22. FiredOK(s)'
    <3>1. ~callback[s] /\ \A b \in Tasks : op[b].s # s
      BY <2>7 DEF EditGet, Actors
    <3>2. ~(type[s] \in OneShot /\ ~off[s] /\ fires[s] > 0)
      BY <3>1, <2>2, <1>m DEF FiredOK
    <3> QED BY <3>2, <1>41, <1>v, SMT DEF FiredOK, OneShot
  <2> QED BY <2>11, <2>12, <2>13, <2>14, <2>15, <2>16, <2>17, <2>18, <2>19, <2>20, <2>21, <2>22, Zenon
<1>37. \A r \in Kept' : Good(r)'
  BY <1>35, <1>36
<1>21. InitAlone'
  <2>1. \A b \in Tasks : op[b].call # "init"
    BY <1>x DEF Enter, MayCall
  <2>2. \A b \in Tasks : op'[b].call # "init"
    BY <2>1, <1>o, SMT DEF Actors
  <2> QED BY <2>2 DEF InitAlone
<1>22. FrameOwn'
  BY <1>31, <1>v, <1>41 DEF FrameOwn
<1> QED
  BY <1>q, <1>11, <1>12, <1>13, <1>14, <1>15, <1>16, <1>17, <1>18, <1>19, <1>21, <1>22, <1>37 DEF IInv, Part1

LEMMA DeleteKeeps ==
  ASSUME ConstantsOK, ~Preempted, IInv,
         NEW a \in Actors, NEW s \in Schedules, Delete(a, s)
  PROVE  IInv'
<1>i. Parts
  BY DEF IInv, Part1
<1>g. Plain
  BY <1>i, Basics, Zenon
<1>x. PICK x \in {"stop_first", "erase"} : Enter(a, "delete", s, x) /\ (x = "stop_first" => handle[s] # 0) /\ (x = "erase" => handle[s] = 0)
  BY DEF Delete
<1>e. /\ op[a].pc = "idle" /\ (a = Daemon => frame.at = "trigger")
      /\ op'[a].pc = x /\ op'[a].call = "delete" /\ op'[a].s = s /\ op'[a].arg = 0
      /\ \A b \in Actors : b # a => op'[b] = op[b]
      /\ op' \in [Actors -> OpSet]
      /\ fires' \in [Schedules -> Nat]
      /\ off' \in [Schedules -> BOOLEAN]
      /\ lost' \subseteq Schedules
  <2>1. "delete" \in Kinds /\ x \in Pcs
    BY DEF Kinds, Pcs
  <2>2. OpOK /\ TypeOK
    BY <1>i
  <2> QED BY ONLY <2>1, <2>2, <1>x, a \in Actors, s \in Schedules, ConstantsOK, Entered, Zenon
<1>o. /\ op[a].pc = "idle" /\ (a = Daemon => frame.at = "trigger") /\ op[a].s = NONE /\ op[a] = Idle
      /\ op'[a].pc = x /\ op'[a].call = "delete" /\ op'[a].s = s /\ op'[a].arg = 0
      /\ \A b \in Actors : b # a => op'[b] = op[b]
  BY <1>e, <1>i, <1>g DEF OpOK
<1>k. op' \in [Actors -> OpSet] /\ PcOK("delete", "stop_first") /\ PcOK("delete", "erase")
  BY <1>e, SMT DEF PcOK
<1>m. mem[s] = "live" /\ (s = frame.s => ~deleted)
  BY DEF Delete, MayUse, MayDelete
<1>w. fires' \in [Schedules -> Nat] /\ off' \in [Schedules -> BOOLEAN] /\ lost' \subseteq Schedules
  BY <1>e
<1>q. SameQueue
  <2>1. commands' = commands
    BY DEF Delete, timerVars
  <2> QED BY <2>1, <1>i, Quiet, Zenon
<1>v. now' = now /\ mem' = mem /\ type' = type /\ next' = next /\ callback' = callback /\ handle' = handle /\ stored' = stored /\ timer' = timer /\ frame' = frame /\ dispatching' = dispatching /\ deleted' = deleted
  BY DEF Delete, memVars, timerVars, cbVars
<1>n. \A b \in Actors : op[b].s # s
  BY <1>i DEF Delete, MayDelete, Working
<1>c. handle[s] # 0 => timer[handle[s]].id = s
  BY <1>n, <1>i, SMT DEF HandleOK
<1>11. TypeOK'
  BY <1>i, <1>w, <1>q, <1>v, Zenon DEF TypeOK, Timers
<1>12. OpOK'
  BY <1>i, <1>g, <1>x, <1>o, <1>k, <1>v, SMT DEF OpOK, OpSet, Timers, Actors, Daemon
<1>13. TimerOK'
  BY <1>i, <1>g, <1>x, <1>o, <1>m, <1>v, <1>n, SMT DEF TimerOK, Timers, Actors, Daemon
<1>14. HandleOK'
  BY <1>i, <1>g, <1>x, <1>o, <1>m, <1>q, <1>v, <1>n, SMT DEF HandleOK, Actors, Daemon
<1>15. PublishOK'
  BY <1>i, <1>g, <1>x, <1>o, <1>m, <1>q, <1>v, <1>n, SMT DEF PublishOK, EndsOn, Actors, Daemon
<1>16. WorkOK'
  BY <1>i, <1>g, <1>x, <1>o, <1>m, <1>v, <1>n, <1>c, SMT DEF WorkOK, Actors, Daemon
<1>17. ShareOK'
  BY <1>i, <1>g, <1>x, <1>o, <1>m, <1>v, <1>n, SMT DEF ShareOK, Actors, Daemon
<1>18. FrameOK'
  BY <1>i, <1>g, <1>x, <1>o, <1>m, <1>v, <1>n, SMT DEF FrameOK, FrameSet, Timers, Actors, Daemon
<1>19. QueueOK'
  BY <1>i, <1>g, <1>x, <1>o, <1>m, <1>q, <1>v, <1>n, SMT DEF QueueOK, Timers, Actors, Daemon
<1>31. InitAlone /\ FrameOwn /\ \A r \in Kept : Good(r)
  BY DEF IInv
<1>32. Around
  BY <1>i, <1>31, Surroundings, Zenon
<1>33. \A t \in Timers : SameTimer(t)
  <2>1. commands' = commands
    BY <1>q
  <2>2. \A t \in Timers : Kin(t)
    BY <1>v DEF Kin
  <2> QED BY <2>1, <2>2, <1>i, TimersSame, Zenon
<1>34. now' \in Nat /\ now <= now' /\ Kept' \subseteq Kept
  BY <1>i, <1>v, <1>x, SMT DEF TypeOK, Kept, Enter
<1>41. 
      /\ \A r \in Schedules : r # s => fires'[r] = fires[r] /\ off'[r] = off[r]
      /\ fires'[s] = 0 /\ off'[s] = off[s]
  <2>0. off \in [Schedules -> BOOLEAN] /\ fires \in [Schedules -> Nat]
    BY <1>i DEF TypeOK
  <2>1. /\ off' = [off EXCEPT ![s] = off[s] /\ "delete" # "enable"]
        /\ fires' = [fires EXCEPT ![s] = IF "delete" = "edit" THEN fires[s] ELSE 0]
    BY <1>x DEF Enter
  <2>2. fires'[s] = 0 /\ off'[s] = off[s] /\ \A r \in Schedules : r # s => fires'[r] = fires[r] /\ off'[r] = off[r]
    BY <2>0, <2>1
  <2> QED BY <2>2
<1>35. ASSUME NEW r \in Kept', r # s
      PROVE  Good(r)'
  <2>1. r \in Kept /\ r \in Schedules /\ r # NONE /\ Good(r)
    BY <1>31, <1>32, <1>34
  <2>2. \A b \in Actors : op[b].s = r \/ op'[b].s = r => op'[b] = op[b]
    BY <1>35, <2>1, <1>o, <1>41
  <2>3. SameMemory(r)
    BY <1>35, <2>1, <1>v, <1>41
  <2>4. (OnFrame(r)' <=> OnFrame(r)) /\ (OnFrame(r) => frame' = frame)
    BY <1>v, <1>41 DEF OnFrame
  <2>5. \A t \in Timers : handle[r] = t \/ timer'[t].id = r => SameTimer(t)
    BY <1>33, <1>41
  <2>6. Unmoved(r)
    BY <2>2, <2>3, <2>4, <2>5 DEF Unmoved
  <2> QED BY <1>i, <1>31, <1>34, <2>1, <2>6, Others, Zenon
<1>36. ASSUME s \in Kept'
      PROVE  Good(s)'
  <2>1. Known(s)
    BY <1>32, <1>34, <1>36, <1>i, SMT DEF TypeOK
  <2> USE DEF Good
  <2>2. Good(s)
    BY <1>31, <2>1
  <2>h. PICK h : h = handle[s]
    OBVIOUS
  <2>3. Callback(s, h)
    BY <2>1, <2>h, <1>32, <1>i, SMT DEF Timers, Actors, OpOK
  <2>5. SameRun(h)
    BY <2>3, <1>33, <1>v DEF SameTimer
  <2>6. (OnFrame(s)' <=> OnFrame(s)) /\ frame' = frame
    BY <1>v DEF OnFrame
  <2>7. (OnFrame(s) => frame.at # "rearm") /\ \A b \in Actors : op[b].s # s /\ (b # a => op'[b].s # s)
    BY <2>3, <1>n, <1>o
  <2>8. HasNext(s) => HasNext(s)'
    BY <2>7, <1>v DEF HasNext
  <2>11. EnableOn(s)'
    BY <2>7, <1>o, SMT DEF EnableOn
  <2>12. EditKept(s)'
    BY <2>7, <1>o, SMT DEF EditKept
  <2>13. FrameAlone(s)'
    BY <2>2, <2>6, <2>7, <1>o, <1>41, SMT DEF FrameAlone
  <2>14. OffOK(s)'
    <3>1. h # 0 /\ off'[s] => ~EndsOn(h)'
      <4>1. h # 0 /\ off[s] => ~EndsOn(h)
        BY <2>2, <2>h, Zenon DEF OffOK
      <4> QED BY <4>1, <2>5, <1>41
    <3>2. op'[a].call = "delete" /\ op'[a].pc \in {"stop_first", "erase"}
      BY <1>o, <1>x
    <3> QED BY <3>1, <3>2, <2>7, <2>h, <1>v, SMT DEF OffOK
  <2>15. FrameOff(s)'
    BY <2>2, <2>3, <2>5, <2>6, <2>7, <2>h DEF FrameOff
  <2>16. SettledOn(s)'
    BY <2>1, <1>o, SMT DEF SettledOn, Settled
  <2>17. HasTime(s)'
    <3>1. TimeShown(s)'
      BY <2>2, <2>h, <2>5, <2>8, <1>v DEF HasTime
    <3>2. TimeCalled(s)'
      BY <2>2, <2>3, <2>6, <2>7, <1>v DEF HasTime
    <3>3. TimeArmed(s)'
      BY <2>7, <1>o, SMT
    <3> QED BY <3>1, <3>2, <3>3, Zenon DEF HasTime
  <2>18. Alternate(s)'
    BY <2>1, <2>2, <2>h, <2>3, <1>33, <1>v, <1>o, <1>41, <2>7, SMT DEF Alternate, SameTimer
  <2>19. OnceTime(s)'
    BY <2>2, <1>v DEF OnceTime
  <2>20. NoCallback(s)'
    BY <2>2, <2>7, <1>v, <1>o, SMT DEF NoCallback
  <2>21. StoredOK(s)'
    BY <2>2, <2>7, <1>41, <1>v DEF StoredOK
  <2>22. FiredOK(s)'
    BY <1>41, SMT DEF FiredOK
  <2> QED BY <2>11, <2>12, <2>13, <2>14, <2>15, <2>16, <2>17, <2>18, <2>19, <2>20, <2>21, <2>22, Zenon
<1>37. \A r \in Kept' : Good(r)'
  BY <1>35, <1>36
<1>21. InitAlone'
  <2>1. \A b \in Tasks : op[b].call # "init"
    BY <1>x DEF Enter, MayCall
  <2>2. \A b \in Tasks : op'[b].call # "init"
    BY <2>1, <1>o, SMT DEF Actors
  <2> QED BY <2>2 DEF InitAlone
<1>22. FrameOwn'
  BY <1>31, <1>v, <1>41 DEF FrameOwn
<1> QED
  BY <1>q, <1>11, <1>12, <1>13, <1>14, <1>15, <1>16, <1>17, <1>18, <1>19, <1>21, <1>22, <1>37 DEF IInv, Part1

LEMMA ExpireKeeps ==
  ASSUME ConstantsOK, ~Preempted, IInv,
         NEW u \in Timers, Expire(u)
  PROVE  IInv'
<1>i. Parts
  BY DEF IInv, Part1
<1>g. Plain
  BY <1>i, Basics, Zenon
<1>p. /\ frame = NoFrame /\ frame.at = "idle" /\ frame.s = NONE /\ frame.t = 0
      /\ op[Daemon] = Idle /\ dispatching = NONE /\ ~deleted
      /\ timer[u].state = "active" /\ timer[u].left = 0
  BY <1>g, <1>i, SMT DEF Expire, FrameOK
<1>n. \A b \in Actors : op[b].pc = "publish" => b # Daemon /\ op[b].arg # u
  BY <1>g, <1>i, <1>p, SMT DEF PublishOK
<1>q. SameQueue
  <2>1. commands' = commands
    BY DEF Expire
  <2> QED BY <2>1, <1>i, Quiet, Zenon
<1>v. now' = now /\ mem' = mem /\ type' = type /\ next' = next /\ callback' = callback /\ handle' = handle /\ stored' = stored /\ op' = op /\ dispatching' = dispatching /\ deleted' = deleted /\ fires' = fires /\ off' = off
  BY DEF Expire, memVars
<1>w. /\ timer'[u].state = "dormant" /\ timer'[u].left = timer[u].left
      /\ timer'[u].id = timer[u].id /\ timer'[u].priv = timer[u].priv
      /\ \A t \in Timers : t # u => timer'[t] = timer[t]
  <2>0. timer \in [Timers -> TimerSet]
    BY <1>i DEF TypeOK, TimerSet
  <2>1. timer' = [timer EXCEPT ![u].state = "dormant"]
    BY DEF Expire
  <2> QED BY <2>0, <2>1, Expires, Zenon
<1>x. /\ timer' \in [Timers -> TimerSet] /\ lost' \subseteq Schedules
      /\ frame'.at = "enter"
  <2>0. timer \in [Timers -> TimerSet]
    BY <1>i DEF TypeOK, TimerSet
  <2>1. timer' = [timer EXCEPT ![u].state = "dormant"]
    BY DEF Expire
  <2>2. timer' \in [Timers -> TimerSet]
    BY <2>0, <2>1, Expires, Zenon
  <2>3. lost' \subseteq Schedules
    BY <1>i, <1>g DEF Expire, TypeOK
  <2>4. frame'.at = "enter"
    BY DEF Expire
  <2> QED BY <2>2, <2>3, <2>4
<1>y. frame'.at = "enter" /\ frame'.t = u /\ frame'.s = NONE /\ frame' \in FrameSet
  BY SMT DEF Expire, FrameSet, Timers, ConstantsOK
<1>11. TypeOK'
  BY <1>i, <1>q, <1>v, <1>x, Zenon DEF TypeOK, Timers, TimerSet
<1>12. OpOK'
  BY <1>i, <1>g, <1>p, <1>v, SMT DEF OpOK, OpSet, Timers, Actors, Daemon
<1>13. TimerOK'
  BY <1>i, <1>g, <1>p, <1>v, <1>w, <1>y, SMT DEF TimerOK, Timers, Alive, Actors, Daemon
<1>14. HandleOK'
  BY <1>i, <1>g, <1>p, <1>q, <1>v, <1>w, <1>y, SMT DEF HandleOK, Alive, Actors, Daemon
<1>15. PublishOK'
  BY <1>i, <1>g, <1>p, <1>n, <1>q, <1>v, <1>w, <1>y, SMT DEF PublishOK, EndsOn, Actors, Daemon
<1>16. WorkOK'
  BY <1>i, <1>g, <1>p, <1>v, <1>w, <1>y, SMT DEF WorkOK, Actors, Daemon
<1>17. ShareOK'
  BY <1>i, <1>g, <1>p, <1>v, <1>w, <1>y, SMT DEF ShareOK, Actors, Daemon
<1>18. FrameOK'
  BY <1>i, <1>g, <1>p, <1>v, <1>w, <1>y, SMT DEF FrameOK, FrameSet, Timers, Actors, Daemon
<1>19. QueueOK'
  BY <1>i, <1>g, <1>p, <1>q, <1>v, <1>w, <1>y, SMT DEF QueueOK, Timers, Alive, Actors, Daemon
<1>31. InitAlone /\ FrameOwn /\ \A r \in Kept : Good(r)
  BY DEF IInv
<1>32. Around
  BY <1>i, <1>31, Surroundings, Zenon
<1>33. 
      /\ \A t \in Timers : t # u => SameTimer(t)
      /\ (HasStop(u)' <=> HasStop(u)) /\ (LastStart(u)' <=> LastStart(u))
      /\ (StartsApart(u)' <=> StartsApart(u))
  <2>1. \A t \in Timers : t # u => Kin(t)
    BY <1>w DEF Kin
  <2>2. commands' = commands
    BY <1>q
  <2>3. \A t \in Timers : t # u => SameTimer(t)
    BY <2>1, <2>2, <1>i, TimersSame, Zenon
  <2>4. SameFor(u)
    BY <2>2, QueueSame, Zenon
  <2> QED BY <2>3, <2>4 DEF SameFor
<1>34. now' \in Nat /\ now <= now' /\ Kept' \subseteq Kept
  BY <1>i, <1>v, SMT DEF TypeOK, Kept, Expire
<1>41. PICK s : \A r \in Schedules : handle[r] = u => r = s
  <2>1. CASE \E r \in Schedules : handle[r] = u
    <3>1. PICK r \in Schedules : handle[r] = u
      BY <2>1
    <3>2. \A q \in Schedules : handle[q] = u => q = r
      BY <3>1, <1>g, <1>i DEF HandleOK
    <3> QED BY <3>2
  <2>2. CASE ~\E r \in Schedules : handle[r] = u
    BY <2>2
  <2> QED BY <2>1, <2>2
<1>42. timer[u].id # NONE => handle[timer[u].id] = u /\ timer[u].id = s
  <2>1. timer[u].id # NONE => handle[timer[u].id] = u
    BY <1>n, <1>i DEF TimerOK
  <2> QED BY <2>1, <1>41, <1>g
<1>43. s \in Kept' /\ s \in Schedules /\ timer[u].id = s => ~HasStop(u) /\ \A b \in Tasks : op[b].s = s => op[b].call \notin {"disable", "edit"}
  <2> SUFFICES ASSUME s \in Kept', s \in Schedules, timer[u].id = s
               PROVE  ~HasStop(u) /\ \A b \in Tasks : op[b].s = s => op[b].call \notin {"disable", "edit"}
    OBVIOUS
  <2>1. s \notin lost' /\ s # NONE
    BY <1>g DEF Kept
  <2>2. ~Stopping(u)
    BY <2>1 DEF Expire
  <2> QED BY <2>2 DEF Stopping, HasStop, IsStop, Places
<1>35. ASSUME NEW r \in Kept', r # s
      PROVE  Good(r)'
  <2>1. r \in Kept /\ r \in Schedules /\ r # NONE /\ Good(r)
    BY <1>31, <1>32, <1>34
  <2>2. \A b \in Actors : op[b].s = r \/ op'[b].s = r => op'[b] = op[b]
    BY <1>v
  <2>3. SameMemory(r)
    BY <1>35, <2>1, <1>v, <1>41, <1>42
  <2>4. (OnFrame(r)' <=> OnFrame(r)) /\ (OnFrame(r) => frame' = frame)
    BY <1>35, <2>1, <1>p, <1>y, <1>w, <1>42 DEF OnFrame
  <2>5. \A t \in Timers : handle[r] = t \/ timer'[t].id = r => SameTimer(t)
    BY <1>33, <1>35, <2>1, <1>41, <1>42, <1>w
  <2>6. Unmoved(r)
    BY <2>2, <2>3, <2>4, <2>5 DEF Unmoved
  <2> QED BY <1>i, <1>31, <1>34, <2>1, <2>6, Others, Zenon
<1>36. ASSUME s \in Kept'
      PROVE  Good(s)'
  <2>1. Known(s)
    BY <1>32, <1>34, <1>36, <1>i, SMT DEF TypeOK
  <2> USE DEF Good
  <2>2. Good(s)
    BY <1>31, <2>1
  <2>h. PICK h : h = handle[s]
    OBVIOUS
  <2>3. Callback(s, h)
    BY <2>1, <2>h, <1>32, <1>i, SMT DEF Timers, Actors, OpOK
  <2>5. /\ OnFrame(s)' => h = u /\ EndsOn(u) /\ ~EndsOn(u)'
        /\ h # 0 => (EndsOn(h)' => EndsOn(h)) /\ (HasStop(h)' <=> HasStop(h))
        /\ h # 0 => \/ timer'[h].state = "dormant"
                    \/ timer'[h].state = timer[h].state /\ timer'[h].left = timer[h].left
        /\ h # u /\ h # 0 => (EndsOn(h)' <=> EndsOn(h))
    <3>1. OnFrame(s)' => timer[u].id = s
      BY <1>y, <1>w DEF OnFrame
    <3>2. ASSUME timer[u].id = s
          PROVE  h = u /\ EndsOn(u) /\ ~EndsOn(u)'
      <4>1. h = u
        BY <3>2, <1>42, <2>1, <2>h
      <4>2. ~HasStop(u) /\ timer[u].state = "active"
        BY <3>2, <1>36, <2>1, <1>43, <1>p
      <4>3. StopsFirst(u)
        BY <3>2, <4>2, <2>2 DEF Alternate
      <4>4. ~LastStart(u)
        BY <4>2, <4>3 DEF StopsFirst, LastStart, HasStop
      <4> QED BY <4>1, <4>2, <4>4, <1>33, <1>w DEF EndsOn
    <3>3. ASSUME h # 0, h # u
          PROVE  SameTimer(h) /\ timer'[h] = timer[h]
      BY <3>3, <2>3, <1>33, <1>w
    <3>4. /\ (EndsOn(u)' => EndsOn(u)) /\ (HasStop(u)' <=> HasStop(u)) /\ timer'[u].state = "dormant"
      BY <1>33, <1>w DEF EndsOn
    <3> QED BY <3>1, <3>2, <3>3, <3>4, Zenon DEF SameTimer
  <2>6. ~OnFrame(s) /\ (OnFrame(s)' <=> timer[u].id = s) /\ frame'.at = "enter" /\ frame'.t = u
    BY <1>p, <1>y, <1>w DEF OnFrame
  <2>7. OnFrame(s)' => ~off[s] /\ next[s] > 0 /\ \A b \in Actors : op[b].s = s => op[b].call = "delete" 
    <3> SUFFICES ASSUME OnFrame(s)'
                 PROVE  ~off[s] /\ next[s] > 0 /\ \A b \in Actors : op[b].s = s => op[b].call = "delete"
      OBVIOUS
    <3>1. h = u /\ EndsOn(h) /\ timer[u].id = s /\ h # 0
      BY <2>5, <2>6, <1>g
    <3>2. ~HasStop(h) /\ timer[h].state = "active" /\ timer[h].left = 0
      BY <3>1, <1>36, <2>1, <1>43, <1>p
    <3>3. ~off[s]
      BY <3>1, <2>2, <2>h, Zenon DEF OffOK
    <3>4. ASSUME NEW b \in Actors, op[b].s = s
          PROVE  op[b].call = "delete"
      <4>1. b \in Tasks /\ b # Daemon
        BY <3>4, <2>1, <1>p, <1>g, SMT DEF Actors
      <4>2. op[b].call \notin {"disable", "edit"} /\ op[b].call # "rearm"
        BY <3>1, <3>4, <4>1, <1>36, <2>1, <1>43, <2>3
      <4>3. op[b].pc # "publish" /\ op[b].pc # "idle" /\ op[b].pc # "load" /\ PcOK(op[b].call, op[b].pc)
        BY <3>1, <3>4, <2>1, <2>h, <1>i, <1>g DEF PublishOK, OpOK
      <4>4. op[b].call \in {"enable", "init"} => op[b].pc # "armed"
        BY <3>1, <3>2, <3>4, <4>1, <2>2, <2>h, <2>1, SMT DEF OffOK
      <4>5. ~(op[b].call = "enable" /\ op[b].pc \in {"compute", "arm", "change", "stop", "clear"})
        BY <3>1, <3>4, <2>2, <2>h, Zenon DEF OffOK
      <4>6. ~(op[b].call = "init" /\ op[b].pc # "armed")
        BY <3>1, <3>4, <2>2, <2>h, Zenon DEF OffOK
      <4> QED BY <4>2, <4>3, <4>4, <4>5, <4>6, SMT DEF PcOK
    <3>5. HasNext(s)
      BY <3>1, <2>2, <2>h DEF HasTime
    <3>6. next[s] > 0
      BY <3>4, <3>5, <1>32, SMT DEF HasNext, DeletePcs
    <3> QED BY <3>3, <3>4, <3>6
  <2>8. h = u /\ timer[u].id # s => \E b \in Actors : op[b].s = s /\ op[b].pc = "delete_timer" 
    <3>1. h = u => timer[u].id = s \/ \E b \in Actors : op[b].s = s /\ op[b].pc = "delete_timer"
      <4> SUFFICES ASSUME h = u
                   PROVE  timer[u].id = s \/ \E b \in Actors : op[b].s = s /\ op[b].pc = "delete_timer"
        OBVIOUS
      <4>1. handle[s] = u /\ handle[s] # 0
        BY <2>h, <1>g, SMT DEF Timers
      <4>2. HandleOK /\ s \in Schedules
        BY <1>i, <2>1
      <4> QED BY <4>1, <4>2, Zenon DEF HandleOK
    <3> QED BY <3>1
  <2>9. HasNext(s)' <=> HasNext(s)
    BY <1>v DEF HasNext
  <2>11. EnableOn(s)'
    BY <2>1, <2>2, <2>h, <2>3, <1>v, <1>p, <1>y, SMT DEF EnableOn
  <2>12. EditKept(s)'
    BY <2>1, <2>2, <2>h, <2>3, <1>v, <1>p, <1>y, SMT DEF EditKept
  <2>13. FrameAlone(s)'
    BY <2>7, <1>v DEF FrameAlone
  <2>14. OffOK(s)'
    <3>1. h # 0 => /\ off[s] => ~EndsOn(h)'
                   /\ \A b \in Actors : op[b].s = s =>
                        /\ op[b].call = "enable" /\ op[b].pc \in {"compute", "arm", "change", "stop", "clear"} => ~EndsOn(h)'
                        /\ op[b].call = "init" /\ op[b].pc # "armed" => ~EndsOn(h)'
                        /\ op[b].pc = "clear" => ~EndsOn(h)'
                        /\ op[b].call = "disable" /\ op[b].pc = "armed" => ~EndsOn(h)'
                        /\ op[b].call \in {"enable", "init"} /\ op[b].pc = "armed" /\ b # Daemon =>
                             \/ timer'[h].state = "dormant" \/ timer'[h].left > 0
                             \/ HasStop(h)'
      BY <2>2, <2>h, <2>5, Zenon DEF OffOK
    <3> QED BY <3>1, <2>h, <1>v DEF OffOK
  <2>15. FrameOff(s)'
    BY <2>5, <1>y, <2>6 DEF FrameOff
  <2>16. SettledOn(s)'
    <3> SUFFICES ASSUME h # 0, Settled(s), ~OnFrame(s)'
                 PROVE  EndsOn(h)'
      BY <2>6, <2>9, <2>h, <1>v, SMT DEF SettledOn, Settled
    <3>1. h # u
      BY <2>6, <2>8, SMT DEF Settled
    <3>2. EndsOn(h)
      BY <2>2, <2>6, <2>h DEF SettledOn
    <3> QED BY <3>1, <3>2, <2>5
  <2>17. HasTime(s)'
    <3>1. TimeShown(s)'
      BY <2>2, <2>5, <2>9, <2>h, <1>v DEF HasTime
    <3>2. TimeCalled(s)'
      BY <2>7, <1>v
    <3>3. TimeArmed(s)'
      BY <2>2, <1>v DEF HasTime
    <3> QED BY <3>1, <3>2, <3>3, Zenon DEF HasTime
  <2>18. Alternate(s)'
    <3>1. ASSUME NEW t \in Timers, timer'[t].id = s, t # u
          PROVE  StartsApart(t)' /\ (timer'[t].state = "active" => StopsFirst(t)')
      BY <3>1, <1>33, <2>2 DEF Alternate, SameTimer
    <3>2. timer'[u].id = s => StartsApart(u)'
      BY <2>2, <1>33, <1>w DEF Alternate
    <3> QED BY <3>1, <3>2, <1>w DEF Alternate
  <2>19. OnceTime(s)'
    BY <2>1, <2>2, <2>h, <2>3, <1>v, <1>p, <1>y, SMT DEF OnceTime
  <2>20. NoCallback(s)'
    BY <2>1, <2>2, <2>h, <2>3, <1>v, <1>p, <1>y, SMT DEF NoCallback
  <2>21. StoredOK(s)'
    BY <2>1, <2>2, <2>h, <2>3, <1>v, <1>p, <1>y, SMT DEF StoredOK, OneShot
  <2>22. FiredOK(s)'
    <3> SUFFICES ASSUME type[s] \in OneShot, ~off[s], fires[s] > 0
                 PROVE  FiredOK(s)'
      BY <1>v, SMT DEF FiredOK, OneShot
    <3>0. Over(s, h)
      BY <2>2, <2>h DEF FiredOK
    <3>1. (fires[s] = 1 /\ next[s] <= now)'
      BY <3>0, <1>v
    <3>2. (handle[s] # 0 => ~EndsOn(handle[s]))'
      BY <3>0, <2>5, <2>h, <1>v
    <3>3. (OnFrame(s) => frame.at # "enter")'
      BY <3>0, <2>5, <1>g, SMT DEF Timers
    <3>4. OverDaemon(s)'
      BY <3>0, <1>v
    <3>5. OverStored(s)'
      BY <3>0, <1>v
    <3>6. OverLive(s)'
      BY <3>0, <1>v
    <3>7. OverCalls(s)'
      BY <3>0, <1>v
    <3>8. OverInit(s)'
      BY <3>0, <1>v
    <3>9. OverCheck(s)'
      BY <3>0, <1>v
    <3> QED BY <3>1, <3>2, <3>3, <3>4, <3>5, <3>6, <3>7, <3>8, <3>9, Zenon DEF FiredOK
  <2> QED BY <2>11, <2>12, <2>13, <2>14, <2>15, <2>16, <2>17, <2>18, <2>19, <2>20, <2>21, <2>22, Zenon
<1>37. \A r \in Kept' : Good(r)'
  BY <1>35, <1>36
<1>21. InitAlone'
  BY <1>31, <1>v DEF InitAlone
<1>22. FrameOwn'
  BY <1>y DEF FrameOwn
<1> QED
  BY <1>q, <1>11, <1>12, <1>13, <1>14, <1>15, <1>16, <1>17, <1>18, <1>19, <1>21, <1>22, <1>37 DEF IInv, Part1

LEMMA ProcessStartKeeps ==
  ASSUME ConstantsOK, ~Preempted, IInv,
         ProcessCommand, Head(commands).do = "start"
  PROVE  IInv'
<1>i. Parts
  BY DEF IInv, Part1
<1>g. Plain
  BY <1>i, Basics, Zenon
<1>c. PICK c : c = Head(commands)
  OBVIOUS
<1>u. PICK u : u = c.t
  OBVIOUS
<1>d. /\ c \in CommandSet /\ c = commands[1] /\ 1 \in Places /\ c.period \in 0..MaxPeriod
      /\ u \in Timers /\ c.do = "start" /\ (c.do = "start" => c.period > 0)
  <2>1. c \in CommandSet /\ c = commands[1] /\ 1 \in Places
    BY <1>c, <1>i, Taken, Zenon DEF ProcessCommand
  <2>2. c.do = "start" => c.period > 0
    BY <2>1, <1>i DEF QueueTyped
  <2> QED BY <2>1, <2>2, <1>c, <1>u, SMT DEF CommandSet
<1>r. u \in Timers /\ c.period > 0
  BY <1>d
<1>p. /\ frame = NoFrame /\ frame.at = "idle" /\ frame.s = NONE /\ frame.t = 0
  BY <1>g, SMT DEF ProcessCommand
<1>q. /\ QueueTyped' /\ Len(commands') <= QueueLen
      /\ \A t \in Timers : t # u =>
           /\ Mentions(t)' <=> Mentions(t)
           /\ Deletes(t)' <=> Deletes(t)
           /\ HasStop(t)' <=> HasStop(t)
           /\ LastStart(t)' <=> LastStart(t)
      /\ Mentions(u)
      /\ Deletes(u)' <=> Deletes(u)
      /\ HasStop(u)' <=> HasStop(u)
      /\ LastStart(u) <=> LastStart(u)' \/ ~HasStop(u)
  <2>1. commands # <<>> /\ commands' = Tail(commands)
    BY DEF ProcessCommand
  <2>2. QueueTyped'
    BY <2>1, <1>i, TakenTyped, Zenon
  <2>3. Len(commands') <= QueueLen
    <3>1. Len(commands') = Len(commands) - 1 /\ Len(commands) \in Nat
      BY <2>1, <1>i, Taken, Zenon
    <3>2. Len(commands) <= QueueLen /\ QueueLen \in Nat
      BY <1>i DEF TypeOK, ConstantsOK
    <3> QED BY <3>1, <3>2, SMT
  <2>4. \A t \in Timers : t # u => SameFor(t)
    BY <2>1, <1>c, <1>u, <1>i, TakenElse, Zenon
  <2>5. /\ Mentions(u)
        /\ Deletes(u)' <=> Deletes(u)
        /\ HasStop(u)' <=> HasStop(u)
        /\ LastStart(u) <=> LastStart(u)' \/ ~HasStop(u)
    BY <2>1, <1>c, <1>u, <1>i, TakenStart, Zenon
  <2> QED BY <2>2, <2>3, <2>4, <2>5, Zenon DEF SameFor
<1>v. now' = now /\ mem' = mem /\ type' = type /\ next' = next /\ callback' = callback /\ handle' = handle /\ stored' = stored /\ op' = op /\ frame' = frame /\ dispatching' = dispatching /\ deleted' = deleted /\ fires' = fires /\ off' = off /\ lost' = lost
  BY DEF ProcessCommand, memVars, cbVars, ghosts
<1>w. /\ timer'[u].state = "active" /\ timer'[u].left = c.period
      /\ timer'[u].id = timer[u].id /\ timer'[u].priv = timer[u].priv
      /\ \A t \in Timers : t # u => timer'[t] = timer[t]
  <2>0. timer \in [Timers -> TimerSet]
    BY <1>i DEF TypeOK, TimerSet
  <2>1. timer' = [timer EXCEPT ![u].state = "active", ![u].left = c.period]
    BY <1>c, <1>u DEF ProcessCommand
  <2>2. "active" \in {"dormant", "active", "deleted"}
    OBVIOUS
  <2> QED BY <2>0, <2>1, <2>2, <1>d, Processed, Zenon
<1>x. timer' \in [Timers -> TimerSet]
  <2>0. timer \in [Timers -> TimerSet]
    BY <1>i DEF TypeOK, TimerSet
  <2>1. timer' = [timer EXCEPT ![u].state = "active", ![u].left = c.period]
    BY <1>c, <1>u DEF ProcessCommand
  <2>2. "active" \in {"dormant", "active", "deleted"}
    OBVIOUS
  <2> QED BY <2>0, <2>1, <2>2, <1>d, Processed, Zenon
<1>11. TypeOK'
  BY <1>i, <1>q, <1>v, <1>x, Zenon DEF TypeOK, Timers, TimerSet
<1>12. OpOK'
  BY <1>i, <1>g, <1>c, <1>u, <1>r, <1>v, SMT DEF OpOK, OpSet, Timers, Actors, Daemon
<1>13. TimerOK'
  BY <1>i, <1>g, <1>c, <1>u, <1>r, <1>p, <1>v, <1>w, SMT DEF TimerOK, Timers, Alive, Actors, Daemon
<1>14. HandleOK'
  BY <1>i, <1>g, <1>c, <1>u, <1>r, <1>p, <1>q, <1>v, <1>w, SMT DEF HandleOK, Alive, Actors, Daemon
<1>15. PublishOK'
  BY <1>i, <1>g, <1>c, <1>u, <1>r, <1>p, <1>q, <1>v, <1>w, SMT DEF PublishOK, EndsOn, Actors, Daemon
<1>16. WorkOK'
  BY <1>i, <1>g, <1>c, <1>u, <1>r, <1>p, <1>v, <1>w, SMT DEF WorkOK, Actors, Daemon
<1>17. ShareOK'
  BY <1>i, <1>g, <1>c, <1>u, <1>r, <1>p, <1>v, <1>w, SMT DEF ShareOK, Actors, Daemon
<1>18. FrameOK'
  BY <1>i, <1>g, <1>c, <1>u, <1>r, <1>p, <1>v, <1>w, SMT DEF FrameOK, FrameSet, Timers, Actors, Daemon
<1>19. QueueOK'
  BY <1>i, <1>g, <1>c, <1>u, <1>r, <1>p, <1>q, <1>v, <1>w, SMT DEF QueueOK, Timers, Alive, Actors, Daemon
<1>31. InitAlone /\ FrameOwn /\ \A r \in Kept : Good(r)
  BY DEF IInv
<1>32. Around
  BY <1>i, <1>31, Surroundings, Zenon
<1>33. 
      /\ \A t \in Timers : t # u => SameTimer(t)
      /\ (EndsOn(u)' <=> EndsOn(u)) /\ (HasStop(u)' <=> HasStop(u))
      /\ StartsApart(u) => StartsApart(u)' /\ StopsFirst(u)' 
  <2>1. commands # <<>> /\ commands' = Tail(commands)
    BY DEF ProcessCommand
  <2>2. \A t \in Timers : t # u => SameFor(t)
    BY <2>1, <1>c, <1>u, <1>i, TakenElse, Zenon
  <2>3. \A t \in Timers : t # u => SameTimer(t)
    BY <2>2, <1>w DEF SameTimer, SameFor, EndsOn
  <2>4. /\ HasStop(u)' <=> HasStop(u)
        /\ LastStart(u) <=> LastStart(u)' \/ ~HasStop(u)
        /\ StartsApart(u) => StartsApart(u)' /\ StopsFirst(u)'
    BY <2>1, <1>c, <1>u, <1>i, TakenStart, Zenon
  <2> QED BY <2>3, <2>4, <1>w DEF EndsOn
<1>34. now' \in Nat /\ now <= now' /\ Kept' \subseteq Kept
  BY <1>i, <1>v, SMT DEF TypeOK, Kept
<1>41. PICK s : \A r \in Schedules : handle[r] = u \/ timer[u].id = r => r = s
  <2>1. CASE timer[u].id # NONE
    <3>1. \A r \in Schedules : handle[r] = u => r = timer[u].id
      BY <2>1, <1>g, <1>d, <1>i DEF HandleOK
    <3> QED BY <3>1
  <2>2. CASE timer[u].id = NONE /\ \E r \in Schedules : handle[r] = u
    <3>1. PICK r \in Schedules : handle[r] = u
      BY <2>2
    <3>2. \A q \in Schedules : handle[q] = u => q = r
      BY <3>1, <1>g, <1>d, <1>i DEF HandleOK
    <3> QED BY <3>2, <2>2, <1>g
  <2>3. CASE timer[u].id = NONE /\ ~\E r \in Schedules : handle[r] = u
    BY <2>3, <1>g
  <2> QED BY <2>1, <2>2, <2>3
<1>42. timer'[u].left = c.period /\ (c.do = "start" => c.period > 0) /\ c.do = "start"
  BY <1>w, <1>d
<1>35. ASSUME NEW r \in Kept', r # s
      PROVE  Good(r)'
  <2>1. r \in Kept /\ r \in Schedules /\ r # NONE /\ Good(r)
    BY <1>31, <1>32, <1>34
  <2>2. \A b \in Actors : op[b].s = r \/ op'[b].s = r => op'[b] = op[b]
    BY <1>v
  <2>3. SameMemory(r)
    BY <1>35, <2>1, <1>v, <1>41
  <2>4. (OnFrame(r)' <=> OnFrame(r)) /\ (OnFrame(r) => frame' = frame)
    BY <1>p, <1>v DEF OnFrame
  <2>5. \A t \in Timers : handle[r] = t \/ timer'[t].id = r => SameTimer(t)
    BY <1>33, <1>35, <2>1, <1>41, <1>w
  <2>6. Unmoved(r)
    BY <2>2, <2>3, <2>4, <2>5 DEF Unmoved
  <2> QED BY <1>i, <1>31, <1>34, <2>1, <2>6, Others, Zenon
<1>36. ASSUME s \in Kept'
      PROVE  Good(s)'
  <2>1. Known(s)
    BY <1>32, <1>34, <1>36, <1>i, SMT DEF TypeOK
  <2> USE DEF Good
  <2>2. Good(s)
    BY <1>31, <2>1
  <2>h. PICK h : h = handle[s]
    OBVIOUS
  <2>3. Callback(s, h)
    BY <2>1, <2>h, <1>32, <1>i, SMT DEF Timers, Actors, OpOK
  <2>5. /\ h # 0 => (EndsOn(h)' <=> EndsOn(h))
        /\ h # 0 => \/ timer'[h].left > 0
                    \/ timer'[h].state = timer[h].state /\ timer'[h].left = timer[h].left /\ (HasStop(h)' <=> HasStop(h))
    <3>1. CASE h = u
      BY <3>1, <1>33, <1>42, <1>w
    <3>2. CASE h # u
      BY <3>2, <2>3, <1>33, <1>w DEF SameTimer
    <3> QED BY <3>1, <3>2
  <2>6. ~OnFrame(s) /\ ~OnFrame(s)'
    BY <1>p, <1>v DEF OnFrame
  <2>9. HasNext(s)' <=> HasNext(s)
    BY <1>v DEF HasNext
  <2>11. EnableOn(s)'
    BY <2>1, <2>2, <2>h, <2>3, <1>v, <1>p, SMT DEF EnableOn
  <2>12. EditKept(s)'
    BY <2>1, <2>2, <2>h, <2>3, <1>v, <1>p, SMT DEF EditKept
  <2>13. FrameAlone(s)'
    BY <2>6 DEF FrameAlone
  <2>14. OffOK(s)'
    <3>1. h # 0 => /\ off[s] => ~EndsOn(h)'
                   /\ \A b \in Actors : op[b].s = s =>
                        /\ op[b].call = "enable" /\ op[b].pc \in {"compute", "arm", "change", "stop", "clear"} => ~EndsOn(h)'
                        /\ op[b].call = "init" /\ op[b].pc # "armed" => ~EndsOn(h)'
                        /\ op[b].pc = "clear" => ~EndsOn(h)'
                        /\ op[b].call = "disable" /\ op[b].pc = "armed" => ~EndsOn(h)'
                        /\ op[b].call \in {"enable", "init"} /\ op[b].pc = "armed" /\ b # Daemon =>
                             \/ timer'[h].state = "dormant" \/ timer'[h].left > 0
                             \/ HasStop(h)'
      BY <2>2, <2>h, <2>5, Zenon DEF OffOK
    <3> QED BY <3>1, <2>h, <1>v DEF OffOK
  <2>15. FrameOff(s)'
    BY <2>6 DEF FrameOff
  <2>16. SettledOn(s)'
    BY <2>2, <2>5, <2>6, <2>9, <2>h, <1>v DEF SettledOn, Settled
  <2>17. HasTime(s)'
    <3>1. TimeShown(s)'
      BY <2>2, <2>5, <2>9, <2>h, <1>v DEF HasTime
    <3>2. TimeCalled(s)'
      BY <2>6
    <3>3. TimeArmed(s)'
      BY <2>2, <1>v DEF HasTime
    <3> QED BY <3>1, <3>2, <3>3, Zenon DEF HasTime
  <2>18. Alternate(s)'
    <3>1. ASSUME NEW t \in Timers, timer'[t].id = s, t # u
          PROVE  StartsApart(t)' /\ (timer'[t].state = "active" => StopsFirst(t)')
      BY <3>1, <1>33, <2>2, <1>w DEF Alternate, SameTimer
    <3>2. timer'[u].id = s => StartsApart(u)' /\ (timer'[u].state = "active" => StopsFirst(u)')
      BY <2>2, <1>33, <1>w, <1>d DEF Alternate
    <3> QED BY <3>1, <3>2 DEF Alternate
  <2>19. OnceTime(s)'
    BY <2>1, <2>2, <2>h, <2>3, <1>v, <1>p, SMT DEF OnceTime
  <2>20. NoCallback(s)'
    BY <2>1, <2>2, <2>h, <2>3, <1>v, <1>p, SMT DEF NoCallback
  <2>21. StoredOK(s)'
    BY <2>1, <2>2, <2>h, <2>3, <1>v, <1>p, SMT DEF StoredOK, OneShot
  <2>22. FiredOK(s)'
    <3> SUFFICES ASSUME type[s] \in OneShot, ~off[s], fires[s] > 0
                 PROVE  FiredOK(s)'
      BY <1>v, SMT DEF FiredOK, OneShot
    <3>0. Over(s, h)
      BY <2>2, <2>h DEF FiredOK
    <3>1. (fires[s] = 1 /\ next[s] <= now)'
      BY <3>0, <1>v
    <3>2. (handle[s] # 0 => ~EndsOn(handle[s]))'
      BY <3>0, <2>5, <2>h, <1>v
    <3>3. (OnFrame(s) => frame.at # "enter")'
      BY <2>6
    <3>4. OverDaemon(s)'
      BY <3>0, <1>v
    <3>5. OverStored(s)'
      BY <3>0, <1>v
    <3>6. OverLive(s)'
      BY <3>0, <1>v
    <3>7. OverCalls(s)'
      BY <3>0, <1>v
    <3>8. OverInit(s)'
      BY <3>0, <1>v
    <3>9. OverCheck(s)'
      BY <3>0, <1>v
    <3> QED BY <3>1, <3>2, <3>3, <3>4, <3>5, <3>6, <3>7, <3>8, <3>9, Zenon DEF FiredOK
  <2> QED BY <2>11, <2>12, <2>13, <2>14, <2>15, <2>16, <2>17, <2>18, <2>19, <2>20, <2>21, <2>22, Zenon
<1>37. \A r \in Kept' : Good(r)'
  BY <1>35, <1>36
<1>21. InitAlone'
  BY <1>31, <1>v DEF InitAlone
<1>22. FrameOwn'
  BY <1>p, <1>v DEF FrameOwn
<1> QED
  BY <1>q, <1>11, <1>12, <1>13, <1>14, <1>15, <1>16, <1>17, <1>18, <1>19, <1>21, <1>22, <1>37 DEF IInv, Part1

LEMMA ProcessStopKeeps ==
  ASSUME ConstantsOK, ~Preempted, IInv,
         ProcessCommand, Head(commands).do = "stop"
  PROVE  IInv'
<1>i. Parts
  BY DEF IInv, Part1
<1>g. Plain
  BY <1>i, Basics, Zenon
<1>c. PICK c : c = Head(commands)
  OBVIOUS
<1>u. PICK u : u = c.t
  OBVIOUS
<1>d. /\ c \in CommandSet /\ c = commands[1] /\ 1 \in Places /\ c.period \in 0..MaxPeriod
      /\ u \in Timers /\ c.do = "stop" /\ (c.do = "start" => c.period > 0)
  <2>1. c \in CommandSet /\ c = commands[1] /\ 1 \in Places
    BY <1>c, <1>i, Taken, Zenon DEF ProcessCommand
  <2>2. c.do = "start" => c.period > 0
    BY <2>1, <1>i DEF QueueTyped
  <2> QED BY <2>1, <2>2, <1>c, <1>u, SMT DEF CommandSet
<1>r. u \in Timers
  BY <1>d
<1>p. /\ frame = NoFrame /\ frame.at = "idle" /\ frame.s = NONE /\ frame.t = 0
  BY <1>g, SMT DEF ProcessCommand
<1>q. /\ QueueTyped' /\ Len(commands') <= QueueLen
      /\ \A t \in Timers : t # u =>
           /\ Mentions(t)' <=> Mentions(t)
           /\ Deletes(t)' <=> Deletes(t)
           /\ HasStop(t)' <=> HasStop(t)
           /\ LastStart(t)' <=> LastStart(t)
      /\ Mentions(u) /\ HasStop(u)
      /\ Deletes(u)' <=> Deletes(u)
  <2>1. commands # <<>> /\ commands' = Tail(commands)
    BY DEF ProcessCommand
  <2>2. QueueTyped'
    BY <2>1, <1>i, TakenTyped, Zenon
  <2>3. Len(commands') <= QueueLen
    <3>1. Len(commands') = Len(commands) - 1 /\ Len(commands) \in Nat
      BY <2>1, <1>i, Taken, Zenon
    <3>2. Len(commands) <= QueueLen /\ QueueLen \in Nat
      BY <1>i DEF TypeOK, ConstantsOK
    <3> QED BY <3>1, <3>2, SMT
  <2>4. \A t \in Timers : t # u => SameFor(t)
    BY <2>1, <1>c, <1>u, <1>i, TakenElse, Zenon
  <2>5. /\ Mentions(u) /\ HasStop(u)
        /\ Deletes(u)' <=> Deletes(u)
    BY <2>1, <1>c, <1>u, <1>i, TakenStop, Zenon
  <2> QED BY <2>2, <2>3, <2>4, <2>5, Zenon DEF SameFor
<1>v. now' = now /\ mem' = mem /\ type' = type /\ next' = next /\ callback' = callback /\ handle' = handle /\ stored' = stored /\ op' = op /\ frame' = frame /\ dispatching' = dispatching /\ deleted' = deleted /\ fires' = fires /\ off' = off /\ lost' = lost
  BY DEF ProcessCommand, memVars, cbVars, ghosts
<1>w. /\ timer'[u].state = "dormant" /\ timer'[u].left = c.period
      /\ timer'[u].id = timer[u].id /\ timer'[u].priv = timer[u].priv
      /\ \A t \in Timers : t # u => timer'[t] = timer[t]
  <2>0. timer \in [Timers -> TimerSet]
    BY <1>i DEF TypeOK, TimerSet
  <2>1. timer' = [timer EXCEPT ![u].state = "dormant", ![u].left = c.period]
    BY <1>c, <1>u DEF ProcessCommand
  <2>2. "dormant" \in {"dormant", "active", "deleted"}
    OBVIOUS
  <2> QED BY <2>0, <2>1, <2>2, <1>d, Processed, Zenon
<1>x. timer' \in [Timers -> TimerSet]
  <2>0. timer \in [Timers -> TimerSet]
    BY <1>i DEF TypeOK, TimerSet
  <2>1. timer' = [timer EXCEPT ![u].state = "dormant", ![u].left = c.period]
    BY <1>c, <1>u DEF ProcessCommand
  <2>2. "dormant" \in {"dormant", "active", "deleted"}
    OBVIOUS
  <2> QED BY <2>0, <2>1, <2>2, <1>d, Processed, Zenon
<1>z. \A b \in Actors : op[b].pc = "publish" => op[b].arg # u
  BY <1>i, <1>q, <1>g, SMT DEF PublishOK
<1>11. TypeOK'
  BY <1>i, <1>q, <1>v, <1>x, Zenon DEF TypeOK, Timers, TimerSet
<1>12. OpOK'
  BY <1>i, <1>g, <1>c, <1>u, <1>r, <1>v, SMT DEF OpOK, OpSet, Timers, Actors, Daemon
<1>13. TimerOK'
  BY <1>i, <1>g, <1>c, <1>u, <1>r, <1>p, <1>v, <1>w, SMT DEF TimerOK, Timers, Alive, Actors, Daemon
<1>14. HandleOK'
  BY <1>i, <1>g, <1>c, <1>u, <1>r, <1>p, <1>q, <1>v, <1>w, SMT DEF HandleOK, Alive, Actors, Daemon
<1>15. PublishOK'
  BY <1>i, <1>g, <1>c, <1>u, <1>r, <1>p, <1>q, <1>v, <1>w, <1>z, SMT DEF PublishOK, EndsOn, Actors, Daemon
<1>16. WorkOK'
  BY <1>i, <1>g, <1>c, <1>u, <1>r, <1>p, <1>v, <1>w, SMT DEF WorkOK, Actors, Daemon
<1>17. ShareOK'
  BY <1>i, <1>g, <1>c, <1>u, <1>r, <1>p, <1>v, <1>w, SMT DEF ShareOK, Actors, Daemon
<1>18. FrameOK'
  BY <1>i, <1>g, <1>c, <1>u, <1>r, <1>p, <1>v, <1>w, SMT DEF FrameOK, FrameSet, Timers, Actors, Daemon
<1>19. QueueOK'
  BY <1>i, <1>g, <1>c, <1>u, <1>r, <1>p, <1>q, <1>v, <1>w, SMT DEF QueueOK, Timers, Alive, Actors, Daemon
<1>31. InitAlone /\ FrameOwn /\ \A r \in Kept : Good(r)
  BY DEF IInv
<1>32. Around
  BY <1>i, <1>31, Surroundings, Zenon
<1>33. 
      /\ \A t \in Timers : t # u => SameTimer(t)
      /\ (EndsOn(u)' <=> EndsOn(u))
      /\ StartsApart(u) => StartsApart(u)' 
  <2>1. commands # <<>> /\ commands' = Tail(commands)
    BY DEF ProcessCommand
  <2>2. \A t \in Timers : t # u => SameFor(t)
    BY <2>1, <1>c, <1>u, <1>i, TakenElse, Zenon
  <2>3. \A t \in Timers : t # u => SameTimer(t)
    BY <2>2, <1>w DEF SameTimer, SameFor, EndsOn
  <2>4. /\ HasStop(u)
        /\ LastStart(u)' <=> LastStart(u)
        /\ StartsApart(u) => StartsApart(u)'
    BY <2>1, <1>c, <1>u, <1>i, TakenStop, Zenon
  <2> QED BY <2>3, <2>4, <1>w DEF EndsOn
<1>34. now' \in Nat /\ now <= now' /\ Kept' \subseteq Kept
  BY <1>i, <1>v, SMT DEF TypeOK, Kept
<1>41. PICK s : \A r \in Schedules : handle[r] = u \/ timer[u].id = r => r = s
  <2>1. CASE timer[u].id # NONE
    <3>1. \A r \in Schedules : handle[r] = u => r = timer[u].id
      BY <2>1, <1>g, <1>d, <1>i DEF HandleOK
    <3> QED BY <3>1
  <2>2. CASE timer[u].id = NONE /\ \E r \in Schedules : handle[r] = u
    <3>1. PICK r \in Schedules : handle[r] = u
      BY <2>2
    <3>2. \A q \in Schedules : handle[q] = u => q = r
      BY <3>1, <1>g, <1>d, <1>i DEF HandleOK
    <3> QED BY <3>2, <2>2, <1>g
  <2>3. CASE timer[u].id = NONE /\ ~\E r \in Schedules : handle[r] = u
    BY <2>3, <1>g
  <2> QED BY <2>1, <2>2, <2>3
<1>42. timer'[u].left = c.period /\ (c.do = "start" => c.period > 0) /\ c.do = "stop"
  BY <1>w, <1>d
<1>35. ASSUME NEW r \in Kept', r # s
      PROVE  Good(r)'
  <2>1. r \in Kept /\ r \in Schedules /\ r # NONE /\ Good(r)
    BY <1>31, <1>32, <1>34
  <2>2. \A b \in Actors : op[b].s = r \/ op'[b].s = r => op'[b] = op[b]
    BY <1>v
  <2>3. SameMemory(r)
    BY <1>35, <2>1, <1>v, <1>41
  <2>4. (OnFrame(r)' <=> OnFrame(r)) /\ (OnFrame(r) => frame' = frame)
    BY <1>p, <1>v DEF OnFrame
  <2>5. \A t \in Timers : handle[r] = t \/ timer'[t].id = r => SameTimer(t)
    BY <1>33, <1>35, <2>1, <1>41, <1>w
  <2>6. Unmoved(r)
    BY <2>2, <2>3, <2>4, <2>5 DEF Unmoved
  <2> QED BY <1>i, <1>31, <1>34, <2>1, <2>6, Others, Zenon
<1>36. ASSUME s \in Kept'
      PROVE  Good(s)'
  <2>1. Known(s)
    BY <1>32, <1>34, <1>36, <1>i, SMT DEF TypeOK
  <2> USE DEF Good
  <2>2. Good(s)
    BY <1>31, <2>1
  <2>h. PICK h : h = handle[s]
    OBVIOUS
  <2>3. Callback(s, h)
    BY <2>1, <2>h, <1>32, <1>i, SMT DEF Timers, Actors, OpOK
  <2>5. /\ h # 0 => (EndsOn(h)' <=> EndsOn(h))
        /\ h # 0 => \/ timer'[h].state = "dormant"
                    \/ timer'[h].state = timer[h].state /\ timer'[h].left = timer[h].left /\ (HasStop(h)' <=> HasStop(h))
    <3>1. CASE h = u
      BY <3>1, <1>33, <1>42, <1>w
    <3>2. CASE h # u
      BY <3>2, <2>3, <1>33, <1>w DEF SameTimer
    <3> QED BY <3>1, <3>2
  <2>6. ~OnFrame(s) /\ ~OnFrame(s)'
    BY <1>p, <1>v DEF OnFrame
  <2>9. HasNext(s)' <=> HasNext(s)
    BY <1>v DEF HasNext
  <2>11. EnableOn(s)'
    BY <2>1, <2>2, <2>h, <2>3, <1>v, <1>p, SMT DEF EnableOn
  <2>12. EditKept(s)'
    BY <2>1, <2>2, <2>h, <2>3, <1>v, <1>p, SMT DEF EditKept
  <2>13. FrameAlone(s)'
    BY <2>6 DEF FrameAlone
  <2>14. OffOK(s)'
    <3>1. h # 0 => /\ off[s] => ~EndsOn(h)'
                   /\ \A b \in Actors : op[b].s = s =>
                        /\ op[b].call = "enable" /\ op[b].pc \in {"compute", "arm", "change", "stop", "clear"} => ~EndsOn(h)'
                        /\ op[b].call = "init" /\ op[b].pc # "armed" => ~EndsOn(h)'
                        /\ op[b].pc = "clear" => ~EndsOn(h)'
                        /\ op[b].call = "disable" /\ op[b].pc = "armed" => ~EndsOn(h)'
                        /\ op[b].call \in {"enable", "init"} /\ op[b].pc = "armed" /\ b # Daemon =>
                             \/ timer'[h].state = "dormant" \/ timer'[h].left > 0
                             \/ HasStop(h)'
      BY <2>2, <2>h, <2>5, Zenon DEF OffOK
    <3> QED BY <3>1, <2>h, <1>v DEF OffOK
  <2>15. FrameOff(s)'
    BY <2>6 DEF FrameOff
  <2>16. SettledOn(s)'
    BY <2>2, <2>5, <2>6, <2>9, <2>h, <1>v DEF SettledOn, Settled
  <2>17. HasTime(s)'
    <3>1. TimeShown(s)'
      BY <2>2, <2>5, <2>9, <2>h, <1>v DEF HasTime
    <3>2. TimeCalled(s)'
      BY <2>6
    <3>3. TimeArmed(s)'
      BY <2>2, <1>v DEF HasTime
    <3> QED BY <3>1, <3>2, <3>3, Zenon DEF HasTime
  <2>18. Alternate(s)'
    <3>1. ASSUME NEW t \in Timers, timer'[t].id = s, t # u
          PROVE  StartsApart(t)' /\ (timer'[t].state = "active" => StopsFirst(t)')
      BY <3>1, <1>33, <2>2, <1>w DEF Alternate, SameTimer
    <3>2. timer'[u].id = s => StartsApart(u)' /\ (timer'[u].state = "active" => StopsFirst(u)')
      BY <2>2, <1>33, <1>w, <1>d DEF Alternate
    <3> QED BY <3>1, <3>2 DEF Alternate
  <2>19. OnceTime(s)'
    BY <2>1, <2>2, <2>h, <2>3, <1>v, <1>p, SMT DEF OnceTime
  <2>20. NoCallback(s)'
    BY <2>1, <2>2, <2>h, <2>3, <1>v, <1>p, SMT DEF NoCallback
  <2>21. StoredOK(s)'
    BY <2>1, <2>2, <2>h, <2>3, <1>v, <1>p, SMT DEF StoredOK, OneShot
  <2>22. FiredOK(s)'
    <3> SUFFICES ASSUME type[s] \in OneShot, ~off[s], fires[s] > 0
                 PROVE  FiredOK(s)'
      BY <1>v, SMT DEF FiredOK, OneShot
    <3>0. Over(s, h)
      BY <2>2, <2>h DEF FiredOK
    <3>1. (fires[s] = 1 /\ next[s] <= now)'
      BY <3>0, <1>v
    <3>2. (handle[s] # 0 => ~EndsOn(handle[s]))'
      BY <3>0, <2>5, <2>h, <1>v
    <3>3. (OnFrame(s) => frame.at # "enter")'
      BY <2>6
    <3>4. OverDaemon(s)'
      BY <3>0, <1>v
    <3>5. OverStored(s)'
      BY <3>0, <1>v
    <3>6. OverLive(s)'
      BY <3>0, <1>v
    <3>7. OverCalls(s)'
      BY <3>0, <1>v
    <3>8. OverInit(s)'
      BY <3>0, <1>v
    <3>9. OverCheck(s)'
      BY <3>0, <1>v
    <3> QED BY <3>1, <3>2, <3>3, <3>4, <3>5, <3>6, <3>7, <3>8, <3>9, Zenon DEF FiredOK
  <2> QED BY <2>11, <2>12, <2>13, <2>14, <2>15, <2>16, <2>17, <2>18, <2>19, <2>20, <2>21, <2>22, Zenon
<1>37. \A r \in Kept' : Good(r)'
  BY <1>35, <1>36
<1>21. InitAlone'
  BY <1>31, <1>v DEF InitAlone
<1>22. FrameOwn'
  BY <1>p, <1>v DEF FrameOwn
<1> QED
  BY <1>q, <1>11, <1>12, <1>13, <1>14, <1>15, <1>16, <1>17, <1>18, <1>19, <1>21, <1>22, <1>37 DEF IInv, Part1

LEMMA ProcessDeleteKeeps ==
  ASSUME ConstantsOK, ~Preempted, IInv,
         ProcessCommand, Head(commands).do = "delete"
  PROVE  IInv'
<1>i. Parts
  BY DEF IInv, Part1
<1>g. Plain
  BY <1>i, Basics, Zenon
<1>c. PICK c : c = Head(commands)
  OBVIOUS
<1>u. PICK u : u = c.t
  OBVIOUS
<1>d. /\ c \in CommandSet /\ c = commands[1] /\ 1 \in Places /\ c.period \in 0..MaxPeriod
      /\ u \in Timers /\ c.do = "delete" /\ (c.do = "start" => c.period > 0)
  <2>1. c \in CommandSet /\ c = commands[1] /\ 1 \in Places
    BY <1>c, <1>i, Taken, Zenon DEF ProcessCommand
  <2>2. c.do = "start" => c.period > 0
    BY <2>1, <1>i DEF QueueTyped
  <2> QED BY <2>1, <2>2, <1>c, <1>u, SMT DEF CommandSet
<1>r. u \in Timers
  BY <1>d
<1>p. /\ frame = NoFrame /\ frame.at = "idle" /\ frame.s = NONE /\ frame.t = 0
  BY <1>g, SMT DEF ProcessCommand
<1>q. /\ QueueTyped' /\ Len(commands') <= QueueLen
      /\ \A t \in Timers : t # u =>
           /\ Mentions(t)' <=> Mentions(t)
           /\ Deletes(t)' <=> Deletes(t)
           /\ HasStop(t)' <=> HasStop(t)
           /\ LastStart(t)' <=> LastStart(t)
      /\ Mentions(u) /\ Deletes(u) /\ ~Mentions(u)' /\ ~Deletes(u)' 
  <2>1. commands # <<>> /\ commands' = Tail(commands)
    BY DEF ProcessCommand
  <2>2. QueueTyped'
    BY <2>1, <1>i, TakenTyped, Zenon
  <2>3. Len(commands') <= QueueLen
    <3>1. Len(commands') = Len(commands) - 1 /\ Len(commands) \in Nat
      BY <2>1, <1>i, Taken, Zenon
    <3>2. Len(commands) <= QueueLen /\ QueueLen \in Nat
      BY <1>i DEF TypeOK, ConstantsOK
    <3> QED BY <3>1, <3>2, SMT
  <2>4. \A t \in Timers : t # u => SameFor(t)
    BY <2>1, <1>c, <1>u, <1>i, TakenElse, Zenon
  <2>5. Mentions(u) /\ Deletes(u) /\ ~Mentions(u)' /\ ~Deletes(u)'
    BY <2>1, <1>c, <1>u, <1>i, TakenDelete, Zenon
  <2> QED BY <2>2, <2>3, <2>4, <2>5, Zenon DEF SameFor
<1>v. now' = now /\ mem' = mem /\ type' = type /\ next' = next /\ callback' = callback /\ handle' = handle /\ stored' = stored /\ op' = op /\ frame' = frame /\ dispatching' = dispatching /\ deleted' = deleted /\ fires' = fires /\ off' = off /\ lost' = lost
  BY DEF ProcessCommand, memVars, cbVars, ghosts
<1>w. /\ timer'[u].state = "deleted" /\ timer'[u].left = c.period
      /\ timer'[u].id = timer[u].id /\ timer'[u].priv = timer[u].priv
      /\ \A t \in Timers : t # u => timer'[t] = timer[t]
  <2>0. timer \in [Timers -> TimerSet]
    BY <1>i DEF TypeOK, TimerSet
  <2>1. timer' = [timer EXCEPT ![u].state = "deleted", ![u].left = c.period]
    BY <1>c, <1>u DEF ProcessCommand
  <2>2. "deleted" \in {"dormant", "active", "deleted"}
    OBVIOUS
  <2> QED BY <2>0, <2>1, <2>2, <1>d, Processed, Zenon
<1>x. timer' \in [Timers -> TimerSet]
  <2>0. timer \in [Timers -> TimerSet]
    BY <1>i DEF TypeOK, TimerSet
  <2>1. timer' = [timer EXCEPT ![u].state = "deleted", ![u].left = c.period]
    BY <1>c, <1>u DEF ProcessCommand
  <2>2. "deleted" \in {"dormant", "active", "deleted"}
    OBVIOUS
  <2> QED BY <2>0, <2>1, <2>2, <1>d, Processed, Zenon
<1>z. /\ \A b \in Actors : op[b].pc = "publish" => op[b].arg # u
      /\ timer[u].id = NONE /\ \A s \in Schedules : handle[s] # u
  BY <1>i, <1>q, <1>d, <1>g, SMT DEF PublishOK, QueueOK
<1>11. TypeOK'
  BY <1>i, <1>q, <1>v, <1>x, Zenon DEF TypeOK, Timers, TimerSet
<1>12. OpOK'
  BY <1>i, <1>g, <1>c, <1>u, <1>r, <1>v, SMT DEF OpOK, OpSet, Timers, Actors, Daemon
<1>13. TimerOK'
  BY <1>i, <1>g, <1>c, <1>u, <1>r, <1>p, <1>v, <1>w, <1>z, SMT DEF TimerOK, Timers, Alive, Actors, Daemon
<1>14. HandleOK'
  BY <1>i, <1>g, <1>c, <1>u, <1>r, <1>p, <1>q, <1>v, <1>w, <1>z, SMT DEF HandleOK, Alive, Actors, Daemon
<1>15. PublishOK'
  BY <1>i, <1>g, <1>c, <1>u, <1>r, <1>p, <1>q, <1>v, <1>w, <1>z, SMT DEF PublishOK, EndsOn, Actors, Daemon
<1>16. WorkOK'
  BY <1>i, <1>g, <1>c, <1>u, <1>r, <1>p, <1>v, <1>w, <1>z, SMT DEF WorkOK, Actors, Daemon
<1>17. ShareOK'
  BY <1>i, <1>g, <1>c, <1>u, <1>r, <1>p, <1>v, <1>w, <1>z, SMT DEF ShareOK, Actors, Daemon
<1>18. FrameOK'
  BY <1>i, <1>g, <1>c, <1>u, <1>r, <1>p, <1>v, <1>w, <1>z, SMT DEF FrameOK, FrameSet, Timers, Actors, Daemon
<1>19. QueueOK'
  BY <1>i, <1>g, <1>c, <1>u, <1>r, <1>p, <1>q, <1>v, <1>w, <1>z, SMT DEF QueueOK, Timers, Alive, Actors, Daemon
<1>31. InitAlone /\ FrameOwn /\ \A r \in Kept : Good(r)
  BY DEF IInv
<1>32. Around
  BY <1>i, <1>31, Surroundings, Zenon
<1>33. \A t \in Timers : t # u => SameTimer(t)
  <2>1. commands # <<>> /\ commands' = Tail(commands)
    BY DEF ProcessCommand
  <2>2. \A t \in Timers : t # u => SameFor(t)
    BY <2>1, <1>c, <1>u, <1>i, TakenElse, Zenon
  <2> QED BY <2>2, <1>w DEF SameTimer, SameFor, EndsOn
<1>34. now' \in Nat /\ now <= now' /\ Kept' \subseteq Kept
  BY <1>i, <1>v, SMT DEF TypeOK, Kept
<1>35. ASSUME NEW r \in Kept'
      PROVE  Good(r)'
  <2>1. r \in Kept /\ r \in Schedules /\ r # NONE /\ Good(r)
    BY <1>31, <1>32, <1>34
  <2>2. \A b \in Actors : op[b].s = r \/ op'[b].s = r => op'[b] = op[b]
    BY <1>v
  <2>3. SameMemory(r)
    BY <1>35, <2>1, <1>v
  <2>4. (OnFrame(r)' <=> OnFrame(r)) /\ (OnFrame(r) => frame' = frame)
    BY <1>p, <1>v DEF OnFrame
  <2>5. \A t \in Timers : handle[r] = t \/ timer'[t].id = r => SameTimer(t)
    BY <1>33, <1>35, <2>1, <1>z, <1>w
  <2>6. Unmoved(r)
    BY <2>2, <2>3, <2>4, <2>5 DEF Unmoved
  <2> QED BY <1>i, <1>31, <1>34, <2>1, <2>6, Others, Zenon
<1>37. \A r \in Kept' : Good(r)'
  BY <1>35
<1>21. InitAlone'
  BY <1>31, <1>v DEF InitAlone
<1>22. FrameOwn'
  BY <1>p, <1>v DEF FrameOwn
<1> QED
  BY <1>q, <1>11, <1>12, <1>13, <1>14, <1>15, <1>16, <1>17, <1>18, <1>19, <1>21, <1>22, <1>37 DEF IInv, Part1

LEMMA CallbackDetachedKeeps ==
  ASSUME ConstantsOK, ~Preempted, IInv,
         CallbackDetached
  PROVE  IInv'
<1>i. Parts
  BY DEF IInv, Part1
<1>g. Plain
  BY <1>i, Basics, Zenon
<1>p. /\ frame.at = "enter" /\ frame.s = NONE /\ frame.t \in Timers /\ timer[frame.t].state # "none"
      /\ op[Daemon] = Idle /\ dispatching = NONE /\ ~deleted
  BY <1>g, <1>i, SMT DEF CallbackDetached, FrameOK
<1>q. SameQueue
  <2>1. commands' = commands
    BY DEF CallbackDetached, timerVars
  <2> QED BY <2>1, <1>i, Quiet, Zenon
<1>v. now' = now /\ mem' = mem /\ type' = type /\ next' = next /\ callback' = callback /\ handle' = handle /\ stored' = stored /\ timer' = timer /\ op' = op /\ dispatching' = dispatching /\ deleted' = deleted /\ fires' = fires /\ off' = off /\ lost' = lost
  BY DEF CallbackDetached, memVars, timerVars, ghosts
<1>x. frame' = NoFrame /\ NoFrame \in FrameSet
  BY SMT DEF CallbackDetached, NoFrame, FrameSet, ConstantsOK
<1>y. frame'.at = "idle" 
  BY <1>x, <1>g
<1>11. TypeOK'
  BY <1>i, <1>q, <1>v, <1>y, Zenon DEF TypeOK, Timers
<1>12. OpOK'
  BY <1>i, <1>g, <1>v, SMT DEF OpOK, OpSet, Timers, Actors, Daemon
<1>13. TimerOK'
  BY <1>i, <1>g, <1>p, <1>v, <1>x, SMT DEF TimerOK, Timers, Actors, Daemon
<1>14. HandleOK'
  BY <1>i, <1>g, <1>p, <1>q, <1>v, <1>x, SMT DEF HandleOK, Actors, Daemon
<1>15. PublishOK'
  BY <1>i, <1>g, <1>p, <1>q, <1>v, <1>x, SMT DEF PublishOK, EndsOn, Actors, Daemon
<1>16. WorkOK'
  BY <1>i, <1>g, <1>p, <1>v, <1>x, SMT DEF WorkOK, Actors, Daemon
<1>17. ShareOK'
  BY <1>i, <1>g, <1>p, <1>v, <1>x, SMT DEF ShareOK, Actors, Daemon
<1>18. FrameOK'
  BY <1>i, <1>g, <1>p, <1>v, <1>x, SMT DEF FrameOK, FrameSet, Timers, Actors, Daemon
<1>19. QueueOK'
  BY <1>i, <1>g, <1>p, <1>q, <1>v, <1>x, SMT DEF QueueOK, Timers, Actors, Daemon
<1>31. InitAlone /\ FrameOwn /\ \A r \in Kept : Good(r)
  BY DEF IInv
<1>32. Around
  BY <1>i, <1>31, Surroundings, Zenon
<1>33. \A t \in Timers : SameTimer(t)
  <2>1. commands' = commands
    BY <1>q
  <2>2. \A t \in Timers : Kin(t)
    BY <1>v DEF Kin
  <2> QED BY <2>1, <2>2, <1>i, TimersSame, Zenon
<1>34. now' \in Nat /\ now <= now' /\ Kept' \subseteq Kept
  BY <1>i, <1>v, SMT DEF TypeOK, Kept
<1>35. ASSUME NEW r \in Kept'
      PROVE  Good(r)'
  <2>1. r \in Kept /\ r \in Schedules /\ r # NONE /\ Good(r)
    BY <1>31, <1>32, <1>34
  <2>2. \A b \in Actors : op[b].s = r \/ op'[b].s = r => op'[b] = op[b]
    BY <1>v
  <2>3. SameMemory(r)
    BY <1>35, <2>1, <1>v
  <2>4. (OnFrame(r)' <=> OnFrame(r)) /\ (OnFrame(r) => frame' = frame)
    BY <2>1, <1>x, <1>g DEF OnFrame, CallbackDetached
  <2>5. \A t \in Timers : handle[r] = t \/ timer'[t].id = r => SameTimer(t)
    BY <1>33
  <2>6. Unmoved(r)
    BY <2>2, <2>3, <2>4, <2>5 DEF Unmoved
  <2> QED BY <1>i, <1>31, <1>34, <2>1, <2>6, Others, Zenon
<1>37. \A r \in Kept' : Good(r)'
  BY <1>35
<1>21. InitAlone'
  BY <1>31, <1>v DEF InitAlone
<1>22. FrameOwn'
  BY <1>x, <1>g DEF FrameOwn
<1> QED
  BY <1>q, <1>11, <1>12, <1>13, <1>14, <1>15, <1>16, <1>17, <1>18, <1>19, <1>21, <1>22, <1>37 DEF IInv, Part1

LEMMA CallbackSliceKeeps ==
  ASSUME ConstantsOK, ~Preempted, IInv,
         CallbackSlice
  PROVE  IInv'
<1>i. Parts
  BY DEF IInv, Part1
<1>g. Plain
  BY <1>i, Basics, Zenon
<1>u. PICK u : u = frame.t
  OBVIOUS
<1>p. /\ frame.at = "enter" /\ frame.s = NONE /\ frame.t \in Timers /\ timer[frame.t].state # "none"
      /\ op[Daemon] = Idle /\ dispatching = NONE /\ ~deleted
  BY <1>g, <1>i, SMT DEF CallbackSlice, FrameOK
<1>r. u \in Timers /\ u # 0 /\ timer[u].id # NONE /\ timer[u].id \in Schedules
  BY <1>g, <1>p, <1>u DEF CallbackSlice
<1>z. ~Deletes(u) /\ (\A b \in Actors : op[b].pc = "publish" => op[b].arg # u)
  BY <1>r, <1>u, <1>i DEF QueueOK, PublishOK
<1>n. timer[u].remaining \in Nat /\ timer[u].remaining > 0
  <2>1. timer[u].remaining \in Nat
    BY <1>i, <1>r, SMT DEF TypeOK
  <2> QED BY <2>1, <1>u DEF CallbackSlice
<1>q. /\ QueueTyped' /\ Len(commands') <= QueueLen
      /\ \A t \in Timers : t # u \/ Full =>
           /\ Mentions(t)' <=> Mentions(t)
           /\ Deletes(t)' <=> Deletes(t)
           /\ HasStop(t)' <=> HasStop(t)
           /\ LastStart(t)' <=> LastStart(t)
      /\ ~Full =>
           /\ Mentions(u)' /\ LastStart(u)'
           /\ Deletes(u)' <=> Deletes(u)
           /\ HasStop(u)' <=> HasStop(u)
  <2>1. Clamp(timer[u].remaining) \in 1..MaxPeriod
    BY <1>n, Clamped, Zenon
  <2>2. Post(Command("start", u, Clamp(timer[u].remaining)))
    BY <1>u DEF CallbackSlice
  <2>3. Len(commands) <= QueueLen
    BY <1>i DEF TypeOK
  <2> QED BY <2>1, <2>2, <2>3, <1>i, <1>r, <1>z, StartPosted, Zenon
<1>v. now' = now /\ mem' = mem /\ type' = type /\ next' = next /\ callback' = callback /\ handle' = handle /\ stored' = stored /\ op' = op /\ dispatching' = dispatching /\ deleted' = deleted /\ fires' = fires /\ off' = off
  BY DEF CallbackSlice, memVars
<1>w. \A t \in Timers : /\ timer'[t].state = timer[t].state /\ timer'[t].left = timer[t].left
                           /\ timer'[t].id = timer[t].id /\ timer'[t].priv = timer[t].priv
  <2>0. timer \in [Timers -> TimerSet]
    BY <1>i DEF TypeOK, TimerSet
  <2>1. PICK n \in Nat : n = timer[u].remaining - Clamp(timer[u].remaining)
    BY <1>n, Clamped, Zenon
  <2>2. CASE Full
    BY <2>2 DEF CallbackSlice
  <2>3. CASE ~Full
    <3>1. timer' = [timer EXCEPT ![u].remaining = n]
      BY <2>1, <2>3, <1>u DEF CallbackSlice
    <3>2. /\ timer'[u].state = timer[u].state /\ timer'[u].left = timer[u].left
          /\ timer'[u].id = timer[u].id /\ timer'[u].priv = timer[u].priv
          /\ \A t \in Timers : t # u => timer'[t] = timer[t]
      BY ONLY <3>1, <2>0, <1>r, n \in Nat, Sliced, Zenon
    <3> QED BY <3>2, Zenon
  <2> QED BY <2>2, <2>3
<1>x. frame' = NoFrame /\ NoFrame \in FrameSet
  BY SMT DEF CallbackSlice, NoFrame, FrameSet, ConstantsOK
<1>y. frame'.at = "idle" /\ timer' \in [Timers -> TimerSet] /\ lost' \subseteq Schedules
  <2>0. timer \in [Timers -> TimerSet]
    BY <1>i DEF TypeOK, TimerSet
  <2>1. PICK n \in Nat : n = timer[u].remaining - Clamp(timer[u].remaining)
    BY <1>n, Clamped, Zenon
  <2>2. CASE Full
    BY <2>0, <2>2, <1>i, <1>r, <1>u, <1>g DEF CallbackSlice, Lose, TypeOK
  <2>3. CASE ~Full
    <3>1. timer' = [timer EXCEPT ![u].remaining = n]
      BY <2>1, <2>3, <1>u DEF CallbackSlice
    <3>2. timer' \in [Timers -> TimerSet]
      BY ONLY <3>1, <2>0, <1>r, n \in Nat, Sliced, Zenon
    <3> QED BY <2>3, <3>2, <1>i, <1>r, <1>g DEF CallbackSlice, Lose, TypeOK
  <2> QED BY <2>2, <2>3
<1>11. TypeOK'
  BY <1>i, <1>q, <1>v, <1>y, Zenon DEF TypeOK, Timers, TimerSet
<1>12. OpOK'
  BY <1>i, <1>g, <1>u, <1>r, <1>v, SMT DEF OpOK, OpSet, Timers, Actors, Daemon
<1>13. TimerOK'
  BY <1>i, <1>g, <1>u, <1>p, <1>r, <1>v, <1>w, <1>x, SMT DEF TimerOK, Timers, Actors, Daemon
<1>14. HandleOK'
  BY <1>i, <1>g, <1>u, <1>p, <1>r, <1>z, <1>q, <1>v, <1>w, <1>x, SMT DEF HandleOK, Actors, Daemon
<1>15. PublishOK'
  BY <1>i, <1>g, <1>u, <1>p, <1>r, <1>z, <1>q, <1>v, <1>w, <1>x, SMT DEF PublishOK, EndsOn, Actors, Daemon
<1>16. WorkOK'
  BY <1>i, <1>g, <1>u, <1>p, <1>r, <1>v, <1>w, <1>x, SMT DEF WorkOK, Actors, Daemon
<1>17. ShareOK'
  BY <1>i, <1>g, <1>u, <1>p, <1>r, <1>v, <1>w, <1>x, SMT DEF ShareOK, Actors, Daemon
<1>18. FrameOK'
  BY <1>i, <1>g, <1>u, <1>p, <1>r, <1>z, <1>v, <1>w, <1>x, SMT DEF FrameOK, FrameSet, Timers, Actors, Daemon
<1>19. QueueOK'
  BY <1>i, <1>g, <1>u, <1>p, <1>r, <1>z, <1>q, <1>v, <1>w, <1>x, SMT DEF QueueOK, Timers, TimerOK, Actors, Daemon
<1>31. InitAlone /\ FrameOwn /\ \A r \in Kept : Good(r)
  BY DEF IInv
<1>32. Around
  BY <1>i, <1>31, Surroundings, Zenon
<1>33. 
      /\ \A t \in Timers : t # u \/ Full => SameTimer(t)
      /\ ~Full => /\ EndsOn(u)' /\ (HasStop(u)' <=> HasStop(u))
                  /\ StartsApart(u) /\ ~LastStart(u) => StartsApart(u)'
                  /\ StopsFirst(u) /\ HasStop(u) => StopsFirst(u)' 
  <2>1. \A t \in Timers : Kin(t)
    BY <1>w DEF Kin
  <2>2. PICK n : n = Clamp(timer[u].remaining)
    OBVIOUS
  <2>3. n \in 1..MaxPeriod
    BY <2>2, <1>n, Clamped, Zenon
  <2>4. Post(Command("start", u, n))
    BY <2>2, <1>u DEF CallbackSlice
  <2>5. Len(commands) <= QueueLen
    BY <1>i DEF TypeOK
  <2>6. /\ \A t \in Timers : Kin(t) /\ (t # u \/ Full) => SameTimer(t)
        /\ ~Full => /\ EndsOn(u)' /\ (HasStop(u)' <=> HasStop(u))
                    /\ StartsApart(u) /\ ~LastStart(u) => StartsApart(u)'
                    /\ StopsFirst(u) /\ HasStop(u) => StopsFirst(u)'
    BY <2>3, <2>4, <2>5, <1>i, <1>r, <1>z, TimersStart, Zenon
  <2> QED BY <2>1, <2>6
<1>34. now' \in Nat /\ now <= now' /\ Kept' \subseteq Kept
  BY <1>i, <1>v, <1>u, SMT DEF TypeOK, Kept, CallbackSlice, Lose
<1>41. PICK s : s = timer[u].id
  OBVIOUS
<1>42. 
      /\ s \in Schedules /\ s # NONE /\ (Full => s \notin Kept') /\ handle[s] = u
      /\ \A r \in Schedules : handle[r] = u => r = s
  <2>1. s \in Schedules /\ s # NONE
    BY <1>41, <1>r
  <2>2. Full => s \notin Kept'
    BY <1>41, <1>u DEF CallbackSlice, Lose, Kept
  <2>3. handle[s] = u
    <3>1. handle[s] = u \/ \E b \in Actors : op[b].pc = "publish" /\ op[b].s = s /\ op[b].arg = u
      BY <1>41, <1>r, <1>i DEF TimerOK
    <3> QED BY <3>1, <1>z
  <2>4. \A r \in Schedules : handle[r] = u => r = s
    BY <2>1, <2>3, <1>r, <1>i, SMT DEF HandleOK
  <2> QED BY <2>1, <2>2, <2>3, <2>4
<1>43. timer[u].state \in {"dormant", "active"}
  BY <1>r, <1>41, <1>42, <1>i DEF TimerOK, Alive
<1>35. ASSUME NEW r \in Kept', r # s
      PROVE  Good(r)'
  <2>1. r \in Kept /\ r \in Schedules /\ r # NONE /\ Good(r)
    BY <1>31, <1>32, <1>34
  <2>2. \A b \in Actors : op[b].s = r \/ op'[b].s = r => op'[b] = op[b]
    BY <1>v
  <2>3. SameMemory(r)
    BY <1>35, <2>1, <1>v, <1>42
  <2>4. (OnFrame(r)' <=> OnFrame(r)) /\ (OnFrame(r) => frame' = frame)
    BY <1>35, <2>1, <1>p, <1>u, <1>41, <1>x, <1>g DEF OnFrame
  <2>5. \A t \in Timers : handle[r] = t \/ timer'[t].id = r => SameTimer(t)
    BY <1>33, <1>35, <2>1, <1>42, <1>41, <1>w
  <2>6. Unmoved(r)
    BY <2>2, <2>3, <2>4, <2>5 DEF Unmoved
  <2> QED BY <1>i, <1>31, <1>34, <2>1, <2>6, Others, Zenon
<1>36. ASSUME s \in Kept'
      PROVE  Good(s)'
  <2>1. Known(s)
    BY <1>32, <1>34, <1>36, <1>i, SMT DEF TypeOK
  <2> USE DEF Good
  <2>2. Good(s)
    BY <1>31, <2>1
  <2>h. PICK h : h = handle[s]
    OBVIOUS
  <2>3. Callback(s, h)
    BY <2>1, <2>h, <1>32, <1>i, SMT DEF Timers, Actors, OpOK
  <2>5. EndsOn(u)' /\ timer'[u].state = timer[u].state /\ timer'[u].left = timer[u].left /\ (HasStop(u)' <=> HasStop(u))
    BY <1>33, <1>36, <1>42, <1>w, <1>r
  <2>6. OnFrame(s) /\ ~OnFrame(s)' /\ frame.at = "enter" /\ frame.t = u /\ h = u /\ h # 0 /\ ~Full
    BY <2>h, <1>36, <1>u, <1>r, <1>41, <1>42, <1>p, <1>x, <1>g DEF OnFrame
  <2>7. /\ ~EndsOn(h) /\ next[s] > 0 /\ ~off[s]
        /\ \A b \in Actors : op[b].s = s => op[b].call = "delete" /\ op[b].pc \in DeletePcs
    <3>1. ~EndsOn(h)
      BY <2>2, <2>6, SMT DEF FrameOff
    <3>2. next[s] > 0
      BY <2>2, <2>6, SMT DEF HasTime
    <3>3. ~off[s] /\ \A b \in Actors : op[b].s = s => op[b].call \in {"delete", "rearm"}
      BY <2>2, <2>6 DEF FrameAlone
    <3>4. \A b \in Actors : op[b].s = s => op[b].call # "rearm"
      BY <2>1, <2>3, <1>p, <1>g
    <3> QED BY <3>1, <3>2, <3>3, <3>4, <1>32
  <2>11. EnableOn(s)'
    BY <2>7, <1>v, SMT DEF EnableOn
  <2>12. EditKept(s)'
    BY <2>1, <2>2, <2>h, <2>3, <1>v, <1>p, <2>7, SMT DEF EditKept
  <2>13. FrameAlone(s)'
    BY <2>6 DEF FrameAlone
  <2>14. OffOK(s)'
    <3>1. ~off'[s] /\ \A b \in Actors : op'[b].s = s => op'[b].call = "delete" /\ op'[b].pc # "clear"
      BY <2>7, <1>v, SMT DEF DeletePcs
    <3> QED BY <3>1, SMT DEF OffOK
  <2>15. FrameOff(s)'
    BY <2>6 DEF FrameOff
  <2>16. SettledOn(s)'
    BY <2>5, <2>6, <2>h, <1>v DEF SettledOn
  <2>17. HasTime(s)'
    <3>1. TimeShown(s)'
      BY <2>7, <1>v DEF HasNext
    <3>2. TimeCalled(s)'
      BY <2>7, <1>v
    <3>3. TimeArmed(s)'
      BY <2>7, <1>v
    <3> QED BY <3>1, <3>2, <3>3, Zenon DEF HasTime
  <2>18. Alternate(s)'
    <3>1. ASSUME NEW t \in Timers, timer'[t].id = s, t # u
          PROVE  StartsApart(t)' /\ (timer'[t].state = "active" => StopsFirst(t)')
      BY <3>1, <1>33, <1>w, <2>2 DEF Alternate, SameTimer
    <3>2. StartsApart(u) /\ (timer[u].state = "active" => StopsFirst(u))
      BY <2>2, <1>41, <1>r DEF Alternate
    <3>3. ~LastStart(u) /\ (timer[u].state = "active" => HasStop(u))
      BY <2>6, <2>7 DEF EndsOn
    <3>4. StartsApart(u)' /\ (timer'[u].state = "active" => StopsFirst(u)')
      BY <3>2, <3>3, <2>5, <2>6, <1>33
    <3> QED BY <3>1, <3>4 DEF Alternate
  <2>19. OnceTime(s)'
    BY <2>2, <1>v DEF OnceTime
  <2>20. NoCallback(s)'
    BY <2>2, <1>v DEF NoCallback
  <2>21. StoredOK(s)'
    BY <2>2, <1>v DEF StoredOK
  <2>22. FiredOK(s)'
    <3>1. ~(type[s] \in OneShot /\ ~off[s] /\ fires[s] > 0)
      BY <2>2, <2>6, SMT DEF FiredOK
    <3> QED BY <3>1, <1>v, SMT DEF FiredOK, OneShot
  <2> QED BY <2>11, <2>12, <2>13, <2>14, <2>15, <2>16, <2>17, <2>18, <2>19, <2>20, <2>21, <2>22, Zenon
<1>37. \A r \in Kept' : Good(r)'
  BY <1>35, <1>36
<1>21. InitAlone'
  BY <1>31, <1>v DEF InitAlone
<1>22. FrameOwn'
  BY <1>x, <1>g DEF FrameOwn
<1> QED
  BY <1>q, <1>11, <1>12, <1>13, <1>14, <1>15, <1>16, <1>17, <1>18, <1>19, <1>21, <1>22, <1>37 DEF IInv, Part1

LEMMA CallbackRearmsKeeps ==
  ASSUME ConstantsOK, ~Preempted, IInv,
         CallbackRearms
  PROVE  IInv'
<1>i. Parts
  BY DEF IInv, Part1
<1>g. Plain
  BY <1>i, Basics, Zenon
<1>u. PICK u : u = frame.t
  OBVIOUS
<1>s. PICK s : s = timer[u].id
  OBVIOUS
<1>p. /\ frame.at = "enter" /\ frame.s = NONE /\ frame.t \in Timers /\ timer[frame.t].state # "none"
      /\ op[Daemon] = Idle /\ dispatching = NONE /\ ~deleted
  BY <1>g, <1>i, SMT DEF CallbackRearms, FrameOK
<1>r. u \in Timers /\ u # 0 /\ timer[u].id = s /\ s \in Schedules
  BY <1>g, <1>p, <1>u, <1>s DEF CallbackRearms, Running
<1>n. /\ handle[s] = u /\ mem[s] = "live" /\ timer[u].state # "none"
      /\ \A b \in Actors : op[b].pc = "publish" => op[b].arg # u
  <2>1. \A b \in Actors : op[b].pc = "publish" => op[b].arg # u
    BY <1>u, <1>i DEF PublishOK
  <2>2. timer[u].id # NONE
    BY <1>r, <1>g
  <2>3. /\ mem[s] = "live" /\ timer[u].state \in Alive
        /\ handle[s] = u \/ \E b \in Actors : op[b].pc = "publish" /\ op[b].s = s /\ op[b].arg = u
    BY <2>2, <1>r, <1>i, Zenon DEF TimerOK
  <2> QED BY <2>1, <2>3 DEF Alive
<1>o. /\ op'[Daemon].call = "rearm" /\ op'[Daemon].s = s /\ op'[Daemon].pc = "compute" /\ op'[Daemon].arg = 0
      /\ \A b \in Actors : b # Daemon => op'[b] = op[b]
  <2>1. PICK r : r = [call |-> "rearm", s |-> s, pc |-> "compute", arg |-> 0]
    OBVIOUS
  <2>2. op' = [op EXCEPT ![Daemon] = r]
    BY <2>1, <1>u, <1>s DEF CallbackRearms
  <2>3. r \in OpSet /\ r.call = "rearm" /\ r.s = s /\ r.pc = "compute" /\ r.arg = 0
    BY <2>1, <1>r, SMT DEF OpSet, Kinds, Pcs
  <2>4. Daemon \in Actors
    BY DEF Actors
  <2>5. /\ op'[Daemon] = r /\ \A b \in Actors : b # Daemon => op'[b] = op[b]
        /\ op' \in [Actors -> OpSet]
    BY <2>2, <2>3, <2>4, <1>i, Became, Zenon
  <2> QED BY <2>3, <2>5
<1>k. op' \in [Actors -> OpSet] /\ PcOK("rearm", "compute")
  <2>k. PcOK("rearm", "compute")
    BY DEF PcOK
  <2>1. PICK r : r = [call |-> "rearm", s |-> s, pc |-> "compute", arg |-> 0]
    OBVIOUS
  <2>2. op' = [op EXCEPT ![Daemon] = r]
    BY <2>1, <1>u, <1>s DEF CallbackRearms
  <2>3. r \in OpSet /\ r.call = "rearm" /\ r.s = s /\ r.pc = "compute" /\ r.arg = 0
    BY <2>1, <1>r, SMT DEF OpSet, Kinds, Pcs
  <2>4. Daemon \in Actors
    BY DEF Actors
  <2>5. /\ op'[Daemon] = r /\ \A b \in Actors : b # Daemon => op'[b] = op[b]
        /\ op' \in [Actors -> OpSet]
    BY <2>2, <2>3, <2>4, <1>i, Became, Zenon
  <2>j. op' \in [Actors -> OpSet]
    BY <2>3, <2>5
  <2> QED BY <2>j, <2>k
<1>q. SameQueue
  <2>1. commands' = commands
    BY DEF CallbackRearms, timerVars
  <2> QED BY <2>1, <1>i, Quiet, Zenon
<1>v. now' = now /\ mem' = mem /\ type' = type /\ next' = next /\ callback' = callback /\ handle' = handle /\ stored' = stored /\ timer' = timer /\ dispatching' = dispatching /\ deleted' = deleted /\ fires' = fires /\ off' = off /\ lost' = lost
  BY DEF CallbackRearms, memVars, timerVars, ghosts
<1>x. frame'.t = u /\ frame'.s = s /\ frame'.at = "rearm" /\ frame' \in FrameSet
  <2>1. frame' = [frame EXCEPT !.s = s, !.at = "rearm"]
    BY <1>u, <1>s DEF CallbackRearms
  <2>2. frame \in FrameSet
    BY <1>i DEF FrameOK
  <2> QED BY <2>1, <2>2, <1>r, <1>u, TurnsTo, Zenon
<1>y. frame'.at = "rearm" 
  BY <1>x
<1>11. TypeOK'
  BY <1>i, <1>q, <1>v, <1>y, Zenon DEF TypeOK, Timers
<1>12. OpOK'
  BY <1>i, <1>g, <1>u, <1>s, <1>r, <1>o, <1>k, <1>v, SMT DEF OpOK, OpSet, Timers, Actors, Daemon
<1>13. TimerOK'
  BY <1>i, <1>g, <1>u, <1>s, <1>p, <1>r, <1>n, <1>o, <1>v, <1>x, SMT DEF TimerOK, Timers, Actors, Daemon
<1>14. HandleOK'
  BY <1>i, <1>g, <1>u, <1>s, <1>p, <1>r, <1>n, <1>o, <1>q, <1>v, <1>x, SMT DEF HandleOK, Actors, Daemon
<1>15. PublishOK'
  BY <1>i, <1>g, <1>u, <1>s, <1>p, <1>r, <1>n, <1>o, <1>q, <1>v, <1>x, SMT DEF PublishOK, EndsOn, Actors, Daemon
<1>16. WorkOK'
  BY <1>i, <1>g, <1>u, <1>s, <1>p, <1>r, <1>n, <1>o, <1>v, <1>x, SMT DEF WorkOK, Actors, Daemon
<1>17. ShareOK'
  BY <1>i, <1>g, <1>u, <1>s, <1>p, <1>r, <1>n, <1>o, <1>v, <1>x, SMT DEF ShareOK, Actors, Daemon
<1>18. FrameOK'
  BY <1>i, <1>g, <1>u, <1>s, <1>p, <1>r, <1>n, <1>o, <1>v, <1>x, SMT DEF FrameOK, FrameSet, Timers, Idle, Actors, Daemon
<1>19. QueueOK'
  BY <1>i, <1>g, <1>u, <1>s, <1>p, <1>r, <1>n, <1>o, <1>q, <1>v, <1>x, SMT DEF QueueOK, Timers, Actors, Daemon
<1>31. InitAlone /\ FrameOwn /\ \A r \in Kept : Good(r)
  BY DEF IInv
<1>32. Around
  BY <1>i, <1>31, Surroundings, Zenon
<1>33. \A t \in Timers : SameTimer(t)
  <2>1. commands' = commands
    BY <1>q
  <2>2. \A t \in Timers : Kin(t)
    BY <1>v DEF Kin
  <2> QED BY <2>1, <2>2, <1>i, TimersSame, Zenon
<1>34. now' \in Nat /\ now <= now' /\ Kept' \subseteq Kept
  BY <1>i, <1>v, SMT DEF TypeOK, Kept
<1>35. ASSUME NEW r \in Kept', r # s
      PROVE  Good(r)'
  <2>1. r \in Kept /\ r \in Schedules /\ r # NONE /\ Good(r)
    BY <1>31, <1>32, <1>34
  <2>2. \A b \in Actors : op[b].s = r \/ op'[b].s = r => op'[b] = op[b]
    BY <1>35, <2>1, <1>p, <1>o, <1>g
  <2>3. SameMemory(r)
    BY <1>35, <2>1, <1>v
  <2>4. (OnFrame(r)' <=> OnFrame(r)) /\ (OnFrame(r) => frame' = frame)
    BY <1>35, <2>1, <1>p, <1>u, <1>r, <1>x, <1>v DEF OnFrame
  <2>5. \A t \in Timers : handle[r] = t \/ timer'[t].id = r => SameTimer(t)
    BY <1>33
  <2>6. Unmoved(r)
    BY <2>2, <2>3, <2>4, <2>5 DEF Unmoved
  <2> QED BY <1>i, <1>31, <1>34, <2>1, <2>6, Others, Zenon
<1>36. ASSUME s \in Kept'
      PROVE  Good(s)'
  <2>1. Known(s)
    BY <1>32, <1>34, <1>36, <1>i, SMT DEF TypeOK
  <2> USE DEF Good
  <2>2. Good(s)
    BY <1>31, <2>1
  <2>h. PICK h : h = handle[s]
    OBVIOUS
  <2>3. Callback(s, h)
    BY <2>1, <2>h, <1>32, <1>i, SMT DEF Timers, Actors, OpOK
  <2>5. SameRun(h)
    BY <2>3, <1>33, <1>v DEF SameTimer
  <2>6. OnFrame(s) /\ OnFrame(s)' /\ frame.at = "enter" /\ frame'.at = "rearm" /\ frame.t = u /\ frame'.t = u /\ h = u /\ h # 0
    BY <2>h, <1>u, <1>r, <1>n, <1>p, <1>x, <1>v DEF OnFrame
  <2>7. /\ ~EndsOn(h) /\ next[s] > 0 /\ ~off[s]
        /\ \A b \in Actors : op[b].s = s => op[b].call = "delete" /\ op[b].pc \in DeletePcs
    <3>1. ~EndsOn(h)
      BY <2>2, <2>6, SMT DEF FrameOff
    <3>2. next[s] > 0
      BY <2>2, <2>6, SMT DEF HasTime
    <3>3. ~off[s] /\ \A b \in Actors : op[b].s = s => op[b].call \in {"delete", "rearm"}
      BY <2>2, <2>6 DEF FrameAlone
    <3>4. \A b \in Actors : op[b].s = s => op[b].call # "rearm"
      BY <2>1, <2>3, <1>p, <1>g
    <3> QED BY <3>1, <3>2, <3>3, <3>4, <1>32
  <2>8. /\ \A b \in Actors : op'[b].s = s /\ b # Daemon => op'[b] = op[b] /\ op[b].s = s
        /\ \A b \in Tasks : op'[b] = op[b] /\ b \in Actors
        /\ op'[Daemon].s = s /\ op'[Daemon].call = "rearm" /\ op'[Daemon].pc = "compute"
        /\ \A b \in Actors : op'[b].s = s /\ b # Daemon => op'[b].call = "delete" /\ op'[b].pc \in DeletePcs
    <3>1. \A b \in Actors : b # Daemon => op'[b] = op[b]
      BY <1>o
    <3>2. \A b \in Tasks : b \in Actors /\ b # Daemon
      BY DEF Actors, Daemon, ConstantsOK
    <3> QED BY <3>1, <3>2, <1>o, <2>7
  <2>11. EnableOn(s)'
    BY <2>8, SMT DEF EnableOn
  <2>12. EditKept(s)'
    BY <2>8, SMT DEF EditKept, DeletePcs
  <2>13. FrameAlone(s)'
    BY <2>7, <2>8, <1>v, SMT DEF FrameAlone
  <2>14. OffOK(s)'
    <3>1. ~off'[s] /\ \A b \in Actors : op'[b].s = s => op'[b].call \in {"delete", "rearm"} /\ op'[b].pc # "clear"
      BY <2>7, <2>8, <1>v, SMT DEF DeletePcs
    <3> QED BY <3>1, SMT DEF OffOK
  <2>15. FrameOff(s)'
    BY <2>5, <2>6, <2>7, SMT DEF FrameOff
  <2>16. SettledOn(s)'
    <3>1. ~Settled(s)'
      BY <2>3, <2>8, SMT DEF Settled
    <3> QED BY <3>1 DEF SettledOn
  <2>17. HasTime(s)'
    <3>1. TimeShown(s)'
      BY <2>5, <2>6, <2>7, <2>h, <1>v
    <3>2. TimeCalled(s)'
      BY <2>7, <1>v
    <3>3. TimeArmed(s)'
      BY <2>7, <1>v
    <3> QED BY <3>1, <3>2, <3>3, Zenon DEF HasTime
  <2>18. Alternate(s)'
    BY <2>1, <2>2, <2>h, <2>3, <1>33, <1>v, <1>p, <2>7, <2>8, SMT DEF Alternate, SameTimer
  <2>19. OnceTime(s)'
    BY <2>2, <1>v DEF OnceTime
  <2>20. NoCallback(s)'
    BY <2>2, <2>8, <1>v, SMT DEF NoCallback
  <2>21. StoredOK(s)'
    <3>1. \A b \in Actors : op[b].s = s => op[b].call # "enable"
      BY <2>7
    <3> QED BY <3>1, <2>2, <1>v DEF StoredOK
  <2>22. FiredOK(s)'
    <3>1. ~(type[s] \in OneShot /\ ~off[s] /\ fires[s] > 0)
      BY <2>2, <2>6, SMT DEF FiredOK
    <3> QED BY <3>1, <1>v, SMT DEF FiredOK, OneShot
  <2> QED BY <2>11, <2>12, <2>13, <2>14, <2>15, <2>16, <2>17, <2>18, <2>19, <2>20, <2>21, <2>22, Zenon
<1>37. \A r \in Kept' : Good(r)'
  BY <1>35, <1>36
<1>21. InitAlone'
  BY <1>31, <1>v, <1>o, SMT DEF InitAlone, Actors, Daemon, ConstantsOK
<1>22. FrameOwn'
  BY <1>x, <1>r, <1>v DEF FrameOwn
<1> QED
  BY <1>q, <1>11, <1>12, <1>13, <1>14, <1>15, <1>16, <1>17, <1>18, <1>19, <1>21, <1>22, <1>37 DEF IInv, Part1

LEMMA TriggerKeeps ==
  ASSUME ConstantsOK, ~Preempted, IInv,
         Trigger
  PROVE  IInv'
<1>i. Parts
  BY DEF IInv, Part1
<1>g. Plain
  BY <1>i, Basics, Zenon
<1>u. PICK u : u = frame.t
  OBVIOUS
<1>s. PICK s : s = timer[u].id
  OBVIOUS
<1>p. /\ frame.at = "enter" /\ frame.s = NONE /\ frame.t \in Timers /\ timer[frame.t].state # "none"
      /\ op[Daemon] = Idle /\ dispatching = NONE /\ ~deleted
  BY <1>g, <1>i, SMT DEF Trigger, FrameOK
<1>r. u \in Timers /\ u # 0 /\ timer[u].id = s /\ s \in Schedules
  BY <1>g, <1>p, <1>u, <1>s DEF Trigger, Running
<1>n. /\ handle[s] = u /\ mem[s] = "live" /\ timer[u].state # "none"
      /\ \A b \in Actors : op[b].pc = "publish" => op[b].arg # u
  <2>1. \A b \in Actors : op[b].pc = "publish" => op[b].arg # u
    BY <1>u, <1>i DEF PublishOK
  <2>2. timer[u].id # NONE
    BY <1>r, <1>g
  <2>3. /\ mem[s] = "live" /\ timer[u].state \in Alive
        /\ handle[s] = u \/ \E b \in Actors : op[b].pc = "publish" /\ op[b].s = s /\ op[b].arg = u
    BY <2>2, <1>r, <1>i, Zenon DEF TimerOK
  <2> QED BY <2>1, <2>3 DEF Alive
<1>q. SameQueue
  <2>1. commands' = commands
    BY DEF Trigger, timerVars
  <2> QED BY <2>1, <1>i, Quiet, Zenon
<1>v. now' = now /\ mem' = mem /\ type' = type /\ next' = next /\ callback' = callback /\ handle' = handle /\ stored' = stored /\ timer' = timer /\ op' = op /\ off' = off /\ lost' = lost
  BY DEF Trigger, memVars, timerVars
<1>x. frame'.t = u /\ frame'.s = s /\ frame'.at = "trigger" /\ frame' \in FrameSet
  <2>1. frame' = [frame EXCEPT !.s = s, !.at = "trigger"]
    BY <1>u, <1>s DEF Trigger
  <2>2. frame \in FrameSet
    BY <1>i DEF FrameOK
  <2> QED BY <2>1, <2>2, <1>r, <1>u, TurnsTo, Zenon
<1>w. dispatching' = s /\ ~deleted'
  BY <1>u, <1>s DEF Trigger
<1>y. frame'.at = "trigger" /\ dispatching' \in Schedules \cup {NONE} /\ deleted' \in BOOLEAN /\ fires' \in [Schedules -> Nat]
  <2>1. fires \in [Schedules -> Nat]
    BY <1>i DEF TypeOK
  <2>1a. fires' = [fires EXCEPT ![s] = fires[s] + 1]
    BY <1>u, <1>s DEF Trigger
  <2>1b. fires[s] + 1 \in Nat
    BY <2>1, <1>r, SMT
  <2>2. fires' \in [Schedules -> Nat]
    BY <2>1, <2>1a, <2>1b, <1>r, Zenon
  <2>3. deleted' \in BOOLEAN
    BY DEF Trigger
  <2>4. dispatching' \in Schedules \cup {NONE}
    BY <1>w, <1>r
  <2> QED BY <2>2, <2>3, <2>4, <1>x
<1>11. TypeOK'
  BY <1>i, <1>q, <1>v, <1>y, Zenon DEF TypeOK, Timers
<1>12. OpOK'
  BY <1>i, <1>g, <1>u, <1>s, <1>r, <1>v, SMT DEF OpOK, OpSet, Timers, Actors, Daemon
<1>13. TimerOK'
  BY <1>i, <1>g, <1>u, <1>s, <1>p, <1>r, <1>n, <1>v, <1>x, <1>w, SMT DEF TimerOK, Timers, Actors, Daemon
<1>14. HandleOK'
  BY <1>i, <1>g, <1>u, <1>s, <1>p, <1>r, <1>n, <1>q, <1>v, <1>x, <1>w, SMT DEF HandleOK, Actors, Daemon
<1>15. PublishOK'
  BY <1>i, <1>g, <1>u, <1>s, <1>p, <1>r, <1>n, <1>q, <1>v, <1>x, <1>w, SMT DEF PublishOK, EndsOn, Actors, Daemon
<1>16. WorkOK'
  BY <1>i, <1>g, <1>u, <1>s, <1>p, <1>r, <1>n, <1>v, <1>x, <1>w, SMT DEF WorkOK, Actors, Daemon
<1>17. ShareOK'
  BY <1>i, <1>g, <1>u, <1>s, <1>p, <1>r, <1>n, <1>v, <1>x, <1>w, SMT DEF ShareOK, Actors, Daemon
<1>18. FrameOK'
  BY <1>i, <1>g, <1>u, <1>s, <1>p, <1>r, <1>n, <1>v, <1>x, <1>w, SMT DEF FrameOK, FrameSet, Timers, Actors, Daemon
<1>19. QueueOK'
  BY <1>i, <1>g, <1>u, <1>s, <1>p, <1>r, <1>n, <1>q, <1>v, <1>x, <1>w, SMT DEF QueueOK, Timers, Actors, Daemon
<1>31. InitAlone /\ FrameOwn /\ \A r \in Kept : Good(r)
  BY DEF IInv
<1>32. Around
  BY <1>i, <1>31, Surroundings, Zenon
<1>33. \A t \in Timers : SameTimer(t)
  <2>1. commands' = commands
    BY <1>q
  <2>2. \A t \in Timers : Kin(t)
    BY <1>v DEF Kin
  <2> QED BY <2>1, <2>2, <1>i, TimersSame, Zenon
<1>34. now' \in Nat /\ now <= now' /\ Kept' \subseteq Kept
  BY <1>i, <1>v, SMT DEF TypeOK, Kept
<1>41. 
      /\ \A r \in Schedules : r # s => fires'[r] = fires[r]
      /\ fires'[s] = fires[s] + 1 /\ fires[s] \in Nat
  <2>1. fires \in [Schedules -> Nat]
    BY <1>i DEF TypeOK
  <2>2. fires' = [fires EXCEPT ![s] = fires[s] + 1]
    BY <1>u, <1>s DEF Trigger
  <2> QED BY <2>1, <2>2, <1>r
<1>42. next[s] <= now /\ callback[s]
  BY <1>u, <1>s DEF Trigger, Dispatches
<1>35. ASSUME NEW r \in Kept', r # s
      PROVE  Good(r)'
  <2>1. r \in Kept /\ r \in Schedules /\ r # NONE /\ Good(r)
    BY <1>31, <1>32, <1>34
  <2>2. \A b \in Actors : op[b].s = r \/ op'[b].s = r => op'[b] = op[b]
    BY <1>v
  <2>3. SameMemory(r)
    BY <1>35, <2>1, <1>v, <1>41
  <2>4. (OnFrame(r)' <=> OnFrame(r)) /\ (OnFrame(r) => frame' = frame)
    BY <1>35, <2>1, <1>p, <1>u, <1>r, <1>x, <1>v DEF OnFrame
  <2>5. \A t \in Timers : handle[r] = t \/ timer'[t].id = r => SameTimer(t)
    BY <1>33, <1>41
  <2>6. Unmoved(r)
    BY <2>2, <2>3, <2>4, <2>5 DEF Unmoved
  <2> QED BY <1>i, <1>31, <1>34, <2>1, <2>6, Others, Zenon
<1>36. ASSUME s \in Kept'
      PROVE  Good(s)'
  <2>1. Known(s)
    BY <1>32, <1>34, <1>36, <1>i, SMT DEF TypeOK
  <2> USE DEF Good
  <2>2. Good(s)
    BY <1>31, <2>1
  <2>h. PICK h : h = handle[s]
    OBVIOUS
  <2>3. Callback(s, h)
    BY <2>1, <2>h, <1>32, <1>i, SMT DEF Timers, Actors, OpOK
  <2>5. SameRun(h)
    BY <2>3, <1>33, <1>v DEF SameTimer
  <2>6. OnFrame(s) /\ OnFrame(s)' /\ frame.at = "enter" /\ frame'.at = "trigger" /\ frame.t = u /\ frame'.t = u /\ h = u /\ h # 0
    BY <2>h, <1>u, <1>r, <1>n, <1>p, <1>x, <1>v DEF OnFrame
  <2>7. /\ ~EndsOn(h) /\ next[s] > 0 /\ ~off[s]
        /\ \A b \in Actors : op[b].s = s => op[b].call = "delete" /\ op[b].pc \in DeletePcs
    <3>1. ~EndsOn(h)
      BY <2>2, <2>6, SMT DEF FrameOff
    <3>2. next[s] > 0
      BY <2>2, <2>6, SMT DEF HasTime
    <3>3. ~off[s] /\ \A b \in Actors : op[b].s = s => op[b].call \in {"delete", "rearm"}
      BY <2>2, <2>6 DEF FrameAlone
    <3>4. \A b \in Actors : op[b].s = s => op[b].call # "rearm"
      BY <2>1, <2>3, <1>p, <1>g
    <3> QED BY <3>1, <3>2, <3>3, <3>4, <1>32
  <2>11. EnableOn(s)'
    BY <2>1, <2>2, <2>h, <2>3, <1>v, <1>p, <2>7, SMT DEF EnableOn
  <2>12. EditKept(s)'
    BY <2>1, <2>2, <2>h, <2>3, <1>v, <1>p, <2>7, SMT DEF EditKept
  <2>13. FrameAlone(s)'
    BY <2>7, <1>v, SMT DEF FrameAlone
  <2>14. OffOK(s)'
    <3>1. ~off'[s] /\ \A b \in Actors : op'[b].s = s => op'[b].call = "delete" /\ op'[b].pc # "clear"
      BY <2>7, <1>v, SMT DEF DeletePcs
    <3> QED BY <3>1, SMT DEF OffOK
  <2>15. FrameOff(s)'
    BY <2>5, <2>6, <2>7, SMT DEF FrameOff
  <2>16. SettledOn(s)'
    BY <2>6, SMT DEF SettledOn
  <2>17. HasTime(s)'
    <3>1. TimeShown(s)'
      BY <2>5, <2>6, <2>7, <2>h, <1>v
    <3>2. TimeCalled(s)'
      BY <2>7, <1>v
    <3>3. TimeArmed(s)'
      BY <2>7, <1>v
    <3> QED BY <3>1, <3>2, <3>3, Zenon DEF HasTime
  <2>18. Alternate(s)'
    BY <2>1, <2>2, <2>h, <2>3, <1>33, <1>v, <1>p, <2>7, SMT DEF Alternate, SameTimer
  <2>19. OnceTime(s)'
    BY <2>2, <1>v DEF OnceTime
  <2>20. NoCallback(s)'
    BY <2>2, <1>v DEF NoCallback
  <2>21. StoredOK(s)'
    BY <2>2, <1>v DEF StoredOK
  <2>22. FiredOK(s)'
    <3> SUFFICES ASSUME type[s] \in OneShot, ~off[s]
                 PROVE  FiredOK(s)'
      BY <1>v, SMT DEF FiredOK, OneShot
    <3>1. fires[s] = 0
      BY <2>2, <2>6, <1>41, SMT DEF FiredOK
    <3>2. fires'[s] = 1 /\ next'[s] <= now'
      BY <3>1, <1>41, <1>42, <1>v, SMT
    <3>3. stored[s] \in {NoEntry, next[s]}
      <4>1. \A b \in Actors : op[b].s = s => op[b].call # "enable"
        BY <2>7
      <4> QED BY <4>1, <2>2, <2>7, <1>42 DEF StoredOK
    <3>4. stored'[s] = NoEntry \/ stored'[s] \in 1..now'
      BY <3>3, <2>1, <2>7, <1>42, <1>v, SMT
    <3>5. handle'[s] # 0 => ~EndsOn(handle[s])'
      BY <2>5, <2>6, <2>7, <2>h, <1>v
    <3>6. frame'.at # "enter" /\ op'[Daemon].pc \notin {"arm", "change"}
      BY <2>6, <1>p, <1>v, <1>g
    <3>7. callback'[s]
      BY <1>42, <1>v
    <3>8. \A b \in Actors : op'[b].s = s => op'[b].call = "delete" /\ op'[b].pc # "check"
      BY <2>7, <1>v, SMT DEF DeletePcs
    <3> QED BY <3>2, <3>4, <3>5, <3>6, <3>7, <3>8, SMT DEF FiredOK
  <2> QED BY <2>11, <2>12, <2>13, <2>14, <2>15, <2>16, <2>17, <2>18, <2>19, <2>20, <2>21, <2>22, Zenon
<1>37. \A r \in Kept' : Good(r)'
  BY <1>35, <1>36
<1>21. InitAlone'
  BY <1>31, <1>v DEF InitAlone
<1>22. FrameOwn'
  BY <1>x, <1>r, <1>v DEF FrameOwn
<1> QED
  BY <1>q, <1>11, <1>12, <1>13, <1>14, <1>15, <1>16, <1>17, <1>18, <1>19, <1>21, <1>22, <1>37 DEF IInv, Part1

LEMMA TriggerReturnsDeletedKeeps ==
  ASSUME ConstantsOK, ~Preempted, IInv,
         TriggerReturns, deleted
  PROVE  IInv'
<1>i. Parts
  BY DEF IInv, Part1
<1>g. Plain
  BY <1>i, Basics, Zenon
<1>s. PICK s : s = frame.s
  OBVIOUS
<1>p. /\ frame.at = "trigger" /\ op[Daemon] = Idle /\ op[Daemon].pc = "idle"
  <2>1. Daemon \in Actors
    BY DEF Actors
  <2> QED BY <2>1, <1>i DEF TriggerReturns, At, OpOK
<1>n. s \in Schedules /\ handle[s] = 0 /\ (\A b \in Actors : op[b].s # s)
  BY <1>i, <1>p, <1>s, SMT DEF FrameOK
<1>z. \A t \in Timers : timer[t].id # s
  BY <1>i, <1>n, <1>g, SMT DEF TimerOK
<1>q. SameQueue
  <2>1. commands' = commands
    BY DEF TriggerReturns, timerVars
  <2> QED BY <2>1, <1>i, Quiet, Zenon
<1>v. now' = now /\ type' = type /\ next' = next /\ callback' = callback /\ handle' = handle /\ stored' = stored /\ timer' = timer /\ op' = op /\ fires' = fires /\ off' = off /\ lost' = lost
  BY DEF TriggerReturns, timerVars, ghosts
<1>w. /\ mem'[s] = "freed" /\ \A r \in Schedules : r # s => mem'[r] = mem[r]
  BY <1>s, <1>i, <1>n, SMT DEF TriggerReturns, TypeOK
<1>y. mem' \in [Schedules -> {"none", "live", "freed"}] /\ dispatching' \in Schedules \cup {NONE} /\ deleted' \in BOOLEAN /\ frame'.at = "idle" 
  <2>1. mem' \in [Schedules -> {"none", "live", "freed"}]
    <3>1. mem' = [mem EXCEPT ![s] = "freed"]
      BY <1>s DEF TriggerReturns
    <3>2. mem \in [Schedules -> {"none", "live", "freed"}]
      BY <1>i DEF TypeOK
    <3> QED BY <3>1, <3>2, Zenon
  <2> QED BY <2>1, <1>g DEF TriggerReturns
<1>x. frame' = NoFrame /\ NoFrame \in FrameSet /\ dispatching' = NONE /\ ~deleted'
  BY SMT DEF TriggerReturns, NoFrame, FrameSet, ConstantsOK
<1>11. TypeOK'
  BY <1>i, <1>q, <1>v, <1>y, Zenon DEF TypeOK, Timers
<1>12. OpOK'
  BY <1>i, <1>g, <1>s, <1>n, <1>v, SMT DEF OpOK, OpSet, Timers, Actors, Daemon
<1>13. TimerOK'
  BY <1>i, <1>g, <1>s, <1>p, <1>n, <1>z, <1>v, <1>w, <1>x, SMT DEF TimerOK, Timers, Actors, Daemon
<1>14. HandleOK'
  BY <1>i, <1>g, <1>s, <1>p, <1>n, <1>z, <1>q, <1>v, <1>w, <1>x, SMT DEF HandleOK, Actors, Daemon
<1>15. PublishOK'
  BY <1>i, <1>g, <1>s, <1>p, <1>n, <1>q, <1>v, <1>w, <1>x, SMT DEF PublishOK, EndsOn, Actors, Daemon
<1>16. WorkOK'
  BY <1>i, <1>g, <1>s, <1>p, <1>n, <1>v, <1>w, <1>x, SMT DEF WorkOK, Actors, Daemon
<1>17. ShareOK'
  BY <1>i, <1>g, <1>s, <1>p, <1>n, <1>v, <1>w, <1>x, SMT DEF ShareOK, Actors, Daemon
<1>18. FrameOK'
  BY <1>i, <1>g, <1>s, <1>p, <1>n, <1>z, <1>v, <1>w, <1>x, SMT DEF FrameOK, FrameSet, Timers, Actors, Daemon
<1>19. QueueOK'
  BY <1>i, <1>g, <1>s, <1>p, <1>n, <1>q, <1>v, <1>w, <1>x, SMT DEF QueueOK, Timers, Actors, Daemon
<1>31. InitAlone /\ FrameOwn /\ \A r \in Kept : Good(r)
  BY DEF IInv
<1>32. Around
  BY <1>i, <1>31, Surroundings, Zenon
<1>33. \A t \in Timers : SameTimer(t)
  <2>1. commands' = commands
    BY <1>q
  <2>2. \A t \in Timers : Kin(t)
    BY <1>v DEF Kin
  <2> QED BY <2>1, <2>2, <1>i, TimersSame, Zenon
<1>34. now' \in Nat /\ now <= now' /\ Kept' \subseteq Kept
  BY <1>i, <1>v, SMT DEF TypeOK, Kept
<1>41. \A r \in Schedules : r # s => ~OnFrame(r)
  BY <1>31, <1>p, <1>s, <1>g DEF FrameOwn, OnFrame
<1>42. \A r \in Schedules : ~OnFrame(r)'
  BY <1>x, <1>g DEF OnFrame
<1>35. ASSUME NEW r \in Kept', r # s
      PROVE  Good(r)'
  <2>1. r \in Kept /\ r \in Schedules /\ r # NONE /\ Good(r)
    BY <1>31, <1>32, <1>34
  <2>2. \A b \in Actors : op[b].s = r \/ op'[b].s = r => op'[b] = op[b]
    BY <1>v
  <2>3. SameMemory(r)
    BY <1>35, <2>1, <1>v, <1>w
  <2>4. (OnFrame(r)' <=> OnFrame(r)) /\ (OnFrame(r) => frame' = frame)
    BY <1>35, <2>1, <1>41, <1>42
  <2>5. \A t \in Timers : handle[r] = t \/ timer'[t].id = r => SameTimer(t)
    BY <1>33, <1>41, <1>42
  <2>6. Unmoved(r)
    BY <2>2, <2>3, <2>4, <2>5 DEF Unmoved
  <2> QED BY <1>i, <1>31, <1>34, <2>1, <2>6, Others, Zenon
<1>36. ASSUME s \in Kept'
      PROVE  Good(s)'
  <2>1. Known(s)
    BY <1>32, <1>34, <1>36, <1>i, SMT DEF TypeOK
  <2> USE DEF Good
  <2>2. Good(s)
    BY <1>31, <2>1
  <2>h. PICK h : h = handle[s]
    OBVIOUS
  <2>3. Callback(s, h)
    BY <2>1, <2>h, <1>32, <1>i, SMT DEF Timers, Actors, OpOK
  <2>5. SameRun(h)
    BY <2>3, <1>33, <1>v DEF SameTimer
  <2>6. ~OnFrame(s) /\ ~OnFrame(s)' /\ h = 0
    BY <2>h, <1>n, <1>z, <1>42, <1>i, <1>p DEF OnFrame, FrameOK
  <2>7. \A b \in Actors : op'[b].s # s
    BY <1>n, <1>v
  <2>11. EnableOn(s)'
    BY <2>7 DEF EnableOn
  <2>12. EditKept(s)'
    BY <2>7 DEF EditKept
  <2>13. FrameAlone(s)'
    BY <2>6 DEF FrameAlone
  <2>14. OffOK(s)'
    BY <2>6, <2>h, <1>v DEF OffOK
  <2>15. FrameOff(s)'
    BY <2>6 DEF FrameOff
  <2>16. SettledOn(s)'
    BY <2>6, <2>h, <1>v DEF SettledOn
  <2>17. HasTime(s)'
    <3>1. TimeShown(s)'
      BY <2>6, <2>h, <1>v
    <3>2. TimeCalled(s)'
      BY <2>6
    <3>3. TimeArmed(s)'
      BY <2>7
    <3> QED BY <3>1, <3>2, <3>3, Zenon DEF HasTime
  <2>18. Alternate(s)'
    BY <1>z, <1>v, <2>1 DEF Alternate
  <2>19. OnceTime(s)'
    BY <2>2, <1>v DEF OnceTime
  <2>20. NoCallback(s)'
    BY <2>7, <1>w DEF NoCallback
  <2>21. StoredOK(s)'
    BY <2>2, <1>n, <1>v DEF StoredOK
  <2>22. FiredOK(s)'
    <3> SUFFICES ASSUME type[s] \in OneShot, ~off[s], fires[s] > 0
                 PROVE  FiredOK(s)'
      BY <1>v, SMT DEF FiredOK, OneShot
    <3>0. Over(s, h)
      BY <2>2, <2>h DEF FiredOK
    <3>1. (fires[s] = 1 /\ next[s] <= now)'
      BY <3>0, <1>v
    <3>2. (handle[s] # 0 => ~EndsOn(handle[s]))'
      BY <2>6, <2>h, <1>v
    <3>3. (OnFrame(s) => frame.at # "enter")'
      BY <2>6
    <3>4. OverDaemon(s)'
      BY <2>7, <2>3
    <3>5. OverStored(s)'
      BY <3>0, <1>v
    <3>6. OverLive(s)'
      BY <1>w
    <3>7. OverCalls(s)'
      BY <2>7
    <3>8. OverInit(s)'
      BY <2>7
    <3>9. OverCheck(s)'
      BY <2>7
    <3> QED BY <3>1, <3>2, <3>3, <3>4, <3>5, <3>6, <3>7, <3>8, <3>9, Zenon DEF FiredOK
  <2> QED BY <2>11, <2>12, <2>13, <2>14, <2>15, <2>16, <2>17, <2>18, <2>19, <2>20, <2>21, <2>22, Zenon
<1>37. \A r \in Kept' : Good(r)'
  BY <1>35, <1>36
<1>21. InitAlone'
  BY <1>31, <1>v DEF InitAlone
<1>22. FrameOwn'
  BY <1>x, <1>g DEF FrameOwn
<1> QED
  BY <1>q, <1>11, <1>12, <1>13, <1>14, <1>15, <1>16, <1>17, <1>18, <1>19, <1>21, <1>22, <1>37 DEF IInv, Part1

LEMMA TriggerReturnsKeptKeeps ==
  ASSUME ConstantsOK, ~Preempted, IInv,
         TriggerReturns, ~deleted
  PROVE  IInv'
<1>i. Parts
  BY DEF IInv, Part1
<1>g. Plain
  BY <1>i, Basics, Zenon
<1>s. PICK s : s = frame.s
  OBVIOUS
<1>u. PICK u : u = frame.t
  OBVIOUS
<1>p. /\ frame.at = "trigger" /\ op[Daemon] = Idle /\ op[Daemon].pc = "idle"
  <2>1. Daemon \in Actors
    BY DEF Actors
  <2> QED BY <2>1, <1>i DEF TriggerReturns, At, OpOK
<1>r. /\ s \in Schedules /\ u \in Timers /\ u # 0 /\ timer[u].state # "none"
      /\ mem[s] = "live" /\ handle[s] = u /\ timer[u].id = s
  BY <1>i, <1>p, <1>s, <1>u, <1>g, SMT DEF FrameOK
<1>o. /\ op'[Daemon].call = "rearm" /\ op'[Daemon].s = s /\ op'[Daemon].pc = "compute" /\ op'[Daemon].arg = 0
      /\ \A b \in Actors : b # Daemon => op'[b] = op[b]
  <2>1. PICK r : r = [call |-> "rearm", s |-> s, pc |-> "compute", arg |-> 0]
    OBVIOUS
  <2>2. op' = [op EXCEPT ![Daemon] = r]
    BY <2>1, <1>u, <1>s DEF TriggerReturns
  <2>3. r \in OpSet /\ r.call = "rearm" /\ r.s = s /\ r.pc = "compute" /\ r.arg = 0
    BY <2>1, <1>r, SMT DEF OpSet, Kinds, Pcs
  <2>4. Daemon \in Actors
    BY DEF Actors
  <2>5. /\ op'[Daemon] = r /\ \A b \in Actors : b # Daemon => op'[b] = op[b]
        /\ op' \in [Actors -> OpSet]
    BY <2>2, <2>3, <2>4, <1>i, Became, Zenon
  <2> QED BY <2>3, <2>5
<1>k. op' \in [Actors -> OpSet] /\ PcOK("rearm", "compute")
  <2>k. PcOK("rearm", "compute")
    BY DEF PcOK
  <2>1. PICK r : r = [call |-> "rearm", s |-> s, pc |-> "compute", arg |-> 0]
    OBVIOUS
  <2>2. op' = [op EXCEPT ![Daemon] = r]
    BY <2>1, <1>u, <1>s DEF TriggerReturns
  <2>3. r \in OpSet /\ r.call = "rearm" /\ r.s = s /\ r.pc = "compute" /\ r.arg = 0
    BY <2>1, <1>r, SMT DEF OpSet, Kinds, Pcs
  <2>4. Daemon \in Actors
    BY DEF Actors
  <2>5. /\ op'[Daemon] = r /\ \A b \in Actors : b # Daemon => op'[b] = op[b]
        /\ op' \in [Actors -> OpSet]
    BY <2>2, <2>3, <2>4, <1>i, Became, Zenon
  <2>j. op' \in [Actors -> OpSet]
    BY <2>3, <2>5
  <2> QED BY <2>j, <2>k
<1>q. SameQueue
  <2>1. commands' = commands
    BY DEF TriggerReturns, timerVars
  <2> QED BY <2>1, <1>i, Quiet, Zenon
<1>v. now' = now /\ mem' = mem /\ type' = type /\ next' = next /\ callback' = callback /\ handle' = handle /\ stored' = stored /\ timer' = timer /\ fires' = fires /\ off' = off /\ lost' = lost
  BY DEF TriggerReturns, timerVars, ghosts
<1>x. /\ frame'.t = u /\ frame'.s = s /\ frame'.at = "rearm" /\ frame' \in FrameSet
      /\ dispatching' = NONE /\ ~deleted'
  <2>1. frame' = [frame EXCEPT !.at = "rearm"] /\ frame \in FrameSet
    BY <1>i DEF TriggerReturns, FrameOK
  <2>2. frame' = [t |-> u, s |-> s, at |-> "rearm"]
    BY <2>1, <1>u, <1>s, SMT DEF FrameSet
  <2>3. dispatching' = NONE /\ ~deleted'
    BY DEF TriggerReturns
  <2> QED BY <2>2, <2>3, <1>r, SMT DEF FrameSet, Timers, ConstantsOK
<1>y. frame'.at = "rearm" /\ deleted' \in BOOLEAN /\ dispatching' \in Schedules \cup {NONE}
  BY <1>x DEF TriggerReturns
<1>11. TypeOK'
  BY <1>i, <1>q, <1>v, <1>y, Zenon DEF TypeOK, Timers
<1>12. OpOK'
  BY <1>i, <1>g, <1>s, <1>u, <1>r, <1>o, <1>k, <1>v, SMT DEF OpOK, OpSet, Timers, Actors, Daemon
<1>13. TimerOK'
  BY <1>i, <1>g, <1>s, <1>u, <1>p, <1>r, <1>o, <1>v, <1>x, SMT DEF TimerOK, Timers, Actors, Daemon
<1>14. HandleOK'
  BY <1>i, <1>g, <1>s, <1>u, <1>p, <1>r, <1>o, <1>q, <1>v, <1>x, SMT DEF HandleOK, Actors, Daemon
<1>15. PublishOK'
  BY <1>i, <1>g, <1>s, <1>u, <1>p, <1>r, <1>o, <1>q, <1>v, <1>x, SMT DEF PublishOK, EndsOn, Actors, Daemon
<1>16. WorkOK'
  BY <1>i, <1>g, <1>s, <1>u, <1>p, <1>r, <1>o, <1>v, <1>x, SMT DEF WorkOK, Actors, Daemon
<1>17. ShareOK'
  BY <1>i, <1>g, <1>s, <1>u, <1>p, <1>r, <1>o, <1>v, <1>x, SMT DEF ShareOK, Actors, Daemon
<1>18. FrameOK'
  BY <1>i, <1>g, <1>s, <1>u, <1>p, <1>r, <1>o, <1>v, <1>x, SMT DEF FrameOK, FrameSet, Timers, Idle, Actors, Daemon
<1>19. QueueOK'
  BY <1>i, <1>g, <1>s, <1>u, <1>p, <1>r, <1>o, <1>q, <1>v, <1>x, SMT DEF QueueOK, Timers, Actors, Daemon
<1>31. InitAlone /\ FrameOwn /\ \A r \in Kept : Good(r)
  BY DEF IInv
<1>32. Around
  BY <1>i, <1>31, Surroundings, Zenon
<1>33. \A t \in Timers : SameTimer(t)
  <2>1. commands' = commands
    BY <1>q
  <2>2. \A t \in Timers : Kin(t)
    BY <1>v DEF Kin
  <2> QED BY <2>1, <2>2, <1>i, TimersSame, Zenon
<1>34. now' \in Nat /\ now <= now' /\ Kept' \subseteq Kept
  BY <1>i, <1>v, SMT DEF TypeOK, Kept
<1>35. ASSUME NEW r \in Kept', r # s
      PROVE  Good(r)'
  <2>1. r \in Kept /\ r \in Schedules /\ r # NONE /\ Good(r)
    BY <1>31, <1>32, <1>34
  <2>2. \A b \in Actors : op[b].s = r \/ op'[b].s = r => op'[b] = op[b]
    BY <1>35, <2>1, <1>p, <1>o, <1>g
  <2>3. SameMemory(r)
    BY <1>35, <2>1, <1>v
  <2>4. (OnFrame(r)' <=> OnFrame(r)) /\ (OnFrame(r) => frame' = frame)
    BY <1>35, <2>1, <1>p, <1>u, <1>r, <1>x, <1>v DEF OnFrame
  <2>5. \A t \in Timers : handle[r] = t \/ timer'[t].id = r => SameTimer(t)
    BY <1>33
  <2>6. Unmoved(r)
    BY <2>2, <2>3, <2>4, <2>5 DEF Unmoved
  <2> QED BY <1>i, <1>31, <1>34, <2>1, <2>6, Others, Zenon
<1>36. ASSUME s \in Kept'
      PROVE  Good(s)'
  <2>1. Known(s)
    BY <1>32, <1>34, <1>36, <1>i, SMT DEF TypeOK
  <2> USE DEF Good
  <2>2. Good(s)
    BY <1>31, <2>1
  <2>h. PICK h : h = handle[s]
    OBVIOUS
  <2>3. Callback(s, h)
    BY <2>1, <2>h, <1>32, <1>i, SMT DEF Timers, Actors, OpOK
  <2>5. SameRun(h)
    BY <2>3, <1>33, <1>v DEF SameTimer
  <2>6. OnFrame(s) /\ OnFrame(s)' /\ frame.at = "trigger" /\ frame'.at = "rearm" /\ frame.t = u /\ frame'.t = u /\ h = u /\ h # 0
    BY <2>h, <1>u, <1>r, <1>p, <1>x, <1>v DEF OnFrame
  <2>7. /\ ~EndsOn(h) /\ next[s] > 0 /\ ~off[s]
        /\ \A b \in Actors : op[b].s = s => op[b].call = "delete" /\ op[b].pc \in DeletePcs
    <3>1. ~EndsOn(h)
      BY <2>2, <2>6, SMT DEF FrameOff
    <3>2. next[s] > 0
      BY <2>2, <2>6, SMT DEF HasTime
    <3>3. ~off[s] /\ \A b \in Actors : op[b].s = s => op[b].call \in {"delete", "rearm"}
      BY <2>2, <2>6 DEF FrameAlone
    <3>4. \A b \in Actors : op[b].s = s => op[b].call # "rearm"
      BY <2>1, <2>3, <1>p, <1>g
    <3> QED BY <3>1, <3>2, <3>3, <3>4, <1>32
  <2>8. /\ \A b \in Actors : op'[b].s = s /\ b # Daemon => op'[b] = op[b] /\ op[b].s = s
        /\ \A b \in Tasks : op'[b] = op[b] /\ b \in Actors
        /\ op'[Daemon].s = s /\ op'[Daemon].call = "rearm" /\ op'[Daemon].pc = "compute"
        /\ \A b \in Actors : op'[b].s = s /\ b # Daemon => op'[b].call = "delete" /\ op'[b].pc \in DeletePcs
    <3>1. \A b \in Actors : b # Daemon => op'[b] = op[b]
      BY <1>o
    <3>2. \A b \in Tasks : b \in Actors /\ b # Daemon
      BY DEF Actors, Daemon, ConstantsOK
    <3> QED BY <3>1, <3>2, <1>o, <2>7
  <2>11. EnableOn(s)'
    BY <2>8, SMT DEF EnableOn
  <2>12. EditKept(s)'
    BY <2>8, SMT DEF EditKept, DeletePcs
  <2>13. FrameAlone(s)'
    BY <2>7, <2>8, <1>v, SMT DEF FrameAlone
  <2>14. OffOK(s)'
    <3>1. ~off'[s] /\ \A b \in Actors : op'[b].s = s => op'[b].call \in {"delete", "rearm"} /\ op'[b].pc # "clear"
      BY <2>7, <2>8, <1>v, SMT DEF DeletePcs
    <3> QED BY <3>1, SMT DEF OffOK
  <2>15. FrameOff(s)'
    BY <2>5, <2>6, <2>7, SMT DEF FrameOff
  <2>16. SettledOn(s)'
    <3>1. ~Settled(s)'
      BY <2>3, <2>8, SMT DEF Settled
    <3> QED BY <3>1 DEF SettledOn
  <2>17. HasTime(s)'
    <3>1. TimeShown(s)'
      BY <2>5, <2>6, <2>7, <2>h, <1>v
    <3>2. TimeCalled(s)'
      BY <2>7, <1>v
    <3>3. TimeArmed(s)'
      BY <2>7, <1>v
    <3> QED BY <3>1, <3>2, <3>3, Zenon DEF HasTime
  <2>18. Alternate(s)'
    BY <2>1, <2>2, <2>h, <2>3, <1>33, <1>v, <1>p, <2>7, <2>8, SMT DEF Alternate, SameTimer
  <2>19. OnceTime(s)'
    BY <2>2, <1>v DEF OnceTime
  <2>20. NoCallback(s)'
    BY <2>2, <2>8, <1>v, SMT DEF NoCallback
  <2>21. StoredOK(s)'
    <3>1. \A b \in Actors : op[b].s = s => op[b].call # "enable"
      BY <2>7
    <3> QED BY <3>1, <2>2, <1>v DEF StoredOK
  <2>22. FiredOK(s)'
    <3> SUFFICES ASSUME type[s] \in OneShot, ~off[s], fires[s] > 0
                 PROVE  FiredOK(s)'
      BY <1>v, SMT DEF FiredOK, OneShot
    <3>0. Over(s, h)
      BY <2>2, <2>h DEF FiredOK
    <3>1. (fires[s] = 1 /\ next[s] <= now)'
      BY <3>0, <1>v
    <3>2. (handle[s] # 0 => ~EndsOn(handle[s]))'
      BY <2>5, <2>7, <2>h, <1>v
    <3>3. (OnFrame(s) => frame.at # "enter")'
      BY <2>6
    <3>4. OverDaemon(s)'
      BY <2>8
    <3>5. OverStored(s)'
      BY <3>0, <1>v
    <3>6. OverLive(s)'
      BY <3>0, <2>8, <1>v
    <3>7. OverCalls(s)'
      BY <2>8, SMT
    <3>8. OverInit(s)'
      BY <2>8, SMT
    <3>9. OverCheck(s)'
      BY <2>8, SMT DEF DeletePcs
    <3> QED BY <3>1, <3>2, <3>3, <3>4, <3>5, <3>6, <3>7, <3>8, <3>9, Zenon DEF FiredOK
  <2> QED BY <2>11, <2>12, <2>13, <2>14, <2>15, <2>16, <2>17, <2>18, <2>19, <2>20, <2>21, <2>22, Zenon
<1>37. \A r \in Kept' : Good(r)'
  BY <1>35, <1>36
<1>21. InitAlone'
  BY <1>31, <1>v, <1>o, SMT DEF InitAlone, Actors, Daemon, ConstantsOK
<1>22. FrameOwn'
  BY <1>x, <1>r, <1>v DEF FrameOwn
<1> QED
  BY <1>q, <1>11, <1>12, <1>13, <1>14, <1>15, <1>16, <1>17, <1>18, <1>19, <1>21, <1>22, <1>37 DEF IInv, Part1

LEMMA TickKeeps ==
  ASSUME ConstantsOK, ~Preempted, IInv,
         Tick
  PROVE  IInv'
<1>i. Parts
  BY DEF IInv, Part1
<1>g. Plain
  BY <1>i, Basics, Zenon
<1>p. \A b \in Actors : op[b].pc = "publish" => b = Daemon
  <2>1. \A b \in Tasks : op[b].pc # "publish"
    BY DEF Tick, HeldUp
  <2> QED BY <2>1 DEF Actors
<1>q. SameQueue
  <2>1. commands' = commands
    BY DEF Tick
  <2> QED BY <2>1, <1>i, Quiet, Zenon
<1>v. mem' = mem /\ type' = type /\ next' = next /\ callback' = callback /\ handle' = handle /\ stored' = stored /\ op' = op /\ frame' = frame /\ dispatching' = dispatching /\ deleted' = deleted /\ fires' = fires /\ off' = off /\ lost' = lost
  BY DEF Tick, memVars, cbVars, ghosts
<1>w. \A t \in Timers : /\ timer'[t].state = timer[t].state
                           /\ timer'[t].id = timer[t].id /\ timer'[t].priv = timer[t].priv
  <2>0. timer \in [Timers -> TimerSet]
    BY <1>i DEF TypeOK, TimerSet
  <2>1. timer' = [t \in Timers |-> [timer[t] EXCEPT !.left = IF @ > 0 THEN @ - 1 ELSE 0]]
    BY DEF Tick
  <2> QED BY <2>0, <2>1, Ticked, Zenon
<1>x. timer' \in [Timers -> TimerSet] /\ now' \in 0..MaxTime
  <2>0. timer \in [Timers -> TimerSet]
    BY <1>i DEF TypeOK, TimerSet
  <2>1. timer' = [t \in Timers |-> [timer[t] EXCEPT !.left = IF @ > 0 THEN @ - 1 ELSE 0]]
    BY DEF Tick
  <2>2. timer' \in [Timers -> TimerSet]
    BY <2>0, <2>1, Ticked, Zenon
  <2>3. now' \in 0..MaxTime
    BY <1>i, SMT DEF Tick, TypeOK, ConstantsOK
  <2> QED BY <2>2, <2>3
<1>11. TypeOK'
  BY <1>i, <1>q, <1>v, <1>x, Zenon DEF TypeOK, Timers, TimerSet
<1>12. OpOK'
  BY <1>i, <1>g, <1>v, SMT DEF OpOK, OpSet, Timers, Actors, Daemon
<1>13. TimerOK'
  BY <1>i, <1>g, <1>v, <1>w, SMT DEF TimerOK, Timers, Actors, Daemon
<1>14. HandleOK'
  BY <1>i, <1>g, <1>q, <1>v, <1>w, SMT DEF HandleOK, Actors, Daemon
<1>15. PublishOK'
  BY <1>i, <1>g, <1>p, <1>q, <1>v, <1>w, SMT DEF PublishOK, EndsOn, Actors, Daemon
<1>16. WorkOK'
  BY <1>i, <1>g, <1>v, <1>w, SMT DEF WorkOK, Actors, Daemon
<1>17. ShareOK'
  BY <1>i, <1>g, <1>v, <1>w, SMT DEF ShareOK, Actors, Daemon
<1>18. FrameOK'
  BY <1>i, <1>g, <1>v, <1>w, SMT DEF FrameOK, FrameSet, Timers, Actors, Daemon
<1>19. QueueOK'
  BY <1>i, <1>g, <1>q, <1>v, <1>w, SMT DEF QueueOK, Timers, Actors, Daemon
<1>31. InitAlone /\ FrameOwn /\ \A r \in Kept : Good(r)
  BY DEF IInv
<1>32. Around
  BY <1>i, <1>31, Surroundings, Zenon
<1>33. \A t \in Timers : SameTimer(t)
  <2>1. \A t \in Timers : SameFor(t)
    BY <1>q, QueueSame, Zenon
  <2>2. \A b \in Tasks : op[b].pc # "armed"
    BY DEF Tick, HeldUp
  <2> QED BY <2>1, <2>2, <1>w DEF SameTimer, SameFor, EndsOn
<1>34. now' \in Nat /\ now <= now' /\ Kept' \subseteq Kept
  BY <1>i, <1>v, SMT DEF TypeOK, Kept, Tick
<1>41. frame.at # "idle" => timer'[frame.t].id = timer[frame.t].id
  BY <1>w, <1>g
<1>35. ASSUME NEW r \in Kept'
      PROVE  Good(r)'
  <2>1. r \in Kept /\ r \in Schedules /\ r # NONE /\ Good(r)
    BY <1>31, <1>32, <1>34
  <2>2. \A b \in Actors : op[b].s = r \/ op'[b].s = r => op'[b] = op[b]
    BY <1>v
  <2>3. SameMemory(r)
    BY <1>35, <2>1, <1>v, <1>41
  <2>4. (OnFrame(r)' <=> OnFrame(r)) /\ (OnFrame(r) => frame' = frame)
    BY <1>41, <1>v DEF OnFrame
  <2>5. \A t \in Timers : handle[r] = t \/ timer'[t].id = r => SameTimer(t)
    BY <1>33, <1>41
  <2>6. Unmoved(r)
    BY <2>2, <2>3, <2>4, <2>5 DEF Unmoved
  <2> QED BY <1>i, <1>31, <1>34, <2>1, <2>6, Others, Zenon
<1>37. \A r \in Kept' : Good(r)'
  BY <1>35
<1>21. InitAlone'
  BY <1>31, <1>v DEF InitAlone
<1>22. FrameOwn'
  BY <1>31, <1>41, <1>v DEF FrameOwn
<1> QED
  BY <1>q, <1>11, <1>12, <1>13, <1>14, <1>15, <1>16, <1>17, <1>18, <1>19, <1>21, <1>22, <1>37 DEF IInv, Part1

LEMMA RebootKeeps ==
  ASSUME ConstantsOK, ~Preempted, IInv,
         NEW a \in Tasks, Reboot(a)
  PROVE  IInv'
<1>i. Parts
  BY DEF IInv, Part1
<1>g. Plain
  BY <1>i, Basics, Zenon
<1>d. a \in Actors /\ a # Daemon /\ NONE \notin Schedules
  BY SMT DEF Actors, Daemon, ConstantsOK
<1>o. /\ op'[a].s = NONE /\ op'[a].pc = "load" /\ op'[a].call = "init" /\ op'[a].arg = 0
      /\ \A b \in Actors : b # a => op'[b] = Idle
      /\ op' \in [Actors -> OpSet]
  <2> DEFINE r == [Idle EXCEPT !.call = "init", !.pc = "load"]
  <2>1. r \in OpSet /\ r.call = "init" /\ r.s = NONE /\ r.pc = "load" /\ r.arg = 0 /\ Idle \in OpSet
    BY Rests, Zenon
  <2>2. op' = [b \in Actors |-> IF b = a THEN r ELSE Idle]
    BY DEF Reboot
  <2> HIDE DEF r
  <2>3. op'[a] = r /\ \A b \in Actors : b # a => op'[b] = Idle
    BY <2>2, <1>d
  <2>4. op' \in [Actors -> OpSet]
    BY <2>1, <2>2, SMT
  <2> QED BY <2>1, <2>3, <2>4
<1>k. \A b \in Actors : op'[b].s = NONE /\ op'[b].pc \in {"idle", "load"} /\ (b # a => op'[b] = Idle)
  BY <1>o, <1>g
<1>c. PcOK("none", "idle") /\ PcOK("init", "load")
  BY DEF PcOK
<1>q. QueueTyped' /\ commands' = <<>> /\ \A t \in Timers :
        ~Mentions(t)' /\ ~Deletes(t)' /\ ~HasStop(t)' /\ ~LastStart(t)' 
  <2>1. commands' = <<>>
    BY DEF Reboot
  <2> QED BY <2>1, EmptiedQueue, Zenon
<1>v. now' = now /\ type' = type /\ stored' = stored /\ lost' = lost
  BY DEF Reboot
<1>w. /\ \A t \in Timers : timer'[t].id = NONE
      /\ \A r \in Schedules : handle'[r] = 0
  BY <1>d, NewTimer DEF Reboot
<1>x. frame' = NoFrame /\ NoFrame \in FrameSet /\ dispatching' = NONE /\ ~deleted' 
  BY SMT DEF Reboot, NoFrame, FrameSet, ConstantsOK
<1>y. /\ mem' \in [Schedules -> {"none", "live", "freed"}] /\ next' \in [Schedules -> Nat]
      /\ callback' \in [Schedules -> BOOLEAN] /\ handle' \in [Schedules -> 0..MaxTimers]
      /\ timer' \in [Timers -> TimerSet] /\ Len(commands') <= QueueLen
      /\ frame'.at = "idle" /\ dispatching' = NONE /\ deleted' \in BOOLEAN
      /\ fires' \in [Schedules -> Nat] /\ off' \in [Schedules -> BOOLEAN]
  <2>1. mem' \in [Schedules -> {"none", "live", "freed"}] /\ next' \in [Schedules -> Nat]
    BY DEF Reboot
  <2>2. callback' \in [Schedules -> BOOLEAN] /\ off' \in [Schedules -> BOOLEAN]
    BY DEF Reboot
  <2>3. handle' \in [Schedules -> 0..MaxTimers]
    <3>1. 0 \in 0..MaxTimers
      BY SMT DEF ConstantsOK
    <3> QED BY <3>1 DEF Reboot
  <2>4. timer' \in [Timers -> TimerSet]
    BY NewTimer, Zenon DEF Reboot
  <2>5. Len(commands') <= QueueLen
    BY SMT DEF Reboot, ConstantsOK
  <2>6. fires' \in [Schedules -> Nat]
    <3>1. PICK f : f = [s \in Schedules |-> IF off[s] \/ (\E b \in Tasks : op[b].s = s) THEN 0 ELSE fires[s]]
      OBVIOUS
    <3>2. \A s \in Schedules : fires[s] \in Nat
      BY <1>i DEF TypeOK
    <3>3. \A s \in Schedules : (IF off[s] \/ (\E b \in Tasks : op[b].s = s) THEN 0 ELSE fires[s]) \in Nat
      BY <3>2
    <3>4. f \in [Schedules -> Nat]
      BY <3>1, <3>3, Zenon
    <3> QED BY <3>1, <3>4 DEF Reboot
  <2>7. frame'.at = "idle" /\ dispatching' = NONE /\ deleted' \in BOOLEAN
    BY <1>g DEF Reboot
  <2> QED BY <2>1, <2>2, <2>3, <2>4, <2>5, <2>6, <2>7
<1>11. TypeOK'
  BY <1>i, <1>q, <1>v, <1>y, Zenon DEF TypeOK, Timers, TimerSet
<1>12. OpOK'
  BY <1>i, <1>g, <1>d, <1>o, <1>c, SMT DEF OpOK, OpSet, Timers, Actors, Daemon
<1>13. TimerOK'
  BY <1>i, <1>g, <1>d, <1>k, <1>w, <1>x, SMT DEF TimerOK, Timers, Actors, Daemon
<1>14. HandleOK'
  BY <1>i, <1>g, <1>d, <1>k, <1>q, <1>w, <1>x, SMT DEF HandleOK, Actors, Daemon
<1>15. PublishOK'
  BY <1>i, <1>g, <1>d, <1>k, <1>q, <1>w, <1>x, SMT DEF PublishOK, EndsOn, Actors, Daemon
<1>16. WorkOK'
  BY <1>i, <1>g, <1>d, <1>k, <1>w, <1>x, SMT DEF WorkOK, Actors, Daemon
<1>17. ShareOK'
  BY <1>i, <1>g, <1>d, <1>k, <1>w, <1>x, SMT DEF ShareOK, Actors, Daemon
<1>18. FrameOK'
  BY <1>i, <1>g, <1>d, <1>k, <1>w, <1>x, SMT DEF FrameOK, FrameSet, Timers, Actors, Daemon
<1>19. QueueOK'
  BY <1>i, <1>g, <1>d, <1>k, <1>q, <1>w, <1>x, SMT DEF QueueOK, Timers, Actors, Daemon
<1>31. \A r \in Kept : Good(r)
  BY DEF IInv
<1>32. \A b \in Actors : op'[b].s = NONE /\ op'[b].call \in {"none", "init"} /\ op'[b].pc \in {"idle", "load"}
  BY <1>o, <1>g
<1>35. ASSUME NEW r \in Kept'
      PROVE  Good(r)'
  <2>1. r \in Kept /\ r \in Schedules /\ r # NONE /\ Good(r)
    BY <1>31, <1>d, <1>v DEF Kept
  <2>2. /\ now \in Nat /\ next[r] \in Nat /\ fires[r] \in Nat
    BY <2>1, <1>i, SMT DEF TypeOK
  <2>3. /\ mem'[r] = "none" /\ next'[r] = 0 /\ ~callback'[r] /\ handle'[r] = 0 /\ ~off'[r]
        /\ type'[r] = type[r] /\ stored'[r] = stored[r] /\ now' = now
    BY <2>1, <1>v DEF Reboot
  <2>4. ~OnFrame(r)'
    BY <1>x, <1>g DEF OnFrame
  <2>5. \A b \in Actors : op'[b].s # r
    BY <2>1, <1>32
  <2>6. EnableOn(r)' /\ EditKept(r)'
    BY <2>5 DEF EnableOn, EditKept
  <2>7. FrameAlone(r)' /\ FrameOff(r)'
    BY <2>4 DEF FrameAlone, FrameOff
  <2>8. OffOK(r)' /\ SettledOn(r)'
    BY <2>3 DEF OffOK, SettledOn
  <2>9. HasTime(r)'
    BY <2>3, <2>4, <2>5 DEF HasTime
  <2>10. Alternate(r)'
    BY <2>1, <1>w DEF Alternate
  <2>11. OnceTime(r)'
    BY <2>1, <2>3, SMT DEF Good, OnceTime
  <2>12. NoCallback(r)' /\ StoredOK(r)'
    BY <2>3, <2>5 DEF NoCallback, StoredOK
  <2>13. FiredOK(r)'
    <3> SUFFICES ASSUME type[r] \in OneShot, fires'[r] > 0
                 PROVE  FiredOK(r)'
      BY <2>3, SMT DEF FiredOK, OneShot
    <3>1. fires'[r] = IF off[r] \/ (\E b \in Tasks : op[b].s = r) THEN 0 ELSE fires[r]
      BY <2>1 DEF Reboot
    <3>2. ~off[r] /\ fires'[r] = fires[r] /\ fires[r] > 0
      BY <3>1, SMT
    <3>3. fires[r] = 1 /\ (stored[r] = NoEntry \/ stored[r] \in 1..now)
      BY <3>2, <2>1 DEF Good, FiredOK
    <3>4. fires'[r] = 1 /\ next'[r] <= now' /\ (stored'[r] = NoEntry \/ stored'[r] \in 1..now')
      BY <3>2, <3>3, <2>2, <2>3, SMT
    <3>5. Daemon \in Actors
      BY DEF Actors
    <3> QED BY <3>4, <3>5, <2>3, <2>4, <2>5 DEF FiredOK
  <2> QED BY <2>6, <2>7, <2>8, <2>9, <2>10, <2>11, <2>12, <2>13 DEF Good
<1>37. \A r \in Kept' : Good(r)'
  BY <1>35
<1>21. InitAlone'
  <2>1. \A r \in Schedules : ~off'[r]
    BY DEF Reboot
  <2>2. \A b \in Tasks : op'[b].call = "init" => b = a
    BY <1>o, <1>g DEF Actors
  <2>3. \A b \in Actors : b # a => op'[b].call = "none"
    BY <1>o, <1>g
  <2> QED BY <2>1, <2>2, <2>3 DEF InitAlone
<1>22. FrameOwn'
  BY <1>x, <1>g DEF FrameOwn
<1> QED
  BY <1>q, <1>11, <1>12, <1>13, <1>14, <1>15, <1>16, <1>17, <1>18, <1>19, <1>21, <1>22, <1>37 DEF IInv, Part1

LEMMA StutterPart1 ==
  ASSUME ConstantsOK, Part1, UNCHANGED vars
  PROVE  Part1'
<1>1. /\ now' = now /\ mem' = mem /\ type' = type /\ next' = next /\ callback' = callback
      /\ handle' = handle /\ stored' = stored /\ timer' = timer /\ commands' = commands
      /\ op' = op /\ frame' = frame /\ dispatching' = dispatching /\ deleted' = deleted
      /\ fires' = fires /\ off' = off /\ lost' = lost
  BY DEF vars, memVars, timerVars, cbVars, ghosts
<1>2. QueueTyped' /\ \A t \in Timers :
        /\ Mentions(t)' <=> Mentions(t)
        /\ Deletes(t)' <=> Deletes(t)
        /\ HasStop(t)' <=> HasStop(t)
        /\ LastStart(t)' <=> LastStart(t)
  BY <1>1, Quiet, Zenon DEF Part1
<1>3. /\ TypeOK /\ OpOK /\ TimerOK /\ HandleOK /\ PublishOK
      /\ WorkOK /\ ShareOK /\ FrameOK /\ QueueOK
  BY DEF Part1
<1>4. \A s \in Schedules : handle[s] # 0 => handle[s] \in Timers
  BY <1>3, SMT DEF TypeOK, ConstantsOK, Timers
<1>5. TypeOK' /\ OpOK' /\ TimerOK' /\ WorkOK' /\ ShareOK' /\ FrameOK'
  <2>1. TypeOK'
    BY <1>1, <1>3, SMT DEF TypeOK
  <2>2. OpOK'
    BY <1>1, <1>3, SMT DEF OpOK
  <2>3. TimerOK' /\ WorkOK' /\ ShareOK' /\ FrameOK'
    BY <1>1, <1>3, SMT DEF TimerOK, WorkOK, ShareOK, FrameOK
  <2> QED BY <2>1, <2>2, <2>3
<1>6. HandleOK'
  BY <1>1, <1>2, <1>3, <1>4, SMT DEF HandleOK
<1>7. PublishOK'
  <2>1. \A a \in Actors : op[a].pc = "publish" => op[a].arg \in Timers
    BY <1>3 DEF OpOK
  <2> QED BY <2>1, <1>1, <1>2, <1>3, SMT DEF PublishOK, EndsOn
<1>8. QueueOK'
  BY <1>1, <1>2, <1>3, Zenon DEF QueueOK
<1> QED BY <1>2, <1>5, <1>6, <1>7, <1>8 DEF Part1

LEMMA InitPart1 ==
  ASSUME ConstantsOK, Init
  PROVE  Part1
<1>1. /\ Idle \in OpSet /\ Idle.s = NONE /\ Idle.pc = "idle" /\ Idle.call = "none"
      /\ PcOK("none", "idle") /\ NoFrame \in FrameSet /\ NoFrame.at = "idle" /\ NoFrame.s = NONE
      /\ NONE \notin Schedules /\ 0 \in 0..MaxTimers
  BY Rests, SMT DEF PcOK, NoFrame, FrameSet, ConstantsOK
<1>2. \A a \in Actors : op[a] = Idle
  BY DEF Init
<1>3. \A t \in Timers : timer[t] = NoTimer /\ timer[t].id = NONE
  BY NewTimer DEF Init
<1>4. frame = NoFrame /\ dispatching = NONE /\ ~deleted
  BY DEF Init
<1>5. QueueTyped /\ \A t : ~Mentions(t) /\ ~Deletes(t)
  BY EmptyQueue, Zenon DEF Init
<1>6. TypeOK
  <2>1. mem \in [Schedules -> {"none", "live", "freed"}] /\ next \in [Schedules -> Nat]
        /\ type \in [Schedules -> {"none", "relative", "once", "repeating"}]
        /\ stored \in [Schedules -> Nat \cup {NoEntry}] /\ fires \in [Schedules -> Nat]
    BY DEF Init
  <2>2. callback \in [Schedules -> BOOLEAN] /\ off \in [Schedules -> BOOLEAN]
    BY DEF Init
  <2>3. handle \in [Schedules -> 0..MaxTimers]
    BY <1>1 DEF Init
  <2>4. timer \in [Timers -> TimerSet]
    BY NewTimer, Zenon DEF Init
  <2>5. Len(commands) <= QueueLen
    BY SMT DEF Init, ConstantsOK
  <2>6. now \in 0..MaxTime
    BY SMT DEF Init, ConstantsOK
  <2>7. frame.at = "idle" /\ dispatching = NONE /\ deleted \in BOOLEAN /\ lost = {}
    BY <1>1 DEF Init
  <2> QED BY <2>1, <2>2, <2>3, <2>4, <2>5, <2>6, <2>7 DEF TypeOK, TimerSet
<1>7. OpOK
  <2>1. op \in [Actors -> OpSet]
    BY <1>1, Zenon DEF Init
  <2> QED BY <1>1, <1>2, <2>1, SMT DEF OpOK
<1>8. TimerOK /\ HandleOK /\ PublishOK /\ WorkOK /\ ShareOK /\ QueueOK
  <2>1. \A s \in Schedules : handle[s] = 0
    BY DEF Init
  <2> QED BY <2>1, <1>1, <1>2, <1>3, <1>5 DEF TimerOK, HandleOK, PublishOK, WorkOK, ShareOK, QueueOK
<1>9. FrameOK
  <2>1. Daemon \in Actors
    BY DEF Actors
  <2> QED BY <2>1, <1>1, <1>2, <1>4 DEF FrameOK
<1> QED BY <1>5, <1>6, <1>7, <1>8, <1>9 DEF Part1

LEMMA StutterKeeps ==
  ASSUME ConstantsOK, IInv, UNCHANGED vars
  PROVE  IInv'
<1>1. /\ now' = now /\ mem' = mem /\ type' = type /\ next' = next /\ callback' = callback
      /\ handle' = handle /\ stored' = stored /\ timer' = timer /\ commands' = commands
      /\ op' = op /\ frame' = frame /\ fires' = fires /\ off' = off /\ lost' = lost
  BY DEF vars, memVars, timerVars, cbVars, ghosts
<1>2. Part1 /\ InitAlone /\ FrameOwn /\ \A r \in Kept : Good(r)
  BY DEF IInv
<1>i. Parts
  BY <1>2 DEF Part1
<1>3. Part1'
  BY <1>2, StutterPart1
<1>4. InitAlone' /\ FrameOwn'
  BY <1>1, <1>2 DEF InitAlone, FrameOwn
<1>5. \A t \in Timers : SameTimer(t)
  <2>1. \A t \in Timers : Kin(t)
    BY <1>1 DEF Kin
  <2> QED BY <1>1, <1>i, <2>1, TimersSame, Zenon
<1>6. now' \in Nat /\ now <= now' /\ Kept' = Kept
  BY <1>1, <1>i, SMT DEF TypeOK, Kept
<1>7. ASSUME NEW r \in Kept
      PROVE  Good(r)'
  <2>1. Unmoved(r)
    BY <1>1, <1>5 DEF Unmoved, OnFrame
  <2> QED BY <1>2, <1>i, <1>6, <2>1, Others, Zenon
<1> QED BY <1>3, <1>4, <1>6, <1>7 DEF IInv

LEMMA InitKeeps ==
  ASSUME ConstantsOK, Init
  PROVE  IInv
<1>1. Part1
  BY InitPart1
<1>2. /\ \A a \in Actors : op[a].s = NONE /\ op[a].call = "none" /\ op[a].pc = "idle"
      /\ frame.at = "idle" /\ Daemon \in Actors /\ Tasks \subseteq Actors
  BY DEF Init, Idle, NoFrame, Actors
<1>3. InitAlone /\ FrameOwn
  BY <1>2, SMT DEF InitAlone, FrameOwn
<1>4. ASSUME NEW r \in Kept
      PROVE  Good(r)
  <2>1. r \in Schedules /\ r # NONE
    BY DEF Kept, ConstantsOK
  <2>2. /\ next[r] = 0 /\ ~callback[r] /\ handle[r] = 0 /\ stored[r] = NoEntry /\ fires[r] = 0
        /\ type[r] = "none"
    BY <2>1 DEF Init
  <2>3. ~OnFrame(r) /\ \A a \in Actors : op[a].s # r
    BY <1>2, <2>1 DEF OnFrame
  <2>4. EnableOn(r) /\ EditKept(r) /\ FrameAlone(r) /\ OffOK(r) /\ FrameOff(r) /\ SettledOn(r)
    BY <2>2, <2>3 DEF EnableOn, EditKept, FrameAlone, OffOK, FrameOff, SettledOn
  <2>5. HasTime(r) /\ OnceTime(r) /\ NoCallback(r) /\ StoredOK(r) /\ FiredOK(r)
    BY <2>2, <2>3, SMT DEF HasTime, OnceTime, NoCallback, StoredOK, FiredOK, OneShot
  <2>6. Alternate(r)
    <3>1. \A t \in Timers : timer[t].id = NONE
      BY NewTimer DEF Init
    <3> QED BY <3>1, <2>1 DEF Alternate
  <2> QED BY <2>4, <2>5, <2>6 DEF Good
<1> QED BY <1>1, <1>3, <1>4 DEF IInv

\* The invariant survives every step.
LEMMA NextKeeps ==
  ASSUME ConstantsOK, ~Preempted, IInv, [Next]_vars
  PROVE  IInv'
<1>1. CASE UNCHANGED vars
  BY <1>1, StutterKeeps
<1>2. ASSUME NEW a \in Actors, Call(a)
      PROVE  IInv'
  BY <1>2, CreateKeeps, EnableKeeps, DisableKeeps, EditGetKeeps, DeleteKeeps DEF Call
<1>3. ASSUME NEW a \in Actors, StartTimer(a)
      PROVE  IInv'
  <2>1. CASE ArmNew(a)
    <3>1. CASE Full \/ \A t \in Timers : timer[t].state # "none"
      BY <2>1, <3>1, ArmNewFailsKeeps
    <3>2. CASE ~Full /\ \E t \in Timers : timer[t].state = "none"
      BY <2>1, <3>2, ArmNewStartsKeeps
    <3> QED BY <3>1, <3>2
  <2> QED BY <1>3, <2>1, ComputeKeeps, PublishKeeps, RebindKeeps, ChangePeriodKeeps, StopKeeps,
             ClearKeeps, ArmedKeeps DEF StartTimer
<1>4. ASSUME NEW a \in Actors, Deleting(a)
      PROVE  IInv'
  BY <1>4, DeleteStopKeeps, CancelStopKeeps, DetachKeeps, DeleteTimerKeeps, EraseKeeps,
     FreeKeeps DEF Deleting
<1>5. ASSUME NEW a \in Actors, Loading(a)
      PROVE  IInv'
  BY <1>5, LoadedKeeps, CheckKeeps, LoadKeeps DEF Loading
<1>6. ASSUME NEW a \in Actors, Continue(a)
      PROVE  IInv'
  BY <1>3, <1>4, <1>5, <1>6, EditResetKeeps, EditSetKeeps DEF Continue
<1>7. CASE ProcessCommand
  <2>1. Head(commands).do \in {"start", "stop", "delete"}
    <3>1. QueueTyped /\ commands # <<>> /\ commands' = Tail(commands)
      BY <1>7 DEF IInv, Part1, ProcessCommand
    <3>2. Head(commands) \in CommandSet
      BY <3>1, Taken, Zenon
    <3> QED BY <3>2, SMT DEF CommandSet
  <2> QED BY <1>7, <2>1, ProcessStartKeeps, ProcessStopKeeps, ProcessDeleteKeeps
<1>8. CASE TriggerReturns
  BY <1>8, TriggerReturnsDeletedKeeps, TriggerReturnsKeptKeeps
<1>9. CASE TimerDaemon
  BY <1>7, <1>8, <1>9, ExpireKeeps, CallbackDetachedKeeps, CallbackSliceKeeps, CallbackRearmsKeeps,
     TriggerKeeps DEF TimerDaemon
<1> QED BY <1>1, <1>2, <1>6, <1>9, TickKeeps, RebootKeeps DEF Next

LEMMA Part1Safe == Part1 => NoUseAfterFree
<1> SUFFICES ASSUME Part1
             PROVE  NoUseAfterFree
  OBVIOUS
<1>1. \A a \in Actors : op[a].s # NONE => mem[op[a].s] = "live"
  BY DEF Part1, WorkOK
<1>2. frame.s # NONE => mem[frame.s] = "live"
  BY SMT DEF Part1, FrameOK, FrameSet
<1>3. frame.at = "enter" /\ timer[frame.t].id # NONE =>
        timer[frame.t].priv = "live" /\ mem[timer[frame.t].id] = "live"
  BY DEF Part1, FrameOK, TimerOK
<1>4. \A i \in 1..Len(commands) : timer[commands[i].t].state # "deleted"
  <2> SUFFICES ASSUME NEW i \in 1..Len(commands)
               PROVE  timer[commands[i].t].state # "deleted"
    OBVIOUS
  <2>1. commands[i] \in CommandSet
    BY SMT DEF Part1, QueueTyped
  <2>2. PICK t \in Timers : t = commands[i].t
    BY <2>1, SMT DEF CommandSet
  <2>3. Mentions(t)
    BY <2>2 DEF Mentions, Places
  <2> QED BY <2>2, <2>3 DEF Part1, QueueOK, Alive
<1> QED BY <1>1, <1>2, <1>3, <1>4 DEF NoUseAfterFree

LEMMA GoodFires ==
  ASSUME ConstantsOK, IInv
  PROVE  OneShotFiresOnce
<1> SUFFICES ASSUME NEW s \in Kept, type[s] \in OneShot, ~off[s]
             PROVE  fires[s] <= 1
  BY DEF OneShotFiresOnce, Kept
<1>1. fires[s] \in Nat
  BY SMT DEF IInv, Part1, TypeOK, Kept
<1>2. fires[s] > 0 => fires[s] = 1
  BY SMT DEF IInv, Good, FiredOK
<1> QED BY <1>1, <1>2, SMT

LEMMA GoodArmed ==
  ASSUME ConstantsOK, IInv
  PROVE  ArmedHasTimer
<1> SUFFICES ASSUME NEW s \in Kept, next[s] > 0, Working(s) = {}, frame = NoFrame, handle[s] # 0
             PROVE  \/ timer[handle[s]].state = "active"
                    \/ \E i \in 1..Len(commands) : commands[i].t = handle[s] /\ commands[i].do = "start"
  BY DEF ArmedHasTimer, Kept
<1>1. \A a \in Actors : op[a].s # s
  BY DEF Working
<1>2. ~OnFrame(s)
  BY DEF OnFrame, NoFrame
<1>3. Settled(s)
  BY <1>1 DEF Settled, HasNext
<1>4. SettledOn(s)
  BY DEF IInv, Good
<1>5. EndsOn(handle[s])
  BY <1>2, <1>3, <1>4 DEF SettledOn
<1> QED BY <1>5, SMT DEF EndsOn, LastStart, IsStart, Places

\* Every schedule, timer and command has its type, and an actor that works on
\* a schedule or a timer works on one that exists.
THEOREM TypeCorrect ==
  ASSUME ConstantsOK, ~Preempted
  PROVE  Spec => []TypeOK
<1>1. Init => IInv
  BY InitKeeps
<1>2. IInv /\ [Next]_vars => IInv'
  BY NextKeeps
<1>3. IInv => TypeOK
  BY DEF IInv, Part1
<1> QED BY <1>1, <1>2, <1>3, PTL DEF Spec

\* No task and no callback touches a schedule, a timer or private data that has
\* been freed, however API calls, expiries and commands interleave.
THEOREM NeverUsedAfterFree ==
  ASSUME ConstantsOK, ~Preempted
  PROVE  Spec => []NoUseAfterFree
<1>1. Init => IInv
  BY InitKeeps
<1>2. IInv /\ [Next]_vars => IInv'
  BY NextKeeps
<1>3. IInv => NoUseAfterFree
  BY Part1Safe DEF IInv
<1> QED BY <1>1, <1>2, <1>3, PTL DEF Spec

\* An enabled one-shot schedule triggers at most once, however many schedules,
\* tasks, timers and restarts there are, unless the daemon lost it to a full queue.
THEOREM FiresAtMostOnce ==
  ASSUME ConstantsOK, ~Preempted
  PROVE  Spec => []OneShotFiresOnce
<1>1. Init => IInv
  BY InitKeeps
<1>2. IInv /\ [Next]_vars => IInv'
  BY NextKeeps
<1>3. IInv => OneShotFiresOnce
  BY GoodFires
<1> QED BY <1>1, <1>2, <1>3, PTL DEF Spec

\* A schedule that shows a next time while nobody works on it has a timer that
\* runs or is about to: re-arms, edits, cancellations and restarts lose none.
THEOREM NeverSilentlyLost ==
  ASSUME ConstantsOK, ~Preempted
  PROVE  Spec => []ArmedHasTimer
<1>1. Init => IInv
  BY InitKeeps
<1>2. IInv /\ [Next]_vars => IInv'
  BY NextKeeps
<1>3. IInv => ArmedHasTimer
  BY GoodArmed
<1> QED BY <1>1, <1>2, <1>3, PTL DEF Spec


=============================================================================
