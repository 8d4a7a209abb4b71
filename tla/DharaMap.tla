------------------------------ MODULE DharaMap ------------------------------
(***************************************************************************)
(* dhara/map.c over the journal: a radix tree whose nodes are the pages    *)
(* that were written, each with the alternatives its path had, so that the *)
(* last page written is the root.  Pages that still matter are written     *)
(* again at the head before the tail passes them; when a block fails those *)
(* of the block are written again in the next one.                         *)
(*                                                                         *)
(* A call of the map is a loop that asks the journal for one page at a     *)
(* time; it is told by name (pc) where it is in that loop.  The glue holds *)
(* the device's mutex through a call, so that calls come one at a time.    *)
(***************************************************************************)
EXTENDS DharaJournal, Sequences

CONSTANTS
  GcRatio,      \* gc_ratio
  Warm,         \* the first calls, in which nothing fails
  Starts,       \* how many of them are left out: from nearly all to none
  Calls,        \* the calls after them are of these
  FailingCalls, \* the calls in which an operation of the chip may fail
  MaxCalls      \* bound on the calls after them

VARIABLES
  count,        \* m->count
  op,           \* the call under way
  calls,        \* how many were made
  ret,          \* whether the last one succeeded
  seen, wanted, since   \* history: see SectorStore

vars == <<page, bad, on, j, req, may, failures, losses,
          count, op, calls, ret, seen, wanted, since>>
history == <<calls, ret, wanted>>

Sectors == 0..(2^Depth - 1)

AllCalls == [call : {"write", "trim"}, s : Sectors, src : {NONE}]
  \cup [call : {"copy"}, s : Sectors, src : Sectors]
  \cup [call : {"sync", "gc"}, s : {NONE}, src : {NONE}]

DharaAssumption ==
  /\ {Blocks, Ppb, Ppc, MaxRetries, EpochMod, Depth, GcRatio} \subseteq Nat \ {0}
  /\ Calls \subseteq AllCalls /\ Ppc >= 4 /\ Ppb % Ppc = 0
ASSUME DharaAssumption

NoOp == [call |-> "none", s |-> NONE, src |-> NONE, pc |-> "idle", back |-> "idle",
         left |-> 0, restarts |-> 0, old |-> 0]

-----------------------------------------------------------------------------
(* The tree.                                                               *)

Bit(s, level) == (s \div 2^(Depth - 1 - level)) % 2

\* F of a value, which TLC computes once.
With(value, F(_)) == CHOOSE y \in {F(x) : x \in {value}} : TRUE

\* trace_path(): the page of the sector, if it has one, and the metadata a new
\* page for that sector would have.
Visit(k, p, t) ==
  IF p = NONE THEN [t EXCEPT !.result = "none"]
  ELSE With(ReadMeta(k, p), LAMBDA m :
         IF m.id = Unreadable THEN [t EXCEPT !.result = "error"]
         ELSE [t EXCEPT !.loc = p, !.at = m])

Descend(k, l, t) ==
  IF t.result # "ok" THEN t
  ELSE IF t.at.id = NONE THEN [t EXCEPT !.result = "none"]
  ELSE IF Bit(t.at.id, l) # Bit(t.meta.id, l)
    THEN Visit(k, t.at.alt[l], [t EXCEPT !.meta.alt[l] = t.loc])
  ELSE [t EXCEPT !.meta.alt[l] = t.at.alt[l]]

Trace(k, target) ==
  LET start == [result |-> "ok", loc |-> NONE, at |-> NoMeta,
                meta |-> [NoMeta EXCEPT !.id = target]]
      path[l \in 0..Depth] ==
        IF l = 0 THEN Visit(k, k.root, start)
        ELSE With(path[l - 1], LAMBDA t : Descend(k, l - 1, t))
  IN path[Depth]

\* dhara_map_read(): unmapped sectors and erased pages are blank.
Read(s) == With(Trace(j, s), LAMBDA t :
  IF t.result = "none" THEN NONE
  ELSE IF t.result = "error" \/ page[t.loc].kind \notin {"user", "free"} THEN Unreadable
  ELSE IF page[t.loc].kind = "free" THEN NONE ELSE page[t.loc].data)
Contents == [s \in Sectors |-> Read(s)]

MapCapacity(k) ==
  LET c == Capacity(k)
      kept == c \div (GcRatio + 1) + MaxRetries * Ppb
  IN IF kept >= c THEN 0 ELSE c - kept

\* raw_gc(): a page that is still the place of its sector is to be written again.
RawGc(k, p) ==
  LET m == ReadMeta(k, p)
      t == Trace(k, m.id)
  IN IF m.id = NONE THEN [what |-> "nothing"]
     ELSE IF m.id = Unreadable \/ t.result = "error" THEN [what |-> "error"]
     ELSE IF t.result = "ok" /\ t.loc = p THEN [what |-> "copy", meta |-> t.meta]
     ELSE [what |-> "nothing"]

-----------------------------------------------------------------------------
(* Pieces of the calls.                                                    *)

At(pc) == on /\ op.pc = pc /\ req.pc = "idle"
To(pc) == op' = [op EXCEPT !.pc = pc]
Quietly == UNCHANGED <<chip, on, faults>>

\* The journal is asked for a page, in state k and with this count in the cookie;
\* the call goes on at pc when it has answered.
Ask(k, n, src, d, meta, pc) ==
  /\ j' = [k EXCEPT !.cookie = n] /\ Request([src |-> src, data |-> d], meta)
  /\ To(pc) /\ UNCHANGED history /\ Quietly

Complete(success) ==
  /\ op' = NoOp /\ req' = NoReq /\ ret' = success
  /\ wanted' = IF success THEN wanted ELSE seen
  /\ UNCHANGED calls /\ Quietly
Fail == Complete(FALSE) /\ count' = op.old

\* raw_gc() in a loop that goes on at pc, or at wait if there is a page to copy.
Collect(k, p, without, wait) == LET g == RawGc(k, p) IN
  \/ g.what = "error" /\ Fail /\ j' = k
  \/ g.what = "copy" /\ Ask(k, count, p, NONE, g.meta, wait) /\ UNCHANGED count
  \/ g.what = "nothing" /\ without /\ UNCHANGED <<req, count, history>> /\ Quietly

\* pad_queue().
Pad(k, wait) == LET m == ReadMeta(k, k.root) IN
  \/ k.root = NONE /\ Ask(k, count, NONE, NONE, NoMeta, wait) /\ UNCHANGED count
  \/ k.root # NONE /\ m.id = Unreadable /\ Fail /\ j' = k
  \/ k.root # NONE /\ m.id # Unreadable /\ Ask(k, count, k.root, NONE, m, wait) /\ UNCHANGED count
-----------------------------------------------------------------------------
(* The calls.                                                              *)

Value(c) == c + 1   \* every write has data of its own

Begin == \E c \in IF calls < Len(Warm) THEN {Warm[calls + 1]} ELSE Calls :
  /\ At("idle") /\ calls < Len(Warm) + MaxCalls
  /\ calls' = calls + 1 /\ may' = (CASE calls < Len(Warm) -> {} [] calls >= Len(Warm) /\ c.call \in FailingCalls ->
                 {"failure", "loss"} [] OTHER -> {"loss"})
  /\ wanted' = CASE c.call = "write" -> [seen EXCEPT ![c.s] = Value(calls)]
                 [] c.call = "trim" -> [seen EXCEPT ![c.s] = NONE]
                 [] c.call = "copy" -> [seen EXCEPT ![c.s] = seen[c.src]]
                 [] OTHER -> seen
  /\ op' = [NoOp EXCEPT !.call = c.call, !.s = c.s, !.src = c.src, !.old = count,
              !.left = IF c.call = "gc" THEN 1 ELSE 0,
              !.pc = CASE c.call = "copy" -> "find" [] c.call \in {"sync", "gc"} -> c.call
                       [] OTHER -> "auto"]
  /\ UNCHANGED <<chip, on, j, req, failures, losses, count, ret>>

\* dhara_map_copy_sector() finds the page to copy, once.
Find == LET t == Trace(j, op.src) IN
  /\ At("find") /\ UNCHANGED j
  /\ \/ t.result = "error" /\ Fail
     \/ /\ t.result # "error" /\ UNCHANGED <<req, count, history>> /\ Quietly
        /\ op' = IF t.result = "none" THEN [op EXCEPT !.pc = "auto", !.call = "trim"]
                 ELSE [op EXCEPT !.pc = "auto", !.src = t.loc]

\* auto_gc().
AutoGc ==
  /\ At("auto") /\ UNCHANGED <<j, req, count, history>> /\ Quietly
  /\ op' = IF JournalSize(j) < MapCapacity(j) THEN [op EXCEPT !.pc = "act"]
           ELSE [op EXCEPT !.pc = "gc", !.left = GcRatio + 1]

\* dhara_map_gc().
Collected ==
  IF op.left > 1 THEN op' = [op EXCEPT !.pc = "gc", !.left = @ - 1]
  ELSE op' = [op EXCEPT !.pc = IF op.call = "gc" THEN "done" ELSE "act", !.left = 0]

Gc == LET k == Peek(j) IN
  /\ At("gc")
  /\ IF count = 0 \/ PeekPage(j) = NONE
       THEN Collected /\ j' = (IF count = 0 THEN j ELSE k)
            /\ UNCHANGED <<req, count, history>> /\ Quietly
       ELSE Collect(k, PeekPage(j), Collected /\ j' = Dequeue(k), "gc copy")

Done == At("done") /\ Complete(TRUE) /\ UNCHANGED <<j, count>>

\* The rest of prepare_write(), and the enqueue or copy that follows.
Write == LET t == Trace(j, op.s)
             n == IF t.result = "none" THEN count + 1 ELSE count IN
  /\ At("act") /\ op.call \in {"write", "copy"}
  /\ IF t.result = "error" \/ (t.result = "none" /\ count >= MapCapacity(j))
       THEN Fail /\ UNCHANGED j
       ELSE /\ Ask(j, n, IF op.call = "copy" THEN op.src ELSE NONE, Value(calls - 1),
                   t.meta, "write")
            /\ count' = n

\* try_delete(): the closest cousin is written again, with a path that does not
\* lead to the sector.
Trim == LET t == Trace(j, op.s)
            levels == {l \in 0..(Depth - 1) : t.meta.alt[l] # NONE}
            level == CHOOSE l \in levels : \A i \in levels : i <= l
            alt == t.meta.alt[level]
            m == ReadMeta(j, alt)
            meta == [id |-> m.id, alt |-> [l \in 0..(Depth - 1) |->
                       IF l = level THEN NONE ELSE IF l < level THEN t.meta.alt[l] ELSE m.alt[l]]]
  IN
  /\ At("act") /\ op.call = "trim"
  /\ \/ t.result = "none" /\ Complete(TRUE) /\ UNCHANGED <<j, count>>
     \/ t.result = "error" /\ Fail /\ UNCHANGED j
     \/ t.result = "ok" /\ levels = {} /\ Complete(TRUE) /\ count' = 0 /\ j' = Clear(j)
     \/ t.result = "ok" /\ levels # {} /\ m.id = Unreadable /\ Fail /\ UNCHANGED j
     \/ t.result = "ok" /\ levels # {} /\ m.id # Unreadable
        /\ Ask(j, count - 1, alt, NONE, meta, "trim") /\ UNCHANGED count

\* dhara_map_sync().
Sync == LET k == Peek(j) IN
  /\ At("sync")
  /\ \/ ~j.dirty /\ Complete(TRUE) /\ UNCHANGED <<j, count>>
     \/ j.dirty /\ PeekPage(j) = NONE /\ Pad(k, "sync pad")
     \/ j.dirty /\ PeekPage(j) # NONE
        /\ Collect(k, PeekPage(j), To("sync") /\ j' = Dequeue(k), "sync copy")

\* try_recover().  The device aborts on a page that the chip does not have.
Recover == LET k == NextRecoverable(j) IN
  /\ At("recover")
  /\ \/ ~j.recovery /\ To(op.back) /\ UNCHANGED <<j, req, count, history>> /\ Quietly
     \/ j.recovery /\ Recoverable(j) = NONE /\ Pad(k, "recover page")
     \/ j.recovery /\ Recoverable(j) # NONE /\ Asserts(j, Recoverable(j)) /\ To("aborted")
        /\ UNCHANGED <<j, req, count, history>> /\ Quietly
     \/ j.recovery /\ Recoverable(j) # NONE /\ ~Asserts(j, Recoverable(j))
        /\ Collect(k, Recoverable(j), To("recover") /\ j' = k, "recover page")

\* The journal has answered.
Answered == on /\ req.pc = "returned"

Written ==
  /\ Answered /\ req.result = "ok" /\ op.pc \in {"write", "trim"}
  /\ Complete(TRUE) /\ count' = (IF op.pc = "trim" THEN count - 1 ELSE count) /\ UNCHANGED j

Copied ==
  /\ Answered /\ req.result = "ok" /\ op.pc \notin {"write", "trim"}
  /\ CASE op.pc = "gc copy" -> Collected /\ j' = Dequeue(j)
       [] op.pc = "sync copy" -> To("sync") /\ j' = Dequeue(j)
       [] op.pc = "sync pad" -> To("sync") /\ UNCHANGED j
       [] OTHER -> To("recover") /\ UNCHANGED j
  /\ req' = NoReq /\ UNCHANGED <<count, history>> /\ Quietly

\* The bug: the sector that was not written stays counted.
NeedsRecoveryKeepsCount ==
  /\ Answered /\ req.result = "recover" /\ UNCHANGED <<j, count>>
  /\ IF op.pc = "recover page" /\ op.restarts >= MaxRetries THEN Fail
     ELSE /\ op' = IF op.pc = "recover page"
                     THEN [op EXCEPT !.pc = "recover", !.restarts = @ + 1]
                     ELSE [op EXCEPT !.pc = "recover", !.restarts = 0,
                             !.back = CASE op.pc = "gc copy" -> "gc"
                                        [] op.pc \in {"sync copy", "sync pad"} -> "sync"
                                        [] OTHER -> "auto"]
          /\ req' = NoReq /\ UNCHANGED history /\ Quietly

NeedsRecovery ==
  /\ Answered /\ req.result = "recover" /\ UNCHANGED j
  /\ IF op.pc = "recover page" /\ op.restarts >= MaxRetries THEN Fail
     ELSE /\ op' = IF op.pc = "recover page"
                     THEN [op EXCEPT !.pc = "recover", !.restarts = @ + 1]
                     ELSE [op EXCEPT !.pc = "recover", !.restarts = 0,
                             !.back = CASE op.pc = "gc copy" -> "gc"
                                        [] op.pc \in {"sync copy", "sync pad"} -> "sync"
                                        [] OTHER -> "auto"]
          /\ count' = (IF op.pc = "write" THEN op.old ELSE count)
          /\ req' = NoReq /\ UNCHANGED history /\ Quietly

Refused == Answered /\ req.result \notin {"ok", "recover"} /\ Fail /\ UNCHANGED j

-----------------------------------------------------------------------------
(* Power.                                                                  *)

\* Power lost between two steps; within one it is a step of the journal.
Off ==
  /\ op' = NoOp /\ ret' = TRUE /\ wanted' = <<>> /\ count' = 0 /\ UNCHANGED calls
PowerLoss == on /\ op.pc # "aborted" /\ PowerLost /\ UNCHANGED page /\ Off

\* dhara_init(): dhara_map_init() and dhara_map_resume(), whose result is ignored.
Resume ==
  /\ ~on /\ on' = TRUE /\ j' = ResumedJournal
  /\ UNCHANGED <<page, bad, req, op, calls, ret, faults>>
  /\ count' = (IF j'.root = NONE THEN 0 ELSE j'.cookie)
  /\ wanted' = Contents'

Journal ==
  /\ on /\ JournalNext
  /\ IF on' THEN UNCHANGED <<count, op, history>> ELSE Off

\* What a device that aborted finds when it starts again is left out.
Stop ==
  /\ op.pc = "aborted" \/ (At("idle") /\ calls = Len(Warm) + MaxCalls)
  /\ UNCHANGED <<page, bad, on, j, req, faults, count, op, history>>

Step ==
  \/ Begin \/ Find \/ AutoGc \/ Gc \/ Done \/ Write \/ Trim \/ Sync \/ Recover
  \/ Written \/ Copied \/ NeedsRecovery \/ Refused
  \/ Journal \/ PowerLoss \/ Resume \/ Stop

\* What can be read, whenever the journal is not in the middle of a page, and
\* what could be read since the last sync that succeeded.
Observe ==
  /\ seen' = CASE ~on' -> <<>>
               [] on' /\ req'.pc \in {"idle", "returned"} -> Contents'
               [] OTHER -> seen
  /\ since' = IF ~on' THEN (IF on THEN since \cup {wanted} ELSE since)
              ELSE IF ~on \/ (op.call = "sync" /\ op'.call = "none" /\ ret')
                THEN {seen'}
              ELSE since \cup {seen'}

Init ==
  /\ page = [p \in Pages |-> Free] /\ bad = {} /\ on = TRUE /\ j = ResetJournal
  /\ req = NoReq /\ may = {} /\ failures = 0 /\ losses = 0
  /\ count = 0 /\ op = NoOp /\ calls \in Starts /\ ret = TRUE
  /\ seen = [s \in Sectors |-> NONE] /\ wanted = seen /\ since = {seen}

Next == Step /\ Observe

Spec == Init /\ [][Next]_vars
core == <<page, bad, on, j, req, may, failures, losses, count, op, calls, ret, wanted>>
\* A call runs in a task that the scheduler serves: it does not stop half way.
FairSpec == Spec /\ WF_core(on /\ op.pc # "idle" /\ Step)

-----------------------------------------------------------------------------
Store == INSTANCE SectorStore WITH
  Sectors <- Sectors, Data <- 1..(Len(Warm) + MaxCalls), Unmapped <- NONE,
  on <- on, content <- seen, wanted <- wanted, since <- since,
  busy <- op.pc # "idle", ok <- ret

\* dhara keeps its promise: each call takes effect at once or not at all, what
\* it tells its caller is true, and after a loss of power the sectors are as they
\* were at some moment since the last sync, whatever was being written, erased or
\* collected (dhara_map_sync(), dhara_map_resume()).  With MixedFaults = FALSE a
\* history has failures or losses of power: a loss in a recovery, or a failure
\* after a loss, is then not covered, and with TRUE the promise is broken.
KeepsStore == Store!Spec

\* Between calls m->count is the number of sectors that have a page: it survives
\* calls that fail and that are repeated after a recovery, and the cookie of the
\* checkpoint a resume starts from holds the number of that moment.
CountExact == (on /\ op.pc = "idle") =>
  count = Cardinality({s \in Sectors : Trace(j, s).result # "none"})

\* A block failed while nothing was mapped: the root to recover is
\* DHARA_PAGE_NONE, in a block that the chip does not have.
RecoversNothing == j.recovery /\ j.rRoot = NONE

\* Every other call returns: collection, sync and recovery, each a loop that
\* writes to the journal it makes room in, come to an end (try_recover()).
CallReturns == (op.pc # "idle") ~> (op.pc = "idle" \/ RecoversNothing)

\* A call that returns leaves every sector but its own as it was, so that what was
\* synced and not written since is still there (dhara_map_sync()).
OthersStay == [][(op.call # "none" /\ on' /\ op'.call = "none") =>
                  \A s \in Sectors \ {op.s} : seen'[s] = wanted[s]]_vars

\* A copy that succeeded left in its destination what the source held
\* (dhara_map_copy_sector()).
CopyCopies ==
  [][(op.call = "copy" /\ on' /\ op'.call = "none" /\ ret') => seen'[op.s] = wanted[op.s]]_vars

=============================================================================
