---------------------------- MODULE DharaJournal ----------------------------
(***************************************************************************)
(* dhara/journal.c on the NAND driver of spi_nand_flash: the pages of a    *)
(* chip as a queue that goes round and round.  Pages are written in groups *)
(* of Ppc; the last page of a group is a checkpoint, which holds the       *)
(* metadata of the others and makes all that came before it persistent.    *)
(* Blocks that fail are recovered into the next one and marked bad.  Power *)
(* may be lost between two operations of the chip and within one, and      *)
(* the journal then resumes from what the chip holds.                      *)
(*                                                                         *)
(* The metadata is the map's; here it is carried.                          *)
(***************************************************************************)
EXTENDS Integers, FiniteSets

CONSTANTS
  Blocks,       \* num_blocks
  Ppb,          \* pages of a block, 1 << log2_ppb
  Ppc,          \* pages of a checkpoint group, 1 << log2_ppc
  MaxRetries,   \* DHARA_MAX_RETRIES
  EpochMod,     \* 256
  Depth,        \* DHARA_RADIX_DEPTH
  MaxFailures,  \* bound on operations of the chip that fail
  MixedFaults,  \* whether one history may have both these and losses of power
  MaxLosses     \* bound on losses of power

VARIABLES
  page,         \* what each page of the chip holds
  bad,          \* blocks marked bad
  on,           \* the device has power, and the journal was resumed
  j,            \* struct dhara_journal, with the parts of page_buf by name
  req,          \* the enqueue() or copy() under way
  may,          \* the faults that may happen now: "failure", "loss"
  failures, losses

chip == <<page, bad>>
faults == <<may, failures, losses>>

NONE == -1      \* DHARA_PAGE_NONE, DHARA_SECTOR_NONE: 0xffffffff
Pages == 0..(Blocks * Ppb - 1)
Block(p) == p \div Ppb
Start(p) == p - (p % Ppb)
SameGroup(p, q) == p \div Ppc = q \div Ppc

\* A page that was erased, one that an interrupted or failed operation left
\* unreadable, and one with user data.
Free == [kind |-> "free"]
Torn == [kind |-> "torn"]
User(d) == [kind |-> "user", data |-> d]

NoMeta == [id |-> NONE, alt |-> [l \in 0..(Depth - 1) |-> NONE]]
NoMetas == [i \in 0..(Ppc - 2) |-> NoMeta]
NoReq == [pc |-> "idle", src |-> NONE, data |-> 0, meta |-> NoMeta,
          tries |-> 0, result |-> "none"]

\* reset_journal().
ResetJournal ==
  [epoch |-> 0, bbLast |-> Blocks \div 64, bbCurrent |-> 0,
   dirty |-> FALSE, badMeta |-> FALSE, recovery |-> FALSE, enumDone |-> FALSE,
   head |-> 0, tail |-> 0, tailSync |-> 0, root |-> NONE,
   rNext |-> NONE, rRoot |-> NONE, rMeta |-> NONE,
   metas |-> NoMetas, cookie |-> 0]

-----------------------------------------------------------------------------
(* Positions, sizes, metadata.                                             *)

\* Page numbers are unsigned: NONE and its neighbours are beyond the end.
NextUpage(p) ==
  LET q == IF (p + 2) % Ppc = 0 THEN p + 2 ELSE p + 1 IN IF q \in Pages THEN q ELSE 0
NextBlock(b) == IF b + 1 < Blocks THEN b + 1 ELSE 0

\* The head moves, and the epoch ends when it comes round (roll_stats()).
MoveHead(k, p) ==
  IF p # 0 THEN [k EXCEPT !.head = p]
  ELSE [k EXCEPT !.head = 0, !.bbLast = k.bbCurrent, !.bbCurrent = 0,
                 !.epoch = (@ + 1) % EpochMod]

Capacity(k) ==
  LET worst == IF k.bbLast > k.bbCurrent THEN k.bbLast ELSE k.bbCurrent
      checkpoints == (Blocks - worst - 1) * (Ppb \div Ppc)
  IN checkpoints * Ppc - checkpoints

JournalSize(k) ==
  LET end == IF k.head < k.tailSync THEN k.head + Blocks * Ppb ELSE k.head
  IN (end - k.tailSync) - (end \div Ppc - k.tailSync \div Ppc)

Unreadable == -2
UnreadableMeta == [NoMeta EXCEPT !.id = Unreadable]

MetasAt(p, i) == LET c == page[p] IN
  CASE c.kind \in {"check", "dump"} -> c.metas[i]
    [] c.kind = "free" -> NoMeta
    [] OTHER -> UnreadableMeta

\* dhara_journal_read_meta(): from the buffer, or from the page that holds the
\* metadata of the group, which nand_read() asserts to be a page of the chip.
MetaPage(k, p) ==
  IF k.rMeta # NONE /\ SameGroup(p, k.rRoot) THEN k.rMeta ELSE Ppc * (p \div Ppc) + Ppc - 1
ReadMeta(k, p) ==
  IF SameGroup(p, k.head) THEN k.metas[p % Ppc] ELSE MetasAt(MetaPage(k, p), p % Ppc)
Asserts(k, p) == ~SameGroup(p, k.head) /\ MetaPage(k, p) \notin Pages

\* The tail at the next block that is not bad, or at the head.
Peek(k) ==
  LET hit(b) == b = Block(k.head) \/ b \notin bad
      at[i \in 0..MaxRetries] == IF i = 0 THEN Block(k.tail) ELSE
                        IF hit(at[i - 1]) THEN at[i - 1] ELSE NextBlock(at[i - 1])
      t == at[MaxRetries - 1] * Ppb
  IN IF k.head = k.tail \/ k.tail % Ppb # 0 \/ ~hit(at[MaxRetries - 1]) THEN k
     ELSE [k EXCEPT !.tail = t, !.root = IF t = k.head THEN NONE ELSE @]
PeekPage(k) == IF k.head = k.tail THEN NONE ELSE Peek(k).tail

Behind(k, p) == (k.head + Blocks * Ppb - p) % (Blocks * Ppb)

Dequeue(k) ==
  LET t == NextUpage(k.tail)
      d == [k EXCEPT !.tail = t, !.tailSync = IF k.dirty \/ k.recovery THEN @ ELSE t]
  IN IF k.head = k.tail THEN k
     ELSE [d EXCEPT !.root = IF @ # NONE /\ Behind(d, @) > Behind(d, t) THEN NONE ELSE @]

Clear(k) == [k EXCEPT !.tail = k.head, !.root = NONE, !.dirty = TRUE, !.metas = NoMetas]

ClearRecovery(k) ==
  [k EXCEPT !.rNext = NONE, !.rRoot = NONE, !.rMeta = NONE,
            !.badMeta = FALSE, !.recovery = FALSE, !.enumDone = FALSE]

\* dhara_journal_next_recoverable(): the page, and the journal after it.
Recoverable(k) == IF ~k.recovery \/ k.enumDone THEN NONE ELSE k.rNext

\* The bug: the page that was asked for is asked for again.
NextRecoverableAgain(k) ==
  IF k.recovery /\ ~k.enumDone /\ k.rNext = k.rRoot THEN [k EXCEPT !.enumDone = TRUE]
  ELSE k

NextRecoverable(k) ==
  IF ~k.recovery \/ k.enumDone THEN k
  ELSE IF k.rNext = k.rRoot THEN [k EXCEPT !.enumDone = TRUE]
  ELSE [k EXCEPT !.rNext = NextUpage(@)]
-----------------------------------------------------------------------------
(* Operations of the chip.  Each does what it should, or fails, or power is *)
(* lost in the middle of it.                                                *)

PowerLost ==
  /\ "loss" \in may /\ losses < MaxLosses /\ losses' = losses + 1
  /\ MixedFaults \/ failures = 0
  /\ on' = FALSE /\ j' = ResetJournal /\ req' = NoReq
  /\ UNCHANGED <<bad, may, failures>>

\* The chip as it becomes, and as a failure or an interruption leaves it; what
\* the journal does next.
Chip(done, broken, Done, Failed) ==
  \/ page' = done /\ Done /\ UNCHANGED <<on, faults>>
  \/ /\ "failure" \in may /\ failures < MaxFailures /\ failures' = failures + 1
     /\ MixedFaults \/ losses = 0
     /\ page' = broken /\ Failed /\ UNCHANGED <<bad, on, may, losses>>
  \/ page' = broken /\ PowerLost

Wiped(b, c) == [p \in Pages |-> IF Block(p) = b THEN c ELSE page[p]]

Erase(b, Done, Failed) == Chip(Wiped(b, Free), Wiped(b, Torn), Done, Failed)
Prog(p, c, Done, Failed) ==
  Chip([page EXCEPT ![p] = c], [page EXCEPT ![p] = Torn], Done, Failed)

\* nand_mark_bad() erases the block before it writes the marker; the journal
\* does not hear of a failure of either.
MarkBad(b, Then) ==
  \/ Chip(Wiped(b, Free), Wiped(b, Torn), Then /\ bad' = bad \cup {b}, Then)
  \/ page' = Wiped(b, Free) /\ PowerLost

\* dhara_journal_enqueue() and dhara_journal_copy().
Go(pc) == req' = [req EXCEPT !.pc = pc]
Return(result) == req' = [req EXCEPT !.pc = "returned", !.result = result]
Request(r, m) == req' = [NoReq EXCEPT !.pc = "prepare", !.src = r.src, !.data = r.data,
                                      !.meta = m]

\* skip_block(): the head goes to the next block, unless the synced tail is there.
Skips(k) == Block(k.tailSync) # NextBlock(Block(k.head))
Skipped(k) == IF Skips(k) THEN MoveHead(k, NextBlock(Block(k.head)) * Ppb) ELSE k

\* The head must not enter the block of the synced tail.
Blocked(k) == LET n == NextUpage(k.head) IN
  Block(n) = Block(k.tailSync) /\ Block(n) # Block(k.head)

\* prepare_head() passes over blocks that are bad.
Prepared ==
  LET pass[i \in 0..MaxRetries] ==
        IF i = 0 THEN [k |-> [j EXCEPT !.dirty = TRUE], result |-> "ok"]
        ELSE LET q == pass[i - 1]
                 n == [q.k EXCEPT !.bbCurrent = @ + 1] IN
             IF q.result # "ok" \/ Block(q.k.head) \notin bad THEN q
             ELSE [k |-> Skipped(n),
                   result |-> IF ~Skips(n) THEN "full"
                              ELSE IF i = MaxRetries THEN "too bad" ELSE "ok"]
  IN CASE Blocked(j) -> [k |-> j, result |-> "full"]
       [] ~Blocked(j) /\ j.head % Ppb # 0 -> pass[0]
       [] OTHER -> pass[MaxRetries]

PrepareHead(pc, next, failed) == LET q == Prepared IN
  /\ req.pc = pc
  /\ IF q.result = "ok" /\ j.head % Ppb = 0
       THEN Erase(Block(q.k.head), j' = q.k /\ Go(next) /\ UNCHANGED bad, j' = q.k /\ Go(failed))
       ELSE /\ j' = q.k /\ (IF q.result = "ok" THEN Go(next) ELSE Return(q.result))
            /\ UNCHANGED <<chip, on, faults>>

\* What is written to the head: data, a copy, or nothing at all (padding).  The
\* copy of a page that was not programmed is free when the chip moved it, with its
\* marker, and a blank page in use when it went through RAM.
Content == CASE req.src = NONE -> {User(req.data)}
             [] req.src # NONE /\ page[req.src].kind = "free" -> {Free, User(NONE)}
             [] OTHER -> {page[req.src]}
Pads == req.src = NONE /\ req.data = NONE

\* push_meta(): the metadata is buffered; at the end of a group it is written.
PushMeta ==
  LET k == [j EXCEPT !.metas[j.head % Ppc] = req.meta] IN
  IF (j.head + 2) % Ppc # 0
    THEN j' = [k EXCEPT !.root = j.head, !.head = @ + 1] /\ Return("ok")
    ELSE j' = k /\ Go("checkpoint")

Program == \E c \in Content :
  /\ req.pc = "program"
  /\ CASE Pads -> PushMeta /\ UNCHANGED <<chip, on, faults>>
       [] ~Pads /\ c.kind \in {"user", "free"} ->
            Prog(j.head, c, PushMeta /\ UNCHANGED bad, Go("bad") /\ UNCHANGED j)
       [] OTHER -> Return("ecc") /\ UNCHANGED <<chip, j, on, faults>>

Synced(k) == [k EXCEPT !.tailSync = IF k.recovery THEN @ ELSE k.tail]

Header == [kind |-> "check", epoch |-> j.epoch, tail |-> j.tail, bbCurrent |-> j.bbCurrent,
           bbLast |-> j.bbLast, cookie |-> j.cookie, metas |-> j.metas]

Checkpoint ==
  /\ req.pc = "checkpoint"
  /\ LET k == MoveHead([j EXCEPT !.dirty = FALSE, !.root = j.head], NextUpage(j.head)) IN
     Prog(j.head + 1, Header,
          /\ IF k.enumDone THEN j' = k /\ Go("finish") ELSE j' = Synced(k) /\ Return("ok")
          /\ UNCHANGED bad,
          Go("bad") /\ UNCHANGED j)

\* finish_recovery().
Finish ==
  /\ req.pc = "finish"
  /\ MarkBad(Block(j.rRoot),
             IF j.badMeta THEN Go("finish meta") /\ UNCHANGED j
             ELSE j' = Synced(ClearRecovery(j)) /\ Return("ok"))
FinishMeta ==
  /\ req.pc = "finish meta"
  /\ MarkBad(Block(j.rMeta), j' = Synced(ClearRecovery(j)) /\ Return("ok"))

\* recover_from(): the write to the head failed.
Again == req' = [req EXCEPT !.tries = @ + 1,
                            !.pc = IF req.tries + 1 < MaxRetries THEN "prepare" ELSE "returned",
                            !.result = IF req.tries + 1 < MaxRetries THEN @ ELSE "too bad"]

RecoverFrom ==
  LET n == [j EXCEPT !.bbCurrent = @ + 1]
      k == Skipped(n)
      again == [k EXCEPT !.enumDone = FALSE, !.rNext = Start(j.rRoot), !.root = j.rRoot]
      first == [k EXCEPT !.rRoot = j.root, !.rNext = Start(j.root)]
  IN
  /\ req.pc = "bad"
  /\ CASE ~Skips(n) -> j' = n /\ Return("full") /\ UNCHANGED <<chip, on, faults>>
       [] Skips(n) /\ j.recovery ->
            IF j.rMeta = NONE \/ Block(j.rMeta) # Block(j.head)
              THEN MarkBad(Block(j.head), j' = again /\ Return("recover"))
              ELSE /\ j' = [again EXCEPT !.badMeta = TRUE] /\ Return("recover")
                   /\ UNCHANGED <<chip, on, faults>>
       [] Skips(n) /\ ~j.recovery /\ j.head % Ppb = 0 ->
            MarkBad(Block(j.head), j' = k /\ Again)
       [] Skips(n) /\ ~j.recovery /\ j.head % Ppb # 0 ->
            /\ IF j.head % Ppc # 0
                 THEN j' = first /\ req' = [req EXCEPT !.pc = "dump", !.tries = 0]
                 ELSE j' = [first EXCEPT !.recovery = TRUE] /\ Return("recover")
            /\ UNCHANGED <<chip, on, faults>>

\* dump_meta(): the buffered metadata of the failed block is written to a page of
\* the next one.
Dump ==
  /\ req.pc = "dump program"
  /\ Prog(j.head, [kind |-> "dump", metas |-> j.metas],
          /\ j' = [MoveHead(j, NextUpage(j.head)) EXCEPT
                     !.rMeta = j.head, !.metas = NoMetas, !.recovery = TRUE]
          /\ Return("recover") /\ UNCHANGED bad,
          Go("dump bad") /\ UNCHANGED j)

DumpBad ==
  LET n == [j EXCEPT !.bbCurrent = @ + 1] IN
  /\ req.pc = "dump bad"
  /\ MarkBad(Block(j.head),
             /\ j' = Skipped(n)
             /\ IF ~Skips(n) THEN Return("full")
                ELSE IF req.tries + 1 = MaxRetries THEN Return("too bad")
                ELSE req' = [req EXCEPT !.pc = "dump", !.tries = @ + 1])

-----------------------------------------------------------------------------
(* dhara_journal_resume(): what is found on the chip.                       *)

CheckpointOf(b) == page[b * Ppb + Ppc - 1]
HasCheckpoint(b) == b \notin bad /\ CheckpointOf(b).kind = "check"

FindCheckblock(b) ==
  LET hits == {c \in b..(b + MaxRetries - 1) : c < Blocks /\ HasCheckpoint(c)}
  IN IF hits = {} THEN NONE ELSE CHOOSE c \in hits : \A d \in hits : c <= d
\* The bug: a block of the epoch before is as good.
FindEpochAny(b, epoch) == FindCheckblock(b)

FindEpoch(b, epoch) == LET f == FindCheckblock(b) IN
  IF f # NONE /\ CheckpointOf(f).epoch = epoch THEN f ELSE NONE

\* A binary search for the last block of the epoch.
FindLastCheckblock(first, epoch) ==
  LET search[low \in 0..Blocks, high \in -1..(Blocks - 1)] ==
        LET mid == (low + high) \div 2
            found == FindEpoch(mid, epoch)
            next == FindEpoch(found + 1, epoch)
        IN IF low > high \/ (found = NONE /\ mid = 0) THEN first
           ELSE IF found = NONE THEN search[low, mid - 1]
           ELSE IF next = NONE THEN found ELSE search[next, high]
  IN search[first, Blocks - 1]

GroupFree(g) == \A i \in 0..(Ppc - 1) : page[g + i].kind = "free"

\* And one for the last group of the block that was written to.
FindLastGroup(b) ==
  LET groups == Ppb \div Ppc
      at(i) == b * Ppb + i * Ppc
      search[low \in 0..groups, high \in -1..(groups - 1)] ==
        LET mid == (low + high) \div 2 IN
        IF low > high THEN at(0)
        ELSE IF GroupFree(at(mid)) THEN search[low, mid - 1]
        ELSE IF mid + 1 = groups \/ GroupFree(at(mid + 1)) THEN at(mid)
        ELSE search[mid + 1, high]
  IN search[0, groups - 1]

\* The last checkpoint of the epoch in the block, up to that group.
FindRoot(group, epoch) ==
  LET good == {p \in Start(group)..(group + Ppc - 1) :
                 p % Ppc = Ppc - 1 /\ page[p].kind = "check" /\ page[p].epoch = epoch}
  IN IF good = {} THEN NONE ELSE CHOOSE p \in good : \A q \in good : q <= p

FreeAtEnd(g) == Cardinality({i \in 0..(Ppc - 1) :
                  \A k \in i..(Ppc - 1) : page[g + k].kind = "free"})

\* The next free page of the block, or the start of the next block, which must
\* not be the tail's.
FindHead(k, group) ==
  LET chase(n) == IF n.head % Ppb = 0 /\ Block(n.head) = Block(n.tail)
                    THEN [n EXCEPT !.tail = NextBlock(Block(n.tail)) * Ppb] ELSE n
      scan[i \in 0..(Ppb \div Ppc)] ==
        IF i = 0 THEN [k |-> MoveHead(k, NextUpage(group)), found |-> FALSE]
        ELSE LET q == scan[i - 1]
                 g == Ppc * (q.k.head \div Ppc)
                 n == chase(MoveHead(q.k, IF g + Ppc \in Pages THEN g + Ppc ELSE 0)) IN
             IF q.found THEN q
             ELSE IF FreeAtEnd(g) > 1
               THEN [k |-> [q.k EXCEPT !.head = g + Ppc - FreeAtEnd(g)], found |-> TRUE]
             ELSE [k |-> n, found |-> n.head % Ppb = 0]
  IN scan[Ppb \div Ppc].k

ResumedJournal ==
  LET first == FindCheckblock(0)
      epoch == CheckpointOf(first).epoch
      group == FindLastGroup(FindLastCheckblock(first, epoch))
      last == FindRoot(group, epoch)
      k == FindHead([ResetJournal EXCEPT
             !.epoch = epoch, !.root = last - 1, !.tail = page[last].tail,
             !.bbCurrent = page[last].bbCurrent, !.bbLast = page[last].bbLast,
             !.cookie = page[last].cookie], group)
  IN IF first = NONE \/ last = NONE THEN ResetJournal ELSE [k EXCEPT !.tailSync = k.tail]

JournalNext ==
  \/ PrepareHead("prepare", "program", "bad") \/ PrepareHead("dump", "dump program", "dump bad")
  \/ Program \/ Checkpoint \/ Finish \/ FinishMeta
  \/ RecoverFrom \/ Dump \/ DumpBad
=============================================================================
