------------------------- MODULE TouchIsoTpProofs -------------------------
(***************************************************************************)
(* Proofs about the two components whose interrupt hands work to a task:   *)
(* the frame pool of esp_isotp and the buttons of touch_element, for any   *)
(* numbers of frames, buttons and messages.                                *)
(*                                                                         *)
(* The frame pool: no transmit frame is lost or in two places unless an    *)
(* interrupt meets the task inside one of its list operations or the       *)
(* length check gives it up, and the node does not call back into a freed  *)
(* transport.  The pool is a linked list, and where a frame is follows     *)
(* from the links.  What the operations keep is that the list is a chain:  *)
(* no frame of it links to the head and no two link to the same frame.     *)
(* Then taking the head takes exactly it out of the reachable frames, and  *)
(* inserting a frame that is not reachable adds exactly it.                *)
(*                                                                         *)
(* The buttons: the application receives the events of a button in order,  *)
(* and no use of the power lock stays behind.  A touch is in one of five   *)
(* places: on the pad, in a message of the interrupt, in the device, in    *)
(* the state of the button, in the events that wait.  The invariant says   *)
(* of each place what the places behind it hold: a press that is new or in *)
(* a message finds its button idle, and the events that wait, read from    *)
(* the first, end where the state of the button is.                        *)
(***************************************************************************)
EXTENDS TouchButtons, SequenceTheorems, FiniteSetTheorems, FunctionTheorems,
        WellFoundedInduction, TLAPS

CONSTANTS
  Frames,          \* tx_frame_array
  None,            \* a null pointer
  TxDepth,         \* frames the TWAI driver queues
  Sizes,           \* lengths of the payloads the caller hands over
  MaxTransports,   \* bound on esp_isotp_new_transport()
  MaxFailures      \* bound on failures of the driver's calls

VARIABLES
  build,
  enabled,     \* the node runs: interrupts come, frames are accepted
  context,     \* the transport its event callbacks are registered with
  transport,   \* the application's handle
  created,     \* transports created
  head, next,  \* tx_frame_pool
  flying,      \* frames queued in the driver
  at, frame,   \* the task in isotp_user_send_can(): its place, tx_frame,
  second,      \* and the successor it read
  failures,
  raced,       \* history: an interrupt changed the list under the task
  dangling,    \* history: a driver call failed and left the callbacks
  dropped      \* history: frames that were taken for a payload too long

Tp == INSTANCE IsoTp

-----------------------------------------------------------------------------
(***************************************************************************)
(* The frames.                                                             *)
(***************************************************************************)

\* Neither the list nor what the task knows of it is damaged.
Chain(h, nx) ==
  /\ \A f \in Tp!Reach(h, nx) : nx[f] # h
  /\ \A f, g \in Tp!Reach(h, nx) : nx[f] = nx[g] => f = g \/ nx[f] = None

\* What the task has read is still so.
TaskKnows ==
  /\ at \in {"took", "unlinking"} => frame = head
  /\ at = "unlinking" => second = next[head]
  /\ at = "linking" => next[frame] = head

\* A task in isotp_user_send_can() holds a frame of a transport that lives.
TaskHolds == at # "idle" => Tp!Live /\ frame # None

PoolKept == raced \/ (Tp!Live => Tp!OnePlace /\ Chain(head, next) /\ TaskKnows)

PoolInv == Tp!TypeOK /\ TaskHolds /\ PoolKept

-----------------------------------------------------------------------------
(***************************************************************************)
(* Lists.                                                                  *)
(***************************************************************************)

\* Every set of numbers that has a member has a least one.
LEMMA LeastNumber ==
  ASSUME NEW T, T \subseteq Nat, T # {}
  PROVE  \E x \in T : \A y \in T : x <= y
<1> DEFINE less == OpToRel(<, Nat)
<1>1. IsWellFoundedOn(less, Nat)
  BY NatLessThanWellFounded, Zenon
<1>2. \A m, n \in Nat : m < n => <<m, n>> \in less
  BY DEF OpToRel
<1> HIDE DEF less
<1>3. PICK x \in T : \A y \in T : ~ (<<y, x>> \in less)
  BY <1>1, WFMin, Zenon
<1>4. \A y \in T : ~(y < x)
  BY <1>2, <1>3
<1> QED BY <1>4

Links == [Frames -> Frames \cup {None}]

\* The reachable frames are closed under the links.
LEMMA ReachClosed ==
  ASSUME NEW h \in Frames \cup {None}, NEW nx \in Links
  PROVE  Tp!Closed(Tp!Reach(h, nx), h, nx) /\ Tp!Reach(h, nx) \in SUBSET Frames
<1>1. h \in Tp!Reach(h, nx) \cup {None}
  BY DEF Tp!Reach, Tp!Closed
<1>2. ASSUME NEW f \in Tp!Reach(h, nx) PROVE nx[f] \in Tp!Reach(h, nx) \cup {None}
  <2>1. f \in Frames /\ nx[f] \in Frames \cup {None} BY DEF Tp!Reach, Links
  <2>2. CASE nx[f] = None BY <2>2
  <2>3. CASE nx[f] # None
    <3>1. ASSUME NEW S \in SUBSET Frames, Tp!Closed(S, h, nx) PROVE nx[f] \in S
      <4>1. f \in S BY <3>1 DEF Tp!Reach
      <4> QED BY <3>1, <4>1, <2>3 DEF Tp!Closed
    <3> QED BY <2>1, <2>3, <3>1 DEF Tp!Reach
  <2> QED BY <2>2, <2>3
<1>3. Tp!Reach(h, nx) \in SUBSET Frames BY DEF Tp!Reach
<1> QED BY <1>1, <1>2, <1>3 DEF Tp!Closed

\* They are the least such set.
LEMMA ReachLeast ==
  ASSUME NEW h, NEW nx, NEW S \in SUBSET Frames, Tp!Closed(S, h, nx)
  PROVE  Tp!Reach(h, nx) \subseteq S
BY DEF Tp!Reach

\* A link that starts outside the list may change.
LEMMA ReachSame ==
  ASSUME NEW h \in Frames \cup {None}, NEW nx \in Links, NEW mx \in Links,
         \A f \in Tp!Reach(h, nx) : mx[f] = nx[f]
  PROVE  Tp!Reach(h, mx) = Tp!Reach(h, nx) /\ (Chain(h, nx) => Chain(h, mx))
<1> DEFINE R == Tp!Reach(h, nx)
           Q == Tp!Reach(h, mx)
<1>1. Tp!Closed(R, h, nx) /\ R \in SUBSET Frames BY ReachClosed
<1>2. Tp!Closed(Q, h, mx) /\ Q \in SUBSET Frames BY ReachClosed
<1>3. Tp!Closed(R, h, mx) BY <1>1 DEF Tp!Closed
<1>4. Q \subseteq R BY <1>1, <1>3, ReachLeast
<1>5. Tp!Closed(Q, h, nx) BY <1>2, <1>4 DEF Tp!Closed
<1>6. R \subseteq Q BY <1>2, <1>5, ReachLeast
<1>7. Q = R BY <1>4, <1>6
<1> QED BY <1>7 DEF Chain

\* SLIST_INSERT_HEAD(): a frame that was not in the list is added.
LEMMA PutHead ==
  ASSUME None \notin Frames,
         NEW h \in Frames \cup {None}, NEW nx \in Links, NEW mx \in Links,
         NEW f \in Frames, f \notin Tp!Reach(h, nx), mx[f] = h,
         \A g \in Tp!Reach(h, nx) : mx[g] = nx[g]
  PROVE  Tp!Reach(f, mx) = Tp!Reach(h, nx) \cup {f} /\ (Chain(h, nx) => Chain(f, mx))
<1> DEFINE R == Tp!Reach(h, nx)
           Q == Tp!Reach(f, mx)
<1>1. Tp!Closed(R, h, nx) /\ R \in SUBSET Frames BY ReachClosed
<1>2. Tp!Closed(Q, f, mx) /\ Q \in SUBSET Frames BY ReachClosed
<1>3. Tp!Closed(R \cup {f}, f, mx) BY <1>1 DEF Tp!Closed
<1>4. R \cup {f} \in SUBSET Frames BY <1>1
<1>5. Q \subseteq R \cup {f} BY <1>3, <1>4, ReachLeast
<1>6. f \in Q BY <1>2 DEF Tp!Closed
<1>7. Tp!Closed(Q \ {f}, h, nx)
  <2>1. h \in Q \cup {None} BY <1>2, <1>6 DEF Tp!Closed
  <2>2. h # f BY <1>1 DEF Tp!Closed
  <2>3. ASSUME NEW g \in Q \ {f} PROVE nx[g] \in (Q \ {f}) \cup {None}
    <3>1. g \in R BY <1>5
    <3>2. nx[g] \in R \cup {None} BY <1>1, <3>1 DEF Tp!Closed
    <3>3. nx[g] \in Q \cup {None} BY <1>2, <3>1 DEF Tp!Closed
    <3> QED BY <3>2, <3>3
  <2> QED BY <2>1, <2>2, <2>3 DEF Tp!Closed
<1>8. R \subseteq Q \ {f} BY <1>2, <1>7, ReachLeast
<1>9. Q = R \cup {f} BY <1>5, <1>6, <1>8
<1>10. ASSUME Chain(h, nx) PROVE Chain(f, mx)
  <2>1. \A g \in R : nx[g] \in R \cup {None} /\ nx[g] # h
    BY <1>1, <1>10 DEF Tp!Closed, Chain
  <2>2. \A g \in Q : mx[g] # f
    BY <1>9, <2>1, <1>1 DEF Tp!Closed
  <2>3. \A g1, g2 \in R : mx[g1] = mx[g2] => g1 = g2 \/ mx[g1] = None
    BY <1>10 DEF Chain
  <2>4. \A g \in R : mx[g] # mx[f] BY <2>1
  <2> QED BY <1>9, <2>2, <2>3, <2>4 DEF Chain
<1> QED BY <1>9, <1>10

\* SLIST_REMOVE_HEAD(): the head leaves the list, and no other frame.
LEMMA TakeHead ==
  ASSUME None \notin Frames, NEW h \in Frames, NEW nx \in Links, Chain(h, nx)
  PROVE  /\ h \in Tp!Reach(h, nx)
         /\ Tp!Reach(nx[h], nx) = Tp!Reach(h, nx) \ {h}
         /\ Chain(nx[h], nx)
<1> DEFINE R == Tp!Reach(h, nx)
           Q == Tp!Reach(nx[h], nx)
<1>0. nx[h] \in Frames \cup {None} BY DEF Links
<1>1. Tp!Closed(R, h, nx) /\ R \in SUBSET Frames BY ReachClosed
<1>2. Tp!Closed(Q, nx[h], nx) /\ Q \in SUBSET Frames BY <1>0, ReachClosed
<1>3. h \in R BY <1>1 DEF Tp!Closed
<1>4. Tp!Closed(R \ {h}, nx[h], nx) BY <1>1, <1>3 DEF Tp!Closed, Chain
<1>5. Q \subseteq R \ {h} BY <1>1, <1>4, ReachLeast
<1>6. Tp!Closed(Q \cup {h}, h, nx) BY <1>2 DEF Tp!Closed
<1>7. R \subseteq Q \cup {h} BY <1>2, <1>6, ReachLeast
<1>8. Q = R \ {h} BY <1>5, <1>7
<1>9. ASSUME NEW f \in Q PROVE nx[f] # nx[h]
  <2>1. SUFFICES ASSUME nx[f] = nx[h] PROVE FALSE OBVIOUS
  <2>2. f # h /\ f \in R BY <1>8
  <2>3. nx[f] = None BY <2>1, <2>2, <1>3 DEF Chain
  <2>4. nx[h] = None BY <2>1, <2>3
  <2>5. Tp!Closed({}, nx[h], nx) BY <2>4 DEF Tp!Closed
  <2>6. Q \subseteq {} BY <2>5, ReachLeast
  <2> QED BY <2>6
<1>10. Chain(nx[h], nx) BY <1>8, <1>9 DEF Chain
<1> QED BY <1>3, <1>8, <1>10

\* Each frame of tx_frame_array has a place of its own in it.
LEMMA Places ==
  ASSUME IsFiniteSet(Frames)
  PROVE  /\ Cardinality(Frames) \in Nat
         /\ Tp!Place \in [Frames -> 1..Cardinality(Frames)]
         /\ \A f, g \in Frames : Tp!Place[f] = Tp!Place[g] => f = g
         /\ \A k \in 1..Cardinality(Frames) : \E f \in Frames : Tp!Place[f] = k
<1> DEFINE N == Cardinality(Frames)
<1>1. N \in Nat /\ ExistsBijection(1..N, Frames)
  BY FS_CardinalityType
<1>2. ExistsBijection(Frames, 1..N)
  BY <1>1, Fun_ExistsBijSymmetric
<1>3. PICK b \in [Frames -> 1..N] : \A f, g \in Frames : b[f] = b[g] => f = g
  BY <1>2 DEF ExistsBijection, Bijection, Injection, IsInjective
<1>4. /\ Tp!Place \in [Frames -> 1..N]
      /\ \A f, g \in Frames : Tp!Place[f] = Tp!Place[g] => f = g
  BY <1>3 DEF Tp!Place, Tp!Cardinality, Cardinality
<1>5. Tp!Place \in Injection(Frames, 1..N)
  BY <1>4 DEF Injection, IsInjective
<1>6. IsFiniteSet(1..N) /\ Cardinality(1..N) = N
  BY <1>1, FS_Interval
<1>7. Tp!Place \in Surjection(Frames, 1..N)
  BY <1>5, <1>6, FS_Injection
<1> QED BY <1>1, <1>4, <1>7 DEF Surjection

\* The list esp_isotp_new_transport() builds.
LEMMA FullList ==
  ASSUME Tp!ConstantsOK
  PROVE  /\ Tp!FullHead \in Frames /\ Tp!FullNext \in Links
         /\ Tp!Reach(Tp!FullHead, Tp!FullNext) = Frames
         /\ Chain(Tp!FullHead, Tp!FullNext)
<1> DEFINE N == Cardinality(Frames)
           R == Tp!Reach(Tp!FullHead, Tp!FullNext)
<1>0. IsFiniteSet(Frames) /\ Frames # {} /\ None \notin Frames
  BY DEF Tp!ConstantsOK, Tp!IsFiniteSet, IsFiniteSet
<1>1. N \in Nat /\ N > 0
  <2>1. N \in Nat /\ N # 0 BY <1>0, Places, FS_EmptySet
  <2> QED BY <2>1
<1>2. /\ Tp!Place \in [Frames -> 1..N]
      /\ \A f, g \in Frames : Tp!Place[f] = Tp!Place[g] => f = g
      /\ \A k \in 1..N : \E f \in Frames : Tp!Place[f] = k
  BY <1>0, Places
<1>3. Tp!FullHead \in Frames /\ Tp!Place[Tp!FullHead] = N
  <2>1. \E f \in Frames : Tp!Place[f] = N BY <1>1, <1>2
  <2> QED BY <2>1 DEF Tp!FullHead, Tp!Cardinality, Cardinality
<1>4. ASSUME NEW f \in Frames
      PROVE  IF Tp!Place[f] = 1 THEN Tp!FullNext[f] = None
             ELSE Tp!FullNext[f] \in Frames /\ Tp!Place[Tp!FullNext[f]] = Tp!Place[f] - 1
  <2>1. CASE Tp!Place[f] = 1 BY <2>1 DEF Tp!FullNext
  <2>2. CASE Tp!Place[f] # 1
    <3>1. Tp!Place[f] - 1 \in 1..N BY <1>1, <1>2, <2>2
    <3>2. \E g \in Frames : Tp!Place[g] = Tp!Place[f] - 1 BY <1>2, <3>1
    <3>3. Tp!FullNext[f] = CHOOSE g \in Frames : Tp!Place[g] = Tp!Place[f] - 1
      BY <2>2 DEF Tp!FullNext
    <3> QED BY <2>2, <3>2, <3>3
  <2> QED BY <2>1, <2>2
<1>5. Tp!FullNext \in Links
  <2>1. Tp!FullNext = [f \in Frames |-> Tp!FullNext[f]] BY DEF Tp!FullNext
  <2>2. \A f \in Frames : Tp!FullNext[f] \in Frames \cup {None} BY <1>4
  <2> QED BY <2>1, <2>2 DEF Links
<1>6. Tp!Closed(R, Tp!FullHead, Tp!FullNext) /\ R \in SUBSET Frames
  BY <1>3, <1>5, ReachClosed
<1>7. R = Frames
  <2> DEFINE gaps == {k \in 0..N : \E f \in Frames : f \notin R /\ k = N - Tp!Place[f]}
  <2>1. SUFFICES ASSUME R # Frames PROVE FALSE OBVIOUS
  <2>2. gaps # {}
    <3>1. PICK f \in Frames : f \notin R BY <1>6, <2>1
    <3>2. N - Tp!Place[f] \in 0..N BY <1>1, <1>2
    <3> QED BY <3>1, <3>2
  <2>3. gaps \subseteq Nat BY <1>1
  <2>4. \E k \in gaps : \A j \in gaps : k <= j
    <3> HIDE DEF gaps
    <3> QED BY <2>2, <2>3, LeastNumber
  <2>5. PICK k \in gaps : \A j \in gaps : k <= j BY <2>4
  <2>6. PICK f \in Frames : f \notin R /\ k = N - Tp!Place[f]
    OBVIOUS
  <2>7. Tp!FullHead \in R BY <1>0, <1>3, <1>6 DEF Tp!Closed
  <2>8. Tp!Place[f] # N BY <1>2, <1>3, <2>6, <2>7
  <2>9. Tp!Place[f] \in 1..N /\ Tp!Place[f] + 1 \in 1..N
    BY <1>1, <1>2, <2>8
  <2>10. PICK g \in Frames : Tp!Place[g] = Tp!Place[f] + 1
    BY <1>2, <2>9
  <2>11. g \in R
    <3>1. SUFFICES ASSUME g \notin R PROVE FALSE OBVIOUS
    <3>2. N - Tp!Place[g] \in 0..N /\ N - Tp!Place[g] < k
      BY <1>1, <2>6, <2>9, <2>10
    <3>3. N - Tp!Place[g] \in gaps BY <3>1, <3>2
    <3>4. k <= N - Tp!Place[g] BY <2>5, <3>3
    <3> QED BY <3>2, <3>4, <1>1, <2>6, <2>9, <2>10
  <2>12. Tp!FullNext[g] \in Frames /\ Tp!Place[Tp!FullNext[g]] = Tp!Place[f]
    BY <1>4, <2>9, <2>10
  <2>13. Tp!FullNext[g] = f BY <1>2, <2>12
  <2>14. f \in R BY <1>0, <1>6, <2>11, <2>13 DEF Tp!Closed
  <2> QED BY <2>6, <2>14
<1>8. \A f \in Frames : Tp!FullNext[f] # Tp!FullHead
  BY <1>0, <1>1, <1>2, <1>3, <1>4
<1>9. \A f, g \in Frames : Tp!FullNext[f] = Tp!FullNext[g] => f = g \/ Tp!FullNext[f] = None
  <2>1. SUFFICES ASSUME NEW f \in Frames, NEW g \in Frames,
                        Tp!FullNext[f] = Tp!FullNext[g], Tp!FullNext[f] # None
                 PROVE  f = g
    OBVIOUS
  <2>2. Tp!Place[f] - 1 = Tp!Place[g] - 1 BY <1>4, <2>1
  <2>3. Tp!Place[f] = Tp!Place[g] BY <1>1, <1>2, <2>2
  <2> QED BY <1>2, <2>3
<1> QED BY <1>3, <1>5, <1>7, <1>8, <1>9 DEF Chain

-----------------------------------------------------------------------------
(***************************************************************************)
(* The invariant: the types, then where the frames are.                    *)
(***************************************************************************)

LEMMA InitTyped ==
  ASSUME Tp!ConstantsOK, Tp!Init
  PROVE  PoolInv
<1>1. Tp!TypeOK
  <2>1. next \in [Frames -> Frames \cup {None}] BY DEF Tp!Init
  <2>2. created \in 0..MaxTransports /\ failures \in 0..MaxFailures
    BY DEF Tp!Init, Tp!ConstantsOK
  <2>3. enabled \in BOOLEAN /\ raced \in BOOLEAN /\ dangling \in BOOLEAN
    BY DEF Tp!Init
  <2> QED BY <2>1, <2>2, <2>3 DEF Tp!Init, Tp!TypeOK
<1>2. TaskHolds BY DEF Tp!Init, TaskHolds
<1>3. PoolKept BY DEF Tp!Init, PoolKept, Tp!Live
<1> QED BY <1>1, <1>2, <1>3 DEF PoolInv

LEMMA StepTyped ==
  ASSUME Tp!ConstantsOK, Tp!TypeOK, TaskHolds, [Tp!Next]_(Tp!vars)
  PROVE  Tp!TypeOK' /\ TaskHolds'
<1> USE DEF Tp!TypeOK, TaskHolds, Tp!ConstantsOK
<1>1. CASE Tp!NewTransport
  <2>1. Tp!FullHead \in Frames /\ Tp!FullNext \in [Frames -> Frames \cup {None}]
    BY FullList DEF Links
  <2>2. created' \in 1..MaxTransports BY <1>1 DEF Tp!NewTransport
  <2>3. enabled' \in BOOLEAN /\ raced' \in BOOLEAN /\ dangling' \in BOOLEAN
    BY <1>1 DEF Tp!NewTransport
  <2>a. failures' \in 0..MaxFailures
    BY <1>1 DEF Tp!NewTransport, Tp!Fails
  <2>4. /\ transport' \in (1..MaxTransports) \cup {None}
        /\ head' \in Frames \cup {None} /\ next' \in [Frames -> Frames \cup {None}]
        /\ flying' \in SUBSET Frames /\ dropped' \in SUBSET Frames
    BY <1>1, <2>1, <2>2 DEF Tp!NewTransport, Tp!pool
  <2>5. context' \in 1..MaxTransports /\ UNCHANGED <<build, at, frame, second>>
    BY <1>1, <2>2 DEF Tp!NewTransport, Tp!task
  <2>6. at' = "idle" BY <1>1, <2>5 DEF Tp!NewTransport, Tp!Idle
  <2> QED BY <2>2, <2>3, <2>a, <2>4, <2>5, <2>6
<1>2. CASE Tp!Delete
  <2>a. enabled' \in BOOLEAN BY <1>2 DEF Tp!Delete
  <2>1. failures' \in 0..MaxFailures BY <1>2 DEF Tp!Delete, Tp!Fails
  <2>2. context' \in (1..MaxTransports) \cup {None} /\ dangling' \in BOOLEAN
    BY <1>2 DEF Tp!Delete, Tp!Unregister
  <2>3. /\ transport' = None /\ head' = None /\ next' = [f \in Frames |-> None]
        /\ flying' = {} /\ dropped' = {}
        /\ UNCHANGED <<build, created, at, frame, second, raced>>
        /\ at = "idle"
    BY <1>2 DEF Tp!Delete, Tp!task, Tp!Idle
  <2> QED BY <2>a, <2>1, <2>2, <2>3
<1>3. CASE Tp!AppEnable
  BY <1>3 DEF Tp!AppEnable, Tp!pool, Tp!task, Tp!Idle, Tp!Live
<1>4. CASE Tp!AppDisable
  BY <1>4 DEF Tp!AppDisable, Tp!pool, Tp!task, Tp!Idle, Tp!Live
<1>5. CASE Tp!Take
  BY <1>5 DEF Tp!Take, Tp!node, Tp!pool, Tp!Idle, Tp!Live
<1>6. CASE Tp!ReadNext
  BY <1>6 DEF Tp!ReadNext, Tp!node, Tp!pool, Tp!Live
<1>7. CASE Tp!Unlink
  BY <1>7 DEF Tp!Unlink, Tp!node, Tp!Live
<1>8. CASE Tp!Transmit
  BY <1>8 DEF Tp!Transmit, Tp!Oversized, Tp!Queued, Tp!Refused, Tp!node, Tp!pool, Tp!Live
<1>9. CASE Tp!Link
  BY <1>9 DEF Tp!Link, Tp!node, Tp!Live
<1>10. CASE Tp!TxCallback
  BY <1>10 DEF Tp!TxCallback, Tp!Interrupt, Tp!InWindow, Tp!node, Tp!task, Tp!Live
<1>11. CASE Tp!RxCallback
  BY <1>11 DEF Tp!RxCallback, Tp!Interrupt, Tp!InWindow, Tp!node, Tp!task, Tp!Live
<1>12. CASE UNCHANGED Tp!vars
  BY <1>12 DEF Tp!vars, Tp!node, Tp!pool, Tp!task, Tp!Live
<1> QED BY <1>1, <1>2, <1>3, <1>4, <1>5, <1>6, <1>7, <1>8, <1>9, <1>10, <1>11, <1>12 DEF Tp!Next

\* The pool after a step that writes no list, no queue and no frame.
LEMMA PoolStays ==
  ASSUME PoolKept, UNCHANGED <<Tp!pool, flying, Tp!task, raced>>, Tp!Live' => Tp!Live
  PROVE  PoolKept'
BY DEF PoolKept, Tp!OnePlace, Tp!Pooled, Tp!Owned, Chain, TaskKnows, Tp!Reach, Tp!Closed, Tp!pool, Tp!task

LEMMA StepPool ==
  ASSUME Tp!ConstantsOK, Tp!TypeOK, Tp!TypeOK', TaskHolds, PoolKept, [Tp!Next]_(Tp!vars)
  PROVE  PoolKept'
<1>c. IsFiniteSet(Frames) /\ None \notin Frames BY DEF Tp!ConstantsOK, Tp!IsFiniteSet, IsFiniteSet
<1>l. /\ head \in Frames \cup {None} /\ next \in Links
      /\ head' \in Frames \cup {None} /\ next' \in Links
  BY DEF Tp!TypeOK, Links
<1>k. Tp!Reach(head, next) \in SUBSET Frames BY <1>l, ReachClosed
<1>1. CASE Tp!NewTransport
  <2>1. CASE Tp!Fails /\ UNCHANGED <<transport, Tp!pool, flying, raced>>
    BY <1>1, <2>1, PoolStays DEF Tp!NewTransport, Tp!Live
  <2>2. CASE head' = Tp!FullHead /\ next' = Tp!FullNext /\ flying' = {} /\ dropped' = {}
    <3>1. at' = "idle" BY <1>1 DEF Tp!NewTransport, Tp!Idle, Tp!task
    <3>2. Tp!Reach(head', next') = Frames /\ Chain(head', next')
      BY <2>2, FullList
    <3>3. Tp!OnePlace' BY <2>2, <3>1, <3>2 DEF Tp!OnePlace, Tp!Pooled, Tp!Owned
    <3>4. TaskKnows' BY <3>1 DEF TaskKnows
    <3> QED BY <3>2, <3>3, <3>4 DEF PoolKept
  <2> QED BY <1>1, <2>1, <2>2 DEF Tp!NewTransport
<1>2. CASE Tp!Delete
  BY <1>2 DEF Tp!Delete, PoolKept, Tp!Live
<1>3. CASE Tp!AppEnable
  BY <1>3, PoolStays DEF Tp!AppEnable, Tp!Live
<1>4. CASE Tp!AppDisable
  BY <1>4, PoolStays DEF Tp!AppDisable, Tp!Live
\* From here the transport lives and no interrupt has met the task.
<1>5. CASE /\ Tp!Live /\ Tp!Live' /\ ~raced' /\ ~raced
          /\ \/ Tp!Take \/ Tp!ReadNext \/ Tp!Unlink \/ Tp!Transmit \/ Tp!Link
             \/ Tp!TxCallback \/ Tp!RxCallback
  <2>1. Tp!OnePlace /\ Chain(head, next) /\ TaskKnows
    BY <1>5 DEF PoolKept
  <2> DEFINE R == Tp!Reach(head, next)
  <2>2. /\ R \cup flying \cup Tp!Owned \cup dropped = Frames
        /\ R \cap flying = {} /\ R \cap Tp!Owned = {} /\ flying \cap Tp!Owned = {}
        /\ dropped \cap (R \cup flying \cup Tp!Owned) = {}
    BY <1>5, <2>1 DEF Tp!OnePlace, Tp!Pooled
  <2>3. SUFFICES Tp!OnePlace' /\ Chain(head', next') /\ TaskKnows'
    BY DEF PoolKept
  <2> DEFINE Q == Tp!Reach(head', next')
  <2>4. SUFFICES /\ Q \cup flying' \cup Tp!Owned' \cup dropped' = Frames
                 /\ dropped' \cap (Q \cup flying' \cup Tp!Owned') = {}
                 /\ Q \cap flying' = {} /\ Q \cap Tp!Owned' = {}
                 /\ flying' \cap Tp!Owned' = {}
                 /\ Chain(head', next') /\ TaskKnows'
    BY DEF Tp!OnePlace, Tp!Pooled
  <2>5. CASE Tp!Take
    <3>1. UNCHANGED <<head, next, flying, dropped>> /\ at' = "took" /\ frame' = head
      BY <2>5 DEF Tp!Take, Tp!pool
    <3>2. Tp!Owned' = {} /\ Tp!Owned = {}
      BY <2>5, <3>1 DEF Tp!Owned, Tp!Take, Tp!Idle
    <3>3. TaskKnows' BY <3>1 DEF TaskKnows
    <3> QED BY <2>1, <2>2, <3>1, <3>2, <3>3
  <2>6. CASE Tp!ReadNext
    <3>1. /\ UNCHANGED <<head, next, flying, dropped, frame>>
          /\ at = "took" /\ at' = "unlinking"
          /\ second' = next[IF build = "reread" THEN head ELSE frame]
      BY <2>6 DEF Tp!ReadNext, Tp!pool
    <3>2. frame = head BY <2>1, <3>1 DEF TaskKnows
    <3>3. Tp!Owned' = {} /\ Tp!Owned = {} BY <3>1 DEF Tp!Owned
    <3>4. TaskKnows' BY <3>1, <3>2 DEF TaskKnows
    <3> QED BY <2>1, <2>2, <3>1, <3>3, <3>4
  <2>7. CASE Tp!Unlink
    <3>1. /\ UNCHANGED <<next, flying, dropped, frame>>
          /\ at = "unlinking" /\ at' = "owned" /\ head' = second
      BY <2>7 DEF Tp!Unlink
    <3>2. frame = head /\ second = next[head]
      BY <2>1, <3>1 DEF TaskKnows
    <3>3. head \in Frames
      BY <1>l, <3>1, <3>2 DEF TaskHolds
    <3>4. Q = R \ {head} /\ head \in R /\ Chain(head', next')
      BY <1>c, <1>l, <2>1, <3>1, <3>2, <3>3, TakeHead
    <3>5. Tp!Owned' = {head} /\ Tp!Owned = {} BY <3>1, <3>2 DEF Tp!Owned
    <3>6. TaskKnows' BY <3>1 DEF TaskKnows
    <3> QED BY <1>k, <2>2, <3>1, <3>3, <3>4, <3>5, <3>6
  <2>8. CASE Tp!Transmit
    <3>1. at = "owned" /\ Tp!Owned = {frame} /\ frame \in Frames
      BY <2>8 DEF Tp!Transmit, Tp!Owned, TaskHolds, Tp!TypeOK
    <3>2. CASE Tp!Queued
      <4>1. /\ flying' = flying \cup {frame} /\ at' = "idle"
            /\ UNCHANGED <<head, next, dropped>>
        BY <3>2 DEF Tp!Queued, Tp!pool
      <4>2. Tp!Owned' = {} /\ TaskKnows' BY <4>1 DEF Tp!Owned, TaskKnows
      <4> QED BY <2>1, <2>2, <3>1, <4>1, <4>2
    <3>o. CASE Tp!Oversized
      <4>1. /\ dropped' = dropped \cup {frame} /\ at' = "idle"
            /\ UNCHANGED <<head, next, flying>>
        BY <3>o DEF Tp!Oversized
      <4>2. Tp!Owned' = {} /\ TaskKnows' BY <4>1 DEF Tp!Owned, TaskKnows
      <4> QED BY <2>1, <2>2, <3>1, <4>1, <4>2
    <3>3. CASE Tp!Refused
      <4>1. /\ next' = [next EXCEPT ![frame] = head] /\ at' = "linking"
            /\ UNCHANGED <<head, flying, dropped, frame>>
        BY <3>3 DEF Tp!Refused
      <4>2. frame \notin R BY <2>2, <3>1
      <4>3. \A f \in R : next'[f] = next[f]
        BY <1>k, <1>l, <4>1, <4>2 DEF Links
      <4>4. Q = R /\ Chain(head', next')
        BY <1>l, <2>1, <4>1, <4>3, ReachSame
      <4>5. Tp!Owned' = {frame} BY <4>1 DEF Tp!Owned
      <4>6. next'[frame] = head BY <1>l, <3>1, <4>1 DEF Links
      <4>7. TaskKnows' BY <4>1, <4>6 DEF TaskKnows
      <4> QED BY <2>2, <3>1, <4>1, <4>4, <4>5, <4>7
    <3> QED BY <2>8, <3>2, <3>o, <3>3 DEF Tp!Transmit
  <2>9. CASE Tp!Link
    <3>1. /\ at = "linking" /\ at' = "idle" /\ head' = frame
          /\ UNCHANGED <<next, flying, dropped>>
      BY <2>9 DEF Tp!Link
    <3>2. Tp!Owned = {frame} /\ Tp!Owned' = {} /\ frame \in Frames
      BY <3>1 DEF Tp!Owned, TaskHolds, Tp!TypeOK
    <3>3. next[frame] = head BY <2>1, <3>1 DEF TaskKnows
    <3>4. frame \notin R BY <2>2, <3>2
    <3>5. Q = R \cup {frame} /\ Chain(head', next')
      BY <1>c, <1>l, <2>1, <3>1, <3>2, <3>3, <3>4, PutHead
    <3>6. TaskKnows' BY <3>1 DEF TaskKnows
    <3> QED BY <2>2, <3>1, <3>2, <3>5, <3>6
  <2>10. Tp!Interrupt => Tp!Owned' = Tp!Owned /\ TaskKnows'
    <3> SUFFICES ASSUME Tp!Interrupt PROVE Tp!Owned' = Tp!Owned /\ TaskKnows' OBVIOUS
    <3>1. UNCHANGED <<at, frame, second>> BY DEF Tp!Interrupt, Tp!task
    <3>2. raced' = Tp!InWindow BY DEF Tp!Interrupt
    <3>3. at \notin {"took", "unlinking", "linking"}
      BY <1>5, <3>2 DEF Tp!InWindow
    <3> QED BY <3>1, <3>3 DEF Tp!Owned, TaskKnows
  <2>11. CASE Tp!TxCallback
    <3>1. PICK f \in flying : /\ flying' = flying \ {f} /\ head' = f /\ dropped' = dropped
                              /\ next' = [next EXCEPT ![f] = head]
      BY <2>11 DEF Tp!TxCallback
    <3>2. f \in Frames /\ f \notin R BY <2>2
    <3>3. next'[f] = head /\ \A g \in R : next'[g] = next[g]
      BY <1>k, <1>l, <3>1, <3>2 DEF Links
    <3>a. Tp!Reach(f, next') = R \cup {f} /\ (Chain(head, next) => Chain(f, next'))
      BY <1>c, <1>l, <3>2, <3>3, PutHead
    <3>4. Q = R \cup {f} /\ Chain(head', next')
      BY <2>1, <3>1, <3>a
    <3>5. Tp!Interrupt BY <2>11 DEF Tp!TxCallback
    <3>6. Tp!Owned' = Tp!Owned /\ TaskKnows' BY <2>10, <3>5
    <3> QED BY <2>2, <3>1, <3>2, <3>4, <3>6
  <2>12. CASE Tp!RxCallback
    <3>1. /\ head # None /\ head' = next[head] /\ next' = next
          /\ \/ flying' = flying \cup {head} /\ dropped' = dropped
             \/ dropped' = dropped \cup {head} /\ flying' = flying
      BY <2>12 DEF Tp!RxCallback
    <3>2. Q = R \ {head} /\ head \in R /\ Chain(head', next')
      BY <1>c, <1>l, <2>1, <3>1, TakeHead
    <3>3. Tp!Interrupt BY <2>12 DEF Tp!RxCallback
    <3>4. Tp!Owned' = Tp!Owned /\ TaskKnows' BY <2>10, <3>3
    <3> QED BY <1>k, <2>2, <3>1, <3>2, <3>4
  <2> QED BY <1>5, <2>5, <2>6, <2>7, <2>8, <2>9, <2>11, <2>12
<1>6. CASE UNCHANGED Tp!vars
  BY <1>6, PoolStays DEF Tp!vars, Tp!node, Tp!Live
<1>7. CASE Tp!Take \/ Tp!ReadNext \/ Tp!Unlink \/ Tp!Transmit \/ Tp!Link
  <2>1. Tp!Live /\ UNCHANGED <<transport, raced>>
    BY <1>7 DEF Tp!Take, Tp!ReadNext, Tp!Unlink, Tp!Transmit, Tp!Link, TaskHolds, Tp!node
  <2> QED BY <1>5, <1>7, <2>1 DEF PoolKept, Tp!Live
<1>8. CASE Tp!TxCallback \/ Tp!RxCallback
  <2>1. Tp!Live /\ ~raced /\ UNCHANGED transport
    BY <1>8 DEF Tp!TxCallback, Tp!RxCallback, Tp!Interrupt, Tp!Live, Tp!node
  <2> QED BY <1>5, <1>8, <2>1 DEF PoolKept, Tp!Live
<1> QED BY <1>1, <1>2, <1>3, <1>4, <1>6, <1>7, <1>8 DEF Tp!Next

-----------------------------------------------------------------------------
(***************************************************************************)
(* The theorems.                                                           *)
(***************************************************************************)

\* Every variable holds a value of its type, the links and the head of the
\* pool are frames or null, no two places of the task mix, and the pool is
\* the chain that FramesKept needs (isotp_user_send_can() and the callbacks).
THEOREM PoolInvariant ==
  ASSUME Tp!ConstantsOK
  PROVE  Tp!Spec => []PoolInv
<1>1. Tp!Init => PoolInv BY InitTyped
<1>2. PoolInv /\ [Tp!Next]_(Tp!vars) => PoolInv'
  <2> SUFFICES ASSUME PoolInv, [Tp!Next]_(Tp!vars) PROVE PoolInv' OBVIOUS
  <2>1. Tp!TypeOK /\ TaskHolds /\ PoolKept BY DEF PoolInv
  <2>2. Tp!TypeOK' /\ TaskHolds' BY <2>1, StepTyped
  <2>3. PoolKept' BY <2>1, <2>2, StepPool
  <2> QED BY <2>2, <2>3 DEF PoolInv
<1> QED BY <1>1, <1>2, PTL DEF Tp!Spec

\* Every variable holds a value of its type.
THEOREM PoolTyped ==
  ASSUME Tp!ConstantsOK
  PROVE  Tp!Spec => []Tp!TypeOK
<1>1. PoolInv => Tp!TypeOK BY DEF PoolInv
<1> QED BY <1>1, PoolInvariant, PTL

\* However many frames the transport has and the driver queues, each is in
\* exactly one of the pool, the task and the driver, unless an interrupt met
\* the task inside a list operation or the frame was taken for a payload too
\* long, which loses that frame and no other (isotp_user_send_can()).
THEOREM NoFrameLost ==
  ASSUME Tp!ConstantsOK
  PROVE  Tp!Spec => []Tp!FramesKept
<1>1. PoolInv => Tp!FramesKept BY DEF PoolInv, PoolKept, Tp!FramesKept, Tp!OnePlace
<1> QED BY <1>1, PoolInvariant, PTL

\* Unless a call of the driver failed, the node's callbacks are those of the
\* living transport or none (esp_isotp_new_transport(), esp_isotp_delete()).
THEOREM NoStaleCallback == Tp!Spec => []Tp!CallbackAlive
<1>1. Tp!Init => Tp!CallbackAlive BY DEF Tp!Init, Tp!CallbackAlive
<1>2. Tp!CallbackAlive /\ [Tp!Next]_(Tp!vars) => Tp!CallbackAlive'
  <2> SUFFICES ASSUME Tp!CallbackAlive, [Tp!Next]_(Tp!vars) PROVE Tp!CallbackAlive' OBVIOUS
  <2>1. CASE Tp!NewTransport
    BY <2>1 DEF Tp!NewTransport, Tp!CallbackAlive
  <2>2. CASE Tp!Delete
    BY <2>2 DEF Tp!Delete, Tp!Unregister, Tp!CallbackAlive
  <2>3. CASE UNCHANGED <<context, transport, dangling>>
    BY <2>3 DEF Tp!CallbackAlive
  <2>4. Tp!AppEnable \/ Tp!AppDisable => UNCHANGED <<context, transport, dangling>>
    BY DEF Tp!AppEnable, Tp!AppDisable
  <2>5. Tp!Take \/ Tp!ReadNext \/ Tp!Unlink \/ Tp!Transmit \/ Tp!Link
        => UNCHANGED <<context, transport, dangling>>
    BY DEF Tp!Take, Tp!ReadNext, Tp!Unlink, Tp!Transmit, Tp!Link, Tp!node
  <2>6. Tp!TxCallback \/ Tp!RxCallback => UNCHANGED <<context, transport, dangling>>
    BY DEF Tp!TxCallback, Tp!RxCallback, Tp!Interrupt, Tp!node
  <2>7. UNCHANGED Tp!vars => UNCHANGED <<context, transport, dangling>>
    BY DEF Tp!vars, Tp!node
  <2> QED BY <2>1, <2>2, <2>3, <2>4, <2>5, <2>6, <2>7 DEF Tp!Next
<1> QED BY <1>1, <1>2, PTL DEF Tp!Spec

-----------------------------------------------------------------------------
(***************************************************************************)
(* The buttons.                                                            *)
(***************************************************************************)

Told == {"press", "release", "longpress"}
EventSet == [button : Buttons, event : Told]
Typed == TypeOK /\ eventQueue \in Seq(EventSet)

\* What a message of the interrupt is about.
MessageOK == \A i \in DOMAIN intrQueue :
  intrQueue[i].type = "release" => intrQueue[i].pad \in Pads

\* Uses of the power lock: one for the thresholds, one for each press seen whose
\* release is not dealt with.
ReleasesIn(q) == {i \in DOMAIN q : q[i].type = "release"}
LockOK == missed = {} =>
  pmLock <= (IF isSet THEN 0 ELSE 1) + Cardinality(seen) + Cardinality(ReleasesIn(intrQueue))

Of(b, i) == i \in DOMAIN intrQueue /\ intrQueue[i].pad = b
Idle(b) == device[b] = "idle" /\ last[b] = "idle"

\* A press that is queued is the first message of its button, which is idle.
PressOK(b) == \A i \in DOMAIN intrQueue : Of(b, i) /\ intrQueue[i].type = "press" =>
  Idle(b) /\ \A j \in DOMAIN intrQueue : Of(b, j) => i <= j
\* A pad that is touched and not seen yet is idle and has no message.
NewOK(b) == b \in touched \ seen => Idle(b) /\ \A i \in DOMAIN intrQueue : ~Of(b, i)
\* The states of a device and of its button, which follows a period later.
StateOK(b) ==
  \/ last[b] = "idle"
  \/ last[b] = "press" /\ device[b] \in {"press", "release"}
  \/ last[b] = "release" /\ device[b] = "release"
\* The periods of a touch are counted from its press.
CountOK(b) ==
  /\ last[b] = "idle" => cnt[b] = 0
  /\ last[b] = "press" => cnt[b] <= held[b]

IsEvent(b, e, i) ==
  i \in DOMAIN eventQueue /\ eventQueue[i].button = b /\ eventQueue[i].event = e
NoneBetween(b, m, n) == \A i \in DOMAIN eventQueue : m < i /\ i < n => ~IsEvent(b, "release", i)
\* What the application thinks when it has received the events before n.
Pressed(b, n) ==
  \/ \E i \in DOMAIN eventQueue : i < n /\ IsEvent(b, "press", i) /\ NoneBetween(b, i, n)
  \/ told[b] = "press" /\ NoneBetween(b, 0, n)
QueueOK(b) ==
  /\ \A i \in DOMAIN eventQueue :
       /\ IsEvent(b, "press", i) => ~Pressed(b, i)
       /\ IsEvent(b, "release", i) \/ IsEvent(b, "longpress", i) => Pressed(b, i)
  /\ Pressed(b, Len(eventQueue) + 1) <=> last[b] = "press"

Good(b) ==
  /\ PressOK(b) /\ NewOK(b) /\ StateOK(b) /\ CountOK(b) /\ QueueOK(b)
  /\ b \notin wrong

TouchInv ==
  /\ Typed /\ MessageOK /\ LockOK
  /\ \A b \in Buttons \ (missed \cup hurried) : Good(b)
-----------------------------------------------------------------------------
(* Finite sets of pads and of places.                                        *)

LEMMA TouchFinite ==
  ASSUME ConstantsOK
  PROVE  /\ IsFiniteSet(Pads) /\ Pads \subseteq Nat /\ 0 \notin Pads /\ Guard \notin Buttons
         /\ Buttons \subseteq Pads /\ Guard \in Pads \cup {0}
         /\ \A S : S \subseteq Pads => IsFiniteSet(S)
<1>1. /\ IsFiniteSet(Pads) /\ Pads \subseteq Nat /\ 0 \notin Pads /\ Guard \notin Buttons
      /\ Buttons \subseteq Pads /\ Guard \in Pads \cup {0}
  BY DEF ConstantsOK, Pads
<1>2. ASSUME NEW S, S \subseteq Pads
      PROVE  IsFiniteSet(S)
  BY <1>1, <1>2, FS_Subset, Zenon
<1> QED BY <1>1, <1>2

\* A set of pads has a highest one: no least number of pads is without.
LEMMA HighestIn ==
  ASSUME NEW S, S \subseteq Nat, IsFiniteSet(S), S # {}
  PROVE  Highest(S) \in S
<1> DEFINE HasTop(T) == \E p \in T : \A q \in T : q <= p
           Bad == {n \in Nat : \E T \in SUBSET S : T # {} /\ Cardinality(T) = n /\ ~HasTop(T)}
<1>1. \A T \in SUBSET S : IsFiniteSet(T) /\ Cardinality(T) \in Nat
  BY FS_Subset, FS_CardinalityType, Zenon
<1>2. Bad = {}
  <2> SUFFICES ASSUME Bad # {} PROVE FALSE
    OBVIOUS
  <2>1. PICK n \in Bad : \A m \in Bad : n <= m
    <3>1. Bad \subseteq Nat
      OBVIOUS
    <3> HIDE DEF Bad
    <3> QED BY <3>1, LeastNumber, Zenon
  <2>2. PICK T \in SUBSET S : T # {} /\ Cardinality(T) = n /\ ~HasTop(T)
    BY <2>1
  <2>3. PICK x \in T : TRUE
    BY <2>2
  <2>4. T \ {x} \in SUBSET S /\ n \in Nat /\ Cardinality(T \ {x}) = n - 1
    <3>1. Cardinality(T \ {x}) = IF x \in T THEN Cardinality(T) - 1 ELSE Cardinality(T)
      BY <1>1, <2>2, FS_RemoveElement, Zenon
    <3> QED BY <3>1, <2>1, <2>2, <2>3
  <2>5. n - 1 \in Nat
    BY <2>4, <1>1
  <2>6. T \ {x} = {} \/ HasTop(T \ {x})
    <3>1. n - 1 \notin Bad
      BY <2>1, <2>4
    <3> QED BY <3>1, <2>4, <2>5
  <2>7. CASE T \ {x} = {}
    <3>1. \A q \in T : q <= x
      BY <2>7, <2>3
    <3> QED BY <3>1, <2>2, <2>3
  <2>8. CASE HasTop(T \ {x})
    <3>1. PICK p \in T \ {x} : \A q \in T \ {x} : q <= p
      BY <2>8
    <3>2. p \in Nat /\ x \in Nat /\ \A q \in T : q \in Nat
      BY <2>3, <3>1
    <3>3. CASE p <= x
      <4>1. \A q \in T : q <= x
        BY <3>1, <3>2, <3>3
      <4> QED BY <4>1, <2>2, <2>3
    <3>4. CASE x <= p
      <4>1. \A q \in T : q <= p
        BY <3>1, <3>2, <3>4
      <4> QED BY <4>1, <2>2, <3>1
    <3> QED BY <3>2, <3>3, <3>4
  <2> QED BY <2>6, <2>7, <2>8
<1>3. HasTop(S)
  <2>1. S \in SUBSET S /\ Cardinality(S) \in Nat /\ Cardinality(S) \notin Bad
    BY <1>1, <1>2
  <2> QED BY <2>1
<1> QED BY <1>3 DEF Highest

\* The releases among the messages, as one is added or taken.
LEMMA ReleasesCounted ==
  ASSUME NEW q \in Seq(Messages)
  PROVE  IsFiniteSet(ReleasesIn(q)) /\ Cardinality(ReleasesIn(q)) \in Nat
<1>1. 1 \in Int /\ Len(q) \in Int
  OBVIOUS
<1>2. IsFiniteSet(1..Len(q))
  BY <1>1, FS_Interval, Zenon
<1>3. ReleasesIn(q) \in SUBSET (1..Len(q))
  BY DEF ReleasesIn
<1> QED BY <1>2, <1>3, FS_Subset, FS_CardinalityType, Zenon

LEMMA ReleasesAppend ==
  ASSUME NEW q \in Seq(Messages), NEW m \in Messages
  PROVE  Cardinality(ReleasesIn(Append(q, m))) =
           IF m.type = "release" THEN Cardinality(ReleasesIn(q)) + 1
           ELSE Cardinality(ReleasesIn(q))
<1>1. ReleasesIn(Append(q, m)) =
        IF m.type = "release" THEN ReleasesIn(q) \cup {Len(q) + 1} ELSE ReleasesIn(q)
  BY SMT DEF ReleasesIn
<1>2. Len(q) + 1 \notin ReleasesIn(q)
  BY SMT DEF ReleasesIn
<1>3. Cardinality(ReleasesIn(q) \cup {Len(q) + 1}) =
        IF Len(q) + 1 \in ReleasesIn(q) THEN Cardinality(ReleasesIn(q))
        ELSE Cardinality(ReleasesIn(q)) + 1
  BY ReleasesCounted, FS_AddElement, Zenon
<1> QED BY <1>1, <1>2, <1>3

LEMMA ReleasesTail ==
  ASSUME NEW q \in Seq(Messages), q # <<>>
  PROVE  Cardinality(ReleasesIn(Tail(q))) =
           IF q[1].type = "release" THEN Cardinality(ReleasesIn(q)) - 1
           ELSE Cardinality(ReleasesIn(q))
<1> DEFINE S == ReleasesIn(q) \ {1}
           T == ReleasesIn(Tail(q))
           f == [i \in S |-> i - 1]
<1>0. Len(q) \in Nat /\ Len(q) > 0 /\ DOMAIN q = 1..Len(q)
  BY SMT
<1>1. Tail(q) \in Seq(Messages) /\ Len(Tail(q)) = Len(q) - 1 /\ DOMAIN Tail(q) = 1..(Len(q) - 1)
      /\ \A i \in 1..(Len(q) - 1) : Tail(q)[i] = q[i + 1]
  BY SMT
<1>2. /\ \A i \in S : i \in 2..Len(q) /\ i - 1 \in T
      /\ \A i \in T : i \in 1..(Len(q) - 1) /\ i + 1 \in S
  BY <1>0, <1>1, SMT DEF ReleasesIn
<1>3. IsFiniteSet(ReleasesIn(q)) /\ Cardinality(ReleasesIn(q)) \in Nat
  BY ReleasesCounted
<1>4. IsFiniteSet(S) /\ Cardinality(S) = IF 1 \in ReleasesIn(q)
        THEN Cardinality(ReleasesIn(q)) - 1 ELSE Cardinality(ReleasesIn(q))
  BY <1>3, FS_RemoveElement, Zenon
<1>5. f \in Bijection(S, T)
  <2>1. f \in [S -> T] /\ \A i \in S : f[i] = i - 1
    BY <1>2
  <2>2. \A i, j \in S : f[i] = f[j] => i = j
    BY <2>1, <1>2, SMT
  <2>3. \A t \in T : \E s \in S : f[s] = t
    <3>1. ASSUME NEW t \in T
          PROVE  t + 1 \in S /\ f[t + 1] = t
      BY <1>2, <2>1, SMT
    <3> QED BY <3>1
  <2> HIDE DEF f, S, T
  <2> QED BY <2>1, <2>2, <2>3, Fun_IsBij, Zenon
<1>6. Cardinality(T) = Cardinality(S)
  <2>1. ExistsBijection(S, T)
    BY <1>5, Zenon DEF ExistsBijection
  <2> QED BY <2>1, <1>4, FS_Bijection, Zenon
<1>7. 1 \in ReleasesIn(q) <=> q[1].type = "release"
  BY <1>0, SMT DEF ReleasesIn
<1> QED BY <1>4, <1>6, <1>7
-----------------------------------------------------------------------------
(* The steps of the sensor and of the interrupt.                             *)

LEMMA TouchInit ==
  ASSUME ConstantsOK, Init
  PROVE  TouchInv
<1>1. 0 \notin Pads /\ Buttons \subseteq Pads /\ 0 \in Nat /\ IsFiniteSet({}) /\ Cardinality({}) = 0
  BY TouchFinite, FS_EmptySet
<1>2. Typed
  <2>1. 0 \in 0..(Scans - 1) /\ 0 \in 0..(LongPress - 1) /\ 0 \in 0..MaxChanges /\ 0 \in 0..MaxCalls
        /\ 0 \in 0..LongPress /\ 0 <= IntrSize /\ 0 <= EventSize
    BY SMT DEF ConstantsOK
  <2>2. <<>> \in Seq(Messages) /\ <<>> \in Seq(EventSet) /\ Len(<<>>) = 0
    BY SMT
  <2>3. /\ touched \subseteq Pads /\ seen \subseteq Pads /\ pending \subseteq {"change", "scan", "timeout"}
        /\ scanOn \in BOOLEAN /\ scans \in 0..(Scans - 1) /\ running \in BOOLEAN /\ leaked \in BOOLEAN
        /\ isSet \in BOOLEAN /\ pmLock \in Nat /\ changes \in 0..MaxChanges /\ calls \in 0..MaxCalls
        /\ missed \subseteq Pads /\ hurried \subseteq Pads /\ wrong \subseteq Buttons
    BY <2>1 DEF Init
  <2>4. intrQueue \in Seq(Messages) /\ Len(intrQueue) <= IntrSize
        /\ eventQueue \in Seq(EventSet) /\ Len(eventQueue) <= EventSize
    BY <2>1, <2>2 DEF Init
  <2>5. /\ device \in [Pads -> States] /\ last \in [Buttons -> States]
        /\ cnt \in [Buttons -> 0..(LongPress - 1)] /\ held \in [Buttons -> 0..LongPress]
        /\ told \in [Buttons -> {"press", "release"}]
    BY <2>1 DEF Init, States
  <2> QED BY <2>3, <2>4, <2>5 DEF Typed, TypeOK
<1>3. MessageOK
  BY SMT DEF Init, MessageOK
<1>4. LockOK
  <2>1. ReleasesIn(<<>>) = {}
    BY SMT DEF ReleasesIn
  <2>2. pmLock = 1 /\ isSet = FALSE /\ Cardinality(seen) = 0 /\ Cardinality(ReleasesIn(intrQueue)) = 0
    BY <1>1, <2>1 DEF Init
  <2> QED BY <2>2 DEF LockOK
<1>5. ASSUME NEW b \in Buttons
      PROVE  Good(b)
  <2>1. eventQueue = <<>> /\ intrQueue = <<>> /\ DOMAIN eventQueue = {} /\ DOMAIN intrQueue = {}
    BY SMT DEF Init
  <2>2. last[b] = "idle" /\ device[b] = "idle" /\ told[b] = "release" /\ touched = {} /\ wrong = {}
        /\ cnt[b] = 0 /\ held[b] = 0
    BY <1>1 DEF Init
  <2> QED BY <2>1, <2>2, SMT DEF Good, PressOK, NewOK, StateOK, CountOK, QueueOK, Pressed, IsEvent
<1> QED BY <1>2, <1>3, <1>4, <1>5 DEF TouchInv

\* A step that touches none of what the invariant is about.
LEMMA TouchQuiet ==
  ASSUME TouchInv, TypeOK',
         UNCHANGED <<touched, seen, intrQueue, isSet, pmLock, button, eventQueue, told,
                     missed, hurried, wrong>>
  PROVE  TouchInv'
<1>1. UNCHANGED <<touched, seen, intrQueue, isSet, pmLock, device, last, cnt, held, eventQueue, told,
                  missed, hurried, wrong>>
  BY DEF button
<1>2. Typed'
  BY <1>1 DEF TouchInv, Typed
<1>3. MessageOK' /\ LockOK'
  BY <1>1 DEF TouchInv, MessageOK, LockOK, ReleasesIn
<1>4. ASSUME NEW b \in Buttons, Good(b)
      PROVE  Good(b)'
  BY <1>1, <1>4 DEF Good, PressOK, NewOK, StateOK, CountOK, QueueOK, Pressed, IsEvent, NoneBetween, Of, Idle
<1>5. ASSUME NEW b \in Buttons', b \notin missed' \cup hurried'
      PROVE  Good(b)'
  BY <1>1, <1>4, <1>5 DEF TouchInv
<1> QED BY <1>2, <1>3, <1>5 DEF TouchInv

LEMMA ScanKeeps ==
  ASSUME ConstantsOK, TouchInv, ScanDone \/ MeasureTimeout
  PROVE  TouchInv'
<1>1. TypeOK'
  <2>1. UNCHANGED <<touched, seen, scanOn, scans, intrQueue, running, leaked, isSet, calls, pmLock,
                    device, last, cnt, held, eventQueue, told, missed, hurried, wrong>>
    BY DEF ScanDone, MeasureTimeout, system, button
  <2>2. TypeOK
    BY DEF TouchInv, Typed
  <2>3. pending' \subseteq {"change", "scan", "timeout"} /\ changes' \in 0..MaxChanges
    <3>1. pending' \subseteq pending \cup {"scan", "timeout"}
      BY DEF ScanDone, MeasureTimeout
    <3>2. changes' = changes \/ (changes' = changes + 1 /\ changes < MaxChanges)
      BY DEF ScanDone, MeasureTimeout
    <3>3. changes \in 0..MaxChanges /\ MaxChanges \in Nat /\ pending \subseteq {"change", "scan", "timeout"}
      BY <2>2 DEF TypeOK, ConstantsOK
    <3> QED BY <3>1, <3>2, <3>3
  <2> QED BY <2>1, <2>2, <2>3 DEF TypeOK
<1>2. UNCHANGED <<touched, seen, intrQueue, isSet, pmLock, button, eventQueue, told,
                  missed, hurried, wrong>>
  BY DEF ScanDone, MeasureTimeout, system
<1> QED BY <1>1, <1>2, TouchQuiet, Zenon

LEMMA StopKeeps ==
  ASSUME ConstantsOK, TouchInv, Stop
  PROVE  TouchInv'
<1>1. TypeOK'
  <2>1. UNCHANGED <<touched, seen, pending, scans, changes, intrQueue, isSet, pmLock,
                    device, last, cnt, held, eventQueue, told, missed, hurried, wrong>>
    BY DEF Stop, button
  <2>2. TypeOK
    BY DEF TouchInv, Typed
  <2>3. scanOn' \in BOOLEAN /\ running' \in BOOLEAN /\ leaked' \in BOOLEAN
    BY <2>2 DEF Stop, TypeOK
  <2>4. calls' \in 0..MaxCalls
    <3>1. calls' = calls + 1 /\ calls < MaxCalls
      BY DEF Stop
    <3>2. calls \in 0..MaxCalls /\ MaxCalls \in Nat
      BY <2>2 DEF TypeOK, ConstantsOK
    <3> QED BY <3>1, <3>2
  <2> QED BY <2>1, <2>2, <2>3, <2>4 DEF TypeOK
<1>2. UNCHANGED <<touched, seen, intrQueue, isSet, pmLock, button, eventQueue, told,
                  missed, hurried, wrong>>
  BY DEF Stop
<1> QED BY <1>1, <1>2, TouchQuiet, Zenon

LEMMA PadKeeps ==
  ASSUME ConstantsOK, TouchInv, PadChanges
  PROVE  TouchInv'
<1>1. UNCHANGED <<seen, intrQueue, isSet, pmLock, device, last, cnt, held, eventQueue, told,
                  missed, wrong>>
  BY DEF PadChanges, system, button
<1>2. PICK p \in Pads :
        /\ touched' = IF p \in touched THEN touched \ {p} ELSE touched \cup {p}
        /\ hurried' = IF p \notin touched /\ Busy(p) THEN hurried \cup {p} ELSE hurried
  BY DEF PadChanges
<1>3. Typed'
  <2>1. UNCHANGED <<scanOn, scans, running, leaked, calls>>
    BY DEF PadChanges, system
  <2>2. TypeOK /\ eventQueue \in Seq(EventSet)
    BY DEF TouchInv, Typed
  <2>3. touched' \subseteq Pads /\ hurried' \subseteq Pads /\ pending' \subseteq {"change", "scan", "timeout"}
    BY <1>2, <2>2 DEF PadChanges, TypeOK
  <2>4. changes' \in 0..MaxChanges
    <3>1. changes' = changes + 1 /\ changes < MaxChanges
      BY DEF PadChanges
    <3>2. changes \in 0..MaxChanges /\ MaxChanges \in Nat
      BY <2>2 DEF TypeOK, ConstantsOK
    <3> QED BY <3>1, <3>2
  <2> QED BY <1>1, <2>1, <2>2, <2>3, <2>4 DEF Typed, TypeOK
<1>4. MessageOK' /\ LockOK'
  BY <1>1 DEF TouchInv, MessageOK, LockOK, ReleasesIn
<1>5. ASSUME NEW b \in Buttons, b \notin missed', b \notin hurried'
      PROVE  Good(b)'
  <2>1. b \notin hurried /\ b \notin missed /\ Good(b)
    BY <1>1, <1>2, <1>5 DEF TouchInv
  <2>2. /\ PressOK(b)' /\ StateOK(b)' /\ CountOK(b)' /\ QueueOK(b)' /\ b \notin wrong'
    BY <1>1, <2>1 DEF Good, PressOK, StateOK, CountOK, QueueOK, Pressed, IsEvent, NoneBetween, Of, Idle
  <2>3. NewOK(b)'
    <3> SUFFICES ASSUME b \in touched', b \notin seen
                 PROVE  (Idle(b) /\ \A i \in DOMAIN intrQueue : ~Of(b, i))'
      BY <1>1 DEF NewOK
    <3>1. CASE b \in touched
      <4>1. Idle(b) /\ \A i \in DOMAIN intrQueue : ~Of(b, i)
        BY <2>1, <3>1 DEF Good, NewOK
      <4> QED BY <4>1, <1>1 DEF Idle, Of
    <3>2. CASE b \notin touched
      <4>1. b = p /\ ~Busy(b)
        BY <1>2, <1>5, <3>2
      <4>2. Idle(b) /\ \A i \in DOMAIN intrQueue : ~Of(b, i)
        BY <4>1 DEF Busy, Idle, Of
      <4> QED BY <4>2, <1>1 DEF Idle, Of
    <3> QED BY <3>1, <3>2
  <2> QED BY <2>2, <2>3 DEF Good
<1> QED BY <1>3, <1>4, <1>5 DEF TouchInv

LEMMA IntrKeeps ==
  ASSUME ConstantsOK, TouchInv, TeIntrCb
  PROVE  TouchInv'
<1>1. UNCHANGED <<touched, isSet, device, last, cnt, held, eventQueue, told, hurried, wrong,
                  changes, running, leaked, calls>>
  BY DEF TeIntrCb, system, button
<1>d. PICK diff : diff = (touched \ seen) \cup (seen \ touched)
  OBVIOUS
<1>m. PICK msg : msg = Message(diff)
  OBVIOUS
<1>t. /\ Typed /\ TypeOK /\ MessageOK /\ LockOK
      /\ touched \subseteq Pads /\ seen \subseteq Pads /\ diff \subseteq Pads
      /\ intrQueue \in Seq(Messages) /\ pmLock \in Nat
  BY <1>d DEF TouchInv, Typed, TypeOK
<1>f. /\ Pads \subseteq Nat /\ 0 \notin Pads /\ Buttons \subseteq Pads
      /\ \A S : S \subseteq Pads => IsFiniteSet(S)
  BY TouchFinite, Zenon
<1>h. diff # {} => Highest(diff) \in diff
  BY <1>t, <1>f, HighestIn, Zenon
<1>n. /\ msg \in Messages
      /\ msg.type = "press" => msg.pad = 0 \/ msg.pad \in touched \ seen
      /\ msg.type = "release" => msg.pad \in seen \ touched
      /\ msg.pad \in Pads => msg.type \in {"press", "release"}
  <2>1. CASE "timeout" \in pending
    <3>1. msg = [type |-> "timeout", pad |-> 0]
      BY <2>1, <1>m DEF Message
    <3> QED BY <3>1, <1>f DEF Messages
  <2>2. CASE "timeout" \notin pending /\ "scan" \in pending
    <3>1. msg = [type |-> "scan", pad |-> 0]
      BY <2>2, <1>m DEF Message
    <3> QED BY <3>1, <1>f DEF Messages
  <2>3. CASE "timeout" \notin pending /\ "scan" \notin pending /\ diff = {}
    <3>1. msg = [type |-> "press", pad |-> 0]
      BY <2>3, <1>m DEF Message
    <3> QED BY <3>1, <1>f DEF Messages
  <2>4. CASE "timeout" \notin pending /\ "scan" \notin pending /\ diff # {}
    <3>p. PICK p : p = Highest(diff)
      OBVIOUS
    <3>1. p \in diff /\ p \in Pads
      BY <2>4, <3>p, <1>h, <1>t
    <3>2. msg = [type |-> IF p \in touched THEN "press" ELSE "release", pad |-> p]
      BY <2>4, <3>p, <1>m DEF Message
    <3> QED BY <3>1, <3>2, <1>d DEF Messages
  <2> QED BY <2>1, <2>2, <2>3, <2>4
<1>s. PICK sent \in BOOLEAN :
        /\ seen' = touched
        /\ pmLock' = pmLock + PowerLocks(diff)
        /\ intrQueue' = IF sent THEN Append(intrQueue, msg) ELSE intrQueue
        /\ sent => Len(intrQueue) < IntrSize
        /\ missed' = missed \cup (IF sent THEN diff \ {msg.pad} ELSE diff)
  BY <1>d, <1>m DEF TeIntrCb
<1>2. Typed'
  <2>1. pmLock' \in Nat
    <3>1. IsFiniteSet(diff \cap touched)
      BY <1>f, <1>t
    <3>2. Cardinality(diff \cap touched) \in Nat
      BY <3>1, FS_CardinalityType, Zenon
    <3> QED BY <3>2, <1>s, <1>t DEF PowerLocks
  <2>2. intrQueue' \in Seq(Messages) /\ Len(intrQueue') <= IntrSize
    BY <1>s, <1>n, <1>t, SMT DEF TypeOK, ConstantsOK
  <2>3. scanOn' \in BOOLEAN /\ pending' = {}
    BY <1>t DEF TeIntrCb, TypeOK
  <2>4. scans' \in 0..(Scans - 1)
    <3>1. scans \in 0..(Scans - 1) /\ Scans \in Nat \ {0}
      BY <1>t DEF TypeOK, ConstantsOK
    <3>2. scans' = 0 \/ scans' = scans \/ (scans' = scans + 1 /\ ~(scans + 1 >= Scans))
      BY DEF TeIntrCb
    <3> QED BY <3>1, <3>2
  <2>5. seen' \subseteq Pads /\ missed' \subseteq Pads
    BY <1>s, <1>t DEF TypeOK
  <2> QED BY <1>t, <1>1, <2>1, <2>2, <2>3, <2>4, <2>5 DEF Typed, TypeOK
<1>3. MessageOK'
  BY <1>s, <1>n, <1>t, SMT DEF MessageOK
<1>4. LockOK'
  <2> SUFFICES ASSUME missed' = {}
               PROVE  pmLock' <= (IF isSet' THEN 0 ELSE 1) + Cardinality(seen') + Cardinality(ReleasesIn(intrQueue'))
    BY DEF LockOK
  <2>1. missed = {} /\ diff \subseteq (IF sent THEN {msg.pad} ELSE {})
    BY <1>s
  <2>2. pmLock <= (IF isSet THEN 0 ELSE 1) + Cardinality(seen) + Cardinality(ReleasesIn(intrQueue))
    BY <1>t, <2>1 DEF LockOK
  <2>3. Cardinality(ReleasesIn(intrQueue)) \in Nat /\ Cardinality(seen) \in Nat /\ IsFiniteSet(seen)
    BY <1>t, <1>f, ReleasesCounted, FS_CardinalityType, Zenon
  <2>4. Cardinality(ReleasesIn(intrQueue')) =
          IF sent /\ msg.type = "release" THEN Cardinality(ReleasesIn(intrQueue)) + 1
          ELSE Cardinality(ReleasesIn(intrQueue))
    <3>1. CASE sent
      BY <3>1, <1>s, <1>n, <1>t, ReleasesAppend, Zenon
    <3>2. CASE ~sent
      BY <3>2, <1>s
    <3> QED BY <3>1, <3>2
  <2>5. CASE diff = {}
    <3>1. seen' = seen /\ diff \cap touched = {} /\ ~(msg.type = "release")
      BY <2>5, <1>d, <1>s, <1>n
    <3>2. pmLock' = pmLock
      <4>1. Cardinality({}) = 0
        BY FS_EmptySet
      <4>2. PowerLocks(diff) = 0
        BY <3>1, <4>1 DEF PowerLocks
      <4> QED BY <4>2, <1>s, <1>t
    <3> QED BY <3>1, <3>2, <2>2, <2>4, <1>1
  <2>6. CASE diff # {}
    <3>1. sent /\ diff = {msg.pad} /\ msg.pad \in Pads
      BY <2>6, <2>1, <1>t
    <3>2. CASE msg.pad \in touched
      <4>1. diff \cap touched = {msg.pad} /\ seen' = seen \cup {msg.pad} /\ msg.pad \notin seen
        BY <3>1, <3>2, <1>d, <1>s
      <4>2. msg.type # "release"
        BY <3>2, <1>n
      <4>3. Cardinality(seen') = Cardinality(seen) + 1
        BY <4>1, <2>3, FS_AddElement, Zenon
      <4>4. pmLock' = pmLock + 1
        BY <4>1, <1>s, FS_Singleton DEF PowerLocks
      <4> QED BY <4>2, <4>3, <4>4, <2>2, <2>3, <2>4, <1>1, <1>t
    <3>3. CASE msg.pad \notin touched
      <4>1. diff \cap touched = {} /\ seen' = seen \ {msg.pad} /\ msg.pad \in seen
        BY <3>1, <3>3, <1>d, <1>s
      <4>2. msg.type = "release"
        BY <3>1, <3>3, <1>n, <1>f
      <4>3. Cardinality(seen') = Cardinality(seen) - 1
        BY <4>1, <2>3, FS_RemoveElement, Zenon
      <4>4. pmLock' = pmLock
        <5>1. Cardinality({}) = 0
          BY FS_EmptySet
        <5>2. PowerLocks(diff) = 0
          BY <4>1, <5>1 DEF PowerLocks
        <5> QED BY <5>2, <1>s, <1>t
      <4> QED BY <4>2, <4>3, <4>4, <3>1, <2>2, <2>3, <2>4, <1>1, <1>t
    <3> QED BY <3>2, <3>3
  <2> QED BY <2>5, <2>6
<1>5. ASSUME NEW b \in Buttons, b \notin missed', b \notin hurried'
      PROVE  Good(b)'
  <2>1. Good(b) /\ b # 0
    BY <1>1, <1>s, <1>5, <1>f DEF TouchInv
  <2>2. StateOK(b)' /\ CountOK(b)' /\ QueueOK(b)' /\ b \notin wrong'
    BY <1>1, <2>1 DEF Good, StateOK, CountOK, QueueOK, Pressed, IsEvent, NoneBetween
  <2>3. NewOK(b)'
    BY <1>1, <1>s DEF NewOK
  <2>4. PressOK(b)'
    <3>1. /\ Len(intrQueue) \in Nat /\ DOMAIN intrQueue = 1..Len(intrQueue)
          /\ \A i \in DOMAIN intrQueue : i \in DOMAIN intrQueue' /\ intrQueue'[i] = intrQueue[i]
          /\ \A i \in DOMAIN intrQueue' : i \in DOMAIN intrQueue \/ (i = Len(intrQueue) + 1 /\ intrQueue'[i] = msg)
      BY <1>s, <1>t, <1>n, SMT
    <3>2. Idle(b)' <=> Idle(b)
      BY <1>1 DEF Idle
    <3>3. msg.pad = b /\ msg.type = "press" => Idle(b) /\ \A i \in DOMAIN intrQueue : ~Of(b, i)
      BY <2>1, <1>n DEF Good, NewOK
    <3>4. \A i \in DOMAIN intrQueue : Of(b, i) /\ intrQueue[i].type = "press" =>
             Idle(b) /\ \A j \in DOMAIN intrQueue : Of(b, j) => i <= j
      BY <2>1 DEF Good, PressOK
    <3>5. ASSUME NEW i \in DOMAIN intrQueue', Of(b, i)', intrQueue'[i].type = "press"
          PROVE  Idle(b)' /\ \A j \in DOMAIN intrQueue' : Of(b, j)' => i <= j
      <4>1. CASE i \in DOMAIN intrQueue
        BY <4>1, <3>1, <3>2, <3>4, <3>5, SMT DEF Of
      <4>2. CASE i = Len(intrQueue) + 1 /\ intrQueue'[i] = msg
        BY <4>2, <3>1, <3>2, <3>3, <3>5, SMT DEF Of
      <4> QED BY <4>1, <4>2, <3>1
    <3> QED BY <3>5 DEF PressOK
  <2> QED BY <2>1, <2>2, <2>3, <2>4 DEF Good
<1> QED BY <1>2, <1>3, <1>4, <1>5 DEF TouchInv
-----------------------------------------------------------------------------
(* The application.                                                          *)

LEMMA ReceiveKeeps ==
  ASSUME ConstantsOK, TouchInv, Receive
  PROVE  TouchInv'
<1>1. UNCHANGED <<touched, seen, pending, scanOn, scans, changes, intrQueue, running, leaked, isSet,
                  calls, pmLock, device, last, cnt, held, missed, hurried>>
  BY DEF Receive, sensor, system, button
<1>t. Typed /\ TypeOK /\ eventQueue \in Seq(EventSet) /\ eventQueue # <<>>
  BY DEF TouchInv, Typed, Receive
<1>n. PICK n : n = Len(eventQueue)
  OBVIOUS
<1>q. /\ n \in Nat /\ n > 0 /\ DOMAIN eventQueue = 1..n /\ Head(eventQueue) = eventQueue[1]
      /\ eventQueue' \in Seq(EventSet) /\ Len(eventQueue') = n - 1 /\ DOMAIN eventQueue' = 1..(n - 1)
      /\ \A i \in 1..(n - 1) : eventQueue'[i] = eventQueue[i + 1]
  BY <1>t, <1>n, SMT DEF Receive
<1>h. PICK c \in Buttons, e \in Told : eventQueue[1].button = c /\ eventQueue[1].event = e
  <2>1. eventQueue[1] \in EventSet
    BY <1>t, <1>q, <1>n
  <2>2. eventQueue[1].button \in Buttons /\ eventQueue[1].event \in Told
    BY <2>1 DEF EventSet
  <2> QED BY <2>2
<1>w. /\ told' = [told EXCEPT ![c] = IF e = "longpress" THEN @ ELSE e]
      /\ wrong' = IF (e = "press") = (told[c] = "release") THEN wrong ELSE wrong \cup {c}
  BY <1>h, <1>q DEF Receive
<1>o. /\ told \in [Buttons -> {"press", "release"}] /\ wrong \subseteq Buttons
      /\ \A b \in Buttons : told'[b] = IF b = c /\ e # "longpress" THEN e ELSE told[b]
  BY <1>t, <1>w, <1>h DEF TypeOK
<1>2. Typed'
  <2>1. told' \in [Buttons -> {"press", "release"}]
    BY <1>o, <1>w, <1>h DEF Told
  <2>2. wrong' \subseteq Buttons
    BY <1>o, <1>w, <1>h
  <2>3. Len(eventQueue') <= EventSize
    BY <1>t, <1>q, <1>n, SMT DEF TypeOK, ConstantsOK
  <2> QED BY <1>1, <1>t, <1>q, <2>1, <2>2, <2>3 DEF Typed, TypeOK
<1>3. MessageOK' /\ LockOK'
  BY <1>1 DEF TouchInv, MessageOK, LockOK, ReleasesIn
<1>5. ASSUME NEW b \in Buttons, b \notin missed', b \notin hurried'
      PROVE  Good(b)'
  <2>1. Good(b)
    BY <1>1, <1>5 DEF TouchInv
  <2>2. PressOK(b)' /\ NewOK(b)' /\ StateOK(b)' /\ CountOK(b)'
    BY <1>1, <2>1 DEF Good, PressOK, NewOK, StateOK, CountOK, Of, Idle
  <2>e. \A i, d : i \in 1..(n - 1) => (IsEvent(b, d, i)' <=> IsEvent(b, d, i + 1))
    BY <1>q, SMT DEF IsEvent
  <2>3. /\ IsEvent(b, "press", 1) => ~Pressed(b, 1)
        /\ IsEvent(b, "release", 1) \/ IsEvent(b, "longpress", 1) => Pressed(b, 1)
    BY <2>1, <1>q, SMT DEF Good, QueueOK
  <2>4. Pressed(b, 1) <=> told[b] = "press"
    BY <1>q, SMT DEF Pressed, NoneBetween
  <2>5. /\ \A d : IsEvent(b, d, 1) <=> b = c /\ d = e
        /\ IsEvent(b, "press", 1) => told[b] # "press" /\ told'[b] = "press"
        /\ IsEvent(b, "release", 1) => told[b] = "press" /\ told'[b] = "release"
        /\ IsEvent(b, "longpress", 1) => told[b] = "press"
        /\ ~IsEvent(b, "press", 1) /\ ~IsEvent(b, "release", 1) => told'[b] = told[b]
    <3>1. \A d : IsEvent(b, d, 1) <=> b = c /\ d = e
      BY <1>h, <1>q, SMT DEF IsEvent
    <3> QED BY <3>1, <2>3, <2>4, <1>o, <1>h, SMT DEF Told
  <2>6. b \notin wrong'
    <3>1. b \notin wrong
      BY <2>1 DEF Good
    <3>2. b = c => (e = "press" <=> told[c] = "release")
      BY <2>5, <1>o, <1>h, SMT DEF Told
    <3> QED BY <3>1, <3>2, <1>w
  <2>7. ASSUME NEW m \in 1..n
        PROVE  Pressed(b, m)' <=> Pressed(b, m + 1)
    <3>1. \A k \in 0..m : NoneBetween(b, k, m)' <=> NoneBetween(b, k + 1, m + 1)
      <4>1. ASSUME NEW k \in 0..m, NoneBetween(b, k, m)'
            PROVE  NoneBetween(b, k + 1, m + 1)
        <5>1. ASSUME NEW i \in 1..n, k + 1 < i, i < m + 1
              PROVE  ~IsEvent(b, "release", i)
          <6>1. i - 1 \in 1..(n - 1) /\ k < i - 1 /\ i - 1 < m /\ i = (i - 1) + 1
            BY <5>1, <1>q
          <6>2. ~IsEvent(b, "release", i - 1)'
            BY <6>1, <4>1, <1>q DEF NoneBetween
          <6> QED BY <6>1, <6>2, <2>e
        <5> QED BY <5>1, <1>q DEF NoneBetween
      <4>2. ASSUME NEW k \in 0..m, NoneBetween(b, k + 1, m + 1)
            PROVE  NoneBetween(b, k, m)'
        <5>1. ASSUME NEW i \in 1..(n - 1), k < i, i < m
              PROVE  ~IsEvent(b, "release", i)'
          <6>1. i + 1 \in 1..n /\ k + 1 < i + 1 /\ i + 1 < m + 1
            BY <5>1, <1>q
          <6>2. ~IsEvent(b, "release", i + 1)
            BY <6>1, <4>2, <1>q DEF NoneBetween
          <6> QED BY <6>2, <2>e
        <5> QED BY <5>1, <1>q DEF NoneBetween
      <4> QED BY <4>1, <4>2
    <3>2. NoneBetween(b, 0, m + 1) <=> NoneBetween(b, 1, m + 1) /\ ~IsEvent(b, "release", 1)
      <4>1. \A i \in 1..n : 0 < i <=> i = 1 \/ 1 < i
        OBVIOUS
      <4>2. 1 \in 1..n /\ 0 < 1 /\ 1 < m + 1
        BY <1>q
      <4> QED BY <4>1, <4>2, <1>q DEF NoneBetween
    <3>3. NoneBetween(b, 0, m)' <=> NoneBetween(b, 1, m + 1)
      BY <3>1
    <3>4. (\E i \in 1..(n - 1) : i < m /\ IsEvent(b, "press", i)' /\ NoneBetween(b, i, m)') <=>
          (\E i \in 2..n : i < m + 1 /\ IsEvent(b, "press", i) /\ NoneBetween(b, i, m + 1))
      <4>1. ASSUME NEW i \in 1..(n - 1), i < m, IsEvent(b, "press", i)', NoneBetween(b, i, m)'
            PROVE  \E j \in 2..n : j < m + 1 /\ IsEvent(b, "press", j) /\ NoneBetween(b, j, m + 1)
        <5>1. i + 1 \in 2..n /\ i + 1 < m + 1 /\ i \in 0..m
          BY <4>1, <1>q
        <5>2. IsEvent(b, "press", i + 1) /\ NoneBetween(b, i + 1, m + 1)
          BY <4>1, <5>1, <3>1, <2>e
        <5> QED BY <5>1, <5>2
      <4>2. ASSUME NEW j \in 2..n, j < m + 1, IsEvent(b, "press", j), NoneBetween(b, j, m + 1)
            PROVE  \E i \in 1..(n - 1) : i < m /\ IsEvent(b, "press", i)' /\ NoneBetween(b, i, m)'
        <5>1. j - 1 \in 1..(n - 1) /\ j - 1 < m /\ j - 1 \in 0..m /\ j = (j - 1) + 1
          BY <4>2, <1>q
        <5>2. IsEvent(b, "press", j - 1)' /\ NoneBetween(b, j - 1, m)'
          BY <4>2, <5>1, <3>1, <2>e
        <5> QED BY <5>1, <5>2
      <4> QED BY <4>1, <4>2
    <3>5. (\E i \in 1..n : i < m + 1 /\ IsEvent(b, "press", i) /\ NoneBetween(b, i, m + 1)) <=>
          \/ \E i \in 2..n : i < m + 1 /\ IsEvent(b, "press", i) /\ NoneBetween(b, i, m + 1)
          \/ IsEvent(b, "press", 1) /\ NoneBetween(b, 1, m + 1)
      <4>1. 1 \in 1..n /\ 1 < m + 1 /\ \A i \in 1..n : i = 1 \/ i \in 2..n
        BY <1>q
      <4>2. \A i \in 2..n : i \in 1..n
        OBVIOUS
      <4> QED BY <4>1, <4>2
    <3>6. told'[b] = "press" /\ NoneBetween(b, 1, m + 1) <=>
          \/ told[b] = "press" /\ NoneBetween(b, 0, m + 1)
          \/ IsEvent(b, "press", 1) /\ NoneBetween(b, 1, m + 1)
      BY <2>5, <3>2
    <3> QED BY <3>3, <3>4, <3>5, <3>6, <1>q DEF Pressed
  <2>8. QueueOK(b)'
    <3>1. ASSUME NEW i \in 1..(n - 1)
          PROVE  /\ IsEvent(b, "press", i)' => ~Pressed(b, i)'
                 /\ IsEvent(b, "release", i)' \/ IsEvent(b, "longpress", i)' => Pressed(b, i)'
      <4>1. i + 1 \in 1..n /\ i \in 1..n
        BY <1>q
      <4>2. /\ IsEvent(b, "press", i + 1) => ~Pressed(b, i + 1)
            /\ IsEvent(b, "release", i + 1) \/ IsEvent(b, "longpress", i + 1) => Pressed(b, i + 1)
        BY <4>1, <2>1, <1>q DEF Good, QueueOK
      <4> QED BY <4>1, <4>2, <2>e, <2>7
    <3>2. Pressed(b, n - 1 + 1)' <=> last'[b] = "press"
      <4>1. Pressed(b, n + 1) <=> last[b] = "press"
        BY <2>1, <1>n DEF Good, QueueOK
      <4>2. n \in 1..n /\ n - 1 + 1 = n
        BY <1>q
      <4> QED BY <4>1, <4>2, <2>7, <1>1
    <3> QED BY <3>1, <3>2, <1>q DEF QueueOK
  <2> QED BY <2>2, <2>6, <2>8 DEF Good
<1> QED BY <1>2, <1>3, <1>5 DEF TouchInv

LEMMA StartKeeps ==
  ASSUME ConstantsOK, TouchInv, Start
  PROVE  TouchInv'
<1>1. UNCHANGED <<touched, seen, scans, changes, leaked, pmLock, device, last, cnt, held, told,
                  hurried, wrong>> /\ isSet' = FALSE
  BY DEF Start, button
<1>t. Typed /\ TypeOK /\ MessageOK /\ LockOK /\ intrQueue \in Seq(Messages) /\ eventQueue \in Seq(EventSet)
  BY DEF TouchInv, Typed, TypeOK
<1>c. calls' \in 0..MaxCalls
  <2>1. calls' = calls + 1 /\ calls < MaxCalls
    BY DEF Start
  <2>2. calls \in 0..MaxCalls /\ MaxCalls \in Nat
    BY <1>t DEF TypeOK, ConstantsOK
  <2> QED BY <2>1, <2>2
<1>n. /\ Cardinality(seen) \in Nat /\ Cardinality(ReleasesIn(intrQueue)) \in Nat /\ pmLock \in Nat
  BY <1>t, TouchFinite, FS_CardinalityType, ReleasesCounted, Zenon DEF TypeOK
<1>2. CASE running
  <2>1. UNCHANGED <<running, scanOn, intrQueue, eventQueue, missed, pending>>
    BY <1>2 DEF Start
  <2>2. Typed'
    BY <1>1, <1>c, <1>t, <2>1 DEF Typed, TypeOK
  <2>3. MessageOK'
    BY <1>t, <2>1 DEF MessageOK
  <2>4. LockOK'
    <3>1. missed = {} => pmLock <= (IF isSet THEN 0 ELSE 1) + Cardinality(seen) + Cardinality(ReleasesIn(intrQueue))
      BY <1>t DEF LockOK
    <3>2. missed = {} => pmLock <= 1 + Cardinality(seen) + Cardinality(ReleasesIn(intrQueue))
      BY <3>1, <1>n
    <3> QED BY <3>2, <1>1, <2>1 DEF LockOK
  <2>5. ASSUME NEW b \in Buttons', b \notin missed' \cup hurried'
        PROVE  Good(b)'
    BY <1>1, <2>1, <2>5 DEF TouchInv, Good, PressOK, NewOK, StateOK, CountOK, QueueOK, Pressed,
                            IsEvent, NoneBetween, Of, Idle
  <2> QED BY <2>2, <2>3, <2>4, <2>5 DEF TouchInv
<1>3. CASE ~running
  <2>1. /\ running' = TRUE /\ scanOn' = TRUE /\ pending' \subseteq pending \cup {"change"}
        /\ intrQueue' = <<>> /\ eventQueue' = <<>>
        /\ missed' = missed \cup ({intrQueue[i].pad : i \in DOMAIN intrQueue} \ {0})
                       \cup {eventQueue[i].button : i \in DOMAIN eventQueue}
    BY <1>3 DEF Start
  <2>e. /\ DOMAIN intrQueue' = {} /\ DOMAIN eventQueue' = {} /\ Len(eventQueue') = 0 /\ Len(intrQueue') = 0
        /\ intrQueue' \in Seq(Messages) /\ eventQueue' \in Seq(EventSet)
    BY <2>1, SMT
  <2>f. /\ \A i \in DOMAIN intrQueue : intrQueue[i].pad \in Pads \cup {0}
        /\ \A i \in DOMAIN eventQueue : eventQueue[i].button \in Buttons
    <3>1. ASSUME NEW i \in DOMAIN intrQueue
          PROVE  intrQueue[i].pad \in Pads \cup {0}
      <4>1. intrQueue[i] \in Messages
        BY <1>t
      <4> QED BY <4>1 DEF Messages
    <3>2. ASSUME NEW i \in DOMAIN eventQueue
          PROVE  eventQueue[i].button \in Buttons
      <4>1. eventQueue[i] \in EventSet
        BY <1>t
      <4> QED BY <4>1 DEF EventSet
    <3> QED BY <3>1, <3>2
  <2>2. Typed'
    <3>1. missed' \subseteq Pads
      BY <1>t, <2>1, <2>f, TouchFinite DEF TypeOK
    <3>2. pending' \subseteq {"change", "scan", "timeout"} /\ 0 <= IntrSize /\ 0 <= EventSize
      BY <1>t, <2>1 DEF TypeOK, ConstantsOK
    <3> QED BY <1>1, <1>c, <1>t, <2>1, <2>e, <3>1, <3>2 DEF Typed, TypeOK
  <2>3. MessageOK'
    BY <2>e DEF MessageOK
  <2>4. LockOK'
    <3> SUFFICES ASSUME missed' = {}
                 PROVE  pmLock' <= 1 + Cardinality(seen') + Cardinality(ReleasesIn(intrQueue'))
      BY <1>1 DEF LockOK
    <3>1. missed = {} /\ \A i \in DOMAIN intrQueue : intrQueue[i].pad = 0
      BY <2>1
    <3>2. ReleasesIn(intrQueue) = {} /\ ReleasesIn(intrQueue') = {}
      BY <3>1, <1>t, <2>e, TouchFinite DEF MessageOK, ReleasesIn
    <3>3. pmLock <= (IF isSet THEN 0 ELSE 1) + Cardinality(seen) + Cardinality(ReleasesIn(intrQueue))
      BY <1>t, <3>1 DEF LockOK
    <3> QED BY <3>2, <3>3, <1>n, <1>1
  <2>5. ASSUME NEW b \in Buttons', b \notin missed' \cup hurried'
        PROVE  Good(b)'
    <3>1. Good(b) /\ \A i \in DOMAIN eventQueue : eventQueue[i].button # b
      BY <1>1, <2>1, <2>5 DEF TouchInv
    <3>2. StateOK(b)' /\ CountOK(b)' /\ b \notin wrong'
      BY <1>1, <3>1 DEF Good, StateOK, CountOK
    <3>3. PressOK(b)'
      BY <2>e DEF PressOK
    <3>4. NewOK(b)'
      BY <1>1, <2>e, <3>1 DEF Good, NewOK, Idle
    <3>5. QueueOK(b)'
      <4>1. \A i, d : ~IsEvent(b, d, i) /\ ~IsEvent(b, d, i)'
        BY <3>1, <2>e DEF IsEvent
      <4>2. (told[b] = "press" <=> last[b] = "press")
        BY <3>1, <4>1 DEF Good, QueueOK, Pressed, NoneBetween
      <4>3. Pressed(b, 0 + 1)' <=> told'[b] = "press"
        BY <4>1 DEF Pressed, NoneBetween
      <4> QED BY <4>1, <4>2, <4>3, <2>e, <1>1 DEF QueueOK
    <3> QED BY <3>2, <3>3, <3>4, <3>5 DEF Good
  <2> QED BY <2>2, <2>3, <2>4, <2>5 DEF TouchInv
<1> QED BY <1>2, <1>3
-----------------------------------------------------------------------------
(* A period of the timer.                                                    *)

\* What the events of a period are: one of each button that has one.
OneEach(ev, n, d, S) ==
  /\ n \in Nat /\ ev \in [1..n -> EventSet]
  /\ \A i \in 1..n : ev[i].button \in S /\ ev[i].event = Event(d, ev[i].button)
  /\ \A i, j \in 1..n : ev[i].button = ev[j].button => i = j
  /\ \A b \in S : \E i \in 1..n : ev[i].button = b

LEMMA EventsOnce ==
  ASSUME ConstantsOK, NEW d, NEW S, S \subseteq Buttons, NEW ev \in Events(d, S)
  PROVE  \E n \in Nat : OneEach(ev, n, d, {b \in S : Event(d, b) # "none"})
<1>u. PICK due : due = {b \in S : Event(d, b) # "none"}
  OBVIOUS
<1>n. PICK n : n = Cardinality(due)
  OBVIOUS
<1>l. PICK l \in SetToSeqs(due) :
        ev = [i \in DOMAIN l |-> [button |-> l[i], event |-> Event(d, l[i])]]
  BY <1>u DEF Events
<1>1. l \in [1..n -> due] /\ (\A i, j \in 1..n : i # j => l[i] # l[j])
  BY <1>l, <1>n DEF SetToSeqs
<1>2. IsFiniteSet(due) /\ n \in Nat /\ due \subseteq Buttons
  <2>1. due \subseteq Buttons /\ Buttons \subseteq Pads
    BY <1>u, TouchFinite, Zenon
  <2>2. due \subseteq Pads
    BY <2>1
  <2>3. IsFiniteSet(due)
    BY <2>2, TouchFinite, Zenon
  <2> QED BY <2>1, <2>3, <1>n, FS_CardinalityType, Zenon
<1>3. IsFiniteSet(1..n) /\ Cardinality(1..n) = n
  <2>1. 1 \in Int /\ n \in Int
    BY <1>2
  <2>2. IsFiniteSet(1..n) /\ Cardinality(1..n) = IF 1 > n THEN 0 ELSE n - 1 + 1
    BY <2>1, FS_Interval, Zenon
  <2> QED BY <2>2, <1>2
<1>4. l \in Injection(1..n, due)
  <2>1. \A i, j \in 1..n : l[i] = l[j] => i = j
    BY <1>1, Zenon
  <2> QED BY <2>1, <1>1, Fun_IsInj, Zenon
<1>5. l \in Surjection(1..n, due)
  BY <1>2, <1>3, <1>4, <1>n, FS_Injection, Zenon
<1>6. \A b \in due : \E i \in 1..n : l[i] = b
  BY <1>5 DEF Surjection
<1>7. /\ DOMAIN ev = 1..n
      /\ \A i \in 1..n : ev[i] = [button |-> l[i], event |-> Event(d, l[i])] /\ l[i] \in due
  BY <1>l, <1>1
<1>8. \A i \in 1..n : ev[i].button = l[i] /\ ev[i].event = Event(d, l[i]) /\ l[i] \in due
  BY <1>7
<1>9. ev \in [1..n -> EventSet]
  <2>1. ASSUME NEW i \in 1..n
        PROVE  ev[i] \in EventSet
    <3>1. l[i] \in Buttons /\ Event(d, l[i]) \in Told
      <4>1. l[i] \in Buttons /\ Event(d, l[i]) # "none"
        BY <1>8, <1>2, <1>u
      <4>2. Event(d, l[i]) \in Told \cup {"none"}
        BY DEF Event, Told
      <4> QED BY <4>1, <4>2
    <3> QED BY <3>1, <1>7 DEF EventSet
  <2>2. ev = [i \in 1..n |-> ev[i]]
    BY <1>l, <1>7
  <2> QED BY <2>1, <2>2
<1>10. OneEach(ev, n, d, due)
  <2>1. \A i, j \in 1..n : ev[i].button = ev[j].button => i = j
    BY <1>8, <1>1
  <2>2. \A b \in due : \E i \in 1..n : ev[i].button = b
    BY <1>6, <1>8
  <2> QED BY <1>2, <1>8, <1>9, <2>1, <2>2 DEF OneEach
<1> QED BY <1>10, <1>u, <1>2

\* A longer queue: what was there stays, and b's part of what is new is news.
Longer(n, k) ==
  /\ n = Len(eventQueue) /\ n \in Nat /\ DOMAIN eventQueue = 1..n
  /\ k \in Nat /\ DOMAIN eventQueue' = 1..(n + k) /\ Len(eventQueue') = n + k
  /\ \A i \in 1..n : eventQueue'[i] = eventQueue[i]

LEMMA LongerSame ==
  ASSUME NEW n, NEW k, Longer(n, k), NEW b, told'[b] = told[b]
  PROVE  /\ \A i, e : i \in 1..n => (IsEvent(b, e, i)' <=> IsEvent(b, e, i))
         /\ \A m \in 1..(n + 1) : Pressed(b, m)' <=> Pressed(b, m)
         /\ \A m \in (n + 1)..(n + k + 1) :
              (\A i \in (n + 1)..(m - 1) : \A e : ~IsEvent(b, e, i)')
              => (Pressed(b, m)' <=> Pressed(b, n + 1))
<1>n. n \in Nat /\ k \in Nat /\ DOMAIN eventQueue = 1..n /\ DOMAIN eventQueue' = 1..(n + k)
  BY DEF Longer
<1>1. \A i, e : i \in 1..n => (IsEvent(b, e, i)' <=> IsEvent(b, e, i))
  BY <1>n DEF IsEvent, Longer
<1>2. ASSUME NEW m \in (n + 1)..(n + k + 1), NEW j \in 1..(n + 1), j = m \/ j = n + 1, j <= m,
             \A i \in (n + 1)..(m - 1) : \A e : ~IsEvent(b, e, i)'
      PROVE  \A q \in 0..n : NoneBetween(b, q, m)' <=> NoneBetween(b, q, j)
  <2>1. ASSUME NEW q \in 0..n, NoneBetween(b, q, m)'
        PROVE  NoneBetween(b, q, j)
    <3>1. ASSUME NEW i \in 1..n, q < i, i < j
          PROVE  ~IsEvent(b, "release", i)
      <4>1. i \in 1..(n + k) /\ i < m
        BY <3>1, <1>n, <1>2
      <4>2. ~IsEvent(b, "release", i)'
        BY <4>1, <3>1, <2>1, <1>n DEF NoneBetween
      <4> QED BY <4>2, <1>1
    <3> QED BY <3>1, <1>n DEF NoneBetween
  <2>2. ASSUME NEW q \in 0..n, NoneBetween(b, q, j)
        PROVE  NoneBetween(b, q, m)'
    <3>1. ASSUME NEW i \in 1..(n + k), q < i, i < m
          PROVE  ~IsEvent(b, "release", i)'
      <4>1. CASE i \in 1..n
        <5>1. i < j
          BY <4>1, <3>1, <1>2, <1>n
        <5>2. ~IsEvent(b, "release", i)
          BY <5>1, <4>1, <3>1, <2>2, <1>n DEF NoneBetween
        <5> QED BY <5>2, <4>1, <1>1
      <4>2. CASE i \notin 1..n
        <5>1. i \in (n + 1)..(m - 1)
          BY <4>2, <3>1, <1>2, <1>n
        <5> QED BY <5>1, <1>2
      <4> QED BY <4>1, <4>2
    <3> QED BY <3>1, <1>n DEF NoneBetween
  <2> QED BY <2>1, <2>2
<1>3. ASSUME NEW m \in 1..(n + 1)
      PROVE  \A q \in 0..n : NoneBetween(b, q, m)' <=> NoneBetween(b, q, m)
  <2>1. ASSUME NEW q \in 0..n, NoneBetween(b, q, m)'
        PROVE  NoneBetween(b, q, m)
    <3>1. ASSUME NEW i \in 1..n, q < i, i < m
          PROVE  ~IsEvent(b, "release", i)
      <4>1. i \in 1..(n + k)
        BY <1>n
      <4>2. ~IsEvent(b, "release", i)'
        BY <4>1, <3>1, <2>1, <1>n DEF NoneBetween
      <4> QED BY <4>2, <1>1
    <3> QED BY <3>1, <1>n DEF NoneBetween
  <2>2. ASSUME NEW q \in 0..n, NoneBetween(b, q, m)
        PROVE  NoneBetween(b, q, m)'
    <3>1. ASSUME NEW i \in 1..(n + k), q < i, i < m
          PROVE  ~IsEvent(b, "release", i)'
      <4>1. i \in 1..n
        BY <3>1, <1>3, <1>n
      <4>2. ~IsEvent(b, "release", i)
        BY <4>1, <3>1, <2>2, <1>n DEF NoneBetween
      <4> QED BY <4>2, <4>1, <1>1
    <3> QED BY <3>1, <1>n DEF NoneBetween
  <2> QED BY <2>1, <2>2
<1>4. ASSUME NEW m \in 1..(n + 1)
      PROVE  Pressed(b, m)' <=> Pressed(b, m)
  <2>1. (\E i \in 1..(n + k) : i < m /\ IsEvent(b, "press", i)' /\ NoneBetween(b, i, m)') <=>
        (\E i \in 1..n : i < m /\ IsEvent(b, "press", i) /\ NoneBetween(b, i, m))
    <3>1. ASSUME NEW i \in 1..(n + k), i < m
          PROVE  i \in 1..n /\ i \in 0..n
      BY <3>1, <1>4, <1>n
    <3>2. \A i \in 1..n : i \in 1..(n + k) /\ i \in 0..n
      BY <1>n
    <3> QED BY <3>1, <3>2, <1>1, <1>3
  <2>2. NoneBetween(b, 0, m)' <=> NoneBetween(b, 0, m)
    BY <1>3, <1>n
  <2> QED BY <2>1, <2>2, <1>n DEF Pressed
<1>5. ASSUME NEW m \in (n + 1)..(n + k + 1),
             \A i \in (n + 1)..(m - 1) : \A e : ~IsEvent(b, e, i)'
      PROVE  Pressed(b, m)' <=> Pressed(b, n + 1)
  <2>1. \A q \in 0..n : NoneBetween(b, q, m)' <=> NoneBetween(b, q, n + 1)
    <3>1. n + 1 \in 1..(n + 1) /\ n + 1 <= m
      BY <1>5, <1>n
    <3> QED BY <3>1, <1>2, <1>5
  <2>2. (\E i \in 1..(n + k) : i < m /\ IsEvent(b, "press", i)' /\ NoneBetween(b, i, m)') <=>
        (\E i \in 1..n : i < n + 1 /\ IsEvent(b, "press", i) /\ NoneBetween(b, i, n + 1))
    <3>1. ASSUME NEW i \in 1..(n + k), i < m, IsEvent(b, "press", i)'
          PROVE  i \in 1..n /\ i \in 0..n /\ i < n + 1
      <4>1. i \in 1..n \/ i \in (n + 1)..(m - 1)
        BY <3>1, <1>5, <1>n
      <4> QED BY <4>1, <3>1, <1>5, <1>n
    <3>2. \A i \in 1..n : i \in 1..(n + k) /\ i \in 0..n /\ i < m
      BY <1>5, <1>n
    <3> QED BY <3>1, <3>2, <1>1, <2>1
  <2>3. NoneBetween(b, 0, m)' <=> NoneBetween(b, 0, n + 1)
    BY <2>1, <1>n
  <2> QED BY <2>2, <2>3, <1>n DEF Pressed
<1> QED BY <1>1, <1>4, <1>5
\* One event more of a button, or none: the queue still tells what the button does.
LEMMA QueueNone ==
  ASSUME NEW n, NEW k, Longer(n, k), NEW b, told'[b] = told[b], QueueOK(b),
         \A i \in (n + 1)..(n + k) : \A e : ~IsEvent(b, e, i)',
         last'[b] = "press" <=> last[b] = "press"
  PROVE  QueueOK(b)'
<1>n. n \in Nat /\ k \in Nat /\ DOMAIN eventQueue = 1..n /\ DOMAIN eventQueue' = 1..(n + k)
      /\ n = Len(eventQueue) /\ Len(eventQueue') = n + k
  BY DEF Longer
<1>s. /\ \A i, e : i \in 1..n => (IsEvent(b, e, i)' <=> IsEvent(b, e, i))
      /\ \A m \in 1..(n + 1) : Pressed(b, m)' <=> Pressed(b, m)
      /\ \A m \in (n + 1)..(n + k + 1) :
           (\A i \in (n + 1)..(m - 1) : \A e : ~IsEvent(b, e, i)')
           => (Pressed(b, m)' <=> Pressed(b, n + 1))
  BY LongerSame, Zenon
<1>1. ASSUME NEW i \in 1..(n + k)
      PROVE  /\ IsEvent(b, "press", i)' => ~Pressed(b, i)'
             /\ IsEvent(b, "release", i)' \/ IsEvent(b, "longpress", i)' => Pressed(b, i)'
  <2>1. CASE i \in 1..n
    <3>1. i \in 1..(n + 1)
      BY <2>1, <1>n
    <3>2. /\ IsEvent(b, "press", i) => ~Pressed(b, i)
          /\ IsEvent(b, "release", i) \/ IsEvent(b, "longpress", i) => Pressed(b, i)
      BY <2>1, <1>n DEF QueueOK
    <3> QED BY <3>1, <3>2, <2>1, <1>s
  <2>2. CASE i \in (n + 1)..(n + k)
    BY <2>2
  <2> QED BY <2>1, <2>2, <1>n
<1>2. Pressed(b, n + k + 1)' <=> Pressed(b, n + 1)
  <2>1. n + k + 1 \in (n + 1)..(n + k + 1) /\ (n + k + 1) - 1 = n + k
    BY <1>n
  <2>2. \A i \in (n + 1)..((n + k + 1) - 1) : \A e : ~IsEvent(b, e, i)'
    BY <2>1
  <2> QED BY <2>1, <2>2, <1>s, Zenon
<1>3. Pressed(b, n + 1) <=> last[b] = "press"
  BY <1>n DEF QueueOK
<1> QED BY <1>1, <1>2, <1>3, <1>n DEF QueueOK

LEMMA QueueOne ==
  ASSUME NEW n, NEW k, Longer(n, k), NEW b, told'[b] = told[b], QueueOK(b),
         NEW p \in (n + 1)..(n + k), NEW e \in Told, IsEvent(b, e, p)',
         \A i \in (n + 1)..(n + k) : \A c : IsEvent(b, c, i)' => i = p /\ c = e,
         e = "press" => last[b] # "press" /\ last'[b] = "press",
         e = "release" => last[b] = "press" /\ last'[b] # "press",
         e = "longpress" => last[b] = "press" /\ last'[b] = "press"
  PROVE  QueueOK(b)'
<1>n. n \in Nat /\ k \in Nat /\ DOMAIN eventQueue = 1..n /\ DOMAIN eventQueue' = 1..(n + k)
      /\ n = Len(eventQueue) /\ Len(eventQueue') = n + k /\ p \in Nat
  BY DEF Longer
<1>s. /\ \A i, c : i \in 1..n => (IsEvent(b, c, i)' <=> IsEvent(b, c, i))
      /\ \A m \in 1..(n + 1) : Pressed(b, m)' <=> Pressed(b, m)
      /\ \A m \in (n + 1)..(n + k + 1) :
           (\A i \in (n + 1)..(m - 1) : \A c : ~IsEvent(b, c, i)')
           => (Pressed(b, m)' <=> Pressed(b, n + 1))
  BY LongerSame, Zenon
<1>3. Pressed(b, n + 1) <=> last[b] = "press"
  BY <1>n DEF QueueOK
<1>4. Pressed(b, p)' <=> last[b] = "press"
  <2>1. p \in (n + 1)..(n + k + 1) /\ \A i \in (n + 1)..(p - 1) : i \in (n + 1)..(n + k) /\ i # p
    BY <1>n
  <2>2. \A i \in (n + 1)..(p - 1) : \A c : ~IsEvent(b, c, i)'
    BY <2>1
  <2> QED BY <2>1, <2>2, <1>s, <1>3
<1>1. ASSUME NEW i \in 1..(n + k)
      PROVE  /\ IsEvent(b, "press", i)' => ~Pressed(b, i)'
             /\ IsEvent(b, "release", i)' \/ IsEvent(b, "longpress", i)' => Pressed(b, i)'
  <2>1. CASE i \in 1..n
    <3>1. i \in 1..(n + 1)
      BY <2>1, <1>n
    <3>2. /\ IsEvent(b, "press", i) => ~Pressed(b, i)
          /\ IsEvent(b, "release", i) \/ IsEvent(b, "longpress", i) => Pressed(b, i)
      BY <2>1, <1>n DEF QueueOK
    <3> QED BY <3>1, <3>2, <2>1, <1>s
  <2>2. CASE i \in (n + 1)..(n + k)
    BY <2>2, <1>4
  <2> QED BY <2>1, <2>2, <1>n
<1>2. Pressed(b, n + k + 1)' <=> last'[b] = "press"
  <2>r. IsEvent(b, "release", p)' <=> e = "release"
    BY <1>n
  <2>d. p \in 1..(n + k) /\ p < n + k + 1
    BY <1>n
  <2>a. \A q \in 0..(n + k) : (q < p /\ e = "release") => ~NoneBetween(b, q, n + k + 1)'
    BY <2>r, <2>d, <1>n DEF NoneBetween
  <2>1. CASE e = "press"
    <3>1. NoneBetween(b, p, n + k + 1)'
      <4>1. ASSUME NEW i \in 1..(n + k), p < i, i < n + k + 1
            PROVE  ~IsEvent(b, "release", i)'
        <5>1. i \in (n + 1)..(n + k) /\ i # p
          BY <4>1, <1>n
        <5> QED BY <5>1
      <4> QED BY <4>1, <1>n DEF NoneBetween
    <3> QED BY <3>1, <2>1, <2>d, <1>n DEF Pressed
  <2>2. CASE e = "release"
    <3>1. ASSUME NEW i \in 1..(n + k), IsEvent(b, "press", i)', NoneBetween(b, i, n + k + 1)'
          PROVE  FALSE
      <4>1. i \in 1..n
        <5>1. i \notin (n + 1)..(n + k)
          BY <3>1, <2>2
        <5> QED BY <5>1, <1>n
      <4>2. i < p /\ i \in 0..(n + k)
        BY <4>1, <1>n
      <4> QED BY <4>2, <3>1, <2>2, <2>a
    <3>2. ~NoneBetween(b, 0, n + k + 1)'
      <4>1. 0 \in 0..(n + k) /\ 0 < p
        BY <1>n
      <4> QED BY <4>1, <2>2, <2>a
    <3> QED BY <3>1, <3>2, <2>2, <1>n DEF Pressed
  <2>3. CASE e = "longpress"
    <3>1. Pressed(b, p)'
      BY <2>3, <1>4
    <3>2. \A q \in 0..(p - 1) : NoneBetween(b, q, p)' => NoneBetween(b, q, n + k + 1)'
      <4>1. ASSUME NEW q \in 0..(p - 1), NoneBetween(b, q, p)',
                   NEW i \in 1..(n + k), q < i, i < n + k + 1
            PROVE  ~IsEvent(b, "release", i)'
        <5>1. CASE i < p
          BY <5>1, <4>1, <1>n DEF NoneBetween
        <5>2. CASE ~(i < p)
          <6>1. i \in (n + 1)..(n + k)
            BY <5>2, <4>1, <1>n
          <6> QED BY <6>1, <2>3
        <5> QED BY <5>1, <5>2
      <4> QED BY <4>1, <1>n DEF NoneBetween
    <3>3. Pressed(b, n + k + 1)'
      <4>1. CASE told'[b] = "press" /\ NoneBetween(b, 0, p)'
        <5>1. 0 \in 0..(p - 1)
          BY <1>n
        <5> QED BY <5>1, <4>1, <3>2, <1>n DEF Pressed
      <4>2. CASE \E i \in 1..(n + k) : i < p /\ IsEvent(b, "press", i)' /\ NoneBetween(b, i, p)'
        <5>1. PICK i \in 1..(n + k) : i < p /\ IsEvent(b, "press", i)' /\ NoneBetween(b, i, p)'
          BY <4>2
        <5>2. i \in 0..(p - 1) /\ i < n + k + 1
          BY <5>1, <1>n
        <5> QED BY <5>1, <5>2, <3>2, <1>n DEF Pressed
      <4> QED BY <3>1, <4>1, <4>2, <1>n DEF Pressed
    <3> QED BY <3>3, <2>3
  <2> QED BY <2>1, <2>2, <2>3 DEF Told
<1> QED BY <1>1, <1>2, <1>n DEF QueueOK

\* What a period does to one button: the pair of its states goes round, the
\* periods are counted and the event fits the states.
LEMMA ButtonStep ==
  ASSUME ConstantsOK, NEW d, NEW b \in Buttons, NEW free \in BOOLEAN, ~Masked(d),
         StateOK(b), CountOK(b), cnt[b] \in 0..(LongPress - 1), held[b] \in 0..LongPress,
         device[b] \in States, last[b] \in States,
         d[b] = device[b] \/ (d[b] = "press" /\ Idle(b)) \/ d[b] = "release",
         device'[b] = IF free THEN DeviceAfter(d, b) ELSE d[b],
         last'[b] = IF free THEN LastAfter(d, b) ELSE last[b],
         cnt'[b] = IF free THEN CountAfter(d, b) ELSE cnt[b],
         held'[b] = IF ~free THEN held[b]
                    ELSE IF Event(d, b) = "press" \/ d[b] # "press" THEN 0
                    ELSE IF held[b] < LongPress THEN held[b] + 1 ELSE held[b]
  PROVE  /\ StateOK(b)' /\ CountOK(b)'
         /\ free /\ Event(d, b) = "longpress" => held[b] + 1 >= LongPress
         /\ ~free => last'[b] = last[b]
         /\ free /\ Event(d, b) = "none" => (last'[b] = "press" <=> last[b] = "press")
         /\ free /\ Event(d, b) = "press" => last[b] # "press" /\ last'[b] = "press"
         /\ free /\ Event(d, b) = "release" => last[b] = "press" /\ last'[b] # "press"
         /\ free /\ Event(d, b) = "longpress" => last[b] = "press" /\ last'[b] = "press"
         /\ d[b] = "idle" /\ last[b] = "idle" => Idle(b)'
<1>1. LongPress \in Nat /\ LongPress > 0 /\ cnt[b] \in Nat /\ held[b] \in Nat /\ cnt[b] < LongPress
      /\ held[b] <= LongPress
  BY DEF ConstantsOK
<1>2. CASE ~free
  <2>1. device'[b] = d[b] /\ last'[b] = last[b] /\ cnt'[b] = cnt[b] /\ held'[b] = held[b]
    BY <1>2
  <2> QED BY <1>2, <2>1, SMT DEF StateOK, CountOK, Idle
<1>3. CASE free
  <2>1. /\ device'[b] = IF d[b] = "release" /\ last[b] = "release" THEN "idle" ELSE d[b]
        /\ last'[b] = device'[b]
    BY <1>3 DEF DeviceAfter, LastAfter
  <2>2. cnt'[b] = IF d[b] = "release" /\ last[b] = "release" THEN 0
                  ELSE IF d[b] = "press" /\ last[b] = "press"
                    THEN IF cnt[b] + 1 >= LongPress THEN 0 ELSE cnt[b] + 1
                  ELSE cnt[b]
    BY <1>3 DEF CountAfter
  <2>3. Event(d, b) = IF d[b] = "press" /\ last[b] = "idle" THEN "press"
                      ELSE IF d[b] = "press" /\ last[b] = "press" /\ cnt[b] + 1 >= LongPress
                        THEN "longpress"
                      ELSE IF d[b] = "release" /\ last[b] = "press" THEN "release"
                      ELSE "none"
    BY DEF Event
  <2>4. held'[b] = IF Event(d, b) = "press" \/ d[b] # "press" THEN 0
                   ELSE IF held[b] < LongPress THEN held[b] + 1 ELSE held[b]
    BY <1>3
  <2>5. \/ d[b] = "idle" /\ last[b] = "idle"
        \/ d[b] = "press" /\ last[b] = "idle"
        \/ d[b] = "release" /\ last[b] = "idle"
        \/ d[b] = "press" /\ last[b] = "press"
        \/ d[b] = "release" /\ last[b] = "press"
        \/ d[b] = "release" /\ last[b] = "release"
    BY DEF StateOK, Idle, States
  <2>6. CASE d[b] = "idle" /\ last[b] = "idle"
    BY <2>1, <2>2, <2>3, <2>4, <2>6, <1>1, <1>3 DEF StateOK, CountOK, Idle
  <2>7. CASE d[b] = "press" /\ last[b] = "idle"
    BY <2>1, <2>2, <2>3, <2>4, <2>7, <1>1, <1>3 DEF StateOK, CountOK, Idle
  <2>8. CASE d[b] = "release" /\ last[b] = "idle"
    BY <2>1, <2>2, <2>3, <2>4, <2>8, <1>1, <1>3 DEF StateOK, CountOK, Idle
  <2>9. CASE d[b] = "press" /\ last[b] = "press"
    <3>1. cnt[b] <= held[b]
      BY <2>9 DEF CountOK
    <3>2. CASE cnt[b] + 1 >= LongPress
      BY <3>1, <3>2, <2>1, <2>2, <2>3, <2>4, <2>9, <1>1, <1>3 DEF StateOK, CountOK, Idle
    <3>3. CASE ~(cnt[b] + 1 >= LongPress)
      BY <3>1, <3>3, <2>1, <2>2, <2>3, <2>4, <2>9, <1>1, <1>3 DEF StateOK, CountOK, Idle
    <3> QED BY <3>2, <3>3
  <2>10. CASE d[b] = "release" /\ last[b] = "press"
    BY <2>1, <2>2, <2>3, <2>4, <2>10, <1>1, <1>3 DEF StateOK, CountOK, Idle
  <2>11. CASE d[b] = "release" /\ last[b] = "release"
    BY <2>1, <2>2, <2>3, <2>4, <2>11, <1>1, <1>3 DEF StateOK, CountOK, Idle
  <2> QED BY <2>5, <2>6, <2>7, <2>8, <2>9, <2>10, <2>11
<1> QED BY <1>2, <1>3

\* Behind n events the queue has k of those of buttons S with devices d: of a
\* button that is not missed its event, once, or none if it has none.
EventsPlaced(d, S, n, k) ==
  \A b \in Buttons \ missed' :
    IF b \in S /\ Event(d, b) # "none"
    THEN \A e : e = Event(d, b) =>
           \E p \in (n + 1)..(n + k) :
             /\ IsEvent(b, e, p)'
             /\ \A i \in (n + 1)..(n + k) :
                  \A c : IsEvent(b, c, i)' => i = p /\ c = e
    ELSE \A i \in (n + 1)..(n + k) :
           \A c : ~IsEvent(b, c, i)'

\* The events that a period gives are put after those in the queue, those of
\* one button are one or none, and a button whose event is dropped is missed.
LEMMA EventsGiven ==
  ASSUME ConstantsOK, Typed, NEW d, NEW S, S \subseteq Buttons, NEW events \in Events(d, S),
         NEW given, NEW n, n = Len(eventQueue),
         given = IF Len(events) < EventSize - Len(eventQueue) THEN Len(events)
                            ELSE EventSize - Len(eventQueue),
         eventQueue' = eventQueue \o SubSeq(events, 1, given),
         \A i \in (given + 1)..Len(events) : events[i].button \in missed'
  PROVE  /\ eventQueue' \in Seq(EventSet) /\ Len(eventQueue') <= EventSize
         /\ \A i \in (given + 1)..Len(events) : events[i].button \in Buttons
         /\ Longer(n, given)
         /\ EventsPlaced(d, S, n, given)
<1>q. PICK q : q = n
  OBVIOUS
<1>u. PICK due : due = {b \in S : Event(d, b) # "none"}
  OBVIOUS
<1>n. PICK k \in Nat : OneEach(events, k, d, due)
  BY <1>u, EventsOnce, Zenon
<1>1. /\ events \in [1..k -> EventSet] /\ k \in Nat
      /\ \A i \in 1..k : events[i] \in EventSet /\ events[i].button \in due
                         /\ events[i].event = Event(d, events[i].button)
      /\ \A i, j \in 1..k : events[i].button = events[j].button => i = j
      /\ \A b \in due : \E i \in 1..k : events[i].button = b
  BY <1>n DEF OneEach
<1>2. events \in Seq(EventSet) /\ Len(events) = k /\ DOMAIN events = 1..k
  <2>1. events \in Seq(EventSet)
    BY <1>1
  <2> QED BY <2>1, <1>1
<1>3. eventQueue \in Seq(EventSet) /\ q \in Nat /\ q <= EventSize /\ EventSize \in Nat
      /\ DOMAIN eventQueue = 1..q
  BY <1>q DEF Typed, TypeOK, ConstantsOK
<1>4. given \in Nat /\ given <= k /\ q + given <= EventSize
  BY <1>2, <1>3, <1>q
<1>5. PICK new : new = SubSeq(events, 1, given)
  OBVIOUS
<1>6. new \in Seq(EventSet) /\ Len(new) = given /\ \A i \in 1..given : new[i] = events[i]
  BY <1>2, <1>4, <1>5, SMT
<1>7. /\ eventQueue' \in Seq(EventSet) /\ Len(eventQueue') = q + given
      /\ DOMAIN eventQueue' = 1..(q + given)
      /\ \A i \in 1..q : eventQueue'[i] = eventQueue[i]
      /\ \A i \in (q + 1)..(q + given) : eventQueue'[i] = new[i - q]
  BY <1>3, <1>4, <1>5, <1>6, <1>q, SMT
<1>8. \A i \in (q + 1)..(q + given) : i - q \in 1..given /\ i - q \in 1..k /\ eventQueue'[i] = events[i - q]
  <2>1. \A i \in (q + 1)..(q + given) : i - q \in 1..given /\ i - q \in 1..k
    BY <1>3, <1>4
  <2> QED BY <2>1, <1>6, <1>7
<1>9. Longer(q, given)
  BY <1>3, <1>4, <1>7, <1>q DEF Longer
<1>10. \A i \in (given + 1)..Len(events) : events[i].button \in Buttons
  <2>1. \A i \in (given + 1)..k : i \in 1..k
    BY <1>4
  <2> QED BY <2>1, <1>1, <1>2, <1>u
<1>11. ASSUME NEW b \in Buttons \ missed', b \in due, NEW e, e = Event(d, b)
       PROVE  \E p \in (q + 1)..(q + given) :
                /\ IsEvent(b, e, p)'
                /\ \A i \in (q + 1)..(q + given) : \A c : IsEvent(b, c, i)' => i = p /\ c = e
  <2>1. PICK j \in 1..k : events[j].button = b
    BY <1>11, <1>1
  <2>2. j <= given
    <3>1. j \in (given + 1)..k => events[j].button \in missed'
      BY <1>2
    <3> QED BY <3>1, <2>1, <1>11, <1>4
  <2>3. j + q \in (q + 1)..(q + given) /\ (j + q) - q = j
    BY <2>2, <1>3, <1>4
  <2>4. eventQueue'[j + q] = events[j] /\ j + q \in DOMAIN eventQueue'
    <3>1. j + q \in 1..(q + given)
      BY <2>2, <1>3, <1>4
    <3> QED BY <3>1, <2>3, <1>7, <1>8
  <2>5. IsEvent(b, e, j + q)'
    BY <2>1, <2>4, <1>1, <1>11 DEF IsEvent
  <2>6. ASSUME NEW i \in (q + 1)..(q + given), NEW c, IsEvent(b, c, i)'
        PROVE  i = j + q /\ c = e
    <3>1. events[i - q].button = b /\ events[i - q].event = c
      BY <2>6, <1>8 DEF IsEvent
    <3>2. i - q = j
      BY <3>1, <2>1, <1>1, <1>8
    <3>3. i = j + q
      BY <3>2, <1>3
    <3> QED BY <3>1, <3>2, <3>3, <2>1, <1>1, <1>11
  <2> QED BY <2>3, <2>5, <2>6
<1>12. ASSUME NEW b \in Buttons \ missed', b \notin due
       PROVE  \A i \in (q + 1)..(q + given) : \A c : ~IsEvent(b, c, i)'
  <2>1. ASSUME NEW i \in (q + 1)..(q + given), NEW c, IsEvent(b, c, i)'
        PROVE  FALSE
    <3>1. events[i - q].button = b
      BY <2>1, <1>8 DEF IsEvent
    <3> QED BY <3>1, <1>1, <1>8, <1>12
  <2> QED BY <2>1
<1>13. \A b \in Buttons : b \in due <=> b \in S /\ Event(d, b) # "none"
  BY <1>u
<1>14. EventsPlaced(d, S, n, given)
  BY <1>11, <1>12, <1>13, <1>q DEF EventsPlaced
<1> QED BY <1>4, <1>7, <1>9, <1>10, <1>14, <1>q

\* A period keeps what is known of the buttons.
ProcessGood(m, b) ==
  /\ StateOK(b)' /\ CountOK(b)' /\ QueueOK(b)' /\ b \notin wrong'
  /\ m.pad # b /\ Idle(b) => Idle(b)'

LEMMA ProcessKeeps ==
  ASSUME ConstantsOK, TouchInv, NEW m, m.pad \in Pads => m.type \in {"press", "release"},
         NEW busy \in SUBSET Buttons, Process(m, busy), told' = told
  PROVE  /\ device' \in [Pads -> States] /\ last' \in [Buttons -> States]
         /\ cnt' \in [Buttons -> 0..(LongPress - 1)] /\ held' \in [Buttons -> 0..LongPress]
         /\ eventQueue' \in Seq(EventSet) /\ Len(eventQueue') <= EventSize
         /\ missed \subseteq missed' /\ missed' \subseteq Pads /\ wrong' \subseteq Buttons
         /\ \A b \in Buttons \ (missed' \cup hurried) :
              (m.pad = b /\ m.type = "press" => Idle(b)) => ProcessGood(m, b)
<1>d. PICK d : d = Updated(m)
  OBVIOUS
<1>a. PICK free : free = IF Masked(d) THEN Buttons ELSE Buttons \ busy
  OBVIOUS
<1>1. /\ device' = [p \in Pads |-> IF p \in free THEN DeviceAfter(d, p) ELSE d[p]]
      /\ last' = [b \in Buttons |-> IF b \in free THEN LastAfter(d, b) ELSE last[b]]
      /\ cnt' = [b \in Buttons |-> IF b \in free THEN CountAfter(d, b) ELSE cnt[b]]
      /\ held' = [b \in Buttons |->
                   IF b \notin free THEN held[b]
                   ELSE IF Event(d, b) = "press" \/ d[b] # "press" THEN 0
                   ELSE IF held[b] < LongPress THEN held[b] + 1 ELSE held[b]]
      /\ wrong' = wrong \cup {b \in free : /\ Event(d, b) = "longpress"
                                         /\ held[b] + 1 < LongPress}
  BY <1>d, <1>a DEF Process
<1>e. PICK events \in Events(d, free) :
        LET room == EventSize - Len(eventQueue)
            given == IF Len(events) < room THEN Len(events) ELSE room
        IN /\ eventQueue' = eventQueue \o SubSeq(events, 1, given)
           /\ missed' = missed
                \cup {events[i].button : i \in (given + 1)..Len(events)}
                \cup (IF Masked(d) THEN Buttons ELSE {})
  BY <1>d, <1>a DEF Process
<1>k. PICK given : given = IF Len(events) < EventSize - Len(eventQueue) THEN Len(events)
                            ELSE EventSize - Len(eventQueue)
  OBVIOUS
<1>2. /\ eventQueue' = eventQueue \o SubSeq(events, 1, given)
      /\ missed' = missed \cup {events[i].button : i \in (given + 1)..Len(events)}
                   \cup (IF Masked(d) THEN Buttons ELSE {})
  BY <1>e, <1>k
<1>3. Typed /\ TypeOK /\ free \subseteq Buttons /\ Buttons \subseteq Pads
  BY <1>a, TouchFinite DEF TouchInv, Typed
<1>4. /\ d \in [Pads -> States]
      /\ device' \in [Pads -> States] /\ last' \in [Buttons -> States]
      /\ cnt' \in [Buttons -> 0..(LongPress - 1)] /\ held' \in [Buttons -> 0..LongPress]
  <2>1. /\ device \in [Pads -> States] /\ last \in [Buttons -> States]
        /\ cnt \in [Buttons -> 0..(LongPress - 1)] /\ held \in [Buttons -> 0..LongPress]
        /\ LongPress \in Nat /\ LongPress > 0
    BY <1>3 DEF TypeOK, ConstantsOK
  <2>2. d \in [Pads -> States]
    BY <2>1, <1>d DEF Updated, States
  <2>3. Buttons \subseteq Pads
    BY <1>3
  <2>4. \A p \in Pads : (IF p \in free THEN DeviceAfter(d, p) ELSE d[p]) \in States
    BY <2>2 DEF DeviceAfter, States
  <2>5. \A b \in Buttons : (IF b \in free THEN LastAfter(d, b) ELSE last[b]) \in States
    BY <2>1, <2>2, <2>3 DEF LastAfter, DeviceAfter, States
  <2>6. ASSUME NEW b \in Buttons
        PROVE  (IF b \in free THEN CountAfter(d, b) ELSE cnt[b]) \in 0..(LongPress - 1)
    <3>1. cnt[b] \in 0..(LongPress - 1)
      BY <2>1
    <3>2. CountAfter(d, b) = 0 \/ CountAfter(d, b) = cnt[b]
          \/ (~(cnt[b] + 1 >= LongPress) /\ CountAfter(d, b) = cnt[b] + 1)
      BY DEF CountAfter
    <3> QED BY <3>1, <3>2, <2>1
  <2>7. ASSUME NEW b \in Buttons
        PROVE  (IF b \notin free THEN held[b]
                ELSE IF Event(d, b) = "press" \/ d[b] # "press" THEN 0
                ELSE IF held[b] < LongPress THEN held[b] + 1 ELSE held[b]) \in 0..LongPress
    <3>1. held[b] \in 0..LongPress
      BY <2>1
    <3> QED BY <3>1, <2>1
  <2> QED BY <1>1, <2>2, <2>4, <2>5, <2>6, <2>7
<1>n. PICK n : n = Len(eventQueue)
  OBVIOUS
<1>5. \A i \in (given + 1)..Len(events) : events[i].button \in missed'
  BY <1>2
<1>6. /\ eventQueue' \in Seq(EventSet) /\ Len(eventQueue') <= EventSize
      /\ \A i \in (given + 1)..Len(events) : events[i].button \in Buttons
      /\ Longer(n, given)
      /\ EventsPlaced(d, free, n, given)
  <2>1. Typed /\ free \subseteq Buttons /\ eventQueue' = eventQueue \o SubSeq(events, 1, given)
    BY <1>2, <1>3
  <2>2. events \in Events(d, free)
    BY <1>e
  <2> QED BY <2>1, <2>2, <1>5, <1>k, <1>n, EventsGiven, Zenon
<1>7. missed \subseteq missed' /\ missed' \subseteq Pads /\ wrong' \subseteq Buttons
  <2>1. missed \subseteq Pads /\ wrong \subseteq Buttons
    BY <1>3 DEF TypeOK
  <2> QED BY <2>1, <1>1, <1>2, <1>3, <1>6
<1>8. ASSUME NEW b \in Buttons \ (missed' \cup hurried), m.pad = b /\ m.type = "press" => Idle(b)
      PROVE  ProcessGood(m, b)
  <2>1. Good(b) /\ ~Masked(d) /\ b \in Pads /\ b # Guard
    BY <1>8, <1>2, <1>7, <1>3, TouchFinite DEF TouchInv
  <2>2. d[b] = IF m.pad = b THEN m.type ELSE device[b]
    <3>1. device \in [Pads -> States]
      BY <1>3 DEF TypeOK
    <3>2. CASE m.pad \notin Pads
      BY <3>2, <2>1, <1>d DEF Updated
    <3>3. CASE m.pad \in Pads /\ m.pad # Guard /\ Masked(device)
      BY <3>3, <2>1, <1>d DEF Updated
    <3>4. CASE m.pad \in Pads /\ ~(m.pad # Guard /\ Masked(device))
      <4>1. d = [device EXCEPT ![m.pad] = m.type]
        BY <3>4, <1>d DEF Updated
      <4> QED BY <4>1, <3>1, <2>1
    <3> QED BY <3>2, <3>3, <3>4
  <2>3. d[b] = device[b] \/ (d[b] = "press" /\ Idle(b)) \/ d[b] = "release"
    BY <2>1, <2>2, <1>8
  <2>t. PICK due \in BOOLEAN : due <=> b \in free
    OBVIOUS
  <2>4. /\ device'[b] = IF due THEN DeviceAfter(d, b) ELSE d[b]
        /\ last'[b] = IF due THEN LastAfter(d, b) ELSE last[b]
        /\ cnt'[b] = IF due THEN CountAfter(d, b) ELSE cnt[b]
        /\ held'[b] = IF ~due THEN held[b]
                      ELSE IF Event(d, b) = "press" \/ d[b] # "press" THEN 0
                      ELSE IF held[b] < LongPress THEN held[b] + 1 ELSE held[b]
    BY <1>1, <2>t, <2>1
  <2>5. cnt[b] \in 0..(LongPress - 1) /\ held[b] \in 0..LongPress
        /\ device[b] \in States /\ last[b] \in States
    BY <1>3, <2>1 DEF TypeOK
  <2>6. StateOK(b) /\ CountOK(b) /\ QueueOK(b) /\ b \notin wrong
    BY <2>1 DEF Good
  <2>7. /\ StateOK(b)' /\ CountOK(b)'
        /\ due /\ Event(d, b) = "longpress" => held[b] + 1 >= LongPress
        /\ ~due => last'[b] = last[b]
        /\ due /\ Event(d, b) = "none" => (last'[b] = "press" <=> last[b] = "press")
        /\ due /\ Event(d, b) = "press" => last[b] # "press" /\ last'[b] = "press"
        /\ due /\ Event(d, b) = "release" => last[b] = "press" /\ last'[b] # "press"
        /\ due /\ Event(d, b) = "longpress" => last[b] = "press" /\ last'[b] = "press"
        /\ d[b] = "idle" /\ last[b] = "idle" => Idle(b)'
    BY <2>1, <2>3, <2>4, <2>5, <2>6, ButtonStep, Zenon
  <2>8. b \notin wrong'
    <3>1. LongPress \in Nat /\ held[b] \in Nat
      BY <2>5 DEF ConstantsOK
    <3> QED BY <3>1, <2>6, <2>7, <2>t, <1>1
  <2>9. QueueOK(b)'
    <3>1. CASE b \in free /\ Event(d, b) # "none"
      <4>e. PICK e : e = Event(d, b)
        OBVIOUS
      <4>1. e \in Told
        BY <4>e, <3>1 DEF Event, Told
      <4>2. PICK p \in (n + 1)..(n + given) :
               /\ IsEvent(b, e, p)'
               /\ \A i \in (n + 1)..(n + given) : \A c : IsEvent(b, c, i)' => i = p /\ c = e
        BY <3>1, <4>e, <1>6, <1>8 DEF EventsPlaced
      <4>3. /\ e = "press" => last[b] # "press" /\ last'[b] = "press"
            /\ e = "release" => last[b] = "press" /\ last'[b] # "press"
            /\ e = "longpress" => last[b] = "press" /\ last'[b] = "press"
        BY <3>1, <4>e, <2>7, <2>t
      <4>4. told'[b] = told[b]
        OBVIOUS
      <4>5. Longer(n, given) /\ QueueOK(b)
        BY <1>6, <2>6
      <4> QED BY <4>1, <4>2, <4>3, <4>4, <4>5, QueueOne, Zenon
    <3>2. CASE ~(b \in free /\ Event(d, b) # "none")
      <4>1. \A i \in (n + 1)..(n + given) : \A c : ~IsEvent(b, c, i)'
        BY <3>2, <1>6, <1>8 DEF EventsPlaced
      <4>2. last'[b] = "press" <=> last[b] = "press"
        BY <3>2, <2>7, <2>t
      <4>3. told'[b] = told[b]
        OBVIOUS
      <4>5. Longer(n, given) /\ QueueOK(b)
        BY <1>6, <2>6
      <4> QED BY <4>1, <4>2, <4>3, <4>5, QueueNone, Zenon
    <3> QED BY <3>1, <3>2
  <2>10. m.pad # b /\ Idle(b) => Idle(b)'
    BY <2>2, <2>7 DEF Idle
  <2> QED BY <2>6, <2>7, <2>8, <2>9, <2>10 DEF ProcessGood
<1> QED BY <1>4, <1>6, <1>7, <1>8

\* The message of a period: the first one, if it is of a pad.
NoMessage == [type |-> "none", pad |-> 0]

LEMMA TimerKeeps ==
  ASSUME ConstantsOK, TouchInv, TeProcTimerCb
  PROVE  TouchInv'
<1>1. UNCHANGED <<touched, seen, pending, scanOn, scans, changes, running, leaked, told, hurried>>
  BY DEF TeProcTimerCb, sensor
<1>t. /\ Typed /\ TypeOK /\ MessageOK /\ LockOK /\ intrQueue \in Seq(Messages) /\ pmLock \in Nat
      /\ isSet \in BOOLEAN /\ 0 \notin Pads /\ Buttons \subseteq Pads
  BY TouchFinite DEF TouchInv, Typed, TypeOK
<1>h. PICK busy \in SUBSET Buttons :
    /\ calls' = IF busy = {} THEN calls ELSE calls + 1
    /\ calls' <= MaxCalls
    /\ \/ /\ intrQueue = <<>>
          /\ Process([type |-> "none", pad |-> 0], busy)
          /\ UNCHANGED <<intrQueue, isSet, pmLock>>
       \/ /\ intrQueue # <<>> /\ intrQueue' = Tail(intrQueue)
          /\ LET msg == Head(intrQueue) IN
               /\ Process(IF msg.type \in {"press", "release"} THEN msg
                          ELSE [type |-> "none", pad |-> 0], busy)
               /\ isSet' = (isSet \/ msg.type = "scan")
               /\ pmLock' = IF msg.type = "release" \/ (msg.type = "scan" /\ ~isSet)
                            THEN IF pmLock = 0 THEN 0 ELSE pmLock - 1
                            ELSE pmLock
  BY DEF TeProcTimerCb, Holding
<1>2. calls' \in 0..MaxCalls
  <2>1. calls \in 0..MaxCalls /\ MaxCalls \in Nat
    BY <1>t DEF TypeOK, ConstantsOK
  <2> QED BY <2>1, <1>h
<1>m. PICK m : m = IF intrQueue # <<>> /\ intrQueue[1].type \in {"press", "release"}
                   THEN intrQueue[1] ELSE NoMessage
  OBVIOUS
<1>3. /\ Process(m, busy)
      /\ intrQueue = <<>> => UNCHANGED <<intrQueue, isSet, pmLock>>
      /\ (intrQueue # <<>>) =>
           /\ intrQueue' = Tail(intrQueue)
           /\ isSet' = (isSet \/ intrQueue[1].type = "scan")
           /\ pmLock' = IF intrQueue[1].type = "release" \/ (intrQueue[1].type = "scan" /\ ~isSet)
                        THEN IF pmLock = 0 THEN 0 ELSE pmLock - 1
                        ELSE pmLock
  <2>1. CASE intrQueue = <<>>
    <3>1. m = [type |-> "none", pad |-> 0]
      BY <2>1, <1>m DEF NoMessage
    <3> QED BY <2>1, <3>1, <1>h
  <2>2. CASE intrQueue # <<>>
    <3>1. Head(intrQueue) = intrQueue[1]
      BY <2>2, <1>t
    <3>2. m = IF Head(intrQueue).type \in {"press", "release"} THEN Head(intrQueue)
              ELSE [type |-> "none", pad |-> 0]
      BY <2>2, <3>1, <1>m DEF NoMessage
    <3> QED BY <2>2, <3>1, <3>2, <1>h
  <2> QED BY <2>1, <2>2
<1>4. /\ m.pad \in Pads => intrQueue # <<>> /\ m = intrQueue[1] /\ m.type \in {"press", "release"}
      /\ m.type = "press" => m.pad \in Pads \cup {0}
  <2>1. intrQueue # <<>> => intrQueue[1] \in Messages
    BY <1>t
  <2>2. NoMessage.pad = 0 /\ NoMessage.type = "none"
    BY DEF NoMessage
  <2>3. CASE m = NoMessage
    BY <2>2, <2>3, <1>t
  <2>4. CASE intrQueue # <<>> /\ m = intrQueue[1] /\ m.type \in {"press", "release"}
    BY <2>1, <2>4 DEF Messages
  <2> QED BY <2>3, <2>4, <1>m
<1>5. /\ device' \in [Pads -> States] /\ last' \in [Buttons -> States]
      /\ cnt' \in [Buttons -> 0..(LongPress - 1)] /\ held' \in [Buttons -> 0..LongPress]
      /\ eventQueue' \in Seq(EventSet) /\ Len(eventQueue') <= EventSize
      /\ missed \subseteq missed' /\ missed' \subseteq Pads /\ wrong' \subseteq Buttons
      /\ \A b \in Buttons \ (missed' \cup hurried) :
           (m.pad = b /\ m.type = "press" => Idle(b)) => ProcessGood(m, b)
  <2>1. told' = told /\ (m.pad \in Pads => m.type \in {"press", "release"})
    BY <1>1, <1>4
  <2> QED BY <2>1, <1>3, ProcessKeeps, Zenon
<1>q. PICK n : n = Len(intrQueue)
  OBVIOUS
<1>6. /\ intrQueue' \in Seq(Messages) /\ Len(intrQueue') <= IntrSize
      /\ n \in Nat /\ DOMAIN intrQueue = 1..n
      /\ (intrQueue = <<>> /\ n = 0 /\ DOMAIN intrQueue' = {})
         \/ (intrQueue # <<>> /\ n > 0 /\ DOMAIN intrQueue' = 1..(n - 1)
             /\ \A i \in 1..(n - 1) : intrQueue'[i] = intrQueue[i + 1])
  <2>1. Len(intrQueue) <= IntrSize /\ IntrSize \in Nat
    BY <1>t DEF TypeOK, ConstantsOK
  <2>2. CASE intrQueue = <<>>
    BY <2>1, <2>2, <1>3, <1>t, <1>q
  <2>3. CASE intrQueue # <<>>
    BY <2>1, <2>3, <1>3, <1>t, <1>q, SMT
  <2> QED BY <2>2, <2>3
<1>7. Typed'
  <2>1. isSet' \in BOOLEAN /\ pmLock' \in Nat
    <3>1. CASE intrQueue = <<>>
      BY <3>1, <1>3, <1>t
    <3>2. CASE intrQueue # <<>>
      <4>1. isSet' \in BOOLEAN
        BY <3>2, <1>3
      <4>2. pmLock' = pmLock \/ pmLock' = 0 \/ (pmLock # 0 /\ pmLock' = pmLock - 1)
        BY <3>2, <1>3
      <4> QED BY <4>1, <4>2, <1>t
    <3> QED BY <3>1, <3>2
  <2>2. /\ touched \subseteq Pads /\ seen \subseteq Pads /\ hurried \subseteq Pads
        /\ pending \subseteq {"change", "scan", "timeout"} /\ scanOn \in BOOLEAN
        /\ scans \in 0..(Scans - 1) /\ running \in BOOLEAN /\ leaked \in BOOLEAN
        /\ changes \in 0..MaxChanges /\ told \in [Buttons -> {"press", "release"}]
    BY <1>t DEF TypeOK
  <2>3. /\ touched' \subseteq Pads /\ seen' \subseteq Pads /\ hurried' \subseteq Pads
        /\ pending' \subseteq {"change", "scan", "timeout"} /\ scanOn' \in BOOLEAN
        /\ scans' \in 0..(Scans - 1) /\ running' \in BOOLEAN /\ leaked' \in BOOLEAN
        /\ changes' \in 0..MaxChanges /\ told' \in [Buttons -> {"press", "release"}]
    BY <1>1, <2>2
  <2>4. /\ device' \in [Pads -> States] /\ last' \in [Buttons -> States]
        /\ cnt' \in [Buttons -> 0..(LongPress - 1)] /\ held' \in [Buttons -> 0..LongPress]
        /\ eventQueue' \in Seq(EventSet) /\ Len(eventQueue') <= EventSize
        /\ missed' \subseteq Pads /\ wrong' \subseteq Buttons
        /\ intrQueue' \in Seq(Messages) /\ Len(intrQueue') <= IntrSize
    BY <1>5, <1>6
  <2> QED BY <1>2, <2>1, <2>3, <2>4 DEF Typed, TypeOK
<1>8. MessageOK'
  <2>1. ASSUME NEW i \in DOMAIN intrQueue', intrQueue'[i].type = "release"
        PROVE  intrQueue'[i].pad \in Pads
    <3>1. i + 1 \in DOMAIN intrQueue /\ intrQueue'[i] = intrQueue[i + 1]
      BY <2>1, <1>6
    <3> QED BY <2>1, <3>1, <1>t DEF MessageOK
  <2> QED BY <2>1 DEF MessageOK
<1>9. LockOK'
  <2> SUFFICES ASSUME missed' = {}
               PROVE  pmLock' <= (IF isSet' THEN 0 ELSE 1) + Cardinality(seen') + Cardinality(ReleasesIn(intrQueue'))
    BY DEF LockOK
  <2>1. missed = {}
    BY <1>5
  <2>c. PICK c, r, s : c = Cardinality(seen) /\ r = Cardinality(ReleasesIn(intrQueue))
                       /\ s = Cardinality(ReleasesIn(intrQueue'))
    OBVIOUS
  <2>2. pmLock <= (IF isSet THEN 0 ELSE 1) + c + r
    BY <1>t, <2>1, <2>c DEF LockOK
  <2>3. c \in Nat /\ r \in Nat /\ s \in Nat
    <3>1. IsFiniteSet(seen)
      BY <1>t, TouchFinite DEF TypeOK
    <3> QED BY <3>1, <1>t, <1>6, <2>c, ReleasesCounted, FS_CardinalityType, Zenon
  <2>4. Cardinality(seen') = c
    BY <1>1, <2>c
  <2>5. CASE intrQueue = <<>>
    BY <2>5, <2>c, <2>2, <2>4, <1>3
  <2>6. CASE intrQueue # <<>>
    <3>1. s = IF intrQueue[1].type = "release" THEN r - 1 ELSE r
      <4>1. intrQueue' = Tail(intrQueue)
        BY <2>6, <1>3
      <4> QED BY <4>1, <2>6, <2>c, <1>t, ReleasesTail, Zenon
    <3>2. /\ isSet' = (isSet \/ intrQueue[1].type = "scan")
          /\ pmLock' = IF intrQueue[1].type = "release" \/ (intrQueue[1].type = "scan" /\ ~isSet)
                        THEN IF pmLock = 0 THEN 0 ELSE pmLock - 1
                        ELSE pmLock
      BY <2>6, <1>3
    <3>3. CASE intrQueue[1].type = "release"
      <4>1. isSet' = isSet /\ s = r - 1 /\ pmLock' = IF pmLock = 0 THEN 0 ELSE pmLock - 1
        BY <3>1, <3>2, <3>3, <1>t
      <4> QED BY <4>1, <2>2, <2>3, <2>4, <2>c, <1>t
    <3>4. CASE intrQueue[1].type = "scan" /\ ~isSet
      <4>1. isSet' /\ s = r /\ pmLock' = IF pmLock = 0 THEN 0 ELSE pmLock - 1
        BY <3>1, <3>2, <3>4, <1>t
      <4> QED BY <4>1, <3>4, <2>2, <2>3, <2>4, <2>c, <1>t
    <3>5. CASE ~(intrQueue[1].type = "release") /\ ~(intrQueue[1].type = "scan" /\ ~isSet)
      <4>1. isSet' = isSet /\ s = r /\ pmLock' = pmLock
        BY <3>1, <3>2, <3>5, <1>t
      <4> QED BY <4>1, <2>2, <2>3, <2>4, <2>c, <1>t
    <3> QED BY <3>3, <3>4, <3>5
  <2> QED BY <2>5, <2>6
<1>10. ASSUME NEW b \in Buttons, b \notin missed', b \notin hurried'
       PROVE  Good(b)'
  <2>1. Good(b) /\ b \in Pads /\ b \in Buttons \ (missed' \cup hurried)
    BY <1>1, <1>5, <1>10, <1>t DEF TouchInv
  <2>2. \A i \in DOMAIN intrQueue : Of(b, i) /\ intrQueue[i].type = "press" =>
           Idle(b) /\ \A j \in DOMAIN intrQueue : Of(b, j) => i <= j
    BY <2>1 DEF Good, PressOK
  <2>3. m.pad = b => 1 \in DOMAIN intrQueue /\ Of(b, 1) /\ m.type = intrQueue[1].type
    <3>1. m.pad = b => intrQueue # <<>> /\ m = intrQueue[1]
      BY <2>1, <1>4
    <3> QED BY <3>1, <1>6 DEF Of
  <2>4. m.pad = b /\ m.type = "press" => Idle(b)
    BY <2>2, <2>3
  <2>5. ProcessGood(m, b)
    BY <2>1, <2>4, <1>5
  <2>6. \A i \in DOMAIN intrQueue' : /\ i + 1 \in DOMAIN intrQueue /\ i \in Nat /\ i > 0
                                     /\ intrQueue'[i] = intrQueue[i + 1]
                                     /\ (Of(b, i)' <=> Of(b, i + 1))
    BY <1>6 DEF Of
  <2>7. PressOK(b)'
    <3>1. ASSUME NEW i \in DOMAIN intrQueue', Of(b, i)', intrQueue'[i].type = "press"
          PROVE  Idle(b)' /\ \A j \in DOMAIN intrQueue' : Of(b, j)' => i <= j
      <4>1. Idle(b) /\ \A j \in DOMAIN intrQueue : Of(b, j) => i + 1 <= j
        BY <3>1, <2>2, <2>6
      <4>2. m.pad # b
        BY <4>1, <2>3, <2>6
      <4>3. Idle(b)'
        BY <4>1, <4>2, <2>5 DEF ProcessGood
      <4>4. ASSUME NEW j \in DOMAIN intrQueue', Of(b, j)'
            PROVE  i <= j
        <5>1. i + 1 <= j + 1 /\ i \in Nat /\ j \in Nat
          BY <4>1, <4>4, <2>6
        <5> QED BY <5>1
      <4> QED BY <4>3, <4>4
    <3> QED BY <3>1 DEF PressOK
  <2>8. NewOK(b)'
    <3> SUFFICES ASSUME b \in touched' \ seen'
                 PROVE  (Idle(b) /\ \A i \in DOMAIN intrQueue : ~Of(b, i))'
      BY DEF NewOK
    <3>1. Idle(b) /\ \A i \in DOMAIN intrQueue : ~Of(b, i)
      BY <2>1, <1>1 DEF Good, NewOK
    <3>2. Idle(b)'
      BY <3>1, <2>3, <2>5 DEF ProcessGood
    <3>3. \A i \in DOMAIN intrQueue' : ~Of(b, i)'
      BY <3>1, <2>6
    <3> QED BY <3>2, <3>3
  <2> QED BY <2>5, <2>7, <2>8 DEF Good, ProcessGood
<1> QED BY <1>7, <1>8, <1>9, <1>10 DEF TouchInv

-----------------------------------------------------------------------------
(* The theorems.                                                             *)

\* TouchInv is inductive: the types, the release messages, the uses of the power
\* lock, and for a button without a dropped change or event what its pad, its
\* messages, its states and its events have to do with each other
\* (te_intr_cb(), te_proc_timer_cb(), button_proc_state()).
THEOREM TouchInvariant == ASSUME ConstantsOK PROVE Spec => []TouchInv
<1>1. Init => TouchInv
  BY TouchInit
<1>2. TouchInv /\ [Next]_vars => TouchInv'
  <2> SUFFICES ASSUME TouchInv, [Next]_vars PROVE TouchInv'
    OBVIOUS
  <2>1. CASE PadChanges
    BY <2>1, PadKeeps
  <2>2. CASE ScanDone \/ MeasureTimeout
    BY <2>2, ScanKeeps
  <2>3. CASE TeIntrCb
    BY <2>3, IntrKeeps
  <2>4. CASE TeProcTimerCb
    BY <2>4, TimerKeeps
  <2>5. CASE Receive
    BY <2>5, ReceiveKeeps
  <2>6. CASE Start
    BY <2>6, StartKeeps
  <2>7. CASE Stop
    BY <2>7, StopKeeps
  <2>8. CASE UNCHANGED vars
    <3>1. UNCHANGED <<touched, seen, pending, scanOn, scans, changes, intrQueue, running, leaked,
                      isSet, calls, pmLock, device, last, cnt, held, eventQueue, told, missed,
                      hurried, wrong>>
      BY <2>8 DEF vars, sensor, system, button
    <3>2. TypeOK'
      BY <3>1 DEF TouchInv, Typed, TypeOK
    <3>3. UNCHANGED <<touched, seen, intrQueue, isSet, pmLock, button, eventQueue, told,
                      missed, hurried, wrong>>
      BY <3>1 DEF button
    <3> QED BY <3>2, <3>3, TouchQuiet, Zenon
  <2> QED BY <2>1, <2>2, <2>3, <2>4, <2>5, <2>6, <2>7, <2>8 DEF Next
<1> QED BY <1>1, <1>2, PTL DEF Spec

\* Every variable holds a value of its type, the two queues within their sizes
\* (intr_msg_queue, event_msg_queue).
THEOREM TouchTyped == ASSUME ConstantsOK PROVE Spec => []TypeOK
<1>1. TouchInv => TypeOK
  BY DEF TouchInv, Typed
<1> QED BY <1>1, TouchInvariant, PTL

\* Whatever the number of buttons, the sizes of the queues and the length of a
\* long press, the application receives a press, its long presses and a release
\* in turn, unless a change or an event of the pad was dropped or the pad was
\* touched again too early (button_proc_state()).
THEOREM TouchInOrder == ASSUME ConstantsOK PROVE Spec => []EventsInOrder
<1>1. TouchInv => EventsInOrder
  BY DEF TouchInv, Typed, TypeOK, Good, EventsInOrder
<1> QED BY <1>1, TouchInvariant, PTL

\* When no pad is touched and nothing is left to do, no use of the power lock is
\* left, unless a change was dropped (te_intr_cb(), te_proc_timer_cb()).
THEOREM TouchLockReturned == ASSUME ConstantsOK PROVE Spec => []PowerLockReturned
<1>1. ASSUME TouchInv
      PROVE  PowerLockReturned
  <2> SUFFICES ASSUME seen = {}, intrQueue = <<>>, isSet, missed = {}
               PROVE  pmLock = 0
    BY DEF PowerLockReturned
  <2>1. pmLock <= 0 + Cardinality({}) + Cardinality(ReleasesIn(<<>>))
    BY <1>1 DEF TouchInv, LockOK
  <2>2. ReleasesIn(<<>>) = {}
    BY SMT DEF ReleasesIn
  <2>3. Cardinality({}) = 0 /\ Cardinality(ReleasesIn(<<>>)) = 0
    BY <2>2, FS_EmptySet
  <2>4. pmLock \in Nat
    BY <1>1 DEF TouchInv, Typed, TypeOK
  <2> QED BY <2>1, <2>2, <2>3, <2>4
<1> QED BY <1>1, TouchInvariant, PTL

=============================================================================
