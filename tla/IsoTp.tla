-------------------------------- MODULE IsoTp -------------------------------
(***************************************************************************)
(* esp_isotp: the pool of transmit frames of a transport, a singly linked  *)
(* list, and the life of the transport on its TWAI node.  A task takes a   *)
(* frame from the pool, hands it to the driver and puts it back when the   *)
(* driver refuses; the transmit interrupt puts it back when it was sent;   *)
(* the receive interrupt takes one for a flow control frame.  Neither end  *)
(* masks the other: the task's list operations are two or three memory     *)
(* accesses, and an interrupt may run between them.                        *)
(*                                                                         *)
(* isotp-c, which segments the messages, is outside this repository: it is *)
(* the caller that sends frames.  The node belongs to the application,     *)
(* which may enable and disable it itself.                                 *)
(***************************************************************************)
EXTENDS Naturals, FiniteSets

CONSTANTS
  Frames,          \* tx_frame_array
  None,            \* a null pointer
  TxDepth,         \* frames the TWAI driver queues
  Sizes,           \* lengths of the payloads the caller hands over
  MaxTransports,   \* bound on esp_isotp_new_transport()
  MaxFailures      \* bound on failures of the driver's calls

ConstantsOK ==
  /\ IsFiniteSet(Frames) /\ Frames # {} /\ None \notin Frames
  /\ Sizes \subseteq Nat
  /\ TxDepth \in Nat \ {0} /\ MaxTransports \in Nat /\ MaxFailures \in Nat

\* What the compiler makes of SLIST_REMOVE_HEAD() after SLIST_FIRST(): the
\* head is read again, or is still in a register.
Builds == {"reread", "register"}

\* A TWAI frame holds no more.
MaxPayload == 8

VARIABLES
  build,
  enabled,     \* the node runs: interrupts come, frames are accepted
  context,     \* the transport its event callbacks are registered with
  transport,   \* the application's handle
  created,     \* transports created
  head, next,  \* tx_frame_pool
  flying,      \* frames queued in the driver
  at, frame,   \* the task in isotp_user_send_can(): its place, tx_frame,
  second,      \* and the successor it read
  failures,
  raced,       \* history: an interrupt changed the list under the task
  dangling,    \* history: a driver call failed and left the callbacks
  dropped      \* history: frames that were taken for a payload too long

node == <<enabled, context, transport, created, failures, dangling>>
pool == <<head, next, dropped>>
task == <<at, frame, second>>
vars == <<build, node, pool, flying, task, raced>>

Idle == at = "idle"
Live == transport # None

Init ==
  /\ build \in Builds
  /\ enabled = FALSE /\ context = None /\ transport = None /\ created = 0
  /\ head = None /\ next = [f \in Frames |-> None]
  /\ flying = {} /\ at = "idle" /\ frame = None /\ second = None
  /\ failures = 0 /\ raced = FALSE /\ dangling = FALSE /\ dropped = {}

\* The places of the task where it has read the list and not yet written it.
InWindow == at \in {"took", "unlinking", "linking"}

-----------------------------------------------------------------------------
(***************************************************************************)
(* The transport.                                                          *)
(***************************************************************************)

Fails == failures < MaxFailures /\ failures' = failures + 1

\* Each frame's place in tx_frame_array.
Place == CHOOSE rank \in [Frames -> 1..Cardinality(Frames)] :
           \A f, g \in Frames : rank[f] = rank[g] => f = g

\* The pool after every frame was inserted at the head, in turn.
FullHead == CHOOSE f \in Frames : Place[f] = Cardinality(Frames)
FullNext == [f \in Frames |-> IF Place[f] = 1 THEN None
                              ELSE CHOOSE g \in Frames : Place[g] = Place[f] - 1]

\* esp_isotp_new_transport(): the driver takes callbacks only while the node
\* is disabled.  When enabling fails the transport is freed, and the
\* callbacks stay.
NewTransport ==
  /\ Idle /\ ~Live /\ ~enabled /\ created < MaxTransports
  /\ created' = created + 1
  /\ context' = created'
  /\ \/ /\ enabled' = TRUE /\ transport' = created'
        /\ head' = FullHead /\ next' = FullNext
        /\ flying' = {} /\ dropped' = {} /\ raced' = FALSE /\ dangling' = FALSE
        /\ UNCHANGED failures
     \/ /\ Fails /\ dangling' = TRUE
        /\ UNCHANGED <<enabled, transport, pool, flying, raced>>
  /\ UNCHANGED <<build, task>>

\* The bug: the callbacks are left with the node.
UnregisterForgotten == UNCHANGED <<context, dangling>>

\* twai_node_register_event_callbacks() with no callbacks: refused by a node
\* that still runs.
Unregister ==
  IF enabled' THEN UNCHANGED context /\ dangling' = TRUE
  ELSE context' = None /\ UNCHANGED dangling

\* esp_isotp_delete(), from the task that sends: a failure to disable the
\* node is reported, and everything is freed all the same.
Delete ==
  /\ Idle /\ Live
  /\ \/ enabled' = FALSE /\ UNCHANGED failures
     \/ enabled /\ enabled' = TRUE /\ Fails
  /\ Unregister
  /\ transport' = None
  /\ head' = None /\ next' = [f \in Frames |-> None]
  /\ flying' = {} /\ dropped' = {}
  /\ UNCHANGED <<build, created, task, raced>>

\* The application's own twai_node_enable() and twai_node_disable().
AppEnable ==
  /\ Idle /\ ~enabled /\ created > 0 /\ enabled' = TRUE
  /\ UNCHANGED <<build, context, transport, created, failures, dangling, pool,
                 flying, task, raced>>

AppDisable ==
  /\ Idle /\ Live /\ enabled /\ enabled' = FALSE
  /\ UNCHANGED <<build, context, transport, created, failures, dangling, pool,
                 flying, task, raced>>

-----------------------------------------------------------------------------
(***************************************************************************)
(* isotp_user_send_can() in a task, for esp_isotp_send() or _poll().       *)
(***************************************************************************)

\* tx_frame = SLIST_FIRST(); an empty pool refuses, which changes nothing.
Take ==
  /\ Idle /\ Live /\ head # None
  /\ at' = "took" /\ frame' = head
  /\ UNCHANGED <<build, node, pool, flying, second, raced>>

\* SLIST_REMOVE_HEAD() reads the successor of the head.  An empty pool is
\* read through the null pointer, where the model stops following the task.
ReadNext ==
  /\ at = "took"
  /\ LET first == IF build = "reread" THEN head ELSE frame IN
       /\ first # None
       /\ at' = "unlinking" /\ second' = next[first]
  /\ UNCHANGED <<build, node, pool, flying, frame, raced>>

\* It writes the head.
Unlink ==
  /\ at = "unlinking"
  /\ head' = second /\ at' = "owned"
  /\ UNCHANGED <<build, node, next, dropped, flying, frame, second, raced>>

\* The bug: a frame the driver refuses is forgotten.
RefusedForgotten ==
  /\ at' = "idle" /\ frame' = None /\ second' = None
  /\ UNCHANGED <<pool, flying>>

\* SLIST_INSERT_HEAD() of a frame the driver refused writes the frame's link.
Refused ==
  /\ next' = [next EXCEPT ![frame] = head] /\ at' = "linking"
  /\ UNCHANGED <<head, dropped, flying, frame, second>>

TooLong == \E size \in Sizes : size > MaxPayload
Fits == \E size \in Sizes : size <= MaxPayload

\* A payload that is too long is refused after its frame was taken, and the
\* frame is not put back.
Oversized ==
  /\ TooLong
  /\ dropped' = dropped \cup {frame}
  /\ at' = "idle" /\ frame' = None /\ second' = None
  /\ UNCHANGED <<head, next, flying>>

Queued ==
  /\ Fits /\ enabled /\ Cardinality(flying) < TxDepth
  /\ flying' = flying \cup {frame}
  /\ at' = "idle" /\ frame' = None /\ second' = None
  /\ UNCHANGED pool

\* The check of the length, and twai_node_transmit() with no wait.  The driver
\* may refuse whatever room it has: a node that is down or off the bus
\* takes no frame.
Transmit ==
  /\ at = "owned"
  /\ Oversized \/ Queued \/ (Fits /\ Refused)
  /\ UNCHANGED <<build, node, raced>>

\* SLIST_INSERT_HEAD() writes the head.
Link ==
  /\ at = "linking"
  /\ head' = frame
  /\ at' = "idle" /\ frame' = None /\ second' = None
  /\ UNCHANGED <<build, node, next, dropped, flying, raced>>

-----------------------------------------------------------------------------
(***************************************************************************)
(* The interrupts: each runs to its end before the task goes on.  Of a     *)
(* list that was damaged the model follows the task only, and it does not  *)
(* follow an interrupt into a transport that was freed.                    *)
(***************************************************************************)

Interrupt ==
  /\ enabled /\ context # None /\ context = transport /\ ~raced
  /\ raced' = InWindow
  /\ UNCHANGED <<build, node, task>>

\* esp_isotp_tx_callback(): a frame was sent.
TxCallback ==
  /\ Interrupt
  /\ \E f \in flying :
       /\ flying' = flying \ {f}
       /\ next' = [next EXCEPT ![f] = head] /\ head' = f
  /\ UNCHANGED dropped

\* esp_isotp_rx_callback(): isotp-c answers with a flow control frame, by the
\* same isotp_user_send_can().  A frame the driver refuses is put back at once.
RxCallback ==
  /\ Interrupt
  /\ head # None /\ head' = next[head]
  /\ \/ /\ Fits /\ Cardinality(flying) < TxDepth
        /\ flying' = flying \cup {head} /\ UNCHANGED dropped
     \/ /\ TooLong
        /\ dropped' = dropped \cup {head} /\ UNCHANGED flying
  /\ UNCHANGED next

Next ==
  \/ NewTransport \/ Delete \/ AppEnable \/ AppDisable
  \/ Take \/ ReadNext \/ Unlink \/ Transmit \/ Link
  \/ TxCallback \/ RxCallback

Spec == Init /\ [][Next]_vars

-----------------------------------------------------------------------------
(***************************************************************************)
(* Properties.                                                             *)
(***************************************************************************)

TypeOK ==
  /\ build \in Builds /\ enabled \in BOOLEAN
  /\ context \in (1..MaxTransports) \cup {None}
  /\ transport \in (1..MaxTransports) \cup {None}
  /\ created \in 0..MaxTransports /\ failures \in 0..MaxFailures
  /\ head \in Frames \cup {None} /\ next \in [Frames -> Frames \cup {None}]
  /\ flying \in SUBSET Frames /\ dropped \in SUBSET Frames
  /\ at \in {"idle", "took", "unlinking", "owned", "linking"}
  /\ frame \in Frames \cup {None} /\ second \in Frames \cup {None}
  /\ raced \in BOOLEAN /\ dangling \in BOOLEAN

\* The frames on the way from h along nx: the least set that holds h and the
\* successors of its members.
Closed(S, h, nx) ==
  /\ h \in S \cup {None}
  /\ \A f \in S : nx[f] \in S \cup {None}

Reach(h, nx) == {f \in Frames : \A S \in SUBSET Frames : Closed(S, h, nx) => f \in S}

\* The frames in the pool.
Pooled == Reach(head, next)

\* The frame the task has taken and neither queued nor put back.
Owned == IF at \in {"owned", "linking"} THEN {frame} ELSE {}

\* Every frame of a live transport is in exactly one place: the pool, the
\* task, the driver, or nowhere for good because a payload was too long for it.
OnePlace ==
  Live => /\ Pooled \cup flying \cup Owned \cup dropped = Frames
          /\ Pooled \cap flying = {} /\ Pooled \cap Owned = {}
          /\ flying \cap Owned = {}
          /\ dropped \cap (Pooled \cup flying \cup Owned) = {}

\* No frame of the pool is lost or in two places, queued, sent, or refused by
\* the driver for whatever reason, as long as no interrupt changes the list
\* while the task has read it and not yet written it.  Beyond that window only
\* the check of the length loses a frame, one for each payload it refuses
\* (isotp_user_send_can(), esp_isotp_tx_callback()).
FramesKept == raced \/ OnePlace

\* The node's callbacks are those of the living transport or none: whatever
\* the order of create, delete and the application's own enable, an interrupt
\* does not reach a freed transport, unless a driver call failed
\* (esp_isotp_new_transport(), esp_isotp_delete()).
CallbackAlive == dangling \/ context = None \/ context = transport

=============================================================================
