----------------------------- MODULE SectorStore ----------------------------
(***************************************************************************)
(* What dhara promises to those who use it (map.h): sectors that are       *)
(* written, trimmed and copied one call at a time, and that survive a loss *)
(* of power as they were at some moment since the last call to sync that   *)
(* succeeded.  A call that fails changes nothing.                          *)
(***************************************************************************)
EXTENDS Naturals

CONSTANTS Sectors, Data, Unmapped

VARIABLES
  on,        \* the device has power and its store was resumed
  content,   \* what each sector reads, nothing while it is off
  wanted,    \* what the call under way is to make of it
  since,     \* the contents since the last sync, those a resume may find
  busy,      \* a call is under way
  ok         \* the last call succeeded

vars == <<on, content, wanted, since, busy, ok>>

Contents == [Sectors -> Data \cup {Unmapped}]

Init ==
  /\ on = TRUE /\ content = [s \in Sectors |-> Unmapped]
  /\ wanted = content /\ since = {content} /\ busy = FALSE /\ ok = TRUE

\* A write, a trim or a copy begins, or a call that changes nothing.
Begin ==
  /\ on /\ ~busy /\ busy' = TRUE
  /\ \/ \E s \in Sectors, d \in Data \cup {Unmapped} :
          wanted' = [content EXCEPT ![s] = d]
     \/ UNCHANGED wanted
  /\ UNCHANGED <<on, content, since, ok>>

\* It takes effect, at once.
Commit ==
  /\ on /\ busy /\ content' = wanted /\ since' = since \cup {wanted}
  /\ UNCHANGED <<on, wanted, busy, ok>>

\* It returns: a success has taken effect, and if the call was sync it has made
\* that last; a failure has not.
Return ==
  /\ on /\ busy /\ busy' = FALSE
  /\ \/ ok' = TRUE /\ content' = wanted
        /\ since' \in {since \cup {content'}, {content'}} /\ UNCHANGED wanted
     \/ ok' = FALSE /\ wanted' = content /\ UNCHANGED <<content, since>>
  /\ UNCHANGED on

\* Power is lost, perhaps at the very moment the call takes effect.
PowerLoss ==
  /\ on /\ on' = FALSE /\ since' = since \cup {wanted}
  /\ content' = <<>> /\ wanted' = <<>> /\ busy' = FALSE /\ ok' = TRUE

Resume ==
  /\ ~on /\ on' = TRUE
  /\ content' \in since /\ wanted' = content' /\ since' = {content'}
  /\ UNCHANGED <<busy, ok>>

Next == Begin \/ Commit \/ Return \/ PowerLoss \/ Resume

Spec == Init /\ [][Next]_vars
=============================================================================
