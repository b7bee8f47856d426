----------------------------- MODULE EventStream -----------------------------
(***************************************************************************)
(* What the gateway client promises to the tasks it hands events to: the   *)
(* events of one session after the other, each session's in the order and  *)
(* number the gateway gave them, each once, and nothing more of a session  *)
(* once a newer one began.  Connections do not exist here.                 *)
(***************************************************************************)
EXTENDS Naturals, Sequences

CONSTANT Sessions   \* sessions are numbered as they begin

VARIABLES
    newest,     \* the newest session, 0 before the first
    published,  \* how many events it has
    delivered   \* per session, the events delivered, in order

vars == <<newest, published, delivered>>

Init == /\ newest = 0 /\ published = 0
        /\ delivered = [s \in Sessions |-> <<>>]

(* A session begins, and its first event is delivered with it. *)
Begin == /\ newest + 1 \in Sessions
         /\ newest' = newest + 1
         /\ published' = 1
         /\ delivered' = [delivered EXCEPT ![newest + 1] = <<1>>]

Publish == /\ newest \in Sessions
           /\ published' = published + 1
           /\ UNCHANGED <<newest, delivered>>

Deliver == /\ newest \in Sessions
           /\ Len(delivered[newest]) < published
           /\ delivered' = [delivered EXCEPT
                 ![newest] = Append(@, Len(delivered[newest]) + 1)]
           /\ UNCHANGED <<newest, published>>

Next == Begin \/ Publish \/ Deliver

Spec == Init /\ [][Next]_vars
=============================================================================
