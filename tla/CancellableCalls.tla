-------------------------- MODULE CancellableCalls --------------------------
(***************************************************************************)
(* What a client of the stdio frontend is promised, with neither threads,  *)
(* nor ids, nor flags: a bounded number of calls runs at once, each is     *)
(* answered once or falls silent for good, and falling silent is one       *)
(* indivisible step.  It takes a cancellation of that very call, or a      *)
(* transport that cannot be written, and the result tells of the latter.   *)
(***************************************************************************)
EXTENDS Naturals, FiniteSets

CONSTANTS
    Calls,
    Limit       \* calls that run at once

VARIABLES
    pending,    \* calls that run
    finished,   \* calls that have ended
    asked,      \* calls the client asked to cancel
    answered,   \* calls that were answered
    silent,     \* calls that have not been and will never be answered
    failed,     \* the transport failed
    result      \* what the frontend returned, "none" while it serves

vars == <<pending, finished, asked, answered, silent, failed, result>>

Init == /\ pending = {} /\ finished = {} /\ asked = {}
        /\ answered = {} /\ silent = {}
        /\ failed = FALSE /\ result = "none"

Undecided == pending \ (answered \cup silent)

Admit(c) == /\ result = "none"
            /\ c \notin pending \cup finished
            /\ Cardinality(pending) < Limit
            /\ pending' = pending \cup {c}
            /\ UNCHANGED <<finished, asked, answered, silent, failed, result>>

Ask(c) == /\ c \in pending \ answered
          /\ asked' = asked \cup {c}
          /\ UNCHANGED <<pending, finished, answered, silent, failed, result>>

(* The cancellation takes effect. *)
Silence(c) == /\ c \in Undecided \cap asked
              /\ silent' = silent \cup {c}
              /\ UNCHANGED <<pending, finished, asked, answered, failed, result>>

(* The response cannot be written. *)
Drop(c) == /\ c \in Undecided
           /\ silent' = silent \cup {c}
           /\ failed' = TRUE
           /\ UNCHANGED <<pending, finished, asked, answered, result>>

Answer(c) == /\ c \in Undecided
             /\ answered' = answered \cup {c}
             /\ UNCHANGED <<pending, finished, asked, silent, failed, result>>

End(c) == /\ c \in pending \cap (answered \cup silent)
          /\ pending' = pending \ {c}
          /\ finished' = finished \cup {c}
          /\ UNCHANGED <<asked, answered, silent, failed, result>>

(* A failure that costs no call its answer. *)
Break == /\ result = "none"
         /\ failed' = TRUE
         /\ UNCHANGED <<pending, finished, asked, answered, silent, result>>

Return == /\ result = "none" /\ pending = {}
          /\ result' = IF failed THEN "error" ELSE "ok"
          /\ UNCHANGED <<pending, finished, asked, answered, silent, failed>>

Next == \/ \E c \in Calls : \/ Admit(c) \/ Ask(c) \/ Silence(c) \/ Drop(c)
                            \/ Answer(c) \/ End(c)
        \/ Break
        \/ Return

Spec == Init /\ [][Next]_vars

(* One fate for each call: it is not answered and silent, it does not end  *)
(* undecided, and if all went well it is only silent because it was asked  *)
(* to be.                                                                  *)
OneFate ==
    /\ answered \cap silent = {}
    /\ finished \subseteq answered \cup silent
    /\ result = "ok" => pending = {} /\ silent \subseteq asked
=============================================================================
