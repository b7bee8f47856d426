----------------------------- MODULE AtMostOnce -----------------------------
(***************************************************************************)
(* What the effect protocols of the repository promise: an effect that     *)
(* cannot be taken back is recorded as begun before it may happen, happens *)
(* at most once, and is recorded as done only when it did.  A job that was *)
(* begun and is not confirmed may or may not have had its effect, and      *)
(* nobody tries it again.                                                  *)
(***************************************************************************)
EXTENDS Naturals

CONSTANT Jobs

VARIABLES
    begun,      \* jobs recorded as begun
    effects,    \* how often each job had its effect
    confirmed   \* jobs recorded as done

vars == <<begun, effects, confirmed>>

Init == /\ begun = {} /\ confirmed = {}
        /\ effects = [j \in Jobs |-> 0]

Begin(j) == /\ j \notin begun
            /\ begun' = begun \cup {j}
            /\ UNCHANGED <<effects, confirmed>>

Effect(j) == /\ j \in begun /\ effects[j] = 0
             /\ effects' = [effects EXCEPT ![j] = 1]
             /\ UNCHANGED <<begun, confirmed>>

Confirm(j) == /\ j \in begun /\ effects[j] = 1
              /\ confirmed' = confirmed \cup {j}
              /\ UNCHANGED <<begun, effects>>

Next == \E j \in Jobs : Begin(j) \/ Effect(j) \/ Confirm(j)

Spec == Init /\ [][Next]_vars
=============================================================================
