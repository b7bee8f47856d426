----------------------------- MODULE MailProofs -----------------------------
(***************************************************************************)
(* Proofs about Mail, for any replicas, drafts and mails and any number of *)
(* resolutions: that it implements AtMostOnce, that the outbox is true,    *)
(* and that the POP server deletes only what is archived.                  *)
(***************************************************************************)
EXTENDS Mail, FiniteSetTheorems, TLAPS

(* The replica with the authority knows of every attempt. *)
AttemptsInv == \A r \in Replicas : attempts[r] \subseteq attempts[authority]

(* A draft has one attempt, and none if it cannot have gone out. *)
OneAttempt ==
    /\ \A a, b \in attempts[authority] : a.draft = b.draft => a = b
    /\ \A d \in Drafts : effects[d] <= 1
    /\ \A d \in Drafts : effects[d] = 1 =>
          \E a \in attempts[authority] : a.draft = d

(* What is called accepted was tried and is out. *)
AcceptedInv ==
    \A r \in Replicas : \A a \in acceptances[r] :
        a \in attempts[authority] /\ effects[a.draft] = 1

(* What `mail send` knows of the draft in its hand. *)
SendingInv ==
    /\ pc = "prepared" => AttemptsOf(authority, sending) = {}
    /\ pc = "submitting" => Attempt \in attempts[authority] /\ effects[sending] = 0
    /\ pc = "accepted" => Attempt \in attempts[authority] /\ effects[sending] = 1

(* What `mail fetch` knows of the message in its hand and of those marked. *)
FetchInv ==
    /\ fetchPc \in {"mail", "delete"} /\ current \in Attached
          => current \in files[fetchAt]
    /\ fetchPc = "delete" => current \in observed[fetchAt]
    /\ \A m \in marked : /\ m \in observed[fetchAt]
                         /\ m \in Attached => m \in files[fetchAt]

(* The inductive invariant.  That no draft goes out twice rests on the     *)
(* authority knowing every attempt, which a hand-over must preserve, and   *)
(* on the attempt being there before the message can be.                   *)
SentInv == AttemptsInv /\ OneAttempt /\ AcceptedInv /\ SendingInv

FetchedInv ==
    FetchInv /\ RemovedIsArchived /\ (fetchPc = "idle" => marked = {})

IInv == TypeOK /\ SentInv /\ FetchedInv

sent == <<attempts, acceptances, sender, effects>>
fetched == <<observed, files, fetcher, removed>>

-----------------------------------------------------------------------------
(* Facts are added to one replica. *)
LEMMA AddTo ==
  ASSUME NEW S, NEW facts \in [Replicas -> SUBSET S],
         NEW r \in Replicas, NEW new \in SUBSET S
  PROVE  /\ Add(facts, r, new) \in [Replicas -> SUBSET S]
         /\ Add(facts, r, new)[r] = facts[r] \cup new
         /\ \A q \in Replicas \ {r} : Add(facts, r, new)[q] = facts[q]
         /\ \A q \in Replicas : facts[q] \subseteq Add(facts, r, new)[q]
BY DEF Add

LEMMA Initially == Init => IInv
<1> SUFFICES ASSUME Init PROVE IInv
  OBVIOUS
<1>1. TypeOK
  BY MailAssumption DEF Init, TypeOK
<1>2. AttemptsInv /\ OneAttempt /\ AcceptedInv
  BY DEF Init, AttemptsInv, OneAttempt, AcceptedInv
<1>3. SendingInv /\ FetchedInv
  BY DEF Init, SendingInv, FetchedInv, FetchInv, RemovedIsArchived
<1> QED
  BY <1>1, <1>2, <1>3 DEF IInv, SentInv

(* Every step, one action at a time. *)
LEMMA StepCases ==
  ASSUME [Next]_vars
  PROVE  \/ \E d \in Drafts : Prepare(d)
         \/ StopSend \/ PublishAttempt \/ Submit \/ PublishAcceptance
         \/ \E r \in Replicas : HandOver(r)
         \/ \E m \in Mails : Arrive(m) \/ Retrieve(m)
         \/ \E r \in Replicas : Connect(r)
         \/ StopFetch \/ PublishFiles \/ PublishMail \/ MarkDelete \/ Quit
         \/ \E r \in Replicas, d \in Drafts :
               Draft(r, d) \/ Resolve(r, d) \/ Reconcile(r, d)
         \/ \E r \in Replicas : \E q \in Replicas \ {r} :
               SyncDecide(r, q) \/ SyncMail(r, q) \/ SyncFiles(r, q)
         \/ UNCHANGED vars
BY DEF Next, Send, Fetch, Decide, Sync

(* Only `mail send`, a hand-over and a replication concern what was sent.  *)
LEMMA SentCases ==
  ASSUME [Next]_vars
  PROVE  \/ \E d \in Drafts : Prepare(d)
         \/ StopSend \/ PublishAttempt \/ Submit \/ PublishAcceptance
         \/ \E r \in Replicas : HandOver(r)
         \/ \E r \in Replicas : \E q \in Replicas \ {r} : SyncMail(r, q)
         \/ UNCHANGED sent
<1>1. ASSUME NEW m \in Mails, Arrive(m) \/ Retrieve(m) PROVE UNCHANGED sent
  BY <1>1 DEF Arrive, Retrieve, sent, mail
<1>2. ASSUME NEW r \in Replicas, Connect(r) PROVE UNCHANGED sent
  BY <1>2 DEF Connect, sent, mail
<1>3. CASE StopFetch \/ PublishFiles \/ PublishMail \/ MarkDelete \/ Quit
  BY <1>3 DEF StopFetch, PublishFiles, PublishMail, MarkDelete, Quit, sent, mail
<1>4. ASSUME NEW r \in Replicas, NEW d \in Drafts,
             Draft(r, d) \/ Resolve(r, d) \/ Reconcile(r, d)
      PROVE  UNCHANGED sent
  BY <1>4 DEF Draft, Resolve, Reconcile, Snapshot, sent, mail
<1>5. ASSUME NEW r \in Replicas, NEW q \in Replicas,
             SyncDecide(r, q) \/ SyncFiles(r, q)
      PROVE  UNCHANGED sent
  BY <1>5 DEF SyncDecide, SyncFiles, sent, mail
<1>6. CASE UNCHANGED vars
  BY <1>6 DEF vars, sent, mail
<1> QED
  BY <1>1, <1>2, <1>3, <1>4, <1>5, <1>6, StepCases

(* Only `mail fetch` and a replication concern what was fetched.           *)
LEMMA FetchedCases ==
  ASSUME [Next]_vars
  PROVE  \/ \E m \in Mails : Retrieve(m)
         \/ \E r \in Replicas : Connect(r)
         \/ StopFetch \/ PublishFiles \/ PublishMail \/ MarkDelete \/ Quit
         \/ \E r \in Replicas : \E q \in Replicas \ {r} :
               SyncMail(r, q) \/ SyncFiles(r, q)
         \/ UNCHANGED fetched
<1>1. ASSUME NEW m \in Mails, Arrive(m) PROVE UNCHANGED fetched
  BY <1>1 DEF Arrive, fetched, mail
<1>2. ASSUME NEW d \in Drafts, Prepare(d) PROVE UNCHANGED fetched
  BY <1>2 DEF Prepare, fetched, mail, server
<1>3. CASE StopSend \/ PublishAttempt \/ Submit \/ PublishAcceptance
  BY <1>3 DEF StopSend, PublishAttempt, Submit, PublishAcceptance, fetched, mail, server
<1>4. ASSUME NEW r \in Replicas, HandOver(r) PROVE UNCHANGED fetched
  BY <1>4 DEF HandOver, fetched, mail, server
<1>5. ASSUME NEW r \in Replicas, NEW d \in Drafts,
             Draft(r, d) \/ Resolve(r, d) \/ Reconcile(r, d)
      PROVE  UNCHANGED fetched
  BY <1>5 DEF Draft, Resolve, Reconcile, Snapshot, fetched, mail, server
<1>6. ASSUME NEW r \in Replicas, NEW q \in Replicas, SyncDecide(r, q)
      PROVE  UNCHANGED fetched
  BY <1>6 DEF SyncDecide, fetched, mail, server
<1>7. CASE UNCHANGED vars
  BY <1>7 DEF vars, fetched, mail, server
<1> QED
  BY <1>1, <1>2, <1>3, <1>4, <1>5, <1>6, <1>7, StepCases

-----------------------------------------------------------------------------
(* A resolution that is made has its type, whichever it follows. *)
LEMMA SnapshotTyped ==
  ASSUME TypeOK, NEW r \in Replicas, NEW d \in Drafts,
         NEW before \in SUBSET Nat, Snapshot(r, d, before)
  PROVE  TypeOK'
<1>1. PICK outcome \in Outcomes, forced \in BOOLEAN :
         resolutions' = Add(resolutions, r,
             {[id |-> made, draft |-> d, outcome |-> outcome,
               forced |-> forced, predecessors |-> before]})
  BY DEF Snapshot
<1>2. [id |-> made, draft |-> d, outcome |-> outcome, forced |-> forced,
       predecessors |-> before] \in Resolutions
  BY DEF Resolutions, TypeOK
<1>3. resolutions' \in [Replicas -> SUBSET Resolutions]
  BY <1>1, <1>2 DEF TypeOK, Add
<1>4. made' \in Nat
  BY DEF Snapshot, TypeOK
<1> QED
  BY <1>3, <1>4 DEF Snapshot, TypeOK, mail, sender, fetcher, server

LEMMA HeadsTyped ==
  ASSUME TypeOK, NEW r \in Replicas, NEW d \in Drafts
  PROVE  {s.id : s \in Heads(Track(r, d))} \in SUBSET Nat
<1>1. Heads(Track(r, d)) \subseteq Resolutions
  BY DEF TypeOK, Heads, Track
<1>2. \A s \in Resolutions : s.id \in Nat
  BY DEF Resolutions
<1> QED
  BY <1>1, <1>2

LEMMA AttemptTyped ==
  ASSUME TypeOK, pc # "idle"
  PROVE  Attempt \in Attempts /\ sending \in Drafts
BY DEF TypeOK, Attempt, Attempts

LEMMA TypeStep == TypeOK /\ [Next]_vars => TypeOK'
<1> SUFFICES ASSUME TypeOK, [Next]_vars PROVE TypeOK'
  OBVIOUS
<1> USE DEF mail, sender, fetcher, server
<1>1. ASSUME NEW d \in Drafts, Prepare(d) PROVE TypeOK'
  <2>1. heads' \in SUBSET Nat
    BY <1>1, HeadsTyped DEF Prepare, TypeOK
  <2> QED
    BY <1>1, <2>1 DEF Prepare, TypeOK, decide
<1>2. CASE StopSend
  BY <1>2 DEF StopSend, EndSend, TypeOK, decide
<1>3. CASE PublishAttempt
  <2>1. attempts' \in [Replicas -> SUBSET Attempts]
    <3>1. Attempt \in Attempts
      BY <1>3, AttemptTyped DEF PublishAttempt
    <3> QED
      BY <1>3, <3>1 DEF PublishAttempt, TypeOK, Add
  <2> QED
    BY <1>3, <2>1 DEF PublishAttempt, EndSend, TypeOK, decide
<1>4. CASE Submit
  <2>1. effects' \in [Drafts -> Nat]
    BY <1>4, AttemptTyped DEF Submit, TypeOK
  <2> QED
    BY <1>4, <2>1 DEF Submit, EndSend, TypeOK, decide
<1>5. CASE PublishAcceptance
  <2>1. acceptances' \in [Replicas -> SUBSET Attempts]
    <3>1. Attempt \in Attempts
      BY <1>5, AttemptTyped DEF PublishAcceptance
    <3> QED
      BY <1>5, <3>1 DEF PublishAcceptance, TypeOK, Add
  <2> QED
    BY <1>5, <2>1 DEF PublishAcceptance, EndSend, TypeOK, decide
<1>6. ASSUME NEW r \in Replicas, HandOver(r) PROVE TypeOK'
  BY <1>6 DEF HandOver, TypeOK, decide
<1>7. ASSUME NEW m \in Mails, Arrive(m) PROVE TypeOK'
  BY <1>7 DEF Arrive, TypeOK, decide
<1>8. ASSUME NEW m \in Mails, Retrieve(m) PROVE TypeOK'
  BY <1>8 DEF Retrieve, TypeOK, decide
<1>9. ASSUME NEW r \in Replicas, Connect(r) PROVE TypeOK'
  BY <1>9 DEF Connect, TypeOK, decide
<1>10. CASE StopFetch
  BY <1>10 DEF StopFetch, EndFetch, TypeOK, decide
<1>11. CASE PublishFiles
  <2>1. files' \in [Replicas -> SUBSET Mails]
    BY <1>11 DEF PublishFiles, TypeOK, Add
  <2> QED
    BY <1>11, <2>1 DEF PublishFiles, EndFetch, TypeOK, decide
<1>12. CASE PublishMail
  <2>1. observed' \in [Replicas -> SUBSET Mails]
    BY <1>12 DEF PublishMail, TypeOK, Add
  <2> QED
    BY <1>12, <2>1 DEF PublishMail, EndFetch, TypeOK, decide
<1>13. CASE MarkDelete
  BY <1>13 DEF MarkDelete, TypeOK, decide
<1>14. CASE Quit
  BY <1>14 DEF Quit, EndFetch, TypeOK, decide
<1>15. ASSUME NEW r \in Replicas, NEW d \in Drafts, Draft(r, d) PROVE TypeOK'
  <2>1. /\ decisions' \in [Replicas -> SUBSET Drafts]
        /\ drafts' \in [Replicas -> SUBSET Drafts]
    BY <1>15 DEF Draft, TypeOK, Add
  <2> QED
    BY <1>15, <2>1 DEF Draft, TypeOK
<1>16. ASSUME NEW r \in Replicas, NEW d \in Drafts, Resolve(r, d) PROVE TypeOK'
  BY <1>16, SnapshotTyped DEF Resolve
<1>17. ASSUME NEW r \in Replicas, NEW d \in Drafts, Reconcile(r, d) PROVE TypeOK'
  BY <1>17, SnapshotTyped, HeadsTyped DEF Reconcile
<1>18. ASSUME NEW r \in Replicas, NEW q \in Replicas, SyncDecide(r, q) PROVE TypeOK'
  <2>1. /\ decisions' \in [Replicas -> SUBSET Drafts]
        /\ resolutions' \in [Replicas -> SUBSET Resolutions]
    BY <1>18 DEF SyncDecide, TypeOK, Add
  <2> QED
    BY <1>18, <2>1 DEF SyncDecide, TypeOK
<1>19. ASSUME NEW r \in Replicas, NEW q \in Replicas, SyncMail(r, q) PROVE TypeOK'
  <2>1. /\ drafts' \in [Replicas -> SUBSET Drafts]
        /\ observed' \in [Replicas -> SUBSET Mails]
    BY <1>19 DEF SyncMail, TypeOK, Add
  <2>2. /\ attempts' \in [Replicas -> SUBSET Attempts]
        /\ acceptances' \in [Replicas -> SUBSET Attempts]
    BY <1>19 DEF SyncMail, TypeOK, Add
  <2> QED
    BY <1>19, <2>1, <2>2 DEF SyncMail, TypeOK, decide
<1>20. ASSUME NEW r \in Replicas, NEW q \in Replicas, SyncFiles(r, q) PROVE TypeOK'
  <2>1. files' \in [Replicas -> SUBSET Mails]
    BY <1>20 DEF SyncFiles, TypeOK, Add
  <2> QED
    BY <1>20, <2>1 DEF SyncFiles, TypeOK, decide
<1>21. CASE UNCHANGED vars
  BY <1>21 DEF vars, TypeOK, decide
<1> QED
  BY <1>1, <1>2, <1>3, <1>4, <1>5, <1>6, <1>7, <1>8, <1>9, <1>10, <1>11, <1>12,
     <1>13, <1>14, <1>15, <1>16, <1>17, <1>18, <1>19, <1>20, <1>21, StepCases

-----------------------------------------------------------------------------
(* Replication teaches the authority nothing about attempts, and calls      *)
(* nothing accepted that no replica did.                                    *)
LEMMA SyncKeeps ==
  ASSUME TypeOK, AttemptsInv,
         NEW r \in Replicas, NEW q \in Replicas, SyncMail(r, q)
  PROVE  /\ AttemptsInv' /\ attempts'[authority] = attempts[authority]
         /\ \A x \in Replicas : acceptances'[x] \subseteq acceptances[x] \cup acceptances[r]
<1>1. /\ attempts' = [attempts EXCEPT ![q] = attempts[q] \cup attempts[r]]
      /\ acceptances' = [acceptances EXCEPT ![q] = acceptances[q] \cup acceptances[r]]
      /\ authority' = authority
  BY DEF SyncMail, Add, sender
<1>2. \A x \in Replicas : attempts'[x] \subseteq attempts[x] \cup attempts[r]
  BY <1>1 DEF TypeOK
<1>3. attempts'[authority] = attempts[authority]
  BY <1>1 DEF TypeOK, AttemptsInv
<1>4. AttemptsInv'
  BY <1>1, <1>2, <1>3 DEF AttemptsInv
<1>5. \A x \in Replicas : acceptances'[x] \subseteq acceptances[x] \cup acceptances[r]
  BY <1>1 DEF TypeOK
<1> QED
  BY <1>3, <1>4, <1>5

(* An attempt that is recorded is the first of its draft, which is not out. *)
LEMMA FirstAttempt ==
  ASSUME TypeOK, SentInv, PublishAttempt, attempts' # attempts
  PROVE  /\ sending \in Drafts /\ Attempt \in Attempts /\ Attempt.draft = sending
         /\ AttemptsOf(authority, sending) = {} /\ effects[sending] = 0
         /\ attempts'[authority] = attempts[authority] \cup {Attempt}
         /\ \A r \in Replicas \ {authority} : attempts'[r] = attempts[r]
<1>1. pc = "prepared" /\ attempts' = Add(attempts, authority, {Attempt})
  BY DEF PublishAttempt
<1>2. sending \in Drafts /\ Attempt \in Attempts /\ Attempt.draft = sending
  BY <1>1, AttemptTyped DEF Attempt
<1>3. AttemptsOf(authority, sending) = {}
  BY <1>1 DEF SentInv, SendingInv
<1>4. effects[sending] \in {0, 1}
  BY <1>2 DEF SentInv, OneAttempt, TypeOK
<1>5. effects[sending] = 0
  BY <1>2, <1>3, <1>4 DEF SentInv, OneAttempt, AttemptsOf
<1> QED
  BY <1>1, <1>2, <1>3, <1>5 DEF Add, TypeOK

LEMMA SentStep == TypeOK /\ SentInv /\ [Next]_vars => SentInv'
<1> SUFFICES ASSUME TypeOK, SentInv, [Next]_vars PROVE SentInv'
  OBVIOUS
<1> USE DEF SentInv
<1>1. ASSUME NEW d \in Drafts, Prepare(d) PROVE SentInv'
  <2>1. AttemptsInv' /\ OneAttempt' /\ AcceptedInv'
    BY <1>1 DEF Prepare, mail, AttemptsInv, OneAttempt, AcceptedInv
  <2>2. SendingInv'
    BY <1>1 DEF Prepare, mail, SendingInv, AttemptsOf
  <2> QED
    BY <2>1, <2>2
<1>2. CASE StopSend
  BY <1>2 DEF StopSend, EndSend, mail, AttemptsInv, OneAttempt, AcceptedInv, SendingInv
<1>3. CASE PublishAttempt /\ attempts' = attempts
  <2>1. pc' = "idle" \/ (pc' = "submitting" /\ sending' = sending /\ heads' = heads)
    BY <1>3 DEF PublishAttempt, EndSend
  <2>2. AttemptsInv' /\ OneAttempt' /\ AcceptedInv'
    BY <1>3 DEF PublishAttempt, AttemptsInv, OneAttempt, AcceptedInv
  <2>3. CASE pc' = "idle"
    BY <2>2, <2>3 DEF SendingInv
  <2>4. CASE pc' = "submitting"
    <3>1. /\ attempts = Add(attempts, authority, {Attempt}) /\ pc = "prepared"
          /\ sending \in Drafts /\ Attempt.draft = sending
      BY <1>3, <2>4, AttemptTyped DEF PublishAttempt, EndSend, Attempt
    <3>2. Attempt \in attempts[authority]
      BY <3>1 DEF Add, TypeOK
    <3> QED
      BY <3>1, <3>2 DEF SendingInv, AttemptsOf
  <2> QED
    BY <2>1, <2>3, <2>4
<1>4. CASE PublishAttempt /\ attempts' # attempts
  <2>1. /\ sending \in Drafts /\ Attempt \in Attempts /\ Attempt.draft = sending
        /\ AttemptsOf(authority, sending) = {} /\ effects[sending] = 0
        /\ attempts'[authority] = attempts[authority] \cup {Attempt}
        /\ \A r \in Replicas \ {authority} : attempts'[r] = attempts[r]
    BY <1>4, FirstAttempt
  <2>2. authority' = authority /\ effects' = effects /\ acceptances' = acceptances
    BY <1>4 DEF PublishAttempt
  <2>3. AttemptsInv'
    BY <2>1, <2>2 DEF AttemptsInv
  <2>4. OneAttempt'
    BY <2>1, <2>2 DEF OneAttempt, AttemptsOf
  <2>5. AcceptedInv'
    BY <2>1, <2>2 DEF AcceptedInv
  <2>6. SendingInv'
    <3>1. pc' = "idle" \/ (pc' = "submitting" /\ sending' = sending /\ heads' = heads)
      BY <1>4 DEF PublishAttempt, EndSend
    <3> QED
      BY <2>1, <2>2, <3>1 DEF SendingInv, Attempt
  <2> QED
    BY <2>3, <2>4, <2>5, <2>6
<1>5. CASE Submit
  <2>1. /\ pc = "submitting" /\ sending \in Drafts /\ Attempt \in attempts[authority]
        /\ effects[sending] = 0 /\ Attempt.draft = sending
    BY <1>5, AttemptTyped DEF Submit, SendingInv, Attempt
  <2>2. attempts' = attempts /\ acceptances' = acceptances /\ authority' = authority
    BY <1>5 DEF Submit, mail
  <2>3. CASE effects' = [effects EXCEPT ![sending] = @ + 1]
    <3>1. effects'[sending] = 1 /\ \A d \in Drafts \ {sending} : effects'[d] = effects[d]
      BY <2>1, <2>3 DEF TypeOK
    <3>2. AttemptsInv' /\ OneAttempt'
      BY <2>1, <2>2, <3>1 DEF AttemptsInv, OneAttempt
    <3>3. AcceptedInv'
      <4> SUFFICES ASSUME NEW r \in Replicas, NEW a \in acceptances[r]
                   PROVE  a \in attempts[authority] /\ effects'[a.draft] = 1
        BY <2>2 DEF AcceptedInv
      <4>1. a \in attempts[authority] /\ effects[a.draft] = 1
        BY DEF AcceptedInv
      <4>2. a.draft \in Drafts
        BY <4>1 DEF TypeOK, Attempts
      <4> QED
        BY <2>1, <3>1, <4>1, <4>2
    <3>4. SendingInv'
      <4>1. pc' = "idle" \/ (pc' = "accepted" /\ sending' = sending /\ heads' = heads)
        BY <1>5, <2>1, <2>3 DEF Submit, EndSend
      <4> QED
        BY <2>1, <2>2, <3>1, <4>1 DEF SendingInv, Attempt
    <3> QED
      BY <3>2, <3>3, <3>4
  <2>4. CASE effects' = effects /\ pc' = "idle"
    BY <2>2, <2>4 DEF AttemptsInv, OneAttempt, AcceptedInv, SendingInv
  <2>5. CASE effects' = effects /\ pc' # "idle"
    <3>1. effects' = [effects EXCEPT ![sending] = @ + 1]
      BY <1>5, <2>5 DEF Submit, EndSend
    <3> QED
      BY <2>1, <2>5, <3>1 DEF TypeOK
  <2> QED
    BY <1>5, <2>3, <2>4, <2>5 DEF Submit, EndSend
<1>6. CASE PublishAcceptance
  <2>1. /\ pc = "accepted" /\ sending \in Drafts /\ Attempt \in attempts[authority]
        /\ effects[sending] = 1 /\ Attempt.draft = sending
    BY <1>6, AttemptTyped DEF PublishAcceptance, SendingInv, Attempt
  <2>2. /\ attempts' = attempts /\ authority' = authority /\ effects' = effects
        /\ pc' = "idle"
    BY <1>6 DEF PublishAcceptance, EndSend
  <2>3. \A r \in Replicas : acceptances'[r] \subseteq acceptances[r] \cup {Attempt}
    BY <1>6 DEF PublishAcceptance, Add, TypeOK
  <2> QED
    BY <2>1, <2>2, <2>3 DEF AttemptsInv, OneAttempt, AcceptedInv, SendingInv
<1>7. ASSUME NEW r \in Replicas, HandOver(r) PROVE SentInv'
  <2>1. /\ attempts' = attempts /\ acceptances' = acceptances
        /\ effects' = effects /\ pc' = "idle" /\ authority' = r
    BY <1>7 DEF HandOver, mail
  <2>2. attempts[r] = attempts[authority]
    BY <1>7 DEF HandOver, AttemptsInv
  <2> QED
    BY <2>1, <2>2 DEF AttemptsInv, OneAttempt, AcceptedInv, SendingInv
<1>8. ASSUME NEW r \in Replicas, NEW q \in Replicas, SyncMail(r, q) PROVE SentInv'
  <2>1. /\ AttemptsInv' /\ attempts'[authority] = attempts[authority]
        /\ \A x \in Replicas : acceptances'[x] \subseteq acceptances[x] \cup acceptances[r]
    BY <1>8, SyncKeeps
  <2>2. /\ authority' = authority /\ pc' = pc /\ sending' = sending /\ heads' = heads
        /\ effects' = effects
    BY <1>8 DEF SyncMail, sender
  <2>3. OneAttempt' /\ AcceptedInv'
    BY <2>1, <2>2 DEF OneAttempt, AcceptedInv
  <2>4. SendingInv'
    BY <2>1, <2>2 DEF SendingInv, AttemptsOf, Attempt
  <2> QED
    BY <2>1, <2>3, <2>4
<1>9. CASE UNCHANGED sent
  BY <1>9 DEF sent, sender, AttemptsInv, OneAttempt, AcceptedInv, SendingInv,
              AttemptsOf, Attempt
<1> QED
  BY <1>1, <1>2, <1>3, <1>4, <1>5, <1>6, <1>7, <1>8, <1>9, SentCases

-----------------------------------------------------------------------------
(* What is marked or in hand stays archived while facts are only added.    *)
LEMMA FetchKept ==
  ASSUME TypeOK, FetchInv,
         fetchPc' = fetchPc, fetchAt' = fetchAt, current' = current,
         marked' = marked, fetchPc # "idle" \/ marked = {},
         \A r \in Replicas : observed[r] \subseteq observed'[r],
         \A r \in Replicas : files[r] \subseteq files'[r]
  PROVE  FetchInv'
BY DEF FetchInv, TypeOK

LEMMA RemovedKept ==
  ASSUME RemovedIsArchived, removed' = removed,
         \A r \in Replicas : observed[r] \subseteq observed'[r],
         \A r \in Replicas : files[r] \subseteq files'[r]
  PROVE  RemovedIsArchived'
BY DEF RemovedIsArchived

LEMMA FetchedStep == TypeOK /\ FetchedInv /\ [Next]_vars => FetchedInv'
<1> SUFFICES ASSUME TypeOK, FetchedInv, [Next]_vars PROVE FetchedInv'
  OBVIOUS
<1> USE DEF FetchedInv
<1>1. ASSUME NEW m \in Mails, Retrieve(m) PROVE FetchedInv'
  BY <1>1 DEF Retrieve, mail, server, FetchInv, RemovedIsArchived
<1>2. ASSUME NEW r \in Replicas, Connect(r) PROVE FetchedInv'
  BY <1>2 DEF Connect, mail, server, FetchInv, RemovedIsArchived
<1>3. CASE StopFetch
  BY <1>3 DEF StopFetch, EndFetch, mail, server, FetchInv, RemovedIsArchived
<1>4. CASE PublishFiles
  <2>1. fetchPc = "files" /\ fetchAt \in Replicas /\ current \in Mails
    BY <1>4 DEF PublishFiles, TypeOK
  <2>2. /\ \A r \in Replicas : files[r] \subseteq files'[r]
        /\ current \in Attached => current \in files'[fetchAt]
    BY <1>4, <2>1 DEF PublishFiles, TypeOK, Add
  <2>3. observed' = observed /\ removed' = removed
    BY <1>4 DEF PublishFiles, mail, server
  <2>4. RemovedIsArchived'
    BY <2>2, <2>3, RemovedKept
  <2>5. CASE EndFetch
    BY <2>4, <2>5 DEF EndFetch, FetchInv
  <2>6. CASE fetchPc' = "mail" /\ UNCHANGED <<fetchAt, listed, current, marked>>
    BY <2>1, <2>2, <2>3, <2>4, <2>6 DEF FetchInv
  <2> QED
    BY <1>4, <2>5, <2>6 DEF PublishFiles
<1>5. CASE PublishMail
  <2>1. fetchPc = "mail" /\ fetchAt \in Replicas /\ current \in Mails
    BY <1>5 DEF PublishMail, TypeOK
  <2>2. /\ \A r \in Replicas : observed[r] \subseteq observed'[r]
        /\ current \in observed'[fetchAt]
    BY <1>5, <2>1 DEF PublishMail, TypeOK, Add
  <2>3. files' = files /\ removed' = removed
    BY <1>5 DEF PublishMail, server
  <2>4. RemovedIsArchived'
    BY <2>2, <2>3, RemovedKept
  <2>5. CASE EndFetch
    BY <2>4, <2>5 DEF EndFetch, FetchInv
  <2>6. CASE fetchPc' = "delete" /\ UNCHANGED <<fetchAt, listed, current, marked>>
    BY <2>1, <2>2, <2>3, <2>4, <2>6 DEF FetchInv
  <2> QED
    BY <1>5, <2>5, <2>6 DEF PublishMail
<1>6. CASE MarkDelete
  BY <1>6 DEF MarkDelete, mail, server, FetchInv, RemovedIsArchived
<1>7. CASE Quit
  <2>1. fetchAt \in Replicas
    BY <1>7 DEF Quit, TypeOK
  <2>2. RemovedIsArchived'
    BY <1>7, <2>1 DEF Quit, mail, FetchInv, RemovedIsArchived
  <2> QED
    BY <1>7, <2>2 DEF Quit, EndFetch, FetchInv
<1>8. ASSUME NEW r \in Replicas, NEW q \in Replicas,
             SyncMail(r, q) \/ SyncFiles(r, q)
      PROVE  FetchedInv'
  <2>1. /\ \A x \in Replicas : observed[x] \subseteq observed'[x]
        /\ \A x \in Replicas : files[x] \subseteq files'[x]
    BY <1>8 DEF SyncMail, SyncFiles, mail, Add, TypeOK
  <2>2. /\ fetchPc' = fetchPc /\ fetchAt' = fetchAt /\ current' = current
        /\ marked' = marked /\ removed' = removed
    BY <1>8 DEF SyncMail, SyncFiles, fetcher, server
  <2> QED
    BY <2>1, <2>2, FetchKept, RemovedKept
<1>9. CASE UNCHANGED fetched
  BY <1>9 DEF fetched, fetcher, FetchInv, RemovedIsArchived
<1> QED
  BY <1>1, <1>2, <1>3, <1>4, <1>5, <1>6, <1>7, <1>8, <1>9, FetchedCases

-----------------------------------------------------------------------------
LEMMA Inductive == Spec => []IInv
<1>1. IInv /\ [Next]_vars => IInv'
  BY TypeStep, SentStep, FetchedStep DEF IInv
<1> QED
  BY Initially, <1>1, PTL DEF Spec

(* Every variable keeps its type. *)
THEOREM TypeCorrect == Spec => []TypeOK
<1>1. IInv => TypeOK
  BY DEF IInv
<1> QED
  BY Inductive, <1>1, PTL

(* No message leaves the POP server before it is archived.                 *)
THEOREM NothingIsLost == Spec => []RemovedIsArchived
<1>1. IInv => RemovedIsArchived
  BY DEF IInv, FetchedInv
<1> QED
  BY Inductive, <1>1, PTL

(* What a replica knows of a draft is one attempt or none. *)
LEMMA TriedOnce ==
  ASSUME IInv, NEW r \in Replicas, NEW d \in Drafts
  PROVE  /\ AttemptsOf(r, d) \subseteq AttemptsOf(authority, d)
         /\ \/ AttemptsOf(r, d) = {} /\ Cardinality(AttemptsOf(r, d)) = 0
            \/ /\ \E a \in attempts[r] : AttemptsOf(r, d) = {a}
               /\ Cardinality(AttemptsOf(r, d)) = 1
<1>1. AttemptsOf(r, d) \subseteq AttemptsOf(authority, d)
  BY DEF IInv, SentInv, AttemptsInv, AttemptsOf
<1>2. CASE AttemptsOf(r, d) = {}
  BY <1>1, <1>2, FS_EmptySet
<1>3. CASE AttemptsOf(r, d) # {}
  <2>1. PICK a \in attempts[r] : a.draft = d
    BY <1>3 DEF AttemptsOf
  <2>2. AttemptsOf(r, d) = {a}
    BY <2>1 DEF IInv, SentInv, AttemptsInv, OneAttempt, AttemptsOf
  <2> QED
    BY <1>1, <2>1, <2>2, FS_Singleton
<1> QED
  BY <1>2, <1>3

(* `mail outbox` is true on every replica: nothing is called accepted that  *)
(* is not out, nothing has two attempts, and nothing is pending where it    *)
(* could be sent that may be out.                                           *)
THEOREM OutboxIsTruthful == Spec => []OutboxIsTrue
<1>1. ASSUME IInv PROVE OutboxIsTrue
  <2>1. ASSUME NEW r \in Replicas, NEW d \in drafts[r]
        PROVE  /\ Delivery(r, d) # "MultipleAttempts"
               /\ Delivery(r, d) = "Accepted" => effects[d] = 1
    <3>1. d \in Drafts
      BY <1>1, <2>1 DEF IInv, TypeOK
    <3>2. CASE AttemptsOf(r, d) = {}
      <4>1. Cardinality(AttemptsOf(r, d)) = 0
        BY <3>2, FS_EmptySet
      <4> QED
        BY <3>2, <4>1 DEF Delivery
    <3>3. CASE \E a \in attempts[r] : AttemptsOf(r, d) = {a}
      <4>1. Cardinality(AttemptsOf(r, d)) = 1 /\ AttemptsOf(r, d) # {}
        BY <1>1, <3>1, <3>3, TriedOnce
      <4>2. Delivery(r, d) = IF AttemptsOf(r, d) \cap acceptances[r] = {}
                             THEN "Uncertain" ELSE "Accepted"
        BY <4>1 DEF Delivery
      <4>3. \A a \in AttemptsOf(r, d) \cap acceptances[r] : effects[d] = 1
        BY <1>1 DEF IInv, SentInv, AcceptedInv, AttemptsOf
      <4> QED
        BY <4>2, <4>3
    <3> QED
      BY <1>1, <3>1, <3>2, <3>3, TriedOnce
  <2>2. ASSUME NEW d \in Drafts, Delivery(authority, d) = "Pending"
        PROVE  effects[d] = 0
    <3>1. authority \in Replicas /\ effects[d] \in Nat /\ effects[d] <= 1
      BY <1>1 DEF IInv, TypeOK, SentInv, OneAttempt
    <3>2. AttemptsOf(authority, d) = {}
      <4>1. SUFFICES ASSUME AttemptsOf(authority, d) # {} PROVE FALSE
        OBVIOUS
      <4>2. Cardinality(AttemptsOf(authority, d)) = 1
        BY <1>1, <3>1, <4>1, TriedOnce
      <4> QED
        BY <2>2, <4>1, <4>2 DEF Delivery
    <3>3. effects[d] # 1
      BY <1>1, <3>2 DEF IInv, SentInv, OneAttempt, AttemptsOf
    <3> QED
      BY <3>1, <3>3
  <2> QED
    BY <2>1, <2>2 DEF OutboxIsTrue
<1> QED
  BY Inductive, <1>1, PTL

-----------------------------------------------------------------------------
(* The refinement: begun is what any replica has an attempt of. *)

LEMMA BegunAtAuthority ==
  ASSUME IInv
  PROVE  \A d \in Drafts : d \in Begun <=> AttemptsOf(authority, d) # {}
BY DEF IInv, TypeOK, SentInv, AttemptsInv, Begun, AttemptsOf

(* Any step but those of `mail send` stutters: a replication adds only what *)
(* some replica has.                                                        *)
LEMMA SyncStutters ==
  ASSUME TypeOK, NEW r \in Replicas, NEW q \in Replicas, SyncMail(r, q)
  PROVE  Begun' = Begun /\ Confirmed' = Confirmed /\ effects' = effects
<1>1. /\ \A x \in Replicas : attempts[x] \subseteq attempts'[x]
      /\ \A x \in Replicas : acceptances[x] \subseteq acceptances'[x]
      /\ \A x \in Replicas : attempts'[x] \subseteq attempts[x] \cup attempts[r]
      /\ \A x \in Replicas :
            acceptances'[x] \subseteq acceptances[x] \cup acceptances[r]
  BY DEF SyncMail, Add, TypeOK
<1>2. Begun' = Begun
  BY <1>1 DEF Begun, AttemptsOf
<1>3. Confirmed' = Confirmed
  BY <1>1 DEF Confirmed
<1> QED
  BY <1>2, <1>3 DEF SyncMail

(* `mail send` implements an effect that happens at most once: an attempt   *)
(* begins it, an accepted submission is it, an acceptance confirms it, and  *)
(* no other step of any replica shows (submit_once).                        *)
THEOREM SendsAtMostOnce == Spec => SentAtMostOnce
<1>1. Init => Once!Init
  BY DEF Init, Once!Init, Begun, Confirmed, AttemptsOf
<1>2. IInv /\ [Next]_vars => [Once!Next]_(Once!vars)
  <2> SUFFICES ASSUME IInv, [Next]_vars
               PROVE  Once!Next \/ (Begun' = Begun /\ Confirmed' = Confirmed
                                    /\ effects' = effects)
    BY DEF Once!vars
  <2>1. CASE PublishAttempt /\ attempts' # attempts
    <3>1. /\ sending \in Drafts /\ Attempt.draft = sending
          /\ AttemptsOf(authority, sending) = {}
          /\ attempts'[authority] = attempts[authority] \cup {Attempt}
          /\ \A r \in Replicas \ {authority} : attempts'[r] = attempts[r]
      BY <2>1, FirstAttempt DEF IInv
    <3>2. sending \notin Begun
      BY <3>1, BegunAtAuthority
    <3>3. authority \in Replicas
      BY DEF IInv, TypeOK
    <3>4. Begun' = Begun \cup {sending}
      BY <3>1, <3>3 DEF Begun, AttemptsOf
    <3>5. Confirmed' = Confirmed /\ effects' = effects
      BY <2>1 DEF PublishAttempt, Confirmed
    <3> QED
      BY <3>1, <3>2, <3>4, <3>5 DEF Once!Next, Once!Begin
  <2>2. CASE Submit
    <3>1. /\ sending \in Drafts /\ Attempt \in attempts[authority]
          /\ effects[sending] = 0 /\ Attempt.draft = sending
      BY <2>2, AttemptTyped DEF Submit, IInv, SentInv, SendingInv, Attempt
    <3>2. sending \in Begun
      BY <3>1, BegunAtAuthority DEF AttemptsOf
    <3>3. Begun' = Begun /\ Confirmed' = Confirmed
      BY <2>2 DEF Submit, mail, Begun, Confirmed, AttemptsOf
    <3>4. effects' = effects \/ effects' = [effects EXCEPT ![sending] = 1]
      BY <2>2, <3>1 DEF Submit
    <3> QED
      BY <3>1, <3>2, <3>3, <3>4 DEF Once!Next, Once!Effect
  <2>3. CASE PublishAcceptance
    <3>1. /\ sending \in Drafts /\ Attempt \in attempts[authority]
          /\ effects[sending] = 1 /\ Attempt.draft = sending
      BY <2>3, AttemptTyped DEF PublishAcceptance, IInv, SentInv, SendingInv, Attempt
    <3>2. sending \in Begun
      BY <3>1, BegunAtAuthority DEF AttemptsOf
    <3>3. Begun' = Begun /\ effects' = effects
      BY <2>3 DEF PublishAcceptance, Begun, AttemptsOf
    <3>4. Confirmed' = Confirmed \/ Confirmed' = Confirmed \cup {sending}
      <4>1. CASE acceptances' = acceptances
        BY <4>1 DEF Confirmed
      <4>2. CASE acceptances' = Add(acceptances, authority, {Attempt})
        <5>1. /\ authority \in Replicas
              /\ acceptances'[authority] = acceptances[authority] \cup {Attempt}
              /\ \A r \in Replicas \ {authority} : acceptances'[r] = acceptances[r]
          BY <4>2 DEF Add, IInv, TypeOK
        <5> QED
          BY <3>1, <5>1 DEF Confirmed
      <4> QED
        BY <2>3, <4>1, <4>2 DEF PublishAcceptance
    <3> QED
      BY <3>1, <3>2, <3>3, <3>4 DEF Once!Next, Once!Confirm
  <2>4. ASSUME NEW r \in Replicas, NEW q \in Replicas, SyncMail(r, q)
        PROVE  Begun' = Begun /\ Confirmed' = Confirmed /\ effects' = effects
    BY <2>4, SyncStutters DEF IInv
  <2>5. CASE UNCHANGED <<attempts, acceptances, effects>>
    BY <2>5 DEF Begun, Confirmed, AttemptsOf
  <2>6. ASSUME NEW d \in Drafts, Prepare(d)
        PROVE  UNCHANGED <<attempts, acceptances, effects>>
    BY <2>6 DEF Prepare, mail
  <2>7. CASE StopSend \/ UNCHANGED sent
    BY <2>5, <2>7 DEF StopSend, mail, sent
  <2>8. ASSUME NEW r \in Replicas, HandOver(r)
        PROVE  UNCHANGED <<attempts, acceptances, effects>>
    BY <2>8 DEF HandOver, mail
  <2>9. CASE PublishAttempt /\ attempts' = attempts
    BY <2>5, <2>9 DEF PublishAttempt
  <2> QED
    BY <2>1, <2>2, <2>3, <2>4, <2>5, <2>6, <2>7, <2>8, <2>9, SentCases
<1> QED
  BY Inductive, <1>1, <1>2, PTL DEF Spec, SentAtMostOnce, Once!Spec

-----------------------------------------------------------------------------
(* What is tried was decided.  Resolutions of all replicas are one history, *)
(* in which a name stands for one resolution; a new one is in no attempt.   *)

AllResolutions == UNION {resolutions[r] : r \in Replicas}

NamesInv ==
    /\ \A s, t \in AllResolutions : s.id = t.id => s = t
    /\ \A s \in AllResolutions : s.id < made

DecidedInv ==
    /\ NamesInv /\ TriedAsDecided
    /\ pc # "idle" => SendIsDecided(sending, heads)

(* What a decision was found to be stays, whatever is resolved later.       *)
LEMMA DecidedForGood ==
  ASSUME TypeOK, NamesInv, NEW d, NEW ids, SendIsDecided(d, ids),
         AllResolutions \subseteq AllResolutions',
         \A s \in AllResolutions' \ AllResolutions : s.id = made
  PROVE  SendIsDecided(d, ids)'
<1>1. ids = {s.id : s \in Cited(ids)} /\ Cited(ids) \subseteq AllResolutions
  BY DEF SendIsDecided, Cited, AllResolutions
<1>2. made \notin ids
  <2>1. made \in Nat /\ \A s \in AllResolutions : s.id \in Nat
    BY DEF TypeOK, AllResolutions, Resolutions
  <2> QED
    BY <1>1, <2>1 DEF NamesInv
<1>3. Cited(ids)' = Cited(ids)
  BY <1>2 DEF Cited, AllResolutions
<1> QED
  BY <1>3 DEF SendIsDecided, Heads, Agree

(* A step adds at most one resolution, with a new name. *)
LEMMA ResolutionsStep ==
  ASSUME TypeOK, NamesInv, [Next]_vars
  PROVE  /\ NamesInv'
         /\ AllResolutions \subseteq AllResolutions'
         /\ \A s \in AllResolutions' \ AllResolutions : s.id = made
<1> DEFINE Goal == /\ NamesInv'
                   /\ AllResolutions \subseteq AllResolutions'
                   /\ \A s \in AllResolutions' \ AllResolutions : s.id = made
<1> SUFFICES Goal
  OBVIOUS
<1>1. made \in Nat /\ \A s \in AllResolutions : s.id \in Nat
  BY DEF TypeOK, AllResolutions, Resolutions
<1>2. ASSUME UNCHANGED made, AllResolutions' = AllResolutions PROVE Goal
  BY <1>2 DEF NamesInv
<1>3. ASSUME UNCHANGED <<made, resolutions>> PROVE Goal
  BY <1>2, <1>3 DEF AllResolutions
<1>4. ASSUME NEW r \in Replicas, NEW q \in Replicas, SyncDecide(r, q) PROVE Goal
  <2>1. /\ resolutions' = Add(resolutions, q, resolutions[r])
        /\ resolutions \in [Replicas -> SUBSET Resolutions]
        /\ UNCHANGED made
    BY <1>4 DEF SyncDecide, TypeOK
  <2>2. \A p \in Replicas : /\ resolutions[p] \subseteq resolutions'[p]
                            /\ resolutions'[p] \subseteq resolutions[p] \cup resolutions[r]
    BY <2>1 DEF Add
  <2>3. AllResolutions' = AllResolutions
    BY <2>2 DEF AllResolutions
  <2> QED
    BY <1>2, <2>1, <2>3
<1>5. ASSUME NEW r \in Replicas, NEW d \in Drafts, NEW preds, Snapshot(r, d, preds)
      PROVE  Goal
  <2>1. PICK outcome \in Outcomes, forced \in BOOLEAN :
          resolutions' = Add(resolutions, r,
              {[id |-> made, draft |-> d, outcome |-> outcome,
                forced |-> forced, predecessors |-> preds]})
    BY <1>5 DEF Snapshot
  <2>2. PICK new : new = [id |-> made, draft |-> d, outcome |-> outcome,
                          forced |-> forced, predecessors |-> preds]
    OBVIOUS
  <2>3. /\ new.id = made /\ resolutions' = Add(resolutions, r, {new})
        /\ resolutions \in [Replicas -> SUBSET Resolutions]
        /\ made' = made + 1
    BY <1>5, <2>1, <2>2 DEF Snapshot, TypeOK
  <2>4. /\ resolutions'[r] = resolutions[r] \cup {new}
        /\ \A p \in Replicas \ {r} : resolutions'[p] = resolutions[p]
    BY <2>3 DEF Add
  <2>5. AllResolutions' = AllResolutions \cup {new}
    BY <2>4 DEF AllResolutions
  <2>6. NamesInv'
    BY <1>1, <2>3, <2>5 DEF NamesInv
  <2> QED
    BY <2>3, <2>5, <2>6
<1>6. ASSUME NEW r \in Replicas, NEW d \in Drafts,
             Draft(r, d) \/ Resolve(r, d) \/ Reconcile(r, d)
      PROVE  Goal
  <2>1. Draft(r, d) => UNCHANGED <<made, resolutions>>
    BY DEF Draft
  <2>2. Resolve(r, d) => Snapshot(r, d, {})
    BY DEF Resolve
  <2>3. Reconcile(r, d) => Snapshot(r, d, {s.id : s \in Heads(Track(r, d))})
    BY DEF Reconcile
  <2> QED
    BY <1>3, <1>5, <1>6, <2>1, <2>2, <2>3
<1>7. ASSUME NEW d \in Drafts, Prepare(d) PROVE Goal
  BY <1>3, <1>7 DEF Prepare, decide
<1>8. ASSUME StopSend \/ PublishAttempt \/ Submit \/ PublishAcceptance PROVE Goal
  BY <1>3, <1>8 DEF StopSend, PublishAttempt, Submit, PublishAcceptance, decide
<1>9. ASSUME NEW r \in Replicas, HandOver(r) \/ Connect(r) PROVE Goal
  BY <1>3, <1>9 DEF HandOver, Connect, decide
<1>10. ASSUME NEW m \in Mails, Arrive(m) \/ Retrieve(m) PROVE Goal
  BY <1>3, <1>10 DEF Arrive, Retrieve, decide
<1>11. ASSUME StopFetch \/ PublishFiles \/ PublishMail \/ MarkDelete \/ Quit
       PROVE  Goal
  BY <1>3, <1>11 DEF StopFetch, PublishFiles, PublishMail, MarkDelete, Quit, decide
<1>12. ASSUME NEW r \in Replicas, NEW q \in Replicas,
              SyncMail(r, q) \/ SyncFiles(r, q)
       PROVE  Goal
  BY <1>3, <1>12 DEF SyncMail, SyncFiles, decide
<1>13. ASSUME UNCHANGED vars PROVE Goal
  BY <1>3, <1>13 DEF vars, decide
<1> HIDE DEF Goal
<1> QED
  BY <1>4, <1>6, <1>7, <1>8, <1>9, <1>10, <1>11, <1>12, <1>13, StepCases

(* What Prepare finds authorized is decided: its view is part of the one    *)
(* history, so the names of its heads are those of no other resolution.     *)
LEMMA PreparesDecided ==
  ASSUME TypeOK, NamesInv, NEW d \in Drafts, Prepare(d)
  PROVE  SendIsDecided(d, {s.id : s \in Heads(Track(authority, d))})
<1>1. PICK top : top = Heads(Track(authority, d))
  OBVIOUS
<1>2. PICK ids : ids = {s.id : s \in top}
  OBVIOUS
<1>3. /\ top # {} /\ Agree(top)
      /\ \A s \in top : s.draft = d /\ s.outcome = "send"
  BY <1>1 DEF Prepare, Authorized, Heads, Track
<1>4. top \subseteq AllResolutions
  BY <1>1 DEF AllResolutions, Heads, Track, TypeOK
<1>5. Cited(ids) = top
  BY <1>2, <1>4 DEF Cited, AllResolutions, NamesInv
<1>6. Heads(top) = top
  BY <1>1 DEF Heads
<1> QED
  BY <1>1, <1>2, <1>3, <1>5, <1>6 DEF SendIsDecided

LEMMA DecidedStep == TypeOK /\ DecidedInv /\ [Next]_vars => DecidedInv'
<1> SUFFICES ASSUME TypeOK, DecidedInv, [Next]_vars PROVE DecidedInv'
  OBVIOUS
<1>1. /\ NamesInv' /\ AllResolutions \subseteq AllResolutions'
      /\ \A s \in AllResolutions' \ AllResolutions : s.id = made
  BY ResolutionsStep DEF DecidedInv
<1>2. NamesInv
  BY DEF DecidedInv
<1>3. ASSUME NEW d, NEW ids, SendIsDecided(d, ids) PROVE SendIsDecided(d, ids)'
  BY <1>1, <1>2, <1>3, DecidedForGood
<1>4. ASSUME NEW r \in Replicas, NEW a \in attempts'[r]
      PROVE  (\E q \in Replicas : a \in attempts[q]) \/ (pc # "idle" /\ a = Attempt)
  <2>1. CASE PublishAttempt
    <3>1. attempts' = attempts \/ attempts' = Add(attempts, authority, {Attempt})
      BY <2>1 DEF PublishAttempt
    <3>2. attempts'[r] \subseteq attempts[r] \cup {Attempt}
      BY <3>1 DEF Add, TypeOK
    <3> QED
      BY <1>4, <2>1, <3>2 DEF PublishAttempt
  <2>2. ASSUME NEW p \in Replicas, NEW q \in Replicas, SyncMail(p, q)
        PROVE  \E x \in Replicas : a \in attempts[x]
    BY <1>4, <2>2 DEF SyncMail, Add, TypeOK
  <2>3. ASSUME NEW d \in Drafts, Prepare(d) PROVE attempts' = attempts
    BY <2>3 DEF Prepare, mail
  <2>4. ASSUME NEW q \in Replicas, HandOver(q) PROVE attempts' = attempts
    BY <2>4 DEF HandOver, mail
  <2>5. CASE StopSend \/ Submit \/ PublishAcceptance \/ UNCHANGED sent
    BY <1>4, <2>5 DEF StopSend, Submit, PublishAcceptance, mail, sent
  <2> QED
    BY <1>4, <2>1, <2>2, <2>3, <2>4, <2>5, SentCases
<1>5. pc' # "idle" => \/ pc # "idle" /\ sending' = sending /\ heads' = heads
                      \/ \E d \in Drafts : Prepare(d)
  <2>1. ASSUME NEW q \in Replicas, HandOver(q) PROVE pc' = "idle"
    BY <2>1 DEF HandOver
  <2>2. ASSUME NEW p \in Replicas, NEW q \in Replicas, SyncMail(p, q)
        PROVE  UNCHANGED sender
    BY <2>2 DEF SyncMail
  <2>3. StopSend \/ PublishAttempt \/ Submit \/ PublishAcceptance
          => pc' = "idle" \/ (pc # "idle" /\ UNCHANGED <<sending, heads>>)
    BY DEF StopSend, PublishAttempt, Submit, PublishAcceptance, EndSend
  <2> QED
    BY <2>1, <2>2, <2>3, SentCases DEF sent, sender
<1>6. TriedAsDecided'
  <2>1. ASSUME NEW r \in Replicas, NEW a \in attempts'[r]
        PROVE  SendIsDecided(a.draft, a.heads)'
    <3>1. SendIsDecided(a.draft, a.heads)
      BY <1>4, <2>1 DEF DecidedInv, TriedAsDecided, Attempt
    <3> QED
      BY <1>3, <3>1
  <2> QED
    BY <2>1 DEF TriedAsDecided
<1>7. pc' # "idle" => SendIsDecided(sending, heads)'
  <2>1. ASSUME pc # "idle", sending' = sending, heads' = heads
        PROVE  SendIsDecided(sending, heads)'
    <3>1. PICK d, ids : d = sending /\ ids = heads
      OBVIOUS
    <3>2. SendIsDecided(d, ids)'
      BY <1>3, <2>1, <3>1 DEF DecidedInv
    <3> QED
      BY <2>1, <3>1, <3>2 DEF SendIsDecided, Cited
  <2>2. ASSUME NEW d \in Drafts, Prepare(d)
        PROVE  SendIsDecided(sending, heads)'
    <3>1. PICK ids : ids = {s.id : s \in Heads(Track(authority, d))}
      OBVIOUS
    <3>2. SendIsDecided(d, ids)'
      BY <1>2, <1>3, <2>2, <3>1, PreparesDecided
    <3>3. sending' = d /\ heads' = ids
      BY <2>2, <3>1 DEF Prepare
    <3> QED
      BY <3>2, <3>3 DEF SendIsDecided, Cited
  <2> QED
    BY <1>5, <2>1, <2>2
<1> QED
  BY <1>1, <1>6, <1>7 DEF DecidedInv

(* An attempt cites resolutions that agree on sending, for every replica    *)
(* and whatever is resolved or replicated later: a fork and a "hold" let    *)
(* nothing out (authorized_send).                                           *)
THEOREM TriesAsDecided == Spec => []TriedAsDecided
<1>1. Init => DecidedInv
  <2> SUFFICES ASSUME Init PROVE DecidedInv
    OBVIOUS
  <2>1. AllResolutions = {} /\ \A r \in Replicas : attempts[r] = {}
    BY DEF Init, AllResolutions
  <2> QED
    BY <2>1 DEF Init, DecidedInv, NamesInv, TriedAsDecided
<1>2. IInv => TypeOK
  BY DEF IInv
<1>3. DecidedInv => TriedAsDecided
  BY DEF DecidedInv
<1> QED
  BY Inductive, <1>1, <1>2, <1>3, DecidedStep, PTL DEF Spec
=============================================================================
