-------------------------------- MODULE Mail --------------------------------
(***************************************************************************)
(* Sending and fetching mail (src/mail.rs, src/mail/operations.rs,         *)
(* src/mail_pop.rs) and the decision that lets a draft go out              *)
(* (src/decide.rs, src/decide/operations.rs).  Replicas of the store hold  *)
(* three collections, each replicated on its own: Decide, Mail and Files.  *)
(* A command may be interrupted between any two steps, a publication may   *)
(* fail, or be committed and still return an error, and neither the SMTP   *)
(* nor the POP server need say what it did.                                *)
(*                                                                         *)
(* Mail asks its deployments to serialize `mail send` per account over     *)
(* processes and replicas (prepare_send): one replica at a time has the    *)
(* authority, and it passes to one that holds the Mail facts of the last.  *)
(***************************************************************************)
EXTENDS Naturals, FiniteSets

CONSTANTS
    Replicas, Drafts,
    Mails,          \* messages the POP server receives
    Attached,       \* those of them with attachments
    None,
    MaxResolutions  \* bound: resolutions of decisions

ASSUME MailAssumption ==
    /\ Attached \subseteq Mails
    /\ None \notin Drafts \cup Mails \cup Replicas
    /\ MaxResolutions \in Nat

Outcomes == {"send", "hold"}
Attempts == [draft : Drafts, heads : SUBSET Nat]
Resolutions == [id : Nat, draft : Drafts, outcome : Outcomes,
                forced : BOOLEAN, predecessors : SUBSET Nat]

VARIABLES
    \* Decide, by replica
    decisions,      \* drafts whose send decision was proposed
    resolutions,    \* [id, draft, outcome, forced, predecessors]
    made,           \* how many resolutions were made
    \* Mail and Files, by replica
    drafts, attempts, acceptances, observed, files,
    \* mail send
    authority,      \* the replica that may run it
    pc, sending, heads,
    \* the SMTP server
    effects,        \* how often it accepted each draft
    \* mail fetch and the POP server
    fetchPc, fetchAt, listed, current, marked,
    maildrop,       \* messages on the server
    removed         \* messages it has deleted

decide == <<decisions, resolutions, made>>
mail == <<drafts, attempts, acceptances, observed>>
sender == <<authority, pc, sending, heads>>
fetcher == <<fetchPc, fetchAt, listed, current, marked>>
server == <<maildrop, removed>>
vars == <<decide, mail, files, sender, effects, fetcher, server>>

Init ==
    /\ decisions = [r \in Replicas |-> {}] /\ made = 0
    /\ resolutions = [r \in Replicas |-> {}]
    /\ drafts = [r \in Replicas |-> {}] /\ attempts = [r \in Replicas |-> {}]
    /\ acceptances = [r \in Replicas |-> {}]
    /\ observed = [r \in Replicas |-> {}] /\ files = [r \in Replicas |-> {}]
    /\ authority \in Replicas
    /\ pc = "idle" /\ sending = None /\ heads = {}
    /\ effects = [d \in Drafts |-> 0]
    /\ fetchPc = "idle" /\ fetchAt = None /\ listed = {} /\ current = None
    /\ marked = {} /\ maildrop = {} /\ removed = {}

Add(facts, r, new) == [facts EXCEPT ![r] = @ \cup new]

-----------------------------------------------------------------------------
(* Decide: what a decision resolves to. *)

Track(r, d) == {s \in resolutions[r] : s.draft = d}
Heads(S) == {s \in S : \A t \in S : s.id \notin t.predecessors}

Agree(S) == \A s, t \in S : s.outcome = t.outcome /\ s.forced = t.forced

(* Mutant: one head of a fork is enough. *)
AuthorizedBySome(r, d) == \E s \in Heads(Track(r, d)) : s.outcome = "send"

(* Unique or Agreed with the outcome "send" (authorized_send). *)
Authorized(r, d) ==
    LET top == Heads(Track(r, d))
    IN  top # {} /\ Agree(top) /\ \A s \in top : s.outcome = "send"

(* `mail draft`: the decision is published before the draft, and the       *)
(* command may fail between the two.                                       *)
Draft(r, d) ==
    /\ \A q \in Replicas : d \notin decisions[q]
    /\ decisions' = Add(decisions, r, {d})
    /\ \/ drafts' = Add(drafts, r, {d}) \/ UNCHANGED drafts
    /\ UNCHANGED <<resolutions, made, attempts, acceptances, observed, files,
                   sender, effects, fetcher, server>>

Snapshot(r, d, predecessors) ==
    /\ made < MaxResolutions /\ made' = made + 1
    /\ \E outcome \in Outcomes, forced \in BOOLEAN :
          resolutions' = Add(resolutions, r,
              {[id |-> made, draft |-> d, outcome |-> outcome,
                forced |-> forced, predecessors |-> predecessors]})
    /\ UNCHANGED <<decisions, mail, files, sender, effects, fetcher, server>>

(* `decide resolve`: while the replica knows of no resolution. *)
Resolve(r, d) ==
    /\ d \in decisions[r] /\ Track(r, d) = {}
    /\ Snapshot(r, d, {})

(* `decide reconcile`: over all the heads of a fork. *)
Reconcile(r, d) ==
    /\ d \in decisions[r] /\ ~Agree(Heads(Track(r, d)))
    /\ Snapshot(r, d, {s.id : s \in Heads(Track(r, d))})

-----------------------------------------------------------------------------
(* `mail send` *)

AttemptsOf(r, d) == {a \in attempts[r] : a.draft = d}
Attempt == [draft |-> sending, heads |-> heads]

(* Mutant: an attempt that was not accepted is tried again. *)
PrepareAgain(d) ==
    /\ pc = "idle" /\ d \in drafts[authority]
    /\ AttemptsOf(authority, d) \cap acceptances[authority] = {}
    /\ Authorized(authority, d)
    /\ pc' = "prepared" /\ sending' = d
    /\ heads' = {s.id : s \in Heads(Track(authority, d))}
    /\ UNCHANGED <<decide, mail, files, authority, effects, fetcher, server>>

(* cmd_send up to prepare_send, over the views it takes at its start: a    *)
(* draft that has an attempt is never prepared again.                      *)
Prepare(d) ==
    /\ pc = "idle" /\ d \in drafts[authority]
    /\ AttemptsOf(authority, d) = {}
    /\ Authorized(authority, d)
    /\ pc' = "prepared" /\ sending' = d
    /\ heads' = {s.id : s \in Heads(Track(authority, d))}
    /\ UNCHANGED <<decide, mail, files, authority, effects, fetcher, server>>

(* The command ends: it returns, fails, or its process is gone. *)
EndSend == pc' = "idle" /\ sending' = None /\ heads' = {}

StopSend ==
    /\ pc # "idle" /\ EndSend
    /\ UNCHANGED <<decide, mail, files, authority, effects, fetcher, server>>

(* Mutant: the message goes out whether or not the attempt was recorded. *)
PublishAttemptAnyway ==
    /\ pc = "prepared"
    /\ \/ attempts' = Add(attempts, authority, {Attempt})
       \/ UNCHANGED attempts
    /\ pc' = "submitting"
    /\ UNCHANGED <<decide, drafts, acceptances, observed, files, authority,
                   sending, heads, effects, fetcher, server>>

(* submit_once: the attempt first.  An error ends the command, whether the *)
(* attempt was committed (its derived views failed) or not.                *)
PublishAttempt ==
    /\ pc = "prepared"
    /\ \/ /\ attempts' = Add(attempts, authority, {Attempt})
          /\ \/ EndSend
             \/ pc' = "submitting" /\ UNCHANGED <<sending, heads>>
       \/ EndSend /\ UNCHANGED attempts
    /\ UNCHANGED <<decide, drafts, acceptances, observed, files, authority,
                   effects, fetcher, server>>

(* Then the message.  The server may accept it and its answer be lost.     *)
(* With any answer but an acceptance the command ends.                     *)
Submit ==
    /\ pc = "submitting"
    /\ \/ /\ effects' = [effects EXCEPT ![sending] = @ + 1]
          /\ \/ EndSend
             \/ pc' = "accepted" /\ UNCHANGED <<sending, heads>>
       \/ EndSend /\ UNCHANGED effects
    /\ UNCHANGED <<decide, mail, files, authority, fetcher, server>>

(* Then the acceptance, with the outgoing observation. *)
PublishAcceptance ==
    /\ pc = "accepted"
    /\ \/ acceptances' = Add(acceptances, authority, {Attempt})
       \/ UNCHANGED acceptances
    /\ EndSend
    /\ UNCHANGED <<decide, drafts, attempts, observed, files, authority,
                   effects, fetcher, server>>

(* The authority passes to a replica that holds the Mail facts. *)
HandOver(r) ==
    /\ pc = "idle" /\ r # authority
    /\ attempts[authority] \subseteq attempts[r]
    /\ authority' = r
    /\ UNCHANGED <<decide, mail, files, pc, sending, heads, effects, fetcher,
                   server>>

-----------------------------------------------------------------------------
(* `mail fetch`, one POP session at a time (the server locks the maildrop). *)

Arrive(m) ==
    /\ m \notin maildrop \cup removed
    /\ maildrop' = maildrop \cup {m}
    /\ UNCHANGED <<decide, mail, files, sender, effects, fetcher, removed>>

Connect(r) ==
    /\ fetchPc = "idle"
    /\ fetchPc' = "next" /\ fetchAt' = r
    /\ listed' = maildrop
    /\ UNCHANGED <<decide, mail, files, sender, effects, current, marked,
                   server>>

(* Without QUIT the server deletes nothing. *)
EndFetch ==
    /\ fetchPc' = "idle" /\ fetchAt' = None /\ listed' = {}
    /\ current' = None /\ marked' = {}

StopFetch ==
    /\ fetchPc # "idle" /\ EndFetch
    /\ UNCHANGED <<decide, mail, files, sender, effects, server>>

(* drain_pop: one message after the other is retrieved, ... *)
Retrieve(m) ==
    /\ fetchPc = "next" /\ m \in listed
    /\ current' = m /\ listed' = listed \ {m}
    /\ fetchPc' = "files"
    /\ UNCHANGED <<decide, mail, files, sender, effects, fetchAt, marked,
                   server>>

(* ... its attachments published, ... *)
PublishFiles ==
    /\ fetchPc = "files"
    /\ files' = Add(files, fetchAt, {current} \cap Attached)
    /\ \/ fetchPc' = "mail" /\ UNCHANGED <<fetchAt, listed, current, marked>>
       \/ EndFetch
    /\ UNCHANGED <<decide, mail, sender, effects, server>>

(* Mutant: a message is marked before it is published. *)
PublishMailMarking ==
    /\ fetchPc = "mail"
    /\ \/ observed' = Add(observed, fetchAt, {current})
       \/ UNCHANGED observed
    /\ fetchPc' = "delete"
    /\ UNCHANGED <<decide, drafts, attempts, acceptances, files, sender,
                   effects, fetchAt, listed, current, marked, server>>

(* ... then the message itself (an error may follow the commit), ... *)
PublishMail ==
    /\ fetchPc = "mail"
    /\ observed' = Add(observed, fetchAt, {current})
    /\ \/ fetchPc' = "delete" /\ UNCHANGED <<fetchAt, listed, current, marked>>
       \/ EndFetch
    /\ UNCHANGED <<decide, drafts, attempts, acceptances, files, sender,
                   effects, server>>

(* ... and only then marked for deletion. *)
MarkDelete ==
    /\ fetchPc = "delete"
    /\ marked' = marked \cup {current}
    /\ current' = None /\ fetchPc' = "next"
    /\ UNCHANGED <<decide, mail, files, sender, effects, fetchAt, listed,
                   server>>

(* QUIT deletes what was marked, though the answer be lost. *)
Quit ==
    /\ fetchPc = "next" /\ listed = {}
    /\ maildrop' = maildrop \ marked /\ removed' = removed \cup marked
    /\ EndFetch
    /\ UNCHANGED <<decide, mail, files, sender, effects>>

-----------------------------------------------------------------------------
(* A collection of one replica reaches another. *)

SyncDecide(r, q) ==
    /\ decisions' = Add(decisions, q, decisions[r])
    /\ resolutions' = Add(resolutions, q, resolutions[r])
    /\ UNCHANGED <<made, mail, files, sender, effects, fetcher, server>>

SyncMail(r, q) ==
    /\ drafts' = Add(drafts, q, drafts[r])
    /\ attempts' = Add(attempts, q, attempts[r])
    /\ acceptances' = Add(acceptances, q, acceptances[r])
    /\ observed' = Add(observed, q, observed[r])
    /\ UNCHANGED <<decide, files, sender, effects, fetcher, server>>

SyncFiles(r, q) ==
    /\ files' = Add(files, q, files[r])
    /\ UNCHANGED <<decide, mail, sender, effects, fetcher, server>>

-----------------------------------------------------------------------------
Send == \/ \E d \in Drafts : Prepare(d)
        \/ StopSend \/ PublishAttempt \/ Submit \/ PublishAcceptance
        \/ \E r \in Replicas : HandOver(r)

Fetch == \/ \E m \in Mails : Arrive(m) \/ Retrieve(m)
         \/ \E r \in Replicas : Connect(r)
         \/ StopFetch \/ PublishFiles \/ PublishMail \/ MarkDelete \/ Quit

Decide == \E r \in Replicas, d \in Drafts :
             Draft(r, d) \/ Resolve(r, d) \/ Reconcile(r, d)

Sync == \E r \in Replicas : \E q \in Replicas \ {r} :
           SyncDecide(r, q) \/ SyncMail(r, q) \/ SyncFiles(r, q)

Next == Send \/ Fetch \/ Decide \/ Sync

Spec == Init /\ [][Next]_vars

-----------------------------------------------------------------------------
(* Properties. *)

TypeOK ==
    /\ decisions \in [Replicas -> SUBSET Drafts] /\ made \in Nat
    /\ resolutions \in [Replicas -> SUBSET Resolutions]
    /\ drafts \in [Replicas -> SUBSET Drafts]
    /\ attempts \in [Replicas -> SUBSET Attempts]
    /\ acceptances \in [Replicas -> SUBSET Attempts]
    /\ observed \in [Replicas -> SUBSET Mails]
    /\ files \in [Replicas -> SUBSET Mails]
    /\ authority \in Replicas
    /\ pc \in {"idle", "prepared", "submitting", "accepted"}
    /\ IF pc = "idle" THEN sending = None ELSE sending \in Drafts
    /\ heads \in SUBSET Nat
    /\ effects \in [Drafts -> Nat]
    /\ fetchPc \in {"idle", "next", "files", "mail", "delete"}
    /\ IF fetchPc = "idle" THEN fetchAt = None ELSE fetchAt \in Replicas
    /\ IF fetchPc \in {"idle", "next"} THEN current = None
       ELSE current \in Mails
    /\ listed \subseteq Mails /\ marked \subseteq Mails
    /\ maildrop \subseteq Mails /\ removed \subseteq Mails

(* What some replica says was begun, and what it says is done. *)
Begun == {d \in Drafts : \E r \in Replicas : AttemptsOf(r, d) # {}}
Confirmed == {d \in Drafts :
                 \E r \in Replicas : \E a \in acceptances[r] : a.draft = d}

Once == INSTANCE AtMostOnce WITH
    Jobs <- Drafts, begun <- Begun, confirmed <- Confirmed

(* A draft goes out at most once, after its attempt was recorded and       *)
(* before its acceptance is (submit_once, "callers must never retry        *)
(* automatically"), whatever is interrupted, lost or replicated late.      *)
SentAtMostOnce == Once!Spec

(* The resolutions an attempt cites, wherever they are known. *)
Cited(ids) == {s \in UNION {resolutions[r] : r \in Replicas} : s.id \in ids}

SendIsDecided(d, ids) ==
    /\ ids # {} /\ ids = {s.id : s \in Cited(ids)}
    /\ \A s \in Cited(ids) : s.draft = d /\ s.outcome = "send"
    /\ Agree(Cited(ids)) /\ Heads(Cited(ids)) = Cited(ids)

(* Nothing is tried but what was decided: an attempt cites, for every      *)
(* replica and for good, resolutions of its own draft that agree on        *)
(* sending and of which none overrules another.  A fork, or a later "hold" *)
(* that the sender knew of, lets nothing out (authorized_send).            *)
TriedAsDecided ==
    \A r \in Replicas : \A a \in attempts[r] : SendIsDecided(a.draft, a.heads)

(* What `mail outbox` says of a draft. *)
Delivery(r, d) ==
    LET tried == AttemptsOf(r, d)
    IN  CASE tried = {} -> "Pending"
          [] Cardinality(tried) > 1 -> "MultipleAttempts"
          [] Cardinality(tried) = 1 ->
               IF tried \cap acceptances[r] = {} THEN "Uncertain"
               ELSE "Accepted"

(* The outbox is true: on no replica is a draft called accepted that the   *)
(* server did not accept, or has several attempts, and none is pending     *)
(* where sending is authorized that may have gone out.                     *)
OutboxIsTrue ==
    /\ \A r \in Replicas : \A d \in drafts[r] :
          /\ Delivery(r, d) # "MultipleAttempts"
          /\ Delivery(r, d) = "Accepted" => effects[d] = 1
    /\ \A d \in Drafts :
          Delivery(authority, d) = "Pending" => effects[d] = 0

(* The POP server never deletes a message before some replica has it, with *)
(* its attachments ("each intrinsic fragment": publish_pop_publication).   *)
RemovedIsArchived ==
    \A m \in removed : \E r \in Replicas :
        m \in observed[r] /\ (m \in Attached => m \in files[r])
=============================================================================
