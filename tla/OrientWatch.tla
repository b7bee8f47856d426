---------------------------- MODULE OrientWatch ----------------------------
(***************************************************************************)
(* The watcher of one persona (src/orient/operations.rs: observe_wait),    *)
(* run as a daemon, as a one-shot wait, or as an owned call (next.rs), and *)
(* the delivery of its reports (delivery.rs, callback.rs, cli.rs).  It     *)
(* reads frozen snapshots of a store that other writers append to, and     *)
(* records what it presented as receipts in the same store.                *)
(*                                                                         *)
(* News are messages, whose body may be missing from the store, and health *)
(* alerts, which need none.  A habit falls due in numbered occurrences: a  *)
(* completion ends one and starts the cooldown of the next.                *)
(***************************************************************************)
EXTENDS Naturals

CONSTANTS
    Messages, Alerts, Habits,
    Kinds,          \* the kinds of run that are started
    None,
    MaxOccurrence,  \* bound: completions of a habit
    MaxRuns,        \* bound: runs
    MaxTrouble      \* bound: cut or unprepared attempts, personas, retries

Occurrences == Habits \X (0..MaxOccurrence)

(* What is told, what a snapshot freezes, how habits are observed.  A      *)
(* pending frame has no view while a dependency of its preparation is      *)
(* missing.                                                                *)
News == Messages \cup Alerts
Views == [arrived : SUBSET Messages, occ : [Habits -> 0..MaxOccurrence],
          receipts : SUBSET (News \cup Occurrences)]
Observations == [due : SUBSET Occurrences, cooling : SUBSET Occurrences]
Frames == [view : Views \cup {None}, habits : Observations \cup {None}]

ASSUME OrientAssumption ==
    /\ Kinds \subseteq {"daemon", "retrying", "wait", "next"}
    /\ MaxOccurrence \in Nat /\ MaxRuns \in Nat /\ MaxTrouble \in Nat
    /\ Messages \cap Alerts = {} /\ News \cap Occurrences = {}
    /\ None \notin Views \cup Observations \cup Frames

VARIABLES
    \* the store
    arrived,    \* messages committed
    bodies,     \* messages whose body is resident
    alerts,     \* alerts raised
    occ,        \* the occurrence each habit is in
    receipts,   \* messages, alerts and occurrences recorded as presented
    \* time, and the world the reports go to
    ripe,       \* occurrences whose cooldown is over
    accepted,   \* what complete reports said that were accepted
    known,      \* the receipts there were when the run began
    reached,    \* what its reports said that were, or may have been
    \* the run
    runs, kind, pc,
    expired,    \* its deadline is over
    sel,        \* the snapshot being selected in the background
    pend,       \* the pending frame: its view and the habits seen in it
    cur,        \* the view of the ready frame
    seen,       \* the habits as last observed
    valid,      \* current_habit_context_valid
    trouble,    \* how much went wrong, up to MaxTrouble
    report      \* the report in delivery

store == <<arrived, bodies, alerts, occ>>
world == <<ripe, accepted>>
run == <<runs, kind, expired, known>>
frames == <<sel, pend, cur, seen, valid>>
vars == <<store, receipts, world, reached, run, pc, frames, trouble, report>>

NoReport == [news |-> {}, due |-> {}, then |-> "poll"]

Init ==
    /\ arrived = {} /\ bodies = {} /\ alerts = {} /\ receipts = {}
    /\ occ = [h \in Habits |-> 0]
    /\ ripe = {} /\ accepted = {} /\ known = {} /\ reached = {}
    /\ runs = 0 /\ kind \in Kinds /\ pc = "off" /\ expired = FALSE
    /\ sel = None /\ pend = None /\ cur = None /\ seen = None
    /\ valid = TRUE /\ trouble = 0 /\ report = NoReport

Continuous == kind \in {"daemon", "retrying"}

(* Mutant: the messages are not among the facts that is_current compares. *)
CurrentButForMessages(view) == view.occ = occ /\ view.receipts = receipts

(* What a snapshot freezes, and whether a frozen view is still the latest. *)
(* The receipts committed before it are in it: where their membership      *)
(* cannot be refreshed the code says that a recent event may repeat.       *)
Snapshot == [arrived |-> arrived, occ |-> occ, receipts |-> receipts]

Current(view) == view = Snapshot

(* The habits of a view, evaluated now (observe_habits). *)
Evaluate(view) ==
    LET all == {<<h, view.occ[h]>> : h \in Habits}
    IN [due |-> all \cap ripe, cooling |-> all \ ripe]

(* A cooldown that an observation of habits waits for is over. *)
Elapsed(habits) == habits # None /\ habits.cooling \cap ripe # {}

(* The news of a view, and so the bodies that its frame needs. *)
Unpresented(view) == view.arrived \ view.receipts

Trouble == trouble < MaxTrouble /\ trouble' = trouble + 1

PendingHabits == IF pend = None THEN None ELSE pend.habits

-----------------------------------------------------------------------------
(* The other writers of the store, and time. *)

Arrive(m) == /\ m \notin arrived
             /\ arrived' = arrived \cup {m}
             /\ UNCHANGED <<bodies, alerts, occ, receipts, world, reached,
                            run, pc, frames, trouble, report>>

BodyArrives(m) == /\ m \in arrived \ bodies
                  /\ bodies' = bodies \cup {m}
                  /\ UNCHANGED <<arrived, alerts, occ, receipts, world,
                                 reached, run, pc, frames, trouble, report>>

Raise(a) == /\ a \notin alerts
            /\ alerts' = alerts \cup {a}
            /\ UNCHANGED <<arrived, bodies, occ, receipts, world, reached,
                           run, pc, frames, trouble, report>>

Complete(h) == /\ occ[h] < MaxOccurrence
               /\ occ' = [occ EXCEPT ![h] = @ + 1]
               /\ UNCHANGED <<arrived, bodies, alerts, receipts, world,
                              reached, run, pc, frames, trouble, report>>

Ripen(h, n) == /\ n <= occ[h] /\ <<h, n>> \notin ripe
               /\ n = 0 \/ <<h, n - 1>> \in ripe
               /\ ripe' = ripe \cup {<<h, n>>}
               /\ UNCHANGED <<store, receipts, accepted, reached, run, pc,
                              frames, trouble, report>>

Expire == /\ pc # "off" /\ ~expired
          /\ expired' = TRUE
          /\ UNCHANGED <<store, receipts, world, reached, runs, kind, known,
                         pc, frames, trouble, report>>

-----------------------------------------------------------------------------
(* A run, and the health poll that begins every iteration of its loops. *)

Start(k) ==
    /\ pc = "off" /\ runs < MaxRuns
    /\ pc' = "poll" /\ runs' = runs + 1 /\ kind' = k /\ known' = receipts
    /\ UNCHANGED <<store, receipts, world, reached, expired, frames, trouble,
                   report>>

(* The run ends, and with it everything it held. *)
Quit == /\ pc' = "off" /\ expired' = FALSE
        /\ sel' = None /\ pend' = None /\ cur' = None /\ seen' = None
        /\ valid' = TRUE /\ report' = NoReport
        /\ known' = {} /\ reached' = {}
        /\ UNCHANGED <<store, ripe, runs, kind, trouble>>

(* Its time is over, and it says so. *)
Finish == /\ pc = "poll" /\ expired
          /\ Quit /\ UNCHANGED <<receipts, accepted>>

Deliver(news, due, then) ==
    IF news \cup due = {}
    THEN pc' = then /\ report' = NoReport
    ELSE /\ pc' = "deliver"
         /\ report' = [news |-> news, due |-> due, then |-> then]

PollHealth == /\ pc = "poll" /\ ~expired
              /\ Deliver(alerts \ receipts, {}, "read")
              /\ UNCHANGED <<store, receipts, world, reached, run, frames,
                             trouble>>

(* The persona cannot be resolved in the health view: no alert is told.    *)
HealthUnread == /\ pc = "poll" /\ ~expired /\ Trouble
                /\ pc' = "read"
                /\ UNCHANGED <<store, receipts, world, reached, run, frames,
                               report>>

-----------------------------------------------------------------------------
(* One attempt to prepare a frame. *)

(* Nothing the ready frame shows has changed. *)
Retained == pend = None /\ cur # None /\ Current(cur)

Retain == /\ pc = "read" /\ Retained
          /\ pc' = "sweep"
          /\ UNCHANGED <<store, receipts, world, reached, run, frames, trouble,
                         report>>

Resumable == sel = None /\ pend # None /\ pend.view # None /\ Current(pend.view)

(* The pending view is the latest: retry its payloads, keep its habits. *)
Resume == /\ pc = "read" /\ Resumable
          /\ pc' = "payload"
          /\ UNCHANGED <<store, receipts, world, reached, run, frames, trouble,
                         report>>

(* After upkeep, select a snapshot; a selection that a boundary cut short  *)
(* goes on, on the snapshot it began with.  A missing body that came into  *)
(* the store makes a new view; one that a peer provides does not.          *)
Select == /\ pc = "read"
          /\ ~Retained
          /\ Resumable => Unpresented(pend.view) \cap bodies # {}
          /\ sel' = IF sel = None THEN Snapshot ELSE sel
          /\ pc' = "select"
          /\ UNCHANGED <<store, receipts, world, reached, run, pend, cur,
                         seen, valid, trouble, report>>

Observe == /\ pc = "select"
           /\ pend' = [view |-> sel, habits |-> None] /\ sel' = None
           /\ pc' = "payload"
           /\ UNCHANGED <<store, receipts, world, reached, run, cur, seen,
                          valid, trouble, report>>

(* The frame and the clocks of a persona that is unknown or unprepared: no *)
(* clock runs against it, nor against the ready frame until there is a new *)
(* one.                                                                    *)
Invalidate == /\ valid' = (valid /\ cur = None)
              /\ seen' = IF cur = None /\ ~Continuous THEN None ELSE seen

(* A dependency of upkeep or of the selection is missing: what is pending  *)
(* now is the preparation of a view, and the view that was is gone.  It is *)
(* tried again with the store at hand, and may be missing again.           *)
Unprepared ==
    /\ pc = "select" \/ (pc = "read" /\ sel = None)
    /\ Trouble
    /\ pend' = [view |-> None, habits |-> None] /\ sel' = None
    /\ Invalidate
    /\ pc' = "sweep"
    /\ UNCHANGED <<store, receipts, world, reached, run, cur, report>>

(* The persona resolves; its habits are evaluated once for this view. *)
ResolvePersona ==
    /\ pc = "payload" /\ pend.habits = None
    /\ pend' = [pend EXCEPT !.habits = Evaluate(pend.view)]
    /\ UNCHANGED <<store, receipts, world, reached, run, pc, sel, cur, seen,
                   valid, trouble, report>>

(* The persona cannot be resolved in this view. *)
PersonaUnread ==
    /\ pc = "payload" /\ Trouble
    /\ pend' = [pend EXCEPT !.habits = None]
    /\ Invalidate
    /\ pc' = "sweep"
    /\ UNCHANGED <<store, receipts, world, reached, run, sel, cur, report>>

(* An intention's own payload is missing: no habits are seen in this view. *)
HabitMissing == /\ pc = "payload" /\ pend.habits = None /\ Trouble
                /\ pc' = "sweep"
                /\ UNCHANGED <<store, receipts, world, reached, run, frames,
                               report>>

BodyMissing == /\ pc = "payload" /\ pend.habits # None
               /\ ~(Unpresented(pend.view) \subseteq bodies)
               /\ pc' = "sweep"
               /\ UNCHANGED <<store, receipts, world, reached, run, frames,
                              trouble, report>>

(* The frame is ready: its news and what is due in it are one report. *)
Ready == /\ pc = "payload" /\ pend.habits # None
         /\ Unpresented(pend.view) \subseteq bodies
         /\ Deliver(Unpresented(pend.view),
                    pend.habits.due \ pend.view.receipts, "poll")
         /\ cur' = pend.view /\ seen' = pend.habits
         /\ pend' = None /\ valid' = TRUE
         /\ UNCHANGED <<store, receipts, world, reached, run, sel, trouble>>

(* A cooldown that bounds the attempts is over: that of the ready frame or *)
(* of the pending one; before the first ready frame, a daemon's pending    *)
(* one's, or what any other run saw last.                                  *)
CooldownOver ==
    IF cur = None
    THEN Elapsed(IF Continuous THEN PendingHabits ELSE seen)
    ELSE Elapsed(seen) \/ Elapsed(PendingHabits)

(* The ready frame's persona is not resolved any more, so that nobody      *)
(* sweeps the cooldown that ends every attempt.                            *)
Overdue == ~valid /\ CooldownOver

(* A boundary ends the attempt, and what it had selected stays: the end of *)
(* a health view, of a cooldown, of the first read's poll interval, or of  *)
(* the run.                                                                *)
Cut == /\ pc \in {"read", "select", "payload"}
       /\ IF expired \/ CooldownOver THEN UNCHANGED trouble ELSE Trouble
       /\ pc' = "sweep"
       /\ UNCHANGED <<store, receipts, world, reached, run, frames, report>>

-----------------------------------------------------------------------------
(* The habits, after an attempt without a ready frame. *)

(* Before the first ready frame: adopt the habits of a new pending frame. *)
Adopt ==
    /\ pc = "sweep" /\ cur = None /\ PendingHabits # None
    /\ \/ seen = None
       \/ Continuous /\ seen # PendingHabits /\ ~Elapsed(seen)
    /\ seen' = pend.habits
    /\ Deliver({}, pend.habits.due \ pend.view.receipts, "poll")
    /\ UNCHANGED <<store, receipts, world, reached, run, sel, pend, cur,
                   valid, trouble>>

(* Mutant: habits are only evaluated in the ready frame once there is one. *)
SweepReady ==
    LET view == IF cur = None THEN pend.view ELSE cur
    IN /\ pc = "sweep" /\ seen # None
       /\ IF cur = None THEN PendingHabits # None ELSE valid
       /\ seen' = Evaluate(view)
       /\ Deliver({}, Evaluate(view).due \ view.receipts, "poll")
       /\ UNCHANGED <<store, receipts, world, reached, run, sel, pend, cur,
                      valid, trouble>>

(* Evaluate the habits again, at a cooldown's end or once in a minute: in  *)
(* the pending view if its habits are readable, or else in the ready one.  *)
Sweep ==
    LET readable == PendingHabits # None
        habits == Evaluate(IF readable THEN pend.view ELSE cur)
        presented == IF cur = None THEN pend.view.receipts ELSE cur.receipts
    IN /\ pc = "sweep" /\ seen # None
       /\ IF cur = None THEN readable ELSE valid
       /\ seen' = habits
       /\ pend' = IF readable THEN [pend EXCEPT !.habits = habits] ELSE pend
       /\ Deliver({}, habits.due \ presented, "poll")
       /\ UNCHANGED <<store, receipts, world, reached, run, sel, cur, valid,
                      trouble>>

(* Nothing to adopt, and no cooldown is over. *)
Rest ==
    /\ pc = "sweep"
    /\ IF cur = None
       THEN PendingHabits # None =>
                /\ seen # None /\ ~Elapsed(seen)
                /\ Continuous => seen = PendingHabits
       ELSE valid => ~Elapsed(seen) /\ ~Elapsed(PendingHabits)
    /\ seen' = IF cur = None /\ PendingHabits = None /\ ~Continuous
               THEN None ELSE seen
    /\ pc' = "poll"
    /\ UNCHANGED <<store, receipts, world, reached, run, sel, pend, cur,
                   valid, trouble, report>>

-----------------------------------------------------------------------------
(* The delivery of a complete report. *)

Said == report.news \cup report.due

(* A daemon starts its callback, a wait writes, a call offers its report. *)
HandOver == /\ pc = "deliver" /\ (expired => kind = "wait")
            /\ pc' = "attempt"
            /\ UNCHANGED <<store, receipts, world, reached, run, frames,
                           trouble, report>>

(* Past the deadline a daemon and a call start no delivery. *)
Late == /\ pc \in {"deliver", "backoff"} /\ expired /\ kind # "wait"
        /\ Quit /\ UNCHANGED <<receipts, accepted>>

Accept == /\ pc = "attempt"
          /\ accepted' = accepted \cup Said /\ reached' = reached \cup Said
          /\ pc' = "commit_news"
          /\ UNCHANGED <<store, receipts, ripe, run, frames, trouble, report>>

(* The callback exits with 75 after its complete input: it promises that   *)
(* it submitted nothing, and a daemon told to retry keeps the report.      *)
KnownNotSubmitted ==
    /\ pc = "attempt" /\ kind = "retrying" /\ ~expired
    /\ Trouble
    /\ pc' = "backoff"
    /\ UNCHANGED <<store, receipts, world, reached, run, frames, report>>

(* Mutant: an attempt that failed otherwise is retried as well. *)
FailRetried(got) ==
    /\ pc = "attempt"
    /\ accepted' = accepted \cup got /\ reached' = reached \cup got
    /\ pc' = "backoff"
    /\ UNCHANGED <<store, receipts, ripe, run, frames, trouble, report>>

(* Mutant: an attempt that timed out counts as accepted. *)
FailReceipted(got) ==
    /\ pc = "attempt"
    /\ accepted' = accepted \cup got
    /\ pc' = "commit_news"
    /\ UNCHANGED <<store, receipts, ripe, reached, run, frames, trouble, report>>

(* Any other failure, or a timeout, ends the run: the report may or may    *)
(* not have been accepted.                                                 *)
Fail(got) == /\ pc = "attempt"
             /\ accepted' = accepted \cup got
             /\ Quit /\ UNCHANGED receipts

Wake == /\ pc = "backoff" /\ ~expired
        /\ pc' = "deliver"
        /\ UNCHANGED <<store, receipts, world, reached, run, frames, trouble,
                       report>>

(* Receipts for the news, then for the habits. *)
CommitNews == /\ pc = "commit_news"
              /\ receipts' = receipts \cup report.news
              /\ pc' = "commit_due"
              /\ UNCHANGED <<store, world, reached, run, frames, trouble,
                             report>>

(* A daemon goes on; any other run ends with its first report. *)
CommitDue ==
    /\ pc = "commit_due"
    /\ receipts' = receipts \cup report.due
    /\ \/ /\ Continuous
          /\ pc' = report.then /\ report' = NoReport
          /\ UNCHANGED <<store, world, reached, run, frames, trouble>>
       \/ /\ ~Continuous
          /\ Quit /\ UNCHANGED accepted

(* A commit that fails ends the run; the report is not delivered again. *)
CommitFails == /\ pc \in {"commit_news", "commit_due"}
               /\ Quit /\ UNCHANGED <<receipts, accepted>>

(* The process stops, by a signal, a cancellation or a crash; a callback   *)
(* it leaves behind may still accept.                                      *)
Cease(got) == /\ pc # "off"
              /\ accepted' = accepted \cup got
              /\ Quit /\ UNCHANGED receipts

MayHaveBeenSaid == IF pc = "attempt" THEN {{}, Said} ELSE {{}}

-----------------------------------------------------------------------------
Environment ==
    \/ \E m \in Messages : Arrive(m) \/ BodyArrives(m)
    \/ \E a \in Alerts : Raise(a)
    \/ \E h \in Habits : Complete(h) \/ \E n \in 0..MaxOccurrence : Ripen(h, n)
    \/ Expire
    \/ \E k \in Kinds : Start(k)
    \/ \E got \in MayHaveBeenSaid : Cease(got)

Begin == Retain \/ Resume \/ Select

Prepare == \/ Begin \/ Unprepared \/ Observe \/ ResolvePersona
           \/ PersonaUnread \/ HabitMissing \/ BodyMissing \/ Ready \/ Cut

Outcome == Accept \/ KnownNotSubmitted \/ \E got \in {{}, Said} : Fail(got)

Step == \/ Finish \/ PollHealth \/ HealthUnread \/ Prepare
        \/ Adopt \/ Sweep \/ Rest
        \/ HandOver \/ Late \/ Outcome \/ Wake
        \/ CommitNews \/ CommitDue \/ CommitFails

Next == Environment \/ Step

(* A run keeps taking steps, and once in a minute it looks at its habits   *)
(* whatever the boundaries.  Boundaries are minutes apart and what an      *)
(* attempt selected stays, so they cut it short only so often (Trouble),   *)
(* unless one is overdue; so it is with a dependency of the preparation or *)
(* an intention's payload that is missing, and with a callback that asks   *)
(* for a retry.                                                            *)
Fairness == WF_vars(Step) /\ SF_vars(Sweep)

Spec == Init /\ [][Next]_vars /\ Fairness
-----------------------------------------------------------------------------
(* Properties. *)

TypeOK ==
    /\ arrived \subseteq Messages /\ bodies \subseteq Messages
    /\ alerts \subseteq Alerts
    /\ occ \in [Habits -> 0..MaxOccurrence] /\ ripe \subseteq Occurrences
    /\ receipts \subseteq News \cup Occurrences
    /\ accepted \subseteq News \cup Occurrences
    /\ known \subseteq News \cup Occurrences
    /\ reached \subseteq News \cup Occurrences
    /\ runs \in 0..MaxRuns /\ kind \in Kinds /\ expired \in BOOLEAN
    /\ pc \in {"off", "poll", "read", "select", "payload", "sweep", "deliver",
              "attempt", "backoff", "commit_news", "commit_due"}
    /\ sel \in Views \cup {None} /\ pend \in Frames \cup {None}
    /\ cur \in Views \cup {None} /\ seen \in Observations \cup {None}
    /\ valid \in BOOLEAN /\ trouble \in 0..MaxTrouble
    /\ report \in [news : SUBSET News, due : SUBSET Occurrences,
                   then : {"poll", "read"}]

(* A receipt is recorded only for what a report said that was accepted as   *)
(* a whole (delivery.rs: PreparedAcceptance), however attempts fail, time   *)
(* out or are retried, and whichever step a run dies in.                    *)
ReceiptsAreAccepted == receipts \subseteq accepted

(* A run tells a message or an alert once, whatever views it holds frozen   *)
(* and pending; and what had a receipt when the run began, occurrences      *)
(* included, it does not tell at all (operations.rs: a rearmed watcher).    *)
ToldOnce ==
    pc \in {"deliver", "attempt", "backoff"} =>
        /\ report.news \cap (known \cup reached) = {}
        /\ report.due \cap known = {}

(* A habit that is due is told although a message's body is missing, as     *)
(* long as the ready frame's persona is resolved (operations.rs: "Habit     *)
(* readiness is independent of a selected news body's availability").       *)
HabitsDoNotWait ==
    []<>(\/ pc = "off" \/ ~valid
         \/ {<<h, occ[h]>> : h \in Habits} \cap ripe \subseteq receipts)

(* Messages whose bodies are there are told, whatever arrived, was          *)
(* selected or was cut short meanwhile, unless an overdue cooldown, that of *)
(* the ready frame or of the pending one, cuts every attempt.               *)
NewsIsTold ==
    []<>(\/ pc = "off" \/ Overdue
         \/ ~(arrived \subseteq bodies)
         \/ arrived \subseteq receipts)
=============================================================================
