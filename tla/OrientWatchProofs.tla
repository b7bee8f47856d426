-------------------------- MODULE OrientWatchProofs --------------------------
(***************************************************************************)
(* Proofs about OrientWatch, for any messages, alerts and habits and any   *)
(* number of occurrences, runs and troubles: that receipts are only for    *)
(* what was accepted, and that news is told once.                          *)
(***************************************************************************)
EXTENDS OrientWatch, TLAPS

(* A step that uses a frame has one, with a view, and no frame outlives    *)
(* its run.                                                                *)
Phases == /\ pc = "select" => sel # None
          /\ pc = "payload" => pend # None /\ sel = None /\ pend.view # None
          /\ pc = "off" => sel = None /\ pend = None /\ cur = None

(* Habits are only seen in a view. *)
SeenInView == pend # None /\ pend.habits # None => pend.view # None

(* What is about to get its receipts was accepted. *)
AcceptedInv ==
    /\ ReceiptsAreAccepted
    /\ pc \in {"commit_news", "commit_due"} => Said \subseteq accepted

(* What the run began with is in every view that it holds frozen, and the  *)
(* messages it told are in those that become the next report: it has none  *)
(* of these in its hand while it tells a message.                          *)
ViewsInv ==
    /\ known \subseteq receipts
    /\ sel # None => /\ known \subseteq sel.receipts
                     /\ reached \cap Messages \subseteq sel.receipts
    /\ pend # None /\ pend.view # None =>
           /\ known \subseteq pend.view.receipts
           /\ reached \cap Messages \subseteq pend.view.receipts
    /\ cur # None => known \subseteq cur.receipts

Telling == {"deliver", "attempt", "backoff"}

(* News has its receipts when its report is settled. *)
ReachedInv ==
    /\ pc # "commit_news" => reached \cap News \subseteq receipts
    /\ pc = "commit_news" => reached \cap News \subseteq receipts \cup report.news
    /\ pc \in Telling /\ report.news \cap Messages # {}
          => sel = None /\ pend = None

IInv == TypeOK /\ Phases /\ SeenInView /\ AcceptedInv /\ ViewsInv /\ ReachedInv /\ ToldOnce

-----------------------------------------------------------------------------
(* Every step, one action at a time. *)
LEMMA StepCases ==
  ASSUME [Next]_vars
  PROVE  \/ \E m \in Messages : Arrive(m) \/ BodyArrives(m)
         \/ \E a \in Alerts : Raise(a)
         \/ \E h \in Habits : Complete(h)
         \/ \E h \in Habits : \E n \in 0..MaxOccurrence : Ripen(h, n)
         \/ Expire
         \/ \E k \in Kinds : Start(k)
         \/ \E got \in MayHaveBeenSaid : Cease(got)
         \/ Finish \/ PollHealth \/ HealthUnread
         \/ Retain \/ Resume \/ Select \/ Unprepared \/ Observe
         \/ ResolvePersona \/ PersonaUnread \/ HabitMissing \/ BodyMissing
         \/ Ready \/ Cut
         \/ Adopt \/ Sweep \/ Rest \/ HandOver \/ Late \/ Accept
         \/ KnownNotSubmitted
         \/ \E got \in {{}, Said} : Fail(got)
         \/ Wake \/ CommitNews \/ CommitDue \/ CommitFails
         \/ UNCHANGED vars
BY DEF Next, Environment, Step, Prepare, Begin, Outcome

(* What is observed of the habits of a view. *)
LEMMA Evaluated ==
  ASSUME TypeOK, NEW view \in Views
  PROVE  Evaluate(view) \in Observations
<1> DEFINE all == {<<h, view.occ[h]>> : h \in Habits}
<1>1. all \subseteq Occurrences
  BY DEF Views, Occurrences
<1>2. all \cap ripe \subseteq Occurrences /\ all \ ripe \subseteq Occurrences
  BY <1>1
<1> HIDE DEF all
<1>3. [due |-> all \cap ripe, cooling |-> all \ ripe] \in Observations
  BY <1>2 DEF Observations
<1> QED
  BY <1>3 DEF Evaluate, all

LEMMA SnapshotTyped ==
  ASSUME TypeOK
  PROVE  Snapshot \in Views /\ Snapshot # None
<1>1. Snapshot \in Views
  BY DEF Snapshot, Views, TypeOK
<1> QED
  BY <1>1, OrientAssumption

LEMMA Delivered ==
  ASSUME NEW news \in SUBSET News, NEW due \in SUBSET Occurrences,
         NEW then \in {"poll", "read"}, Deliver(news, due, then)
  PROVE  /\ pc' \in {"poll", "read", "deliver"}
         /\ report' \in [news : SUBSET News, due : SUBSET Occurrences,
                         then : {"poll", "read"}]
         /\ pc' = "deliver" => report'.news = news /\ report'.due = due
         /\ pc' # "deliver" => pc' = then
BY DEF Deliver, NoReport

LEMMA Quitted ==
  ASSUME TypeOK, Quit, receipts' \subseteq News \cup Occurrences,
         accepted' \subseteq News \cup Occurrences
  PROVE  TypeOK'
<1>1. report' \in [news : SUBSET News, due : SUBSET Occurrences,
                   then : {"poll", "read"}]
  BY DEF Quit, NoReport
<1> QED
  BY <1>1 DEF Quit, TypeOK, store

LEMMA SaidTyped ==
  ASSUME TypeOK
  PROVE  Said \subseteq News \cup Occurrences
BY DEF TypeOK, Said

LEMMA Initially == Init => IInv
<1> SUFFICES ASSUME Init PROVE IInv
  OBVIOUS
<1>1. TypeOK
  <2>1. 0 \in 0..MaxOccurrence /\ 0 \in 0..MaxRuns /\ 0 \in 0..MaxTrouble
    BY OrientAssumption
  <2>2. occ \in [Habits -> 0..MaxOccurrence]
    BY <2>1 DEF Init
  <2>3. report \in [news : SUBSET News, due : SUBSET Occurrences,
                   then : {"poll", "read"}]
    BY DEF Init, NoReport
  <2> QED
    BY <2>1, <2>2, <2>3 DEF Init, TypeOK
<1>2. Phases /\ SeenInView /\ AcceptedInv /\ ViewsInv /\ ReachedInv /\ ToldOnce
  BY DEF Init, Phases, SeenInView, AcceptedInv, ReceiptsAreAccepted, ViewsInv, ReachedInv,
         ToldOnce, NoReport
<1> QED
  BY <1>1, <1>2 DEF IInv

-----------------------------------------------------------------------------
(* Types, and that a step has the frame it uses. *)

LEMMA TypesStep == TypeOK /\ Phases /\ SeenInView /\ [Next]_vars => TypeOK'
<1> SUFFICES ASSUME TypeOK, Phases, SeenInView, [Next]_vars PROVE TypeOK'
  OBVIOUS
<1> USE OrientAssumption
<1>1. ASSUME NEW m \in Messages, Arrive(m) \/ BodyArrives(m) PROVE TypeOK'
  BY <1>1 DEF TypeOK, Arrive, BodyArrives, run, world, frames
<1>2. ASSUME NEW a \in Alerts, Raise(a) PROVE TypeOK'
  BY <1>2 DEF TypeOK, Raise, run, world, frames
<1>3. ASSUME NEW h \in Habits, Complete(h) PROVE TypeOK'
  <2>1. occ' \in [Habits -> 0..MaxOccurrence]
    BY <1>3 DEF TypeOK, Complete
  <2> QED
    BY <1>3, <2>1 DEF TypeOK, Complete, run, world, frames
<1>4. ASSUME NEW h \in Habits, NEW n \in 0..MaxOccurrence, Ripen(h, n)
      PROVE  TypeOK'
  <2>1. ripe' \subseteq Occurrences
    BY <1>4 DEF TypeOK, Ripen, Occurrences
  <2> QED
    BY <1>4, <2>1 DEF TypeOK, Ripen, run, store, frames
<1>5. CASE Expire
  BY <1>5 DEF TypeOK, Expire, world, store, frames
<1>6. ASSUME NEW k \in Kinds, Start(k) PROVE TypeOK'
  BY <1>6 DEF TypeOK, Start, world, store, frames
<1>7. ASSUME NEW got \in MayHaveBeenSaid, Cease(got) PROVE TypeOK'
  BY <1>7, SaidTyped, Quitted DEF TypeOK, Cease, MayHaveBeenSaid
<1>8. CASE Finish \/ Late \/ CommitFails
  BY <1>8, Quitted DEF TypeOK, Finish, Late, CommitFails
<1>9. CASE PollHealth
  <2>1. Deliver(alerts \ receipts, {}, "read") /\ alerts \ receipts \subseteq News
    BY <1>9 DEF PollHealth, TypeOK, News
  <2>2. pc' \in {"poll", "read", "deliver"}
        /\ report' \in [news : SUBSET News, due : SUBSET Occurrences,
                        then : {"poll", "read"}]
    BY <2>1, Delivered
  <2> QED
    BY <1>9, <2>2 DEF TypeOK, PollHealth, run, world, store, frames
<1>10. CASE Retain \/ Resume \/ BodyMissing
  BY <1>10 DEF TypeOK, Retain, Resume, BodyMissing, run, world, store, frames
<1>11. CASE Select
  BY <1>11, SnapshotTyped DEF TypeOK, Select, run, world, store
<1>12. CASE Observe
  <2>1. sel \in Views
    BY <1>12 DEF TypeOK, Phases, Observe
  <2>2. pend' \in Frames
    BY <1>12, <2>1 DEF Observe, Frames
  <2> QED
    BY <1>12, <2>2 DEF TypeOK, Observe, run, world, store
<1>13. CASE ResolvePersona
  <2>1. pend \in Frames /\ pend.view # None
    BY <1>13 DEF TypeOK, Phases, ResolvePersona
  <2>2. pend.view \in Views
    BY <2>1 DEF Frames
  <2>3. pend' \in Frames
    BY <1>13, <2>1, <2>2, Evaluated DEF ResolvePersona, Frames
  <2> QED
    BY <1>13, <2>3 DEF TypeOK, ResolvePersona, run, world, store
<1>14. CASE PersonaUnread
  <2>1. pend \in Frames
    BY <1>14 DEF TypeOK, Phases, PersonaUnread
  <2>2. pend' \in Frames
    BY <1>14, <2>1 DEF PersonaUnread, Frames
  <2>3. seen' \in Observations \cup {None} /\ trouble' \in 0..MaxTrouble
        /\ valid' \in BOOLEAN
    BY <1>14 DEF TypeOK, PersonaUnread, Invalidate, Trouble
  <2> QED
    BY <1>14, <2>2, <2>3 DEF TypeOK, PersonaUnread, run, world, store
<1>15. CASE Ready
  <2>1. pend \in Frames /\ pend.view \in Views /\ pend.habits \in Observations
    BY <1>15 DEF TypeOK, Phases, Ready, Frames
  <2>2. /\ Unpresented(pend.view) \subseteq News
        /\ pend.habits.due \ pend.view.receipts \subseteq Occurrences
    BY <2>1 DEF Unpresented, Views, Observations, News
  <2>3. pc' \in {"poll", "read", "deliver"}
        /\ report' \in [news : SUBSET News, due : SUBSET Occurrences,
                        then : {"poll", "read"}]
    BY <1>15, <2>2, Delivered DEF Ready
  <2> QED
    BY <1>15, <2>1, <2>3 DEF TypeOK, Ready, run, world, store
<1>16. CASE Cut \/ HealthUnread \/ HabitMissing
  <2>1. trouble' \in 0..MaxTrouble
    BY <1>16 DEF TypeOK, Cut, HealthUnread, HabitMissing, Trouble
  <2> QED
    BY <1>16, <2>1 DEF TypeOK, Cut, HealthUnread, HabitMissing, run, world,
                       store, frames
<1>17. CASE Adopt
  <2>1. pend \in Frames /\ pend.view \in Views /\ pend.habits \in Observations
    BY <1>17 DEF TypeOK, SeenInView, Adopt, PendingHabits, Frames
  <2>2. pend.habits.due \ pend.view.receipts \subseteq Occurrences
    BY <2>1 DEF Observations
  <2>3. pc' \in {"poll", "read", "deliver"}
        /\ report' \in [news : SUBSET News, due : SUBSET Occurrences,
                        then : {"poll", "read"}]
    BY <1>17, <2>2, Delivered DEF Adopt
  <2> QED
    BY <1>17, <2>1, <2>3 DEF TypeOK, Adopt, run, world, store
<1>18. CASE Sweep
  <2> DEFINE readable == PendingHabits # None
             habits == Evaluate(IF readable THEN pend.view ELSE cur)
             presented == IF cur = None THEN pend.view.receipts
                          ELSE cur.receipts
  <2>1. readable => pend \in Frames /\ pend.view \in Views
    BY DEF TypeOK, SeenInView, PendingHabits, Frames
  <2>2. (IF readable THEN pend.view ELSE cur) \in Views
    BY <1>18, <2>1 DEF Sweep, TypeOK
  <2>3. habits \in Observations
    BY <2>2, Evaluated
  <2>4. /\ seen' = habits
        /\ pend' = IF readable THEN [pend EXCEPT !.habits = habits] ELSE pend
        /\ Deliver({}, habits.due \ presented, "poll")
    BY <1>18 DEF Sweep
  <2> HIDE DEF habits, presented
  <2>5. pend' \in Frames \cup {None}
    BY <2>1, <2>3, <2>4 DEF Frames, TypeOK
  <2>6. habits.due \ presented \subseteq Occurrences
    BY <2>3 DEF Observations
  <2>7. pc' \in {"poll", "read", "deliver"}
        /\ report' \in [news : SUBSET News, due : SUBSET Occurrences,
                        then : {"poll", "read"}]
    BY <2>4, <2>6, Delivered
  <2> QED
    BY <1>18, <2>3, <2>4, <2>5, <2>7 DEF TypeOK, Sweep, run, world, store
<1>19. CASE Rest
  BY <1>19 DEF TypeOK, Rest, run, world, store
<1>20. CASE HandOver \/ Wake
  BY <1>20 DEF TypeOK, HandOver, Wake, run, world, store, frames
<1>21. CASE Accept
  BY <1>21, SaidTyped DEF TypeOK, Accept, run, store, frames
<1>22. CASE KnownNotSubmitted
  BY <1>22 DEF TypeOK, KnownNotSubmitted, Trouble, run, world, store, frames
<1>23. ASSUME NEW got \in {{}, Said}, Fail(got) PROVE TypeOK'
  BY <1>23, SaidTyped, Quitted DEF TypeOK, Fail
<1>24. CASE CommitNews
  BY <1>24 DEF TypeOK, CommitNews, run, world, store, frames
<1>25. CASE CommitDue
  <2>1. receipts' \subseteq News \cup Occurrences
    BY <1>25 DEF TypeOK, CommitDue
  <2>2. CASE Continuous /\ pc' = report.then /\ report' = NoReport
             /\ UNCHANGED <<store, world, reached, run, frames, trouble>>
    BY <2>1, <2>2 DEF TypeOK, NoReport, run, world, store, frames
  <2>3. CASE Quit /\ UNCHANGED accepted
    BY <2>1, <2>3, Quitted DEF TypeOK
  <2> QED
    BY <1>25, <2>2, <2>3 DEF CommitDue
<1>26. CASE UNCHANGED vars
  BY <1>26 DEF TypeOK, vars, run, world, store, frames
<1>27. CASE Unprepared
  <2>1. pend' \in Frames
    BY <1>27 DEF Unprepared, Frames
  <2>2. seen' \in Observations \cup {None} /\ trouble' \in 0..MaxTrouble
        /\ valid' \in BOOLEAN
    BY <1>27 DEF TypeOK, Unprepared, Invalidate, Trouble
  <2> QED
    BY <1>27, <2>1, <2>2 DEF TypeOK, Unprepared, run, world, store
<1> QED
  BY StepCases, <1>1, <1>2, <1>3, <1>4, <1>5, <1>6, <1>7, <1>8, <1>9, <1>10,
     <1>11, <1>12, <1>13, <1>14, <1>15, <1>16, <1>17, <1>18, <1>19, <1>20,
     <1>21, <1>22, <1>23, <1>24, <1>25, <1>26, <1>27

LEMMA PhasesStep == TypeOK /\ Phases /\ [Next]_vars => Phases'
<1> SUFFICES ASSUME TypeOK, Phases, [Next]_vars PROVE Phases'
  OBVIOUS
<1>1. CASE UNCHANGED <<pc, sel, pend, cur>>
  BY <1>1 DEF Phases
<1>2. CASE pc' \notin {"select", "payload", "off"}
  BY <1>2 DEF Phases
<1>3. CASE Select
  BY <1>3, SnapshotTyped DEF Phases, Select
<1>4. CASE Resume
  BY <1>4 DEF Phases, Resume, Resumable, frames
<1>5. CASE Observe
  <2>1. sel \in Views
    BY <1>5 DEF TypeOK, Phases, Observe
  <2>2. [view |-> sel, habits |-> None] \in Frames
    BY <2>1 DEF Frames
  <2> QED
    BY <1>5, <2>2, OrientAssumption DEF Phases, Observe
<1>6. CASE ResolvePersona
  <2>1. pend \in Frames /\ pend.view \in Views /\ pend.view # None
    BY <1>6 DEF TypeOK, Phases, ResolvePersona, Frames
  <2>2. pend' \in Frames /\ pend'.view # None
    BY <1>6, <2>1, Evaluated DEF ResolvePersona, Frames
  <2> QED
    BY <1>6, <2>2, OrientAssumption DEF Phases, ResolvePersona
<1>7. CASE CommitDue
  BY <1>7 DEF Phases, CommitDue, Quit, TypeOK
<1>8. CASE Adopt \/ Sweep \/ Ready \/ PollHealth
  BY <1>8 DEF Phases, Adopt, Sweep, Ready, PollHealth, Deliver
<1>9. CASE HealthUnread \/ Retain \/ Unprepared \/ PersonaUnread
           \/ HabitMissing \/ BodyMissing \/ Cut \/ Rest \/ HandOver
           \/ Accept \/ KnownNotSubmitted \/ Wake \/ CommitNews
  BY <1>9 DEF Phases, HealthUnread, Retain, Unprepared, PersonaUnread,
              HabitMissing, BodyMissing, Cut, Rest, HandOver, Accept,
              KnownNotSubmitted, Wake, CommitNews
<1>10. ASSUME NEW got, Fail(got) \/ Cease(got) PROVE Phases'
  BY <1>10 DEF Phases, Fail, Cease, Quit
<1>11. CASE Finish \/ Late \/ CommitFails
  BY <1>11 DEF Phases, Finish, Late, CommitFails, Quit
<1>12. ASSUME NEW m, Arrive(m) \/ BodyArrives(m) \/ Raise(m) \/ Complete(m)
       PROVE  UNCHANGED <<pc, sel, pend, cur>>
  BY <1>12 DEF Arrive, BodyArrives, Raise, Complete, frames
<1>13. ASSUME NEW h, NEW n, Ripen(h, n) PROVE UNCHANGED <<pc, sel, pend, cur>>
  BY <1>13 DEF Ripen, frames
<1>14. ASSUME NEW k, Start(k) PROVE Phases'
  BY <1>14 DEF Start, Phases
<1>15. CASE Expire \/ UNCHANGED vars
  BY <1>15, <1>1 DEF Expire, vars, frames
<1> QED
  BY StepCases, <1>1, <1>3, <1>4, <1>5, <1>6, <1>7, <1>8, <1>9, <1>10, <1>11,
     <1>12, <1>13, <1>14, <1>15

LEMMA SeenStep ==
  TypeOK /\ Phases /\ SeenInView /\ [Next]_vars => SeenInView'
<1> SUFFICES ASSUME TypeOK, Phases, SeenInView, [Next]_vars
             PROVE  SeenInView'
  OBVIOUS
<1>1. CASE UNCHANGED pend \/ pend' = None
  BY <1>1 DEF SeenInView
<1>2. CASE Observe \/ Unprepared
  BY <1>2 DEF SeenInView, Observe, Unprepared
<1>3. CASE ResolvePersona \/ PersonaUnread
  <2>1. pend \in Frames /\ pend.view # None
    BY <1>3 DEF TypeOK, Phases, ResolvePersona, PersonaUnread
  <2>2. PICK habits : pend' = [pend EXCEPT !.habits = habits]
    BY <1>3 DEF ResolvePersona, PersonaUnread
  <2> QED
    BY <2>1, <2>2 DEF SeenInView, Frames
<1>4. CASE Sweep
  <2>1. PICK habits : pend' = IF PendingHabits # None
                              THEN [pend EXCEPT !.habits = habits] ELSE pend
    BY <1>4 DEF Sweep
  <2>2. CASE PendingHabits # None
    <3>1. pend \in Frames /\ pend.view # None
      BY <2>2 DEF TypeOK, SeenInView, PendingHabits
    <3> QED
      BY <2>1, <2>2, <3>1 DEF SeenInView, Frames
  <2> QED
    BY <1>1, <2>1, <2>2
<1>5. CASE Quit
  BY <1>1, <1>5 DEF Quit
<1>6. CASE PollHealth \/ HealthUnread \/ Retain \/ Resume \/ Select
           \/ HabitMissing \/ BodyMissing \/ Ready \/ Cut \/ Adopt \/ Rest
  BY <1>1, <1>6 DEF PollHealth, HealthUnread, Retain, Resume, Select,
     HabitMissing, BodyMissing, Ready, Cut, Adopt, Rest, frames
<1>7. CASE HandOver \/ Accept \/ KnownNotSubmitted \/ Wake \/ CommitNews
           \/ CommitDue
  BY <1>1, <1>5, <1>7 DEF HandOver, Accept, KnownNotSubmitted, Wake,
     CommitNews, CommitDue, frames
<1>8. ASSUME NEW got, Fail(got) \/ Cease(got) PROVE Quit
  BY <1>8 DEF Fail, Cease
<1>9. CASE Finish \/ Late \/ CommitFails
  BY <1>5, <1>9 DEF Finish, Late, CommitFails
<1>10. ASSUME NEW x, Arrive(x) \/ BodyArrives(x) \/ Raise(x) \/ Complete(x)
                    \/ Start(x)
       PROVE  UNCHANGED pend
  BY <1>10 DEF Arrive, BodyArrives, Raise, Complete, Start, frames
<1>11. ASSUME NEW h, NEW n, Ripen(h, n) PROVE UNCHANGED pend
  BY <1>11 DEF Ripen, frames
<1>12. CASE Expire \/ UNCHANGED vars
  BY <1>1, <1>12 DEF Expire, vars, frames
<1> QED
  BY StepCases, <1>1, <1>2, <1>3, <1>4, <1>5, <1>6, <1>7, <1>8, <1>9, <1>10,
     <1>11, <1>12

-----------------------------------------------------------------------------
(* Receipts and acceptance. *)

LEMMA AcceptedStep == TypeOK /\ AcceptedInv /\ [Next]_vars => AcceptedInv'
<1> SUFFICES ASSUME TypeOK, AcceptedInv, [Next]_vars PROVE AcceptedInv'
  OBVIOUS
<1> USE DEF ReceiptsAreAccepted
<1>1. CASE UNCHANGED <<receipts, accepted, report, pc>>
  BY <1>1 DEF AcceptedInv, Said
<1>2. CASE /\ UNCHANGED <<receipts, accepted>>
           /\ pc' \notin {"commit_news", "commit_due"}
  BY <1>2 DEF AcceptedInv
<1>3. ASSUME NEW got, Fail(got) \/ Cease(got) PROVE AcceptedInv'
  BY <1>3 DEF AcceptedInv, Fail, Cease, Quit
<1>4. CASE Finish \/ Late \/ CommitFails
  BY <1>4 DEF AcceptedInv, Finish, Late, CommitFails, Quit
<1>5. CASE Accept
  BY <1>5 DEF AcceptedInv, Accept, Said
<1>6. CASE CommitNews
  BY <1>6 DEF AcceptedInv, CommitNews, world, Said
<1>7. CASE CommitDue
  <2>1. receipts' \subseteq accepted /\ accepted' = accepted
    BY <1>7 DEF AcceptedInv, CommitDue, world, Said
  <2>2. pc' \notin {"commit_news", "commit_due"}
    BY <1>7 DEF CommitDue, Quit, TypeOK
  <2> QED
    BY <2>1, <2>2 DEF AcceptedInv
<1>8. CASE Adopt \/ Sweep \/ Ready \/ PollHealth
  BY <1>2, <1>8 DEF Adopt, Sweep, Ready, PollHealth, Deliver, world
<1>9. CASE HealthUnread \/ Retain \/ Resume \/ Select \/ Unprepared
           \/ Observe \/ PersonaUnread \/ HabitMissing \/ BodyMissing \/ Cut
           \/ Rest \/ HandOver \/ KnownNotSubmitted \/ Wake
  BY <1>2, <1>9 DEF HealthUnread, Retain, Resume, Select, Unprepared, Observe,
     PersonaUnread, HabitMissing, BodyMissing, Cut, Rest, HandOver,
     KnownNotSubmitted, Wake, world
<1>10. CASE ResolvePersona \/ Expire \/ UNCHANGED vars
  BY <1>1, <1>10 DEF ResolvePersona, Expire, vars, world
<1>11. ASSUME NEW m, Arrive(m) \/ BodyArrives(m) \/ Raise(m) \/ Complete(m)
       PROVE  AcceptedInv'
  BY <1>1, <1>11 DEF Arrive, BodyArrives, Raise, Complete, world
<1>12. ASSUME NEW h, NEW n, Ripen(h, n) PROVE AcceptedInv'
  BY <1>1, <1>12 DEF Ripen
<1>13. ASSUME NEW k, Start(k) PROVE AcceptedInv'
  BY <1>2, <1>13 DEF Start, world
<1> QED
  BY StepCases, <1>3, <1>4, <1>5, <1>6, <1>7, <1>8, <1>9, <1>10, <1>11, <1>12,
     <1>13

-----------------------------------------------------------------------------
(* News is told once. *)

LEMMA HabitsOfFrame ==
  ASSUME NEW frame \in Frames, NEW habits
  PROVE  [frame EXCEPT !.habits = habits].view = frame.view
BY DEF Frames

LEMMA DueIsNoNews ==
  ASSUME TypeOK
  PROVE  report.due \cap News = {} /\ report.news \subseteq News
BY OrientAssumption DEF TypeOK

LEMMA ViewsStep ==
  TypeOK /\ Phases /\ ViewsInv /\ ReachedInv /\ [Next]_vars => ViewsInv'
<1> SUFFICES ASSUME TypeOK, Phases, ViewsInv, ReachedInv, [Next]_vars
             PROVE  ViewsInv'
  OBVIOUS
<1>1. CASE UNCHANGED <<known, receipts, reached, sel, pend, cur>>
  BY <1>1 DEF ViewsInv
<1>2. CASE Quit
  BY <1>2 DEF ViewsInv, Quit
<1>3. CASE Select
  <2>1. known \subseteq receipts /\ reached \cap Messages \subseteq receipts
    BY <1>3 DEF Select, ViewsInv, ReachedInv, News
  <2>2. /\ known \subseteq sel'.receipts
        /\ reached \cap Messages \subseteq sel'.receipts
    BY <1>3, <2>1 DEF Select, ViewsInv, Snapshot
  <2> QED
    BY <1>3, <2>2 DEF Select, ViewsInv, run
<1>4. CASE Observe
  <2>1. sel # None /\ pend'.view = sel /\ sel' = None
    BY <1>4 DEF Observe, Phases
  <2> QED
    BY <1>4, <2>1 DEF Observe, ViewsInv, run
<1>5. CASE ResolvePersona \/ PersonaUnread
  <2>1. pend \in Frames /\ pend # None
    BY <1>5 DEF TypeOK, Phases, ResolvePersona, PersonaUnread
  <2>2. pend'.view = pend.view
    BY <1>5, <2>1, HabitsOfFrame DEF ResolvePersona, PersonaUnread
  <2> QED
    BY <1>5, <2>1, <2>2 DEF ResolvePersona, PersonaUnread, ViewsInv, run
<1>6. CASE Ready
  BY <1>6 DEF Ready, Phases, ViewsInv, run
<1>7. CASE Sweep
  <2>1. CASE pend' = pend
    BY <1>7, <2>1 DEF Sweep, ViewsInv, run
  <2>2. CASE pend' # pend
    <3>1. pend \in Frames /\ pend # None
      BY <1>7, <2>2 DEF Sweep, TypeOK, PendingHabits
    <3>2. pend'.view = pend.view
      BY <1>7, <3>1, HabitsOfFrame DEF Sweep
    <3> QED
      BY <1>7, <3>1, <3>2 DEF Sweep, ViewsInv, run
  <2> QED
    BY <2>1, <2>2
<1>8. CASE Accept
  <2>1. UNCHANGED <<known, receipts, sel, pend, cur>> /\ reached' = reached \cup Said
    BY <1>8 DEF Accept, run, frames
  <2>2. CASE report.news \cap Messages = {}
    <3>1. reached' \cap Messages = reached \cap Messages
      BY <2>1, <2>2, DueIsNoNews DEF Said, News
    <3> QED
      BY <2>1, <3>1 DEF ViewsInv
  <2>3. CASE report.news \cap Messages # {}
    <3>1. sel = None /\ pend = None
      BY <1>8, <2>3 DEF Accept, ReachedInv, Telling
    <3> QED
      BY <2>1, <3>1 DEF ViewsInv
  <2> QED
    BY <2>2, <2>3
<1>9. CASE /\ UNCHANGED <<known, reached, sel, pend, cur>>
           /\ receipts \subseteq receipts'
  BY <1>9 DEF ViewsInv
<1>10. CASE CommitNews \/ CommitDue
  BY <1>2, <1>9, <1>10 DEF CommitNews, CommitDue, run, frames
<1>11. ASSUME NEW k, Start(k) PROVE ViewsInv'
  BY <1>11 DEF Start, Phases, ViewsInv, frames
<1>12. ASSUME NEW got, Fail(got) \/ Cease(got) PROVE Quit
  BY <1>12 DEF Fail, Cease
<1>13. CASE Finish \/ Late \/ CommitFails
  BY <1>2, <1>13 DEF Finish, Late, CommitFails
<1>14. CASE PollHealth \/ HealthUnread \/ Retain \/ Resume \/ HabitMissing
            \/ BodyMissing \/ Cut \/ Adopt \/ Rest \/ HandOver
            \/ KnownNotSubmitted \/ Wake
  BY <1>1, <1>14 DEF PollHealth, HealthUnread, Retain, Resume, HabitMissing,
     BodyMissing, Cut, Adopt, Rest, HandOver, KnownNotSubmitted, Wake, run,
     frames
<1>15. CASE Expire \/ UNCHANGED vars
  BY <1>1, <1>15 DEF Expire, vars, run, frames
<1>16. ASSUME NEW m, Arrive(m) \/ BodyArrives(m) \/ Raise(m) \/ Complete(m)
       PROVE  ViewsInv'
  BY <1>1, <1>16 DEF Arrive, BodyArrives, Raise, Complete, run, frames
<1>17. ASSUME NEW h, NEW n, Ripen(h, n) PROVE ViewsInv'
  BY <1>1, <1>17 DEF Ripen, run, frames
<1>18. CASE Unprepared
  BY <1>18 DEF Unprepared, ViewsInv, run
<1> QED
  BY StepCases, <1>2, <1>3, <1>4, <1>5, <1>6, <1>7, <1>8, <1>10, <1>11, <1>12,
     <1>13, <1>14, <1>15, <1>16, <1>17, <1>18

LEMMA ReachedStep ==
  TypeOK /\ Phases /\ ReachedInv /\ [Next]_vars => ReachedInv'
<1> SUFFICES ASSUME TypeOK, Phases, ReachedInv, [Next]_vars PROVE ReachedInv'
  OBVIOUS
<1> USE DEF Telling
<1>1. CASE UNCHANGED <<pc, receipts, reached, report, sel, pend>>
  BY <1>1 DEF ReachedInv
<1>2. CASE Quit
  BY <1>2 DEF ReachedInv, Quit
<1>3. CASE /\ UNCHANGED <<receipts, reached>>
           /\ pc # "commit_news" /\ pc' \notin Telling \cup {"commit_news"}
  BY <1>3 DEF ReachedInv
<1>4. CASE PollHealth
  <2>1. Deliver(alerts \ receipts, {}, "read") /\ alerts \ receipts \subseteq News
        /\ alerts \cap Messages = {}
    BY <1>4, OrientAssumption DEF PollHealth, TypeOK, News
  <2>2. pc' \in {"read", "deliver"}
        /\ (pc' = "deliver" => report'.news = alerts \ receipts)
    BY <2>1, Delivered
  <2> QED
    BY <1>4, <2>1, <2>2 DEF PollHealth, ReachedInv
<1>5. CASE Ready
  <2>1. UNCHANGED <<receipts, reached>> /\ sel' = None /\ pend' = None
        /\ pc # "commit_news" /\ pc' # "commit_news"
    BY <1>5 DEF Ready, Phases, Deliver
  <2> QED
    BY <2>1 DEF ReachedInv
<1>6. CASE Adopt \/ Sweep
  <2>1. PICK due : Deliver({}, due, "poll")
    BY <1>6 DEF Adopt, Sweep
  <2>2. pc' # "commit_news" /\ report'.news = {}
    BY <2>1 DEF Deliver, NoReport
  <2>3. UNCHANGED <<receipts, reached>> /\ pc # "commit_news"
    BY <1>6 DEF Adopt, Sweep
  <2> QED
    BY <2>2, <2>3 DEF ReachedInv
<1>7. CASE HandOver \/ KnownNotSubmitted \/ Wake
  BY <1>7 DEF HandOver, KnownNotSubmitted, Wake, ReachedInv, frames
<1>8. CASE Accept
  <2>1. reached' \cap News \subseteq receipts \cup report.news
    BY <1>8, DueIsNoNews DEF Accept, ReachedInv, Said
  <2> QED
    BY <1>8, <2>1 DEF Accept, ReachedInv
<1>9. CASE CommitNews
  BY <1>9 DEF CommitNews, ReachedInv
<1>10. CASE CommitDue
  <2>1. CASE pc' = report.then /\ UNCHANGED reached
    BY <1>10, <2>1 DEF CommitDue, ReachedInv, TypeOK
  <2> QED
    BY <1>2, <1>10, <2>1 DEF CommitDue
<1>11. ASSUME NEW k, Start(k) PROVE ReachedInv'
  BY <1>3, <1>11 DEF Start
<1>12. ASSUME NEW got, Fail(got) \/ Cease(got) PROVE Quit
  BY <1>12 DEF Fail, Cease
<1>13. CASE Finish \/ Late \/ CommitFails
  BY <1>2, <1>13 DEF Finish, Late, CommitFails
<1>14. CASE HealthUnread \/ Retain \/ Resume \/ Select \/ Unprepared
            \/ Observe \/ PersonaUnread \/ HabitMissing \/ BodyMissing \/ Cut
            \/ Rest
  BY <1>3, <1>14 DEF HealthUnread, Retain, Resume, Select, Unprepared, Observe,
     PersonaUnread, HabitMissing, BodyMissing, Cut, Rest
<1>15. CASE ResolvePersona
  BY <1>3, <1>15 DEF ResolvePersona
<1>16. CASE Expire \/ UNCHANGED vars
  BY <1>1, <1>16 DEF Expire, vars, frames
<1>17. ASSUME NEW m, Arrive(m) \/ BodyArrives(m) \/ Raise(m) \/ Complete(m)
       PROVE  ReachedInv'
  BY <1>1, <1>17 DEF Arrive, BodyArrives, Raise, Complete, frames
<1>18. ASSUME NEW h, NEW n, Ripen(h, n) PROVE ReachedInv'
  BY <1>1, <1>18 DEF Ripen, frames
<1> QED
  BY StepCases, <1>2, <1>4, <1>5, <1>6, <1>7, <1>8, <1>9, <1>10, <1>11, <1>12,
     <1>13, <1>14, <1>15, <1>16, <1>17, <1>18

LEMMA ToldStep == IInv /\ [Next]_vars => ToldOnce'
<1> SUFFICES ASSUME IInv, [Next]_vars PROVE ToldOnce'
  OBVIOUS
<1> USE DEF IInv
<1>1. CASE UNCHANGED <<pc, known, reached, report>>
  BY <1>1 DEF ToldOnce
<1>2. CASE pc' \notin Telling
  BY <1>2 DEF ToldOnce, Telling
<1>3. CASE PollHealth
  <2>1. Deliver(alerts \ receipts, {}, "read") /\ alerts \ receipts \subseteq News
    BY <1>3 DEF PollHealth, TypeOK, News
  <2>2. pc' = "deliver" =>
            report'.news = alerts \ receipts /\ report'.due = {}
    BY <2>1, Delivered
  <2>3. (alerts \ receipts) \cap (known \cup reached) = {}
    BY <1>3, <2>1 DEF PollHealth, ViewsInv, ReachedInv
  <2>4. pc' \in {"read", "deliver"} /\ UNCHANGED <<known, reached>>
    BY <1>3 DEF PollHealth, Deliver, run
  <2> QED
    BY <2>2, <2>3, <2>4 DEF ToldOnce
<1>4. CASE Ready
  <2>1. /\ pend \in Frames /\ pend # None /\ pend.view # None
        /\ pend.view \in Views /\ pend.habits \in Observations
    BY <1>4 DEF TypeOK, Phases, Ready, Frames
  <2>2. /\ Unpresented(pend.view) \subseteq Messages
        /\ Unpresented(pend.view) \cap pend.view.receipts = {}
        /\ pend.habits.due \ pend.view.receipts \subseteq Occurrences
    BY <2>1 DEF Unpresented, Views, Observations
  <2>3. /\ Unpresented(pend.view) \cap (known \cup reached) = {}
        /\ (pend.habits.due \ pend.view.receipts) \cap known = {}
    BY <2>1, <2>2 DEF ViewsInv
  <2>4. Deliver(Unpresented(pend.view), pend.habits.due \ pend.view.receipts,
                "poll")
    BY <1>4 DEF Ready
  <2>5. pc' = "deliver" =>
            /\ report'.news = Unpresented(pend.view)
            /\ report'.due = pend.habits.due \ pend.view.receipts
    BY <2>2, <2>4, Delivered DEF News
  <2>6. pc' \in {"poll", "deliver"} /\ UNCHANGED <<known, reached>>
    BY <1>4, <2>4 DEF Ready, Deliver, run
  <2> QED
    BY <2>3, <2>5, <2>6 DEF ToldOnce
<1>5. CASE Adopt \/ Sweep
  <2>1. PICK all, presented : /\ Deliver({}, all \ presented, "poll")
                              /\ known \subseteq presented
    <3>1. CASE Adopt
      <4>1. pend # None /\ pend.view # None
        BY <3>1 DEF Adopt, PendingHabits, SeenInView
      <4> QED
        BY <3>1, <4>1 DEF Adopt, ViewsInv
    <3>2. CASE Sweep
      <4>1. cur = None => pend # None /\ pend.view # None
        BY <3>2 DEF Sweep, PendingHabits, SeenInView
      <4>2. known \subseteq IF cur = None THEN pend.view.receipts
                            ELSE cur.receipts
        BY <4>1 DEF ViewsInv
      <4> QED
        BY <3>2, <4>2 DEF Sweep
    <3> QED
      BY <1>5, <3>1, <3>2
  <2>2. /\ pc' \in {"poll", "deliver"} /\ report'.news = {}
        /\ report'.due \cap known = {}
    BY <2>1 DEF Deliver, NoReport
  <2>3. UNCHANGED <<known, reached>>
    BY <1>5 DEF Adopt, Sweep, run
  <2> QED
    BY <2>2, <2>3 DEF ToldOnce
<1>6. CASE HandOver \/ KnownNotSubmitted \/ Wake
  BY <1>6 DEF HandOver, KnownNotSubmitted, Wake, ToldOnce, run
<1>7. CASE Accept \/ CommitNews
  BY <1>2, <1>7 DEF Accept, CommitNews, Telling
<1>8. CASE CommitDue
  BY <1>2, <1>8 DEF CommitDue, Quit, TypeOK, Telling
<1>9. ASSUME NEW k, Start(k) PROVE ToldOnce'
  BY <1>2, <1>9 DEF Start, Telling
<1>10. ASSUME NEW got, Fail(got) \/ Cease(got) PROVE ToldOnce'
  BY <1>2, <1>10 DEF Fail, Cease, Quit, Telling
<1>11. CASE Finish \/ Late \/ CommitFails
  BY <1>2, <1>11 DEF Finish, Late, CommitFails, Quit, Telling
<1>12. CASE HealthUnread \/ Retain \/ Resume \/ Select \/ Unprepared
            \/ Observe \/ PersonaUnread \/ HabitMissing \/ BodyMissing \/ Cut
            \/ Rest
  BY <1>2, <1>12 DEF HealthUnread, Retain, Resume, Select, Unprepared, Observe,
     PersonaUnread, HabitMissing, BodyMissing, Cut, Rest, Telling
<1>13. CASE ResolvePersona \/ Expire \/ UNCHANGED vars
  BY <1>1, <1>13 DEF ResolvePersona, Expire, vars, run
<1>14. ASSUME NEW m, Arrive(m) \/ BodyArrives(m) \/ Raise(m) \/ Complete(m)
       PROVE  ToldOnce'
  BY <1>1, <1>14 DEF Arrive, BodyArrives, Raise, Complete, run
<1>15. ASSUME NEW h, NEW n, Ripen(h, n) PROVE ToldOnce'
  BY <1>1, <1>15 DEF Ripen, run
<1> QED
  BY StepCases, <1>3, <1>4, <1>5, <1>6, <1>7, <1>8, <1>9, <1>10, <1>11, <1>12,
     <1>13, <1>14, <1>15

-----------------------------------------------------------------------------
(* The invariant holds, and with it what it contains. *)
THEOREM Inductive == Spec => []IInv
<1>1. IInv /\ [Next]_vars => IInv'
  BY TypesStep, PhasesStep, SeenStep, AcceptedStep, ViewsStep, ReachedStep, ToldStep
     DEF IInv
<1> QED
  BY Initially, <1>1, PTL DEF Spec

(* Every variable keeps its range. *)
THEOREM TypeCorrect == Spec => []TypeOK
<1>1. IInv => TypeOK
  BY DEF IInv
<1> QED
  BY Inductive, <1>1, PTL

(* A receipt is recorded only for what was accepted as a whole.             *)
THEOREM ReceiptsFollowAcceptance == Spec => []ReceiptsAreAccepted
<1>1. IInv => ReceiptsAreAccepted
  BY DEF IInv, AcceptedInv
<1> QED
  BY Inductive, <1>1, PTL

(* A run tells its news once, and nothing that had a receipt before.        *)
THEOREM NewsIsToldOnce == Spec => []ToldOnce
<1>1. IInv => ToldOnce
  BY DEF IInv
<1> QED
  BY Inductive, <1>1, PTL
=============================================================================
