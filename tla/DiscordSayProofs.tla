-------------------------- MODULE DiscordSayProofs --------------------------
(***************************************************************************)
(* Proofs about DiscordSay for any requests, any number of speakers,       *)
(* crashes, failing store operations and interruptions.                    *)
(***************************************************************************)
EXTENDS DiscordSay, FiniteSetTheorems, SequenceTheorems, TLAPS

(* No instant of the past is later than the start of this speaker, and the *)
(* clock has not gone back behind that.                                    *)
ClockInv ==
    /\ heardBy \in [Requests -> SUBSET Nat]
    /\ landed \in [Requests -> SUBSET Nat]
    /\ started <= now
    /\ pc # "down" => started # 0
    /\ \A r \in Requests :
          beganAt[r] <= started /\ \A b \in heardBy[r] : b <= started

(* Only one speaker ever recorded the start of a request, and the store    *)
(* names it.                                                               *)
OneStart ==
    \A r \in Requests : landed[r] \subseteq {beganAt[r]} /\ 0 \notin landed[r]

(* The line being played was begun by no other speaker and is unsettled.   *)
CurrentInv ==
    \A r \in Requests :
        current = r => /\ landed[r] \subseteq {started}
                       /\ outcome[r] = {}
                       /\ line = "played" => r \in finished

(* What a look has still to judge is unsettled. *)
PendingInv ==
    /\ pending # {} => pc = "judging"
    /\ \A r \in pending : outcome[r] = {}

(* At most one outcome is recorded of a request. *)
OneOutcome == \A r \in Requests : outcome[r] \in {{}, {"played"}, {"failed"}}

(* The inductive invariant.  That nothing recorded is replayed is not      *)
(* inductive alone: it rests on the judgement of the look still holding    *)
(* when the line sounds, which is so because only the speaker itself       *)
(* records a start or an outcome.                                          *)
IInv ==
    /\ TypeOK /\ ClockInv /\ OneStart /\ CurrentInv /\ PendingInv
    /\ OneOutcome /\ NotReplayedOnceRecorded /\ PlayedIsTrue

-----------------------------------------------------------------------------
LEMMA Initially == Init => IInv
<1> SUFFICES ASSUME Init PROVE IInv
  OBVIOUS
<1>1. TypeOK
  <2>1. asked \in Seq(Requests) /\ IsInjective(asked)
    BY EmptySeq DEF Init, IsInjective
  <2>2. askedAt \in [Requests -> Nat] /\ beganAt \in [Requests -> Nat]
    BY DEF Init
  <2>3. outcome \in [Requests -> SUBSET {"played", "failed"}]
    BY DEF Init
  <2> QED
    BY <2>1, <2>2, <2>3, SayAssumption DEF Init, TypeOK
<1>2. ClockInv
  BY DEF Init, ClockInv
<1>3. OneStart /\ CurrentInv /\ PendingInv /\ OneOutcome
  BY SayAssumption DEF Init, OneStart, CurrentInv, PendingInv, OneOutcome
<1>4. NotReplayedOnceRecorded /\ PlayedIsTrue
  BY DEF Init, NotReplayedOnceRecorded, PlayedIsTrue
<1> QED
  BY <1>1, <1>2, <1>3, <1>4 DEF IInv

(* Every step, one action at a time. *)
LEMMA StepCases ==
  ASSUME [Next]_vars
  PROVE  \/ Start \/ Crash \/ OtherChange \/ (\E r \in Requests : Ask(r))
         \/ Look \/ Read \/ TakeLine \/ FailPending \/ EndLook
         \/ RecordStarted \/ Sound \/ EndLine \/ Again \/ Settle \/ Break
         \/ UNCHANGED vars
BY DEF Next, Speak

(* A request that is asked for joins the end of the sequence, once. *)
LEMMA AskedOnce ==
  ASSUME TypeOK, NEW r \in Requests, Ask(r)
  PROVE  /\ asked' \in Seq(Requests) /\ IsInjective(asked')
         /\ ToSet(asked) \subseteq ToSet(asked')
<1>1. asked \in Seq(Requests) /\ IsInjective(asked) /\ asked' = Append(asked, r)
      /\ r \notin ToSet(asked)
  BY DEF TypeOK, Ask
<1>2. /\ asked' \in Seq(Requests) /\ Len(asked') = Len(asked) + 1
      /\ \A i \in 1 .. Len(asked) : asked'[i] = asked[i]
      /\ asked'[Len(asked) + 1] = r
  BY <1>1, AppendProperties
<1>3. /\ Len(asked) \in Nat /\ DOMAIN asked = 1 .. Len(asked)
      /\ DOMAIN asked' = 1 .. Len(asked) + 1
  BY <1>1, <1>2, LenProperties
<1>4. \A i \in 1 .. Len(asked) : asked[i] # r
  BY <1>1, <1>3 DEF ToSet
<1> QED
  BY <1>1, <1>2, <1>3, <1>4 DEF IsInjective, ToSet

LEMMA PendingAsked ==
  ASSUME TypeOK
  PROVE  ToSet(asked) \subseteq Requests /\ pending \subseteq Requests
<1>1. asked \in Seq(Requests) /\ pending \subseteq ToSet(asked)
  BY DEF TypeOK
<1>2. \A i \in DOMAIN asked : asked[i] \in Requests
  BY <1>1, ElementOfSeq, LenProperties
<1> QED
  BY <1>1, <1>2 DEF ToSet

(* What recording an outcome leaves behind. *)
LEMMA Published ==
  ASSUME TypeOK, NEW r \in Requests, NEW what \in {"played", "failed"},
         Publish(r, what)
  PROVE  /\ outcome' \in [Requests -> SUBSET {"played", "failed"}]
         /\ outcome'[r] = outcome[r] \cup {what}
         /\ \A q \in Requests \ {r} : outcome'[q] = outcome[q]
         /\ news' = TRUE /\ UNCHANGED <<asked, askedAt, beganAt>>
<1>1. outcome' = [outcome EXCEPT ![r] = @ \cup {what}]
  BY DEF Publish
<1>2. outcome[r] \cup {what} \in SUBSET {"played", "failed"}
  BY DEF TypeOK
<1> QED
  BY <1>1, <1>2 DEF TypeOK, Publish

LEMMA TypeStep == TypeOK /\ [Next]_vars => TypeOK'
<1> SUFFICES ASSUME TypeOK, [Next]_vars PROVE TypeOK'
  OBVIOUS
<1> USE SayAssumption DEF counters, history, store
<1>1. CASE Start
  <2>1. PICK later \in {1, Stale + 1} : now' = now + later
    BY <1>1 DEF Start
  <2>2. now' \in Nat /\ started' = now'
    BY <1>1, <2>1 DEF TypeOK, Start
  <2> QED
    BY <1>1, <2>2 DEF TypeOK, Start
<1>2. CASE Crash
  BY <1>2 DEF TypeOK, Crash, Gone
<1>3. CASE OtherChange
  BY <1>3 DEF TypeOK, OtherChange
<1>4. ASSUME NEW r \in Requests, Ask(r) PROVE TypeOK'
  BY <1>4, AskedOnce DEF TypeOK, Ask
<1>5. CASE Look
  BY <1>5 DEF TypeOK, Look
<1>6. CASE Read
  BY <1>6 DEF TypeOK, Read, StoreFails
<1>7. CASE TakeLine
  <2>1. current' \in Requests /\ pending' = {}
    BY <1>7, PendingAsked DEF TakeLine
  <2> QED
    BY <1>7, <2>1 DEF TypeOK, TakeLine
<1>8. CASE FailPending
  <2>1. PICK r \in pending :
          \/ Publish(r, "failed") /\ pending' = pending \ {r}
             /\ UNCHANGED pc
          \/ pending' = {} /\ pc' = "idle" /\ UNCHANGED <<store, news>>
    BY <1>8 DEF FailPending
  <2>2. r \in Requests
    BY PendingAsked
  <2>3. /\ UNCHANGED <<asked, askedAt, beganAt>> /\ news' \in BOOLEAN
        /\ outcome' \in [Requests -> SUBSET {"played", "failed"}]
    BY <2>1, <2>2, Published DEF TypeOK
  <2>4. /\ pc = "judging" /\ pc' \in {"judging", "idle"}
        /\ pending' \subseteq pending
        /\ UNCHANGED <<started, current, recorder, line, failedInARow, now>>
    BY <1>8, <2>1 DEF FailPending
  <2> QED
    BY <2>3, <2>4 DEF TypeOK
<1>9. CASE EndLook
  BY <1>9 DEF TypeOK, EndLook
<1>10. CASE RecordStarted
  BY <1>10, ZenonT(60) DEF TypeOK, RecordStarted, StoreFails
<1>11. CASE Sound
  BY <1>11 DEF TypeOK, Sound
<1>12. CASE EndLine
  BY <1>12 DEF TypeOK, EndLine
<1>13. CASE Again
  BY <1>13 DEF TypeOK, Again
<1>14. CASE Settle
  <2>1. current \in Requests /\ pc = "speaking"
    BY <1>14 DEF TypeOK, Settle, Ended
  <2>2. /\ UNCHANGED <<asked, askedAt, beganAt>> /\ news' \in BOOLEAN
        /\ outcome' \in [Requests -> SUBSET {"played", "failed"}]
    <3>1. \/ \E how \in {"played", "failed"} : Publish(current, how)
          \/ UNCHANGED <<asked, askedAt, beganAt, outcome, news>>
      BY <1>14 DEF Settle, store
    <3>2. CASE \E how \in {"played", "failed"} : Publish(current, how)
      <4>1. PICK how \in {"played", "failed"} : Publish(current, how)
        BY <3>2
      <4> QED
        BY <2>1, <4>1, Published
    <3>3. CASE UNCHANGED <<asked, askedAt, beganAt, outcome, news>>
      BY <3>3 DEF TypeOK
    <3> QED
      BY <3>1, <3>2, <3>3
  <2>3. /\ pc' \in {"idle", "down"} /\ current' = NoRequest
        /\ recorder' = "none" /\ line' = "none"
        /\ UNCHANGED <<started, now>> /\ pending' \subseteq pending
        /\ failedInARow' \in 0 .. FailedInARow - 1
    BY <1>14 DEF TypeOK, Settle, Gone
  <2> QED
    BY <2>2, <2>3 DEF TypeOK
<1>15. CASE Break
  <2>1. current \in Requests
    BY <1>15 DEF TypeOK, Break, Ended
  <2>2. /\ UNCHANGED <<asked, askedAt, beganAt>> /\ news' \in BOOLEAN
        /\ outcome' \in [Requests -> SUBSET {"played", "failed"}]
    <3>1. \/ Publish(current, "failed")
          \/ UNCHANGED <<asked, askedAt, beganAt, outcome, news>>
      BY <1>15 DEF Break, store
    <3>2. CASE Publish(current, "failed")
      BY <2>1, <3>2, Published
    <3>3. CASE UNCHANGED <<asked, askedAt, beganAt, outcome, news>>
      BY <3>3 DEF TypeOK
    <3> QED
      BY <3>1, <3>2, <3>3
  <2> QED
    BY <1>15, <2>2 DEF TypeOK, Break, Gone
<1>16. CASE UNCHANGED vars
  BY <1>16 DEF TypeOK, vars, speaker
<1> QED
  BY <1>1, <1>2, <1>3, <1>4, <1>5, <1>6, <1>7, <1>8, <1>9, <1>10, <1>11,
     <1>12, <1>13, <1>14, <1>15, <1>16, StepCases

-----------------------------------------------------------------------------
(* The steps that matter to each part.  Most leave all of it alone. *)

LEMMA Frame ==
  ASSUME [Next]_vars
  PROVE  /\ RecordStarted \/ UNCHANGED <<beganAt, landed>>
         /\ Sound \/ UNCHANGED heardBy
         /\ Start \/ (UNCHANGED <<started, now>> /\ (pc' # "down" => pc # "down"))
<1> DEFINE Framed ==
      /\ RecordStarted \/ UNCHANGED <<beganAt, landed>>
      /\ Sound \/ UNCHANGED heardBy
      /\ Start \/ (UNCHANGED <<started, now>> /\ (pc' # "down" => pc # "down"))
<1>1. Start \/ Crash \/ OtherChange \/ (\E r \in Requests : Ask(r)) => Framed
  BY DEF Start, Crash, OtherChange, Ask, Gone, store, counters, history
<1>2. Look \/ Read \/ TakeLine \/ FailPending \/ EndLook => Framed
  BY DEF Look, Read, TakeLine, FailPending, EndLook, Publish, store,
         counters, history
<1>3. RecordStarted \/ Sound \/ EndLine => Framed
  BY DEF RecordStarted, Sound, EndLine, store, counters, history
<1>4. Again \/ Settle \/ Break => Framed
  BY DEF Again, Settle, Break, Ended, Publish, Gone, store, counters, history
<1>5. UNCHANGED vars => Framed
  BY DEF vars, store, speaker, counters, history
<1> HIDE DEF Framed
<1>6. Framed
  BY <1>1, <1>2, <1>3, <1>4, <1>5, StepCases
<1> QED
  BY <1>6 DEF Framed

LEMMA ClockStep == IInv /\ [Next]_vars => ClockInv'
<1> SUFFICES ASSUME IInv, [Next]_vars PROVE ClockInv'
  OBVIOUS
<1>1. TypeOK /\ ClockInv
  BY DEF IInv
<1>2. CASE Start
  <2>1. PICK later \in {1, Stale + 1} : now' = now + later
    BY <1>2 DEF Start
  <2>2. /\ started' = now' /\ now' \in Nat /\ now' > started
        /\ UNCHANGED <<beganAt, heardBy, landed>>
    BY <1>1, <1>2, <2>1, SayAssumption DEF Start, store, TypeOK, ClockInv
  <2> QED
    BY <1>1, <2>2 DEF TypeOK, ClockInv
<1>3. CASE RecordStarted
  <2>1. current \in Requests /\ pc = "speaking"
    BY <1>1, <1>3 DEF TypeOK, RecordStarted
  <2>2. /\ UNCHANGED <<heardBy, started, now, pc>>
        /\ \/ beganAt' = [beganAt EXCEPT ![current] = started]
              /\ landed' = [landed EXCEPT ![current] = @ \cup {started}]
           \/ UNCHANGED <<beganAt, landed>>
    BY <1>3 DEF RecordStarted
  <2>3. landed' \in [Requests -> SUBSET Nat]
    <3>1. landed[current] \cup {started} \in SUBSET Nat
      BY <1>1, <2>1 DEF TypeOK, ClockInv
    <3> QED
      BY <1>1, <2>1, <2>2, <3>1 DEF ClockInv
  <2>4. \A r \in Requests : beganAt'[r] <= started
    <3>1. beganAt \in [Requests -> Nat] /\ started \in Nat
      BY <1>1 DEF TypeOK
    <3>2. \A r \in Requests :
             beganAt'[r] = beganAt[r] \/ beganAt'[r] = started
      BY <2>1, <2>2, <3>1
    <3> QED
      BY <1>1, <3>1, <3>2 DEF ClockInv
  <2> QED
    BY <1>1, <2>1, <2>2, <2>3, <2>4 DEF ClockInv
<1>4. CASE Sound
  <2>1. current \in Requests
    BY <1>1, <1>4 DEF TypeOK, Sound
  <2>2. /\ UNCHANGED <<beganAt, landed, started, now, pc>>
        /\ heardBy' = [heardBy EXCEPT ![current] = @ \cup {started}]
    BY <1>4 DEF Sound, store, counters
  <2>3. heardBy' \in [Requests -> SUBSET Nat]
    BY <1>1, <2>1, <2>2 DEF TypeOK, ClockInv
  <2>4. \A r \in Requests : \A b \in heardBy'[r] : b <= started
    BY <1>1, <2>1, <2>2 DEF TypeOK, ClockInv
  <2> QED
    BY <1>1, <2>2, <2>3, <2>4 DEF ClockInv
<1>5. ~Start /\ ~RecordStarted /\ ~Sound => ClockInv'
  BY <1>1, Frame DEF ClockInv
<1> QED
  BY <1>2, <1>3, <1>4, <1>5

LEMMA StartsStep ==
  IInv /\ [Next]_vars => OneStart' /\ NotReplayedOnceRecorded'
<1> SUFFICES ASSUME IInv, [Next]_vars
             PROVE  OneStart' /\ NotReplayedOnceRecorded'
  OBVIOUS
<1>1. TypeOK /\ ClockInv /\ OneStart /\ CurrentInv /\ NotReplayedOnceRecorded
  BY DEF IInv
<1>2. CASE RecordStarted
  <2>1. /\ current \in Requests /\ started \in Nat \ {0}
        /\ landed[current] \subseteq {started}
    BY <1>1, <1>2 DEF TypeOK, ClockInv, CurrentInv, RecordStarted
  <2>2. UNCHANGED heardBy
    BY <1>2 DEF RecordStarted
  <2>3. CASE UNCHANGED <<beganAt, landed>>
    BY <1>1, <2>2, <2>3 DEF OneStart, NotReplayedOnceRecorded
  <2>4. CASE /\ beganAt' = [beganAt EXCEPT ![current] = started]
             /\ landed' = [landed EXCEPT ![current] = @ \cup {started}]
    <3>1. /\ beganAt'[current] = started /\ landed'[current] = {started}
          /\ \A r \in Requests \ {current} :
                beganAt'[r] = beganAt[r] /\ landed'[r] = landed[r]
      BY <1>1, <2>1, <2>4 DEF TypeOK, ClockInv
    <3>2. OneStart'
      BY <1>1, <2>1, <3>1 DEF OneStart
    <3>3. \A b \in heardBy[current] : b \in Nat /\ b <= started
      BY <1>1, <2>1 DEF ClockInv
    <3>4. NotReplayedOnceRecorded'
      BY <1>1, <2>1, <2>2, <3>1, <3>3 DEF NotReplayedOnceRecorded
    <3> QED
      BY <3>2, <3>4
  <2> QED
    BY <1>2, <2>3, <2>4 DEF RecordStarted
<1>3. CASE Sound
  <2>1. /\ current \in Requests /\ started \in Nat
        /\ landed[current] \subseteq {started}
    BY <1>1, <1>3 DEF TypeOK, CurrentInv, Sound
  <2>2. UNCHANGED <<beganAt, landed>>
    BY <1>3 DEF Sound, store
  <2>3. /\ heardBy'[current] = heardBy[current] \cup {started}
        /\ \A r \in Requests \ {current} : heardBy'[r] = heardBy[r]
    BY <1>1, <1>3, <2>1 DEF ClockInv, Sound
  <2>4. \A b \in heardBy[current] : b \in Nat /\ b <= started
    BY <1>1, <2>1 DEF ClockInv
  <2>5. ASSUME NEW a \in heardBy'[current], NEW b \in heardBy'[current], a < b
        PROVE  a \notin landed[current]
    <3>1. a \in Nat /\ b \in Nat /\ b <= started
      BY <2>1, <2>3, <2>4, <2>5
    <3>2. a # started
      BY <2>1, <2>5, <3>1
    <3> QED
      BY <2>1, <3>2
  <2> QED
    BY <1>1, <2>2, <2>3, <2>5 DEF OneStart, NotReplayedOnceRecorded
<1>4. ~RecordStarted /\ ~Sound => OneStart' /\ NotReplayedOnceRecorded'
  BY <1>1, Frame DEF OneStart, NotReplayedOnceRecorded
<1> QED
  BY <1>2, <1>3, <1>4

(* Only recording an outcome settles a request. *)
LEMMA OutcomeStep ==
  IInv /\ [Next]_vars
    => CurrentInv' /\ PendingInv' /\ OneOutcome' /\ PlayedIsTrue'
<1> DEFINE Goal == CurrentInv' /\ PendingInv' /\ OneOutcome' /\ PlayedIsTrue'
<1> SUFFICES ASSUME IInv, [Next]_vars PROVE Goal
  OBVIOUS
<1>1. /\ TypeOK /\ ClockInv /\ OneStart /\ CurrentInv /\ PendingInv
      /\ OneOutcome /\ PlayedIsTrue
  BY DEF IInv
<1>2. ASSUME UNCHANGED outcome, UNCHANGED finished PROVE OneOutcome' /\ PlayedIsTrue'
  BY <1>1, <1>2 DEF OneOutcome, PlayedIsTrue
<1>3. ASSUME current' = NoRequest PROVE CurrentInv'
  BY <1>3, SayAssumption DEF CurrentInv
<1>4. ASSUME UNCHANGED <<outcome, finished, landed, started, current, line>>
      PROVE  CurrentInv'
  BY <1>1, <1>4 DEF CurrentInv
<1>5. CASE Start
  <2>1. current = NoRequest
    BY <1>1, <1>5 DEF TypeOK, Start
  <2>2. UNCHANGED <<outcome, finished, pending, current>> /\ pc = "down"
    BY <1>5 DEF Start, store
  <2> QED
    BY <1>1, <1>2, <1>3, <2>1, <2>2 DEF PendingInv
<1>6. CASE Crash
  <2>1. UNCHANGED <<outcome, finished>> /\ current' = NoRequest /\ pending' = {}
    BY <1>6 DEF Crash, Gone, store
  <2> QED
    BY <1>2, <1>3, <2>1 DEF PendingInv
<1>7. OtherChange \/ (\E r \in Requests : Ask(r)) \/ Look \/ UNCHANGED vars => Goal
  <2>1. OtherChange \/ (\E r \in Requests : Ask(r)) \/ Look \/ UNCHANGED vars
          => /\ UNCHANGED <<outcome, finished, landed, started, current, line,
                            pending>>
             /\ UNCHANGED pc \/ pc = "idle"
    BY DEF OtherChange, Ask, Look, vars, store, speaker, counters, history
  <2> QED
    BY <1>1, <1>2, <1>4, <2>1 DEF PendingInv
<1>8. CASE Read
  <2>1. UNCHANGED <<outcome, finished, landed, started, current, line>>
    BY <1>8 DEF Read, store
  <2>2. PendingInv'
    BY <1>1, <1>8, <2>1 DEF Read, PendingInv, Settled
  <2> QED
    BY <1>2, <1>4, <2>1, <2>2
<1>9. CASE TakeLine
  <2>1. /\ UNCHANGED <<outcome, finished, landed, started, beganAt>>
        /\ line' = "silent" /\ pending' = {} /\ pc = "judging"
    BY <1>9 DEF TakeLine, store, history
  <2>2. PICK r \in pending : ~MustNotPlay(r) /\ current' = r
    BY <1>9 DEF TakeLine
  <2>3. r \in Requests /\ outcome[r] = {}
    BY <1>1, PendingAsked DEF PendingInv
  <2>4. landed[r] \subseteq {started}
    <3>1. beganAt[r] \in Nat /\ started \in Nat /\ beganAt[r] <= started
      BY <1>1, <2>3 DEF TypeOK, ClockInv
    <3>2. beganAt[r] = 0 \/ beganAt[r] = started
      BY <2>2, <3>1 DEF MustNotPlay
    <3> QED
      BY <1>1, <2>3, <3>2 DEF OneStart
  <2>5. CurrentInv'
    BY <2>1, <2>2, <2>3, <2>4 DEF CurrentInv
  <2> QED
    BY <1>2, <2>1, <2>5 DEF PendingInv
<1>10. CASE FailPending
  <2>1. PICK r \in pending :
          \/ Publish(r, "failed") /\ pending' = pending \ {r}
             /\ UNCHANGED pc
          \/ pending' = {} /\ pc' = "idle" /\ UNCHANGED <<store, news>>
    BY <1>10 DEF FailPending
  <2>2. /\ UNCHANGED <<current, finished>> /\ current = NoRequest
        /\ pc = "judging"
    BY <1>1, <1>10 DEF TypeOK, FailPending
  <2>3. CASE UNCHANGED outcome /\ pending' = {}
    BY <1>2, <1>3, <2>2, <2>3 DEF PendingInv
  <2>4. CASE Publish(r, "failed") /\ pending' = pending \ {r} /\ UNCHANGED pc
    <3>1. r \in Requests /\ pending \subseteq Requests /\ outcome[r] = {}
      BY <1>1, PendingAsked DEF PendingInv
    <3>2. /\ outcome'[r] = {"failed"}
          /\ \A q \in Requests \ {r} : outcome'[q] = outcome[q]
      BY <1>1, <2>4, <3>1, Published
    <3>3. PendingInv'
      BY <1>1, <2>2, <2>4, <3>1, <3>2 DEF PendingInv
    <3>4. OneOutcome'
      BY <1>1, <3>1, <3>2 DEF OneOutcome
    <3>5. PlayedIsTrue'
      BY <1>1, <2>2, <3>1, <3>2 DEF PlayedIsTrue
    <3> QED
      BY <1>3, <2>2, <3>3, <3>4, <3>5
  <2> QED
    BY <2>1, <2>3, <2>4 DEF store
<1>11. CASE EndLook
  BY <1>1, <1>2, <1>4, <1>11 DEF EndLook, PendingInv, store, history
<1>12. CASE RecordStarted
  <2>1. /\ UNCHANGED <<outcome, finished, started, current, line, pending, pc>>
        /\ current \in Requests
        /\ UNCHANGED landed
             \/ landed' = [landed EXCEPT ![current] = @ \cup {started}]
    BY <1>1, <1>12 DEF TypeOK, RecordStarted
  <2>2. CurrentInv'
    BY <1>1, <2>1 DEF ClockInv, CurrentInv
  <2> QED
    BY <1>1, <1>2, <2>1, <2>2 DEF PendingInv
<1>13. CASE Sound
  <2>1. /\ UNCHANGED <<outcome, finished, landed, started, current, pending, pc>>
        /\ line' = "audible"
    BY <1>13 DEF Sound, store
  <2>2. CurrentInv'
    BY <1>1, <2>1 DEF CurrentInv
  <2> QED
    BY <1>1, <1>2, <2>1, <2>2 DEF PendingInv
<1>14. CASE EndLine
  <2>1. /\ UNCHANGED <<outcome, landed, started, current, pending, pc>>
        /\ finished \subseteq finished'
        /\ line' = "played" => current \in finished'
    BY <1>14 DEF EndLine, store
  <2>2. CurrentInv'
    BY <1>1, <2>1 DEF CurrentInv
  <2> QED
    BY <1>1, <2>1, <2>2 DEF PendingInv, OneOutcome, PlayedIsTrue
<1>15. CASE Again
  <2>1. /\ UNCHANGED <<outcome, finished, landed, started, current, pending, pc>>
        /\ line' = "silent"
    BY <1>15 DEF Again, store, history
  <2>2. CurrentInv'
    BY <1>1, <2>1 DEF CurrentInv
  <2> QED
    BY <1>1, <1>2, <2>1, <2>2 DEF PendingInv
<1>16. ASSUME NEW how \in {"played", "failed"}, Settle \/ Break,
              \/ Publish(current, how) /\ (how = "played" => line = "played")
              \/ UNCHANGED store
       PROVE  Goal
  <2>1. /\ current \in Requests /\ pending = {} /\ outcome[current] = {}
        /\ line = "played" => current \in finished
    BY <1>1, <1>16
    DEF TypeOK, PendingInv, CurrentInv, Settle, Break, Ended
  <2>2. current' = NoRequest /\ pending' = {} /\ UNCHANGED finished
    BY <1>16, <2>1 DEF Settle, Break, Gone, history
  <2>3. CASE Publish(current, how) /\ (how = "played" => line = "played")
    <3>1. /\ outcome'[current] = {how}
          /\ \A q \in Requests \ {current} : outcome'[q] = outcome[q]
      BY <1>1, <2>1, <2>3, Published
    <3>2. OneOutcome'
      BY <1>1, <2>1, <3>1 DEF OneOutcome
    <3>3. PlayedIsTrue'
      BY <1>1, <2>1, <2>2, <2>3, <3>1 DEF PlayedIsTrue
    <3> QED
      BY <1>3, <2>2, <3>2, <3>3 DEF PendingInv
  <2>4. CASE UNCHANGED store
    BY <1>2, <1>3, <2>2, <2>4 DEF PendingInv, store
  <2> QED
    BY <1>16, <2>3, <2>4
<1>17. CASE Settle
  BY <1>16, <1>17 DEF Settle, Ended
<1>18. CASE Break
  BY <1>16, <1>18 DEF Break
<1> HIDE DEF Goal
<1> QED
  BY <1>5, <1>6, <1>7, <1>8, <1>9, <1>10, <1>11, <1>12, <1>13, <1>14, <1>15,
     <1>17, <1>18, StepCases

-----------------------------------------------------------------------------
LEMMA Inductive == Spec => []IInv
<1>1. IInv /\ [Next]_vars => IInv'
  BY TypeStep, ClockStep, StartsStep, OutcomeStep DEF IInv
<1> QED
  BY Initially, <1>1, PTL DEF Spec

(* Every variable keeps its type. *)
THEOREM TypeCorrect == Spec => []TypeOK
<1>1. IInv => TypeOK
  BY DEF IInv
<1> QED
  BY Inductive, <1>1, PTL

(* Once a speaker recorded that it began a request, no later speaker makes *)
(* a sound of it, whatever crashed, failed or was interrupted (say_turn).  *)
THEOREM NeverReplayed == Spec => []NotReplayedOnceRecorded
<1>1. IInv => NotReplayedOnceRecorded
  BY DEF IInv
<1> QED
  BY Inductive, <1>1, PTL

(* A request has at most one outcome, and none while it is being played.   *)
THEOREM SettlesForGood == Spec => []SettledForGood
<1>1. IInv => SettledForGood
  <2> SUFFICES ASSUME IInv, NEW r \in Requests
               PROVE  /\ Cardinality(outcome[r]) <= 1
                      /\ Settled(r) => current # r
    BY DEF SettledForGood
  <2>1. outcome[r] \in {{}, {"played"}, {"failed"}}
    BY DEF IInv, OneOutcome
  <2>2. Cardinality({}) = 0
    BY FS_EmptySet
  <2>3. Cardinality({"played"}) = 1 /\ Cardinality({"failed"}) = 1
    BY FS_Singleton
  <2>4. Cardinality(outcome[r]) <= 1
    BY <2>1, <2>2, <2>3
  <2> QED
    BY <2>4 DEF IInv, CurrentInv, Settled
<1> QED
  BY Inductive, <1>1, PTL

(* Only a line whose track completed is ever recorded as played (settle).  *)
THEOREM PlayedIsTruthful == Spec => []PlayedIsTrue
<1>1. IInv => PlayedIsTrue
  BY DEF IInv
<1> QED
  BY Inductive, <1>1, PTL

-----------------------------------------------------------------------------
(* What the liveness of the queue rests on, short of fairness: a look that *)
(* has nothing to repeat found every request, and has it still to judge.   *)
LooksInv ==
    /\ storeFailures \in Nat
    /\ storeFailures = 0 /\ ~news =>
          /\ pc = "idle" => \A r \in ToSet(asked) : Settled(r)
          /\ pc = "judging" => \A r \in ToSet(asked) : Settled(r) \/ r \in pending

LEMMA LooksStep == TypeOK /\ LooksInv /\ [Next]_vars => LooksInv'
<1> SUFFICES ASSUME TypeOK, LooksInv, [Next]_vars
             PROVE  LooksInv'
  OBVIOUS
<1>1. storeFailures \in Nat /\ (storeFailures + 1 # 0)
  BY DEF LooksInv
<1>2. CASE Start \/ Crash \/ OtherChange \/ (\E r \in Requests : Ask(r)) \/ Look
  <2>1. storeFailures' = storeFailures /\ (news' \/ pc' \in {"down", "reading"})
    BY <1>2 DEF Start, Crash, Gone, OtherChange, Ask, Look, counters
  <2> QED
    BY <1>1, <2>1 DEF LooksInv
<1>3. CASE Read
  <2>1. CASE storeFailures' = storeFailures
    BY <1>1, <1>3, <2>1 DEF Read, StoreFails, LooksInv, store, Settled
  <2>2. CASE storeFailures' = storeFailures + 1
    BY <1>1, <2>2 DEF LooksInv
  <2> QED
    BY <1>3, <2>1, <2>2 DEF Read, StoreFails
<1>4. CASE FailPending
  <2>1. \/ storeFailures' = storeFailures /\ news'
        \/ storeFailures' = storeFailures + 1
    BY <1>4 DEF FailPending, Publish, StoreFails
  <2> QED
    BY <1>1, <2>1 DEF LooksInv
<1>5. CASE EndLook
  BY <1>5 DEF EndLook, LooksInv, store, counters, Settled
<1>6. CASE TakeLine \/ RecordStarted \/ Sound \/ EndLine \/ Again
  <2>1. pc' = "speaking" /\ storeFailures' \in {storeFailures, storeFailures + 1}
    <3>1. CASE TakeLine
      BY <3>1 DEF TakeLine, counters
    <3>2. CASE RecordStarted
      BY <3>2 DEF RecordStarted, StoreFails
    <3>3. CASE Sound
      BY <3>3 DEF Sound, counters
    <3>4. CASE EndLine
      BY <3>4 DEF EndLine
    <3>5. CASE Again
      BY <3>5 DEF Again, Ended, counters
    <3> QED
      BY <1>6, <3>1, <3>2, <3>3, <3>4, <3>5
  <2> QED
    BY <1>1, <2>1 DEF LooksInv
<1>7. CASE Settle \/ Break
  <2>1. /\ storeFailures' \in {storeFailures, storeFailures + 1}
        /\ news' \/ pc' = "down"
    BY <1>7 DEF Settle, Break, Publish, StoreFails, Gone
  <2> QED
    BY <1>1, <2>1 DEF LooksInv
<1>8. CASE UNCHANGED vars
  BY <1>8 DEF vars, store, speaker, counters, LooksInv, Settled
<1> QED
  BY <1>2, <1>3, <1>4, <1>5, <1>6, <1>7, <1>8, StepCases

(* Nothing asked for is overlooked: while no access to the store failed, a *)
(* speaker that is idle and sees no change of the store has settled every  *)
(* request (SayQueue::next).  So waiting for a change is safe; that it is  *)
(* not once a record failed is the finding of DiscordSayFailedLook.cfg.    *)
THEOREM IdleHasSettledAll ==
  Spec => [](pc = "idle" /\ ~news /\ storeFailures = 0
                => \A r \in ToSet(asked) : Settled(r))
<1>1. Init => LooksInv
  BY DEF Init, LooksInv
<1>2. IInv => TypeOK
  BY DEF IInv
<1>3. LooksInv => (pc = "idle" /\ ~news /\ storeFailures = 0
                      => \A r \in ToSet(asked) : Settled(r))
  BY DEF LooksInv
<1> QED
  BY Inductive, <1>1, <1>2, <1>3, LooksStep, PTL DEF Spec
=============================================================================
