------------------------ MODULE DiscordGatewayProofs ------------------------
(***************************************************************************)
(* Proofs about DiscordGateway for any number of sessions, events and      *)
(* commands, however often a connection fails, is closed or goes silent.   *)
(***************************************************************************)
EXTENDS DiscordGateway, TLAPS

-----------------------------------------------------------------------------
(* The waits. *)

LEMMA LeastIsLeast ==
  ASSUME NEW a \in Int, NEW b \in Int
  PROVE  Least(a, b) \in {a, b} /\ Least(a, b) <= a /\ Least(a, b) <= b
BY DEF Least

LEMMA MostIsMost ==
  ASSUME NEW a \in Int, NEW b \in Int
  PROVE  Most(a, b) \in {a, b} /\ Most(a, b) >= a /\ Most(a, b) >= b
BY DEF Most

LEMMA SmallPowers == \A k \in 0 .. 7 : 2 ^ k \in 1 .. 128
<1> SUFFICES ASSUME NEW k \in 0 .. 7 PROVE 2 ^ k \in 1 .. 128
  OBVIOUS
<1>1. /\ 2 ^ 0 \in 1 .. 128 /\ 2 ^ 1 \in 1 .. 128 /\ 2 ^ 2 \in 1 .. 128
      /\ 2 ^ 3 \in 1 .. 128 /\ 2 ^ 4 \in 1 .. 128 /\ 2 ^ 5 \in 1 .. 128
      /\ 2 ^ 6 \in 1 .. 128 /\ 2 ^ 7 \in 1 .. 128
  OBVIOUS
<1>2. k = 0 \/ k = 1 \/ k = 2 \/ k = 3 \/ k = 4 \/ k = 5 \/ k = 6 \/ k = 7
  OBVIOUS
<1> QED
  BY <1>1, <1>2, Zenon

LEMMA BackoffBounds == \A n \in Nat : Backoff(n) \in 0 .. 60
<1> SUFFICES ASSUME NEW n \in Nat, n # 0 PROVE Backoff(n) \in 0 .. 60
  BY DEF Backoff
<1>1. PICK k \in 0 .. 6 : k = Least(n - 1, 6)
  BY DEF Least
<1>2. k \in 0 .. 7
  OBVIOUS
<1>3. 2 ^ k \in 1 .. 128
  BY <1>2, SmallPowers, Zenon
<1>4. Least(2 ^ k, 60) \in 0 .. 60
  BY <1>3 DEF Least
<1> QED
  BY <1>1, <1>4 DEF Backoff

LEMMA SpacingBounds == \A n \in Nat : Spacing(n) \in 0 .. 600
<1> SUFFICES ASSUME NEW n \in Nat, n # 0 PROVE Spacing(n) \in 0 .. 600
  BY DEF Spacing
<1>1. PICK k \in 0 .. 7 : k = Least(n - 1, 7)
  BY DEF Least
<1>2. 2 ^ k \in 1 .. 128
  BY SmallPowers
<1>3. Least(5 * 2 ^ k, 600) \in 0 .. 600
  BY <1>2 DEF Least
<1> QED
  BY <1>1, <1>3 DEF Spacing

(* The shift stops where the cap has been reached, so stopping it there    *)
(* takes nothing from the wait.                                            *)
LEMMA SpacingDoubles ==
  ASSUME NEW n \in Nat \ {0}
  PROVE  Spacing(n) >= Least(5 * 2 ^ (n - 1), 600)
<1>1. CASE n - 1 < 7
  <2>1. Least(n - 1, 7) = n - 1
    BY <1>1 DEF Least
  <2>2. Spacing(n) = Least(5 * 2 ^ (n - 1), 600)
    BY <2>1 DEF Spacing
  <2>3. PICK x \in Nat : x = Spacing(n)
    BY SpacingBounds
  <2>4. x >= x
    OBVIOUS
  <2>5. x = Least(5 * 2 ^ (n - 1), 600)
    BY <2>2, <2>3, Zenon
  <2> QED
    BY <2>3, <2>4, <2>5, Zenon
<1>2. CASE ~ (n - 1 < 7)
  <2>1. Least(n - 1, 7) = 7
    BY <1>2 DEF Least
  <2>2. 2 ^ 7 = 128
    OBVIOUS
  <2>3. Spacing(n) = Least(5 * 128, 600)
    BY <2>1, <2>2, ZenonT(60) DEF Spacing
  <2>4. Spacing(n) = 600
    BY <2>3 DEF Least
  <2>5. PICK m \in Nat : m = n - 1
    OBVIOUS
  <2>6. 2 ^ m \in Int
    OBVIOUS
  <2>7. 5 * 2 ^ m \in Int
    BY <2>6
  <2>8. Least(5 * 2 ^ m, 600) <= 600
    BY <2>7, LeastIsLeast
  <2> QED
    BY <2>4, <2>5, <2>8
<1> QED
  BY <1>1, <1>2

-----------------------------------------------------------------------------
(* Type correctness. *)

(* How far a connection got, and what three unanswered RESUMEs lead to. *)
CountInv ==
    /\ unanswered = RESUME_ATTEMPTS => tried = "identify"
    /\ tally \in [answered : 0 .. RESUME_ATTEMPTS, cut : BOOLEAN]
    /\ phase \in {"waiting", "opening"} => reached = Nothing /\ asks = "none"
    /\ phase = "open" => reached >= Introduced

TInv == TypeOK /\ CountInv

(* How a connection may end, and what it then tells of the session. *)
Ending ==
    \E r \in {reached, IF phase = "open" THEN Most(reached, Heard) ELSE Nothing},
       forget \in BOOLEAN, nxt \in {"identify", "resume"}, pause \in {0, 1, 5},
       cut \in BOOLEAN :
      /\ phase \in {"opening", "open"}
      /\ End(r, forget, nxt, pause, cut)
      /\ optional' \in BOOLEAN
      /\ \/ forget /\ nxt = "identify" /\ told' = (epoch > 0)
         \/ ~forget /\ nxt = Again /\ told' = told

(* A close code that no reconnect helps against. *)
Stop == /\ phase' = "stopped"
        /\ UNCHANGED <<tried, main, reached, owed, wait, resumable,
                       sequence, optional, failures, unanswered, identified,
                       epoch, served, asks, cursor, alive, gone, calm,
                       historyVars>>

(* Every way a connection ends is an Ending. *)
LEMMA LoseIsEnding ==
  ASSUME TInv, phase \in {"opening", "open"}, Lose
  PROVE  Ending
<1>1. Again \in {"identify", "resume"} /\ optional \in BOOLEAN
  BY DEF Again, TInv, TypeOK
<1>2. /\ End(reached, FALSE, Again, 0, TRUE)
      /\ optional' = optional /\ told' = told
  BY DEF Lose
<1> QED
  BY <1>1, <1>2 DEF Ending

LEMMA ClosedIsEnding ==
  ASSUME TInv, phase \in {"opening", "open"}, NEW code, Closed(code)
  PROVE  Ending \/ Stop
<1> DEFINE r == IF phase = "open" THEN Most(reached, Heard) ELSE Nothing
<1>1. Again \in {"identify", "resume"} /\ optional \in BOOLEAN
  BY DEF Again, TInv, TypeOK
<1>2. ASSUME End(r, TRUE, "identify", 0, FALSE), optional' \in BOOLEAN,
             told' = (epoch > 0)
      PROVE  Ending
  BY <1>2, Zenon DEF Ending
<1>3. ASSUME End(r, FALSE, Again, 0, FALSE), optional' = optional, told' = told
      PROVE  Ending
  <2>1. optional' \in BOOLEAN
    BY <1>1, <1>3
  <2> QED
    BY <1>1, <1>3, <2>1, Zenon DEF Ending
<1>4. CASE ~Stop /\ code \in {4007, 4009}
  <2>1. End(r, TRUE, "identify", 0, FALSE)
    BY <1>4, SMTT(30) DEF Closed, End, After, Remember, historyVars, Stop
  <2>2. told' = (epoch > 0) /\ optional' \in BOOLEAN
    BY <1>1, <1>4, SMTT(30) DEF Closed, End, After, Remember, historyVars, Stop
  <2> QED
    BY <1>2, <2>1, <2>2
<1>5. CASE ~Stop /\ code \in {4004} \cup 4010 .. 4014
  <2>1. End(r, TRUE, "identify", 0, FALSE)
    BY <1>5, SMTT(30) DEF Closed, End, After, Remember, historyVars, Stop
  <2>2. told' = (epoch > 0)
    BY <1>5, SMTT(30) DEF Closed, End, After, Remember, historyVars, Stop
  <2>3. ~optional' /\ optional' = FALSE
    BY <1>5, SMTT(30) DEF Closed, End, After, Remember, historyVars, Stop
  <2>4. optional' \in BOOLEAN
    BY <2>3
  <2> QED
    BY <1>2, <2>1, <2>2, <2>4
<1>6. CASE ~Stop /\ code \notin {4004, 4007, 4009} \cup 4010 .. 4014
  <2>1. End(r, FALSE, Again, 0, FALSE)
    BY <1>6, SMTT(30) DEF Closed, End, After, Remember, historyVars, Stop
  <2>2. optional' = optional /\ told' = told
    BY <1>1, <1>6, SMTT(30) DEF Closed, End, After, Remember, historyVars, Stop
  <2> QED
    BY <1>3, <2>1, <2>2
<1> QED
  BY <1>4, <1>5, <1>6

(* What is neither an introduction nor the end of a connection, and no     *)
(* event of the session.                                                   *)
Beat ==
    /\ UNCHANGED <<phase, tried, main, wait, resumable, sequence, optional,
                   failures, unanswered, identified, epoch, asks, cursor,
                   gone, handed, told, tally, spent>>
    /\ owed' \in {"none", "asked", "aged"}
    /\ alive' \in BOOLEAN /\ calm' \in BOOLEAN
    /\ served' = served \/ (epoch > 0 /\ served' = served + 1)
    /\ served' \in 0 .. MaxEvents
    /\ \/ reached' = reached
       \/ phase = "open" /\ reached' = Most(reached, Heard)
       \/ phase = "open" /\ reached = Established /\ reached' = Lasted

(* Every step of the session is one of these. *)
LEMMA StepKinds ==
  ASSUME TInv, [Next]_vars
  PROVE  Connect \/ Introduce \/ Ready \/ Dispatch \/ Resumed \/ Ending \/ Stop \/ Beat
<1> USE DEF clientVars, gatewayVars, commandVars, historyVars
<1>1. TypeOK
  BY DEF TInv
<1>2. ASSUME UNCHANGED <<clientVars, gatewayVars, historyVars>> PROVE Beat
  BY <1>1, <1>2 DEF Beat, TypeOK
<1>3. CASE UNCHANGED vars \/ Stopped
  BY <1>2, <1>3 DEF vars, Stopped
<1>4. CASE FailToOpen \/ LoseConnection
  BY <1>4, LoseIsEnding DEF FailToOpen, LoseConnection
<1>5. CASE Tick
  <2>1. CASE Lose
    BY <1>5, <2>1, LoseIsEnding DEF Tick
  <2>2. CASE ~Lose
    BY <1>1, <1>5, <2>2 DEF Tick, Beat, TypeOK
  <2> QED
    BY <2>1, <2>2
<1>6. CASE Flush
  <2>1. phase = "open" /\ (Lose \/ UNCHANGED <<clientVars, gatewayVars, historyVars>>)
    BY <1>6 DEF Flush
  <2> QED
    BY <1>2, <2>1, LoseIsEnding
<1>7. CASE AskForBeat \/ Acknowledge
  BY <1>1, <1>7 DEF AskForBeat, Acknowledge, Hears, Beat, TypeOK
<1>8. CASE AskToReconnect
  <2>1. Again \in {"identify", "resume"} /\ optional \in BOOLEAN
    BY <1>1 DEF Again, TypeOK
  <2>2. /\ phase = "open" /\ End(Most(reached, Heard), FALSE, Again, 0, FALSE)
        /\ optional' = optional /\ told' = told
    BY <1>8 DEF AskToReconnect, Hears
  <2> QED
    BY <2>1, <2>2 DEF Ending
<1>9. CASE Invalidate
  <2>1. PICK pause \in {1, 5} : End(Most(reached, Heard), TRUE, "identify", pause, FALSE)
    BY <1>9 DEF Invalidate
  <2>2. /\ phase = "open" /\ told' = (epoch > 0) /\ optional' \in BOOLEAN
    BY <1>1, <1>9 DEF Invalidate, Hears, TypeOK
  <2> QED
    BY <2>1, <2>2 DEF Ending
<1>10. ASSUME NEW code \in Codes, Close(code) PROVE Ending \/ Stop
  BY <1>10, ClosedIsEnding DEF Close
<1>11. CASE GoSilent \/ CalmDown
  BY <1>1, <1>11 DEF GoSilent, CalmDown, Beat, TypeOK
<1>12. CASE NewEvent
  BY <1>1, <1>12, GatewayAssumption DEF NewEvent, Beat, TypeOK
<1>13. ASSUME NEW g \in Guilds, Command(g) PROVE Beat
  BY <1>2, <1>13 DEF Command
<1> QED
  BY <1>3, <1>4, <1>5, <1>6, <1>7, <1>8, <1>9, <1>10, <1>11, <1>12, <1>13 DEF Next

Results == {"identify", "resume"}

LEMMA CountBounds ==
  ASSUME TInv, NEW r \in Nothing .. Lasted
  PROVE  /\ Ignored(r) \in 0 .. RESUME_ATTEMPTS
         /\ Identified(r) \in 0 .. IdentifyCap
         /\ OneMoreFailure \in 0 .. FailureCap
<1> USE DEF Nothing, Introduced, Heard, Established, Lasted, RESUME_ATTEMPTS
<1>1. /\ unanswered \in 0 .. 3 /\ identified \in 0 .. IdentifyCap
      /\ failures \in 0 .. FailureCap /\ (unanswered = 3 => tried = "identify")
  BY DEF TInv, TypeOK, CountInv
<1>2. Ignored(r) \in 0 .. 3
  BY <1>1 DEF Ignored
<1>3. Identified(r) \in 0 .. IdentifyCap
  BY <1>1, GatewayAssumption DEF Identified, Least
<1>4. OneMoreFailure \in 0 .. FailureCap
  BY <1>1, GatewayAssumption DEF OneMoreFailure
<1> QED
  BY <1>2, <1>3, <1>4

(* What the end of a connection leaves: the counters in range, a wait for  *)
(* the next one that spaces an IDENTIFY, and a session to RESUME, if that  *)
(* is what comes next.                                                     *)
LEMMA EndStep ==
  ASSUME TInv, NEW r \in Nothing .. Lasted, NEW forget \in BOOLEAN, NEW nxt \in Results,
         NEW pause \in {0, 1, 5}, NEW cut \in BOOLEAN,
         nxt = "resume" => resumable # 0 /\ ~forget,
         End(r, forget, nxt, pause, cut)
  PROVE  /\ failures' \in 0 .. FailureCap
         /\ identified' = Identified(r)
         /\ unanswered' = IF nxt = "resume" /\ Ignored(r) >= RESUME_ATTEMPTS THEN 0
                          ELSE Ignored(r)
         /\ unanswered' = RESUME_ATTEMPTS => tried' = "identify"
         /\ tried' \in Results
         /\ tried' = "resume" => resumable' # 0
         /\ wait' \in 0 .. 600
         /\ tried' = "identify" => wait' >= Spacing(identified')
         /\ \/ UNCHANGED <<resumable, sequence>>
            \/ /\ resumable' = 0 /\ sequence' = 0
               /\ forget \/ (nxt = "resume" /\ Ignored(r) >= RESUME_ATTEMPTS)
<1> DEFINE giveUp == nxt = "resume" /\ Ignored(r) >= RESUME_ATTEMPTS
<1>1. /\ Ignored(r) \in 0 .. 3 /\ Identified(r) \in 0 .. IdentifyCap
      /\ OneMoreFailure \in 0 .. FailureCap
  BY CountBounds DEF RESUME_ATTEMPTS
<1>2. /\ failures' = IF r = Lasted THEN 0 ELSE OneMoreFailure
      /\ unanswered' = IF giveUp THEN 0 ELSE Ignored(r)
      /\ identified' = Identified(r)
      /\ tried' = IF giveUp THEN "identify" ELSE nxt
      /\ wait' = Most(Most(pause, Backoff(failures')),
                      IF tried' = "identify" THEN Spacing(identified') ELSE 0)
      /\ IF forget \/ giveUp THEN resumable' = 0 /\ sequence' = 0
                             ELSE UNCHANGED <<resumable, sequence>>
  BY DEF End, After
<1>3. failures' \in 0 .. FailureCap /\ identified' \in 0 .. IdentifyCap
  BY <1>1, <1>2, GatewayAssumption
<1>10. failures' \in Nat /\ identified' \in Nat
  BY <1>3, GatewayAssumption
<1>11. Backoff(failures') \in 0 .. 60 /\ Spacing(identified') \in 0 .. 600
  BY <1>10, BackoffBounds, SpacingBounds, Zenon
<1>4. PICK b \in 0 .. 60, s \in 0 .. 600 : b = Backoff(failures') /\ s = Spacing(identified')
  BY <1>11
<1>5. wait' = Most(Most(pause, b), IF tried' = "identify" THEN s ELSE 0)
  BY <1>2, <1>4
<1>6. wait' \in 0 .. 600 /\ (tried' = "identify" => wait' >= s)
  BY <1>5 DEF Most
<1>7. /\ tried' \in Results
      /\ tried' = "resume" => resumable' # 0
  BY <1>2 DEF Results
<1>8. unanswered' = RESUME_ATTEMPTS => tried' = "identify"
  BY <1>1, <1>2 DEF RESUME_ATTEMPTS, Results
<1>9. \/ UNCHANGED <<resumable, sequence>>
      \/ resumable' = 0 /\ sequence' = 0 /\ (forget \/ giveUp)
  BY <1>2
<1> QED
  BY <1>2, <1>3, <1>4, <1>6, <1>7, <1>8, <1>9

LEMMA EndedHistory ==
  ASSUME TInv, NEW r \in Nothing .. Lasted, NEW forget, NEW nxt, NEW pause,
         NEW cut \in BOOLEAN, End(r, forget, nxt, pause, cut)
  PROVE  /\ spent' = IF r = Lasted THEN 0 ELSE spent
         /\ tally' \in [answered : 0 .. RESUME_ATTEMPTS, cut : BOOLEAN]
         /\ tally'.answered =
               IF r >= Established THEN 0
               ELSE IF r = Heard /\ asks \in {"resume", "replaying"}
               THEN Least(tally.answered + 1, RESUME_ATTEMPTS)
               ELSE tally.answered
<1>1. tally \in [answered : 0 .. RESUME_ATTEMPTS, cut : BOOLEAN]
  BY DEF TInv, CountInv
<1>2. Least(tally.answered + 1, RESUME_ATTEMPTS) \in 0 .. RESUME_ATTEMPTS
  BY <1>1 DEF Least, RESUME_ATTEMPTS
<1>3. /\ spent' = IF r = Lasted THEN 0 ELSE spent
      /\ tally' = IF r >= Established THEN NoTally
                  ELSE IF r = Heard /\ asks \in {"resume", "replaying"}
                  THEN [answered |-> Least(tally.answered + 1, RESUME_ATTEMPTS),
                        cut |-> /\ tally.answered = 0 \/ tally.cut
                                /\ cut /\ asks = "replaying"]
                  ELSE tally
  BY DEF End, Remember
<1>4. PICK c \in BOOLEAN : c = (/\ tally.answered = 0 \/ tally.cut
                                /\ cut /\ asks = "replaying")
  OBVIOUS
<1>5. tally' = IF r >= Established THEN NoTally
               ELSE IF r = Heard /\ asks \in {"resume", "replaying"}
               THEN [answered |-> Least(tally.answered + 1, RESUME_ATTEMPTS), cut |-> c]
               ELSE tally
  BY <1>3, <1>4
<1> QED
  BY <1>1, <1>2, <1>3, <1>5 DEF NoTally, RESUME_ATTEMPTS

(* What an Ending is, for the lemmas about the end of a connection. *)
LEMMA EndingEnds ==
  ASSUME TInv, Ending
  PROVE  /\ phase \in {"opening", "open"}
         /\ optional' \in BOOLEAN
         /\ \E r \in Nothing .. Lasted, forget \in BOOLEAN, nxt \in Results,
               pause \in {0, 1, 5}, cut \in BOOLEAN :
              /\ End(r, forget, nxt, pause, cut)
              /\ r = reached \/ (phase = "open" /\ r = Most(reached, Heard))
                 \/ (phase = "opening" /\ r = Nothing)
              /\ nxt = "resume" => resumable # 0 /\ ~forget
              /\ IF forget THEN told' = (epoch > 0) ELSE told' = told
<1>1. PICK r \in {reached, IF phase = "open" THEN Most(reached, Heard) ELSE Nothing},
           forget \in BOOLEAN, nxt \in {"identify", "resume"}, pause \in {0, 1, 5},
           cut \in BOOLEAN :
        /\ phase \in {"opening", "open"}
        /\ End(r, forget, nxt, pause, cut)
        /\ optional' \in BOOLEAN
        /\ \/ forget /\ nxt = "identify" /\ told' = (epoch > 0)
           \/ ~forget /\ nxt = Again /\ told' = told
  BY DEF Ending
<1>2. reached \in Nothing .. Lasted /\ Most(reached, Heard) \in Nothing .. Lasted
      /\ Nothing \in Nothing .. Lasted
  BY DEF TInv, TypeOK, Nothing, Lasted, Heard, Most
<1>3. /\ r \in Nothing .. Lasted
      /\ r = reached \/ (phase = "open" /\ r = Most(reached, Heard))
         \/ (phase = "opening" /\ r = Nothing)
  BY <1>1, <1>2
<1>4. nxt = "resume" => resumable # 0 /\ ~forget
  BY <1>1 DEF Again
<1>5. nxt \in Results
  BY <1>1 DEF Results
<1>6. IF forget THEN told' = (epoch > 0) ELSE told' = told
  BY <1>1
<1> QED
  BY <1>1, <1>3, <1>4, <1>5, <1>6

LEMMA EndingType == ASSUME TInv, Ending PROVE TInv'
<1>1. /\ phase \in {"opening", "open"} /\ optional' \in BOOLEAN
  BY EndingEnds
<1>2. PICK r \in Nothing .. Lasted, forget \in BOOLEAN, nxt \in Results,
           pause \in {0, 1, 5}, cut \in BOOLEAN :
        /\ End(r, forget, nxt, pause, cut)
        /\ r = reached \/ (phase = "open" /\ r = Most(reached, Heard))
           \/ (phase = "opening" /\ r = Nothing)
        /\ nxt = "resume" => resumable # 0 /\ ~forget
        /\ IF forget THEN told' = (epoch > 0) ELSE told' = told
  BY EndingEnds
<1>3. End(r, forget, nxt, pause, cut)
  BY <1>2
<1>4. /\ Ignored(r) \in 0 .. RESUME_ATTEMPTS /\ Identified(r) \in 0 .. IdentifyCap
  BY CountBounds
<1>5. /\ failures' \in 0 .. FailureCap
      /\ identified' = Identified(r)
      /\ unanswered' = IF nxt = "resume" /\ Ignored(r) >= RESUME_ATTEMPTS THEN 0
                       ELSE Ignored(r)
      /\ unanswered' = RESUME_ATTEMPTS => tried' = "identify"
      /\ tried' \in Results
      /\ tried' = "resume" => resumable' # 0
      /\ wait' \in 0 .. 600
      /\ \/ UNCHANGED <<resumable, sequence>>
         \/ resumable' = 0 /\ sequence' = 0
  <2>1. /\ failures' \in 0 .. FailureCap
        /\ identified' = Identified(r)
        /\ unanswered' = IF nxt = "resume" /\ Ignored(r) >= RESUME_ATTEMPTS THEN 0
                         ELSE Ignored(r)
        /\ unanswered' = RESUME_ATTEMPTS => tried' = "identify"
        /\ tried' \in Results
        /\ tried' = "resume" => resumable' # 0
        /\ wait' \in 0 .. 600
        /\ tried' = "identify" => wait' >= Spacing(identified')
        /\ \/ UNCHANGED <<resumable, sequence>>
           \/ /\ resumable' = 0 /\ sequence' = 0
              /\ forget \/ (nxt = "resume" /\ Ignored(r) >= RESUME_ATTEMPTS)
    BY <1>2, <1>3, EndStep
  <2> QED
    BY <2>1, Zenon
<1>6. /\ spent' = IF r = Lasted THEN 0 ELSE spent
      /\ tally' \in [answered : 0 .. RESUME_ATTEMPTS, cut : BOOLEAN]
  BY <1>3, EndedHistory
<1>7. /\ phase' = "waiting"
      /\ reached' = Nothing /\ owed' = "none"
      /\ asks' = "none" /\ alive' = FALSE /\ cursor' = 0
      /\ UNCHANGED <<main, epoch, served, gone, calm, handed>>
  BY <1>3 DEF End
<1>8. identified' \in 0 .. IdentifyCap /\ unanswered' \in 0 .. RESUME_ATTEMPTS
  BY <1>4, <1>5 DEF RESUME_ATTEMPTS
<1>9. resumable' \in 0 .. MaxSessions /\ sequence' \in 0 .. MaxEvents
  <2>1. resumable \in 0 .. MaxSessions /\ sequence \in 0 .. MaxEvents
    BY DEF TInv, TypeOK
  <2>2. 0 \in 0 .. MaxSessions /\ 0 \in 0 .. MaxEvents
    BY GatewayAssumption
  <2>3. \/ resumable' = resumable /\ sequence' = sequence
        \/ resumable' = 0 /\ sequence' = 0
    BY <1>5
  <2> QED
    BY <2>1, <2>2, <2>3
<1>10. told' \in BOOLEAN
  <2>1. told \in BOOLEAN
    BY DEF TInv, TypeOK
  <2>2. CASE forget
    <3>1. told' = (epoch > 0)
      BY <1>2, <2>2
    <3> QED
      BY <3>1
  <2>3. CASE ~forget
    <3>1. told' = told
      BY <1>2, <2>3
    <3> QED
      BY <2>1, <3>1
  <2> QED
    BY <2>2, <2>3
<1>11. spent' \in 0 .. IdentifyCap
  BY <1>6, GatewayAssumption DEF TInv, TypeOK
<1>12. TypeOK'
  <2>1. /\ main' \in BOOLEAN /\ gone' \in BOOLEAN /\ calm' \in BOOLEAN
        /\ epoch' \in 0 .. MaxSessions /\ served' \in 0 .. MaxEvents
        /\ reached' \in Nothing .. Lasted /\ cursor' \in 0 .. MaxEvents
        /\ alive' \in BOOLEAN
    <3>1. /\ main \in BOOLEAN /\ gone \in BOOLEAN /\ calm \in BOOLEAN
          /\ epoch \in 0 .. MaxSessions /\ served \in 0 .. MaxEvents
      BY DEF TInv, TypeOK
    <3>2. Nothing \in Nothing .. Lasted /\ 0 \in 0 .. MaxEvents
      BY GatewayAssumption DEF Nothing, Lasted
    <3>3. /\ main' = main /\ gone' = gone /\ calm' = calm /\ epoch' = epoch
          /\ served' = served /\ alive' = FALSE
      BY <1>7
    <3>4. alive' \in BOOLEAN
      BY <3>3
    <3> QED
      BY <1>7, <3>1, <3>2, <3>3, <3>4, Zenon
  <2> QED
    BY <1>1, <1>5, <1>7, <1>8, <1>9, <1>10, <1>11, <2>1, Zenon DEF TypeOK, Results
<1>13. CountInv'
  BY <1>5, <1>6, <1>7 DEF CountInv
<1> QED
  BY <1>12, <1>13 DEF TInv

LEMMA TypeStep == ASSUME TInv, [Next]_vars PROVE TInv'
<1> USE DEF clientVars, gatewayVars, commandVars, historyVars
<1>1. TypeOK /\ CountInv
  BY DEF TInv
<1>2. CASE Connect
  BY <1>1, <1>2 DEF Connect, TInv, TypeOK, CountInv
<1>3. CASE Introduce
  <2>1. spent' \in 0 .. IdentifyCap
    BY <1>1, <1>3, GatewayAssumption DEF Introduce, TypeOK, Least
  <2>2. /\ phase' = "open" /\ reached' = Introduced /\ alive' = TRUE
        /\ asks' \in {"resume", "identify"} /\ cursor' \in 0 .. MaxEvents
        /\ UNCHANGED <<tried, main, owed, wait, resumable, sequence, optional,
                       failures, unanswered, identified, epoch, served, gone,
                       calm, told, tally>>
    BY <1>1, <1>3, GatewayAssumption DEF Introduce, TypeOK
  <2>3. Introduced \in Nothing .. Lasted /\ Introduced >= Introduced
    BY DEF Introduced, Nothing, Lasted
  <2>4. TypeOK'
    BY <1>1, <2>1, <2>2, <2>3 DEF TypeOK
  <2>5. CountInv'
    BY <1>1, <2>2, <2>3 DEF CountInv
  <2> QED
    BY <2>4, <2>5 DEF TInv
<1>4. CASE Ready \/ Dispatch \/ Resumed
  <2>1. /\ phase = "open" /\ epoch' \in 0 .. MaxSessions /\ served' \in 0 .. MaxEvents
        /\ cursor' \in 0 .. MaxEvents /\ sequence' \in 0 .. MaxEvents
        /\ asks' \in {"identify", "resume", "replaying", "accepted"}
        /\ told' \in BOOLEAN
        /\ resumable' \in 0 .. MaxSessions
        /\ tried' = "resume" => resumable' # 0
    <3>1. /\ epoch \in 0 .. MaxSessions /\ served \in 0 .. MaxEvents
          /\ cursor \in 0 .. MaxEvents /\ sequence \in 0 .. MaxEvents
          /\ told \in BOOLEAN /\ resumable \in 0 .. MaxSessions
          /\ tried = "resume" => resumable # 0
          /\ MaxEvents \in Nat \ {0} /\ MaxSessions \in Nat
      BY <1>1, GatewayAssumption DEF TypeOK
    <3>2. CASE Ready
      <4>1. /\ phase = "open" /\ epoch < MaxSessions /\ epoch' = epoch + 1
            /\ served' = 1 /\ asks' = "accepted" /\ cursor' = 1 /\ told' = FALSE
            /\ resumable' = epoch' /\ sequence' = 1
        BY <3>2 DEF Ready, Hears, Observe
      <4>2. told' \in BOOLEAN
        BY <4>1
      <4> QED
        BY <3>1, <4>1, <4>2
    <3>3. CASE Dispatch
      <4>1. /\ phase = "open" /\ cursor < served /\ cursor' = cursor + 1
            /\ asks' \in {"replaying", "accepted"} /\ sequence' = cursor'
            /\ UNCHANGED <<epoch, served, told, resumable, tried>>
        BY <3>3 DEF Dispatch, Hears, Observe
      <4> QED
        BY <3>1, <4>1
    <3>4. CASE Resumed
      <4>1. /\ phase = "open" /\ asks' = "accepted"
            /\ UNCHANGED <<epoch, served, told, resumable, tried, cursor, sequence>>
        BY <3>4 DEF Resumed, Hears, historyVars
      <4> QED
        BY <3>1, <4>1
    <3> QED
      BY <1>4, <3>2, <3>3, <3>4
  <2>2. reached' \in {Most(reached, Established), Most(reached, Heard)}
    BY <1>4 DEF Ready, Dispatch, Resumed, Observe
  <2>3. reached' \in Nothing .. Lasted /\ reached' >= Introduced
    BY <1>1, <2>1, <2>2 DEF TypeOK, CountInv, Most, Nothing, Introduced, Heard, Established, Lasted
  <2>4. UNCHANGED <<phase, tried, main, owed, wait, optional, failures, unanswered,
                    identified, alive, gone, calm, tally, spent>>
    BY <1>4 DEF Ready, Dispatch, Resumed, Observe
  <2>5. TypeOK'
    BY <1>1, <2>1, <2>3, <2>4 DEF TypeOK
  <2>6. CountInv'
    BY <1>1, <2>1, <2>3, <2>4 DEF CountInv
  <2> QED
    BY <2>5, <2>6 DEF TInv
<1>5. CASE Stop
  BY <1>1, <1>5 DEF Stop, TInv, TypeOK, CountInv
<1>6. CASE Beat
  <2>1. /\ reached' \in Nothing .. Lasted
        /\ reached' = reached \/ (phase = "open" /\ reached' >= Introduced)
    BY <1>1, <1>6 DEF Beat, TypeOK, CountInv, Most, Nothing, Introduced, Heard, Established, Lasted
  <2>2. /\ UNCHANGED <<phase, tried, main, wait, resumable, sequence, optional,
                       failures, unanswered, identified, epoch, asks, cursor,
                       gone, told, tally, spent>>
        /\ owed' \in {"none", "asked", "aged"}
        /\ alive' \in BOOLEAN /\ calm' \in BOOLEAN /\ served' \in 0 .. MaxEvents
    BY <1>6 DEF Beat
  <2>3. TypeOK'
    BY <1>1, <2>1, <2>2 DEF TypeOK
  <2>4. CountInv'
    BY <1>1, <2>1, <2>2 DEF CountInv
  <2> QED
    BY <2>3, <2>4 DEF TInv
<1> QED
  BY <1>2, <1>3, <1>4, <1>5, <1>6, EndingType, StepKinds

LEMMA TypeInit == Init => TInv
<1> SUFFICES ASSUME Init PROVE TInv
  OBVIOUS
<1>1. CountInv
  <2>1. NoTally \in [answered : 0 .. RESUME_ATTEMPTS, cut : BOOLEAN]
    BY DEF NoTally, RESUME_ATTEMPTS
  <2> QED
    BY <2>1 DEF Init, CountInv, RESUME_ATTEMPTS
<1>2. TypeOK
  <2>1. /\ main = TRUE /\ alive = FALSE /\ calm = FALSE /\ told = FALSE
        /\ optional \in BOOLEAN /\ gone \in BOOLEAN
    BY DEF Init
  <2>2. /\ main \in BOOLEAN /\ alive \in BOOLEAN /\ calm \in BOOLEAN
        /\ told \in BOOLEAN
    BY <2>1
  <2>3. /\ phase = "waiting" /\ tried = "identify" /\ reached = 0 /\ owed = "none"
        /\ wait = 0 /\ resumable = 0 /\ sequence = 0 /\ failures = 0
        /\ unanswered = 0 /\ identified = 0 /\ epoch = 0 /\ served = 0
        /\ asks = "none" /\ cursor = 0 /\ spent = 0
    BY DEF Init, Nothing
  <2>4. /\ 0 \in 0 .. MaxSessions /\ 0 \in 0 .. MaxEvents /\ 0 \in 0 .. FailureCap
        /\ 0 \in 0 .. IdentifyCap /\ 0 \in 0 .. RESUME_ATTEMPTS /\ 0 \in 0 .. 600
        /\ 0 \in Nothing .. Lasted
    BY GatewayAssumption DEF Nothing, Lasted, RESUME_ATTEMPTS
  <2> QED
    BY <2>1, <2>2, <2>3, <2>4, Zenon DEF TypeOK
<1> QED
  BY <1>1, <1>2 DEF TInv

LEMMA SpecTInv == Spec => []TInv
BY TypeInit, TypeStep, PTL DEF Spec

(* Every variable of the session task and of the gateway keeps the range   *)
(* the code gives it, and a connection is only introduced with RESUME when *)
(* there is a session to resume (SessionState, Retry).                     *)
THEOREM TypeCorrect == Spec => []TypeOK
<1>1. TInv => TypeOK
  BY DEF TInv
<1> QED
  BY <1>1, SpecTInv, PTL

-----------------------------------------------------------------------------
(* The events of a session. *)

(* What was handed on is the session from its start to the number kept, a  *)
(* session not yet started has nothing, and a connection that goes on with *)
(* a session has been sent exactly what was handed on.  EventsInOrder      *)
(* alone is not inductive: nothing in it ties the number a RESUME carries, *)
(* or the gateway's place in the session, to what was handed on.           *)
EventInv ==
    /\ handed \in [1 .. MaxSessions -> Seq(Nat)]
    /\ \A e \in 1 .. MaxSessions :
          /\ \A i \in 1 .. Len(handed[e]) : handed[e][i] = i
          /\ e > epoch => handed[e] = <<>>
    /\ resumable # 0 => resumable = epoch /\ sequence = Len(handed[epoch])
    /\ asks \in {"resume", "replaying", "accepted"}
          => resumable # 0 /\ cursor = sequence

(* One more event, the next in number, leaves a session in order. *)
LEMMA NextInOrder ==
  ASSUME NEW q \in Seq(Nat), \A i \in 1 .. Len(q) : q[i] = i
  PROVE  /\ Append(q, Len(q) + 1) \in Seq(Nat)
         /\ Len(Append(q, Len(q) + 1)) = Len(q) + 1
         /\ \A i \in 1 .. Len(q) + 1 : Append(q, Len(q) + 1)[i] = i
<1>1. PICK n \in Nat : n = Len(q)
  OBVIOUS
<1>2. Append(q, n + 1) \in Seq(Nat) /\ Len(Append(q, n + 1)) = n + 1
  BY <1>1
<1>3. ASSUME NEW i \in 1 .. n + 1 PROVE Append(q, n + 1)[i] = i
  <2>1. CASE i = n + 1
    BY <1>1, <2>1
  <2>2. CASE i # n + 1
    <3>1. i \in 1 .. Len(q)
      BY <1>1, <2>2
    <3> QED
      BY <3>1
  <2> QED
    BY <2>1, <2>2
<1> QED
  BY <1>1, <1>2, <1>3

LEMMA HandedOn ==
  ASSUME TInv, EventInv, NEW e \in 1 .. MaxSessions, e = epoch', epoch' >= epoch,
         epoch' \in Nat,
         handed' = [handed EXCEPT ![e] = Append(@, Len(handed[e]) + 1)],
         resumable' = e, sequence' = Len(handed[e]) + 1, cursor' = sequence'
  PROVE  EventInv'
<1>1. /\ handed \in [1 .. MaxSessions -> Seq(Nat)]
      /\ \A f \in 1 .. MaxSessions : \A i \in 1 .. Len(handed[f]) : handed[f][i] = i
      /\ \A f \in 1 .. MaxSessions : f > epoch => handed[f] = <<>>
  BY DEF EventInv
<1>2. PICK s : s = Append(handed[e], Len(handed[e]) + 1)
  OBVIOUS
<1>3. /\ s \in Seq(Nat) /\ Len(s) = Len(handed[e]) + 1
      /\ \A i \in 1 .. Len(s) : s[i] = i
  <2>1. handed[e] \in Seq(Nat) /\ \A i \in 1 .. Len(handed[e]) : handed[e][i] = i
    BY <1>1
  <2> QED
    BY <1>2, <2>1, NextInOrder
<1>4. handed' = [handed EXCEPT ![e] = s]
  BY <1>1, <1>2
<1>5. /\ handed' \in [1 .. MaxSessions -> Seq(Nat)]
      /\ handed'[e] = s
      /\ \A f \in 1 .. MaxSessions : f # e => handed'[f] = handed[f]
  BY <1>1, <1>3, <1>4
<1>6. ASSUME NEW f \in 1 .. MaxSessions
      PROVE  /\ \A i \in 1 .. Len(handed'[f]) : handed'[f][i] = i
             /\ f > epoch' => handed'[f] = <<>>
  <2>1. CASE f = e
    <3>1. ~ (f > epoch')
      BY <2>1
    <3>2. handed'[f] = s
      BY <1>5, <2>1
    <3> QED
      BY <1>3, <3>1, <3>2
  <2>2. CASE f # e
    <3>1. handed'[f] = handed[f]
      BY <1>5, <2>2
    <3>2. epoch \in Nat
      BY GatewayAssumption DEF TInv, TypeOK
    <3>3. f > epoch' => f > epoch
      BY <3>2
    <3> QED
      BY <1>1, <3>1, <3>3
  <2> QED
    BY <2>1, <2>2
<1>7. resumable' = epoch' /\ sequence' = Len(handed'[epoch']) /\ resumable' # 0
      /\ cursor' = sequence'
  BY <1>3, <1>5
<1> QED
  BY <1>5, <1>6, <1>7 DEF EventInv

LEMMA EventKept ==
  ASSUME EventInv, UNCHANGED <<handed, epoch, resumable, sequence>>,
         asks' \in {"resume", "replaying", "accepted"}
             => resumable # 0 /\ cursor' = sequence
  PROVE  EventInv'
BY DEF EventInv

LEMMA EventStep ==
  ASSUME TInv, EventInv, [Next]_vars
  PROVE  EventInv'
<1> USE DEF clientVars, gatewayVars, commandVars, historyVars
<1>1. /\ epoch \in 0 .. MaxSessions /\ MaxSessions \in Nat \ {0}
      /\ tried = "resume" => resumable # 0
  BY GatewayAssumption DEF TInv, TypeOK
<1>2. /\ handed \in [1 .. MaxSessions -> Seq(Nat)]
      /\ resumable # 0 => resumable = epoch /\ sequence = Len(handed[epoch])
      /\ asks \in {"resume", "replaying", "accepted"}
            => resumable # 0 /\ cursor = sequence
  BY DEF EventInv
<1>3. CASE Connect \/ Stop \/ Beat
  <2>1. UNCHANGED <<handed, epoch, resumable, sequence, asks, cursor>>
    BY <1>3 DEF Connect, Stop, Beat
  <2> QED
    BY <1>2, <2>1, EventKept
<1>4. CASE Introduce
  <2>1. /\ UNCHANGED <<handed, epoch, resumable, sequence>>
        /\ \/ asks' = "resume" /\ cursor' = sequence /\ resumable # 0
           \/ asks' = "identify"
    BY <1>4 DEF Introduce
  <2> QED
    BY <2>1, EventKept
<1>5. CASE Resumed
  <2>1. UNCHANGED <<handed, epoch, resumable, sequence, cursor>>
        /\ asks \in {"resume", "replaying"}
    BY <1>5 DEF Resumed
  <2> QED
    BY <1>2, <2>1, EventKept
<1>6. CASE Ready
  <2>1. PICK e : e = epoch + 1
    OBVIOUS
  <2>2. epoch < MaxSessions /\ epoch' = epoch + 1
    BY <1>6 DEF Ready
  <2>3. e \in 1 .. MaxSessions /\ e = epoch' /\ epoch' >= epoch /\ epoch' \in Nat /\ e > epoch
    BY <1>1, <2>1, <2>2
  <2>4. handed[e] = <<>>
    BY <2>3 DEF EventInv
  <2>5. Len(handed[e]) + 1 = 1
    BY <2>4
  <2>6. /\ handed' = [handed EXCEPT ![e] = Append(@, 1)]
        /\ resumable' = e /\ sequence' = 1 /\ cursor' = 1
    BY <1>6, <2>3 DEF Ready, Observe
  <2> QED
    BY <2>3, <2>5, <2>6, HandedOn
<1>7. CASE Dispatch
  <2>1. /\ resumable # 0 /\ cursor = sequence /\ resumable = epoch
        /\ sequence = Len(handed[epoch])
    BY <1>2, <1>7 DEF Dispatch
  <2>2. /\ handed' = [handed EXCEPT ![epoch] = Append(@, Len(handed[epoch]) + 1)]
        /\ epoch' = epoch /\ resumable' = resumable
        /\ sequence' = Len(handed[epoch]) + 1 /\ cursor' = sequence'
    BY <1>7, <2>1 DEF Dispatch, Observe
  <2>3. epoch \in 1 .. MaxSessions /\ epoch \in Nat
    BY <1>1, <2>1
  <2>4. PICK e \in 1 .. MaxSessions : e = epoch
    BY <2>3
  <2>5. e = epoch' /\ epoch' >= epoch /\ epoch' \in Nat
    BY <2>2, <2>3, <2>4
  <2>6. /\ handed' = [handed EXCEPT ![e] = Append(@, Len(handed[e]) + 1)]
        /\ resumable' = e /\ sequence' = Len(handed[e]) + 1
    BY <2>1, <2>2, <2>4
  <2> QED
    BY <2>2, <2>5, <2>6, HandedOn
<1>8. CASE Ending
  <2>1. PICK r \in Nothing .. Lasted, forget \in BOOLEAN, nxt \in Results,
             pause \in {0, 1, 5}, cut \in BOOLEAN :
          /\ End(r, forget, nxt, pause, cut)
          /\ nxt = "resume" => resumable # 0 /\ ~forget
    BY <1>8, EndingEnds
  <2>2. asks' = "none" /\ UNCHANGED <<handed, epoch>>
    BY <2>1 DEF End
  <2>3. \/ UNCHANGED <<resumable, sequence>>
        \/ resumable' = 0 /\ sequence' = 0
    BY <2>1 DEF End, After
  <2>4. CASE UNCHANGED <<resumable, sequence>>
    BY <2>2, <2>4, EventKept
  <2>5. CASE resumable' = 0
    BY <2>2, <2>5 DEF EventInv
  <2> QED
    BY <2>3, <2>4, <2>5
<1> QED
  BY <1>3, <1>4, <1>5, <1>6, <1>7, <1>8, StepKinds

LEMMA EventInit == Init => EventInv
<1> SUFFICES ASSUME Init PROVE EventInv
  OBVIOUS
<1>1. /\ handed = [e \in 1 .. MaxSessions |-> <<>>] /\ resumable = 0
      /\ asks = "none"
  BY DEF Init
<1>2. /\ handed \in [1 .. MaxSessions -> Seq(Nat)]
      /\ \A e \in 1 .. MaxSessions : handed[e] = <<>>
  BY <1>1
<1>3. \A i \in 1 .. Len(<<>>) : <<>>[i] = i
  OBVIOUS
<1> QED
  BY <1>1, <1>2, <1>3 DEF EventInv

(* The events of every session are handed on in order, each once and       *)
(* without a gap, however many connections are lost in between: RESUME     *)
(* carries the number of the last event observed (SessionState.sequence,   *)
(* introduction).                                                          *)
THEOREM EventsStayInOrder == Spec => []EventsInOrder
<1>1. TInv /\ EventInv /\ [Next]_vars => EventInv'
  BY EventStep
<1>2. EventInv => EventsInOrder
  BY DEF EventInv, EventsInOrder
<1> QED
  BY <1>1, <1>2, EventInit, SpecTInv, PTL DEF Spec

(* A connection that asks to go on with a session goes on with the newest  *)
(* one, from the last event handed on: the gateway sends none twice, and   *)
(* when it has sent what the session has, all of it was handed on          *)
(* (introduction, the `seq` of RESUME; SessionState::observe).             *)
THEOREM ResumesWhereItStopped ==
  Spec => [](asks \in {"resume", "replaying", "accepted"}
               => resumable = epoch /\ cursor = Len(handed[epoch]))
<1>1. TInv /\ EventInv /\ [Next]_vars => EventInv'
  BY EventStep
<1>2. EventInv => (asks \in {"resume", "replaying", "accepted"}
                     => resumable = epoch /\ cursor = Len(handed[epoch]))
  BY DEF EventInv
<1> QED
  BY <1>1, <1>2, EventInit, SpecTInv, PTL DEF Spec

-----------------------------------------------------------------------------
(* No session is given up in a network that is gone. *)

(* While a session is kept, the RESUMEs the client counts as ignored are   *)
(* the ones the gateway answered and did not accept.                       *)
TallyInv ==
    /\ asks = "accepted" <=> reached >= Established
    /\ phase = "open" => \/ tried = "identify" /\ asks \in {"identify", "accepted"}
                         \/ /\ tried = "resume"
                            /\ asks \in {"resume", "replaying", "accepted"}
    /\ resumable # 0 /\ reached < Established => tally.answered = unanswered
    /\ KeptUnlessTold

(* Both sides count the end of a connection alike. *)
LEMMA CountsAgree ==
  ASSUME TInv, EventInv, TallyInv, phase \in {"opening", "open"},
         NEW r \in Nothing .. Lasted, NEW forget \in BOOLEAN, NEW nxt \in Results,
         NEW pause \in {0, 1, 5}, NEW cut \in BOOLEAN,
         End(r, forget, nxt, pause, cut),
         \/ r = reached
         \/ phase = "open" /\ r = Most(reached, Heard)
         \/ phase = "opening" /\ r = Nothing
  PROVE  /\ resumable # 0 => tally'.answered = Ignored(r)
         /\ resumable = 0 => tally'.answered = tally.answered
<1> USE DEF Nothing, Introduced, Heard, Established, Lasted, RESUME_ATTEMPTS
<1>1. /\ tally'.answered =
               IF r >= Established THEN 0
               ELSE IF r = Heard /\ asks \in {"resume", "replaying"}
               THEN Least(tally.answered + 1, RESUME_ATTEMPTS)
               ELSE tally.answered
  BY EndedHistory
<1>2. /\ tried \in {"identify", "resume"} /\ unanswered \in 0 .. 3
      /\ unanswered = 3 => tried = "identify"
      /\ reached \in 0 .. 4
      /\ phase = "opening" => reached = 0
  BY DEF TInv, TypeOK, CountInv
<1>3. /\ asks = "accepted" <=> reached >= 3
      /\ phase = "open" => \/ tried = "identify" /\ asks \in {"identify", "accepted"}
                           \/ /\ tried = "resume"
                              /\ asks \in {"resume", "replaying", "accepted"}
      /\ resumable # 0 /\ reached < 3 => tally.answered = unanswered
      /\ asks \in {"resume", "replaying", "accepted"} => resumable # 0
  BY DEF TallyInv, EventInv
<1>4. /\ r >= 3 <=> reached >= 3
      /\ r = 2 => phase = "open"
  BY <1>2 DEF Most
<1>5. CASE r >= 3
  BY <1>1, <1>3, <1>4, <1>5 DEF Ignored
<1>6. CASE r < 3 /\ resumable # 0
  <2>1. tally.answered = unanswered
    BY <1>2, <1>3, <1>4, <1>6
  <2>2. r = 2 => (tried = "resume" <=> asks \in {"resume", "replaying"})
    BY <1>2, <1>3, <1>4, <1>6
  <2>3. CASE r = 2 /\ tried = "resume"
    <3>1. tally'.answered = Least(unanswered + 1, 3)
      BY <1>1, <2>1, <2>2, <2>3
    <3>2. Ignored(r) = unanswered + 1
      BY <2>3 DEF Ignored
    <3>3. Least(unanswered + 1, 3) = unanswered + 1
      BY <1>2, <2>3 DEF Least
    <3> QED
      BY <1>6, <3>1, <3>2, <3>3
  <2>4. CASE ~ (r = 2 /\ tried = "resume")
    <3>1. tally'.answered = unanswered
      BY <1>1, <1>6, <2>1, <2>2, <2>4
    <3>2. Ignored(r) = unanswered
      BY <1>6, <2>4 DEF Ignored
    <3> QED
      BY <1>6, <3>1, <3>2
  <2> QED
    BY <2>3, <2>4
<1>7. CASE r < 3 /\ resumable = 0
  BY <1>1, <1>3, <1>7
<1> QED
  BY <1>5, <1>6, <1>7

LEMMA TallyEnding ==
  ASSUME TInv, EventInv, TallyInv, Ending
  PROVE  TallyInv'
<1>1. phase \in {"opening", "open"}
  BY EndingEnds
<1>2. PICK r \in Nothing .. Lasted, forget \in BOOLEAN, nxt \in Results,
           pause \in {0, 1, 5}, cut \in BOOLEAN :
        /\ End(r, forget, nxt, pause, cut)
        /\ r = reached \/ (phase = "open" /\ r = Most(reached, Heard))
           \/ (phase = "opening" /\ r = Nothing)
        /\ nxt = "resume" => resumable # 0 /\ ~forget
        /\ IF forget THEN told' = (epoch > 0) ELSE told' = told
  BY EndingEnds
<1>3. /\ resumable # 0 => tally'.answered = Ignored(r)
      /\ resumable = 0 => tally'.answered = tally.answered
  BY <1>1, <1>2, CountsAgree
<1>4. Ignored(r) \in 0 .. RESUME_ATTEMPTS
  BY CountBounds
<1>5. /\ unanswered' = IF nxt = "resume" /\ Ignored(r) >= RESUME_ATTEMPTS THEN 0
                       ELSE Ignored(r)
      /\ IF forget \/ (nxt = "resume" /\ Ignored(r) >= RESUME_ATTEMPTS)
         THEN resumable' = 0 /\ sequence' = 0
         ELSE UNCHANGED <<resumable, sequence>>
  BY <1>2 DEF End, After
<1>6. /\ phase' = "waiting" /\ reached' = Nothing /\ asks' = "none" /\ epoch' = epoch
  BY <1>2 DEF End
<1>7. resumable' # 0 => tally'.answered = unanswered'
  BY <1>3, <1>5
<1>8. KeptUnlessTold'
  <2>1. SUFFICES ASSUME epoch' > 0, resumable' = 0, ~ told'
                 PROVE  tally'.answered = RESUME_ATTEMPTS
    BY DEF KeptUnlessTold, GivenUp
  <2>2. ~forget /\ told' = told
    BY <1>2, <1>6, <2>1
  <2>3. CASE resumable = 0
    <3>1. tally.answered = RESUME_ATTEMPTS
      BY <1>6, <2>1, <2>2, <2>3 DEF TallyInv, KeptUnlessTold, GivenUp
    <3> QED
      BY <1>3, <2>3, <3>1
  <2>4. CASE resumable # 0
    <3>1. Ignored(r) >= RESUME_ATTEMPTS
      BY <1>5, <2>1, <2>2, <2>4
    <3>2. Ignored(r) = RESUME_ATTEMPTS
      BY <1>4, <3>1 DEF RESUME_ATTEMPTS
    <3> QED
      BY <1>3, <2>4, <3>2
  <2> QED
    BY <2>3, <2>4
<1>9. (asks' = "accepted" <=> reached' >= Established) /\ phase' # "open"
  BY <1>6 DEF Nothing, Established
<1> QED
  BY <1>7, <1>8, <1>9 DEF TallyInv

LEMMA TallyStep ==
  ASSUME TInv, EventInv, TallyInv, [Next]_vars
  PROVE  TallyInv'
<1> USE DEF clientVars, gatewayVars, commandVars, historyVars
<1> USE DEF Nothing, Introduced, Heard, Established, Lasted
<1>1. /\ tried \in {"identify", "resume"} /\ reached \in 0 .. 4
      /\ epoch \in Nat
      /\ tried = "resume" => resumable # 0
      /\ phase = "opening" => reached = 0 /\ asks = "none"
  BY GatewayAssumption DEF TInv, TypeOK, CountInv
<1>2. /\ asks = "accepted" <=> reached >= 3
      /\ phase = "open" => \/ tried = "identify" /\ asks \in {"identify", "accepted"}
                           \/ /\ tried = "resume"
                              /\ asks \in {"resume", "replaying", "accepted"}
      /\ resumable # 0 /\ reached < 3 => tally.answered = unanswered
  BY DEF TallyInv
<1>3. KeptUnlessTold
  BY DEF TallyInv
<1>4. ASSUME UNCHANGED <<epoch, resumable, told, tally>> PROVE KeptUnlessTold'
  BY <1>3, <1>4 DEF KeptUnlessTold, GivenUp
<1>5. CASE Connect
  <2>1. /\ phase' = "opening"
        /\ UNCHANGED <<tried, asks, reached, resumable, unanswered, tally, epoch, told>>
    BY <1>5 DEF Connect
  <2> QED
    BY <1>2, <1>4, <2>1 DEF TallyInv
<1>6. CASE Introduce
  <2>1. /\ phase = "opening" /\ reached' = 1
        /\ UNCHANGED <<tried, resumable, unanswered, tally, epoch, told>>
        /\ IF tried = "resume" /\ resumable # 0 THEN asks' = "resume"
                                                ELSE asks' = "identify"
    BY <1>6 DEF Introduce
  <2>2. \/ tried = "identify" /\ asks' = "identify"
        \/ tried = "resume" /\ asks' = "resume"
    BY <1>1, <2>1
  <2>3. resumable' # 0 => tally'.answered = unanswered'
    BY <1>1, <1>2, <2>1
  <2>4. KeptUnlessTold'
    BY <1>4, <2>1
  <2> QED
    BY <2>1, <2>2, <2>3, <2>4 DEF TallyInv
<1>7. CASE Ready
  <2>1. /\ phase = "open" /\ asks = "identify" /\ asks' = "accepted"
        /\ epoch' = epoch + 1 /\ resumable' = epoch'
        /\ reached' = Most(reached, 3)
        /\ UNCHANGED <<phase, tried>>
    BY <1>7 DEF Ready, Hears, Observe
  <2>2. reached' >= 3
    BY <1>1, <2>1 DEF Most
  <2>3. KeptUnlessTold'
    BY <1>1, <2>1 DEF KeptUnlessTold, GivenUp
  <2>4. tried = "identify"
    BY <1>2, <2>1
  <2>5. ~ (reached' < 3)
    BY <1>1, <2>1 DEF Most
  <2> QED
    BY <2>1, <2>2, <2>3, <2>4, <2>5 DEF TallyInv
<1>8. CASE Dispatch
  <2>1. /\ phase = "open" /\ asks \in {"resume", "replaying", "accepted"}
        /\ asks' = IF asks = "resume" THEN "replaying" ELSE asks
        /\ reached' = Most(reached, 2)
        /\ UNCHANGED <<phase, tried, resumable, unanswered, tally, epoch, told>>
    BY <1>8 DEF Dispatch, Hears, Observe
  <2>2. reached' >= 3 <=> reached >= 3
    BY <1>1, <2>1 DEF Most
  <2>3. reached' < 3 <=> reached < 3
    BY <1>1, <2>1 DEF Most
  <2>4. KeptUnlessTold'
    BY <1>4, <2>1
  <2> QED
    BY <1>2, <2>1, <2>2, <2>3, <2>4 DEF TallyInv
<1>9. CASE Resumed
  <2>1. /\ phase = "open" /\ asks \in {"resume", "replaying"} /\ asks' = "accepted"
        /\ reached' = Most(reached, 3)
        /\ UNCHANGED <<phase, tried, resumable, unanswered, tally, epoch, told>>
    BY <1>9 DEF Resumed, Hears
  <2>2. reached' >= 3 /\ ~ (reached' < 3)
    BY <1>1, <2>1 DEF Most
  <2>3. KeptUnlessTold'
    BY <1>4, <2>1
  <2> QED
    BY <1>2, <2>1, <2>2, <2>3 DEF TallyInv
<1>10. CASE Stop
  <2>1. /\ phase' = "stopped"
        /\ UNCHANGED <<tried, asks, reached, resumable, unanswered, tally, epoch, told>>
    BY <1>10 DEF Stop
  <2> QED
    BY <1>2, <1>4, <2>1 DEF TallyInv
<1>11. CASE Beat
  <2>1. /\ UNCHANGED <<phase, tried, asks, resumable, unanswered, tally, epoch, told>>
        /\ \/ reached' = reached
           \/ reached' = Most(reached, 2)
           \/ reached = 3 /\ reached' = 4
    BY <1>11 DEF Beat
  <2>2. (reached' >= 3 <=> reached >= 3) /\ (reached' < 3 <=> reached < 3)
    BY <1>1, <2>1 DEF Most
  <2>3. KeptUnlessTold'
    BY <1>4, <2>1
  <2> QED
    BY <1>2, <2>1, <2>2, <2>3 DEF TallyInv
<1>12. CASE Ending
  BY <1>12, TallyEnding
<1> QED
  BY <1>5, <1>6, <1>7, <1>8, <1>9, <1>10, <1>11, <1>12, StepKinds

LEMMA TallyInit == Init => TallyInv
BY DEF Init, TallyInv, KeptUnlessTold, GivenUp, NoTally, Nothing, Established

LEMMA SpecEventInv == Spec => []EventInv
<1>1. TInv /\ EventInv /\ [Next]_vars => EventInv'
  BY EventStep
<1> QED
  BY <1>1, EventInit, SpecTInv, PTL DEF Spec

(* A session is given up only when the gateway ended it, or after three    *)
(* RESUMEs in a row that it answered and did not accept: a network that is *)
(* gone for however long never costs a session (SessionState::forget,      *)
(* Retry::after).                                                          *)
THEOREM SessionsAreKept == Spec => []KeptUnlessTold
<1>1. TInv /\ EventInv /\ TallyInv /\ [Next]_vars => TallyInv'
  BY TallyStep
<1>2. TallyInv => KeptUnlessTold
  BY DEF TallyInv
<1> QED
  BY <1>1, <1>2, TallyInit, SpecTInv, SpecEventInv, PTL DEF Spec

-----------------------------------------------------------------------------
(* The waits between IDENTIFYs. *)

(* The client's count of IDENTIFYs that did not last is the true one, and  *)
(* the wait before the next is made from it.                               *)
SpacingInv ==
    /\ phase \in {"waiting", "opening"} =>
          /\ spent = identified
          /\ tried = "identify" => wait >= Spacing(identified)
    /\ phase = "open" =>
          spent = IF tried = "identify" THEN Least(identified + 1, IdentifyCap)
                                        ELSE identified

LEMMA SpacingEnding ==
  ASSUME TInv, SpacingInv, Ending
  PROVE  SpacingInv'
<1> USE DEF Nothing, Introduced, Heard, Established, Lasted
<1>1. phase \in {"opening", "open"}
  BY EndingEnds
<1>2. PICK r \in Nothing .. Lasted, forget \in BOOLEAN, nxt \in Results,
           pause \in {0, 1, 5}, cut \in BOOLEAN :
        /\ End(r, forget, nxt, pause, cut)
        /\ r = reached \/ (phase = "open" /\ r = Most(reached, Heard))
           \/ (phase = "opening" /\ r = Nothing)
        /\ nxt = "resume" => resumable # 0 /\ ~forget
  BY EndingEnds
<1>3. /\ identified' = Identified(r)
      /\ tried' = "identify" => wait' >= Spacing(identified')
  BY <1>2, EndStep
<1>4. /\ phase' = "waiting"
      /\ spent' = IF r = 4 THEN 0 ELSE spent
  BY <1>2 DEF End, Remember
<1>5. /\ tried \in {"identify", "resume"}
      /\ reached \in 0 .. 4
      /\ phase = "opening" => reached = 0
      /\ phase = "open" => reached >= 1
  BY DEF TInv, TypeOK, CountInv
<1>6. /\ phase = "opening" => spent = identified
      /\ phase = "open" =>
            spent = IF tried = "identify" THEN Least(identified + 1, IdentifyCap)
                                          ELSE identified
  BY DEF SpacingInv
<1>7. phase = "opening" => r = 0
  BY <1>1, <1>2, <1>5
<1>8. phase = "open" => r >= 1
  BY <1>1, <1>2, <1>5 DEF Most
<1>9. spent' = identified'
  <2>1. CASE r = 4
    BY <1>3, <1>4, <2>1 DEF Identified
  <2>2. CASE r # 4 /\ phase = "opening"
    BY <1>3, <1>4, <1>6, <1>7, <2>2 DEF Identified
  <2>3. CASE r # 4 /\ phase = "open"
    BY <1>3, <1>4, <1>5, <1>6, <1>8, <2>3 DEF Identified
  <2> QED
    BY <1>1, <2>1, <2>2, <2>3
<1> QED
  BY <1>3, <1>4, <1>9 DEF SpacingInv

LEMMA SpacingStep ==
  ASSUME TInv, SpacingInv, [Next]_vars
  PROVE  SpacingInv'
<1> USE DEF clientVars, gatewayVars, commandVars, historyVars
<1>1. /\ tried \in {"identify", "resume"}
      /\ tried = "resume" => resumable # 0
  BY DEF TInv, TypeOK
<1>2. /\ phase \in {"waiting", "opening"} =>
            /\ spent = identified
            /\ tried = "identify" => wait >= Spacing(identified)
      /\ phase = "open" =>
            spent = IF tried = "identify" THEN Least(identified + 1, IdentifyCap)
                                          ELSE identified
  BY DEF SpacingInv
<1>3. CASE Connect
  <2>1. /\ phase = "waiting" /\ phase' = "opening"
        /\ UNCHANGED <<tried, wait, identified, spent>>
    BY <1>3 DEF Connect
  <2>2. Spacing(identified)' = Spacing(identified)
    BY <2>1 DEF Spacing
  <2> QED
    BY <1>2, <2>1, <2>2 DEF SpacingInv
<1>4. CASE Introduce
  <2>1. /\ phase = "opening" /\ phase' = "open"
        /\ UNCHANGED <<tried, identified>>
        /\ IF tried = "resume" /\ resumable # 0
           THEN spent' = spent ELSE spent' = Least(spent + 1, IdentifyCap)
    BY <1>4 DEF Introduce
  <2>2. CASE tried = "resume"
    BY <1>1, <1>2, <2>1, <2>2 DEF SpacingInv
  <2>3. CASE tried = "identify"
    <3>1. spent' = Least(identified + 1, IdentifyCap)
      BY <1>2, <2>1, <2>3
    <3>2. identified' = identified /\ tried' = "identify" /\ phase' = "open"
      BY <2>1, <2>3
    <3>3. Least(identified + 1, IdentifyCap)' = Least(identified + 1, IdentifyCap)
      BY <3>2 DEF Least
    <3> QED
      BY <3>1, <3>2, <3>3 DEF SpacingInv
  <2> QED
    BY <1>1, <2>2, <2>3
<1>5. CASE Ready \/ Dispatch \/ Resumed \/ Beat
  <2>1. UNCHANGED <<phase, tried, wait, identified, spent>>
    BY <1>5 DEF Ready, Dispatch, Resumed, Beat
  <2> QED
    BY <1>2, <2>1 DEF SpacingInv
<1>6. CASE Stop
  BY <1>6 DEF Stop, SpacingInv
<1>7. CASE Ending
  BY <1>7, SpacingEnding
<1> QED
  BY <1>3, <1>4, <1>5, <1>6, <1>7, StepKinds

LEMMA SpacingInit == Init => SpacingInv
BY DEF Init, SpacingInv, Spacing

(* Only an introduction makes a connection one that asked with IDENTIFY,   *)
(* and the wait before it was made for that.                               *)
LEMMA SpacedStep ==
  ASSUME TInv, SpacingInv, [Next]_vars, asks' = "identify", asks # "identify",
         spent > 0
  PROVE  wait >= Least(5 * 2 ^ (spent - 1), 600)
<1> USE DEF clientVars, gatewayVars, commandVars, historyVars
<1>1. Introduce
  <2>1. Connect \/ Stop \/ Beat => asks' = asks
    BY DEF Connect, Stop, Beat
  <2>2. Ready \/ Resumed => asks' = "accepted"
    BY DEF Ready, Resumed
  <2>3. Dispatch => asks' \in {"replaying", asks}
    BY DEF Dispatch
  <2>4. Ending => asks' = "none"
    BY DEF Ending, End
  <2> QED
    BY <2>1, <2>2, <2>3, <2>4, StepKinds
<1>2. tried = "identify" /\ phase = "opening"
  BY <1>1 DEF Introduce, TInv, TypeOK
<1>3. spent = identified /\ wait >= Spacing(identified)
  BY <1>2 DEF SpacingInv
<1>4. spent \in Nat \ {0} /\ wait \in Nat /\ spent \in Nat
  BY GatewayAssumption DEF TInv, TypeOK
<1>5. PICK a \in Nat : a = Spacing(spent)
  BY <1>4, SpacingBounds
<1>6. a >= Least(5 * 2 ^ (spent - 1), 600)
  BY <1>4, <1>5, SpacingDoubles
<1>7. wait >= a
  BY <1>3, <1>5
<1>8. PICK m \in Nat : m = spent - 1
  BY <1>4
<1>9. PICK b \in Int : b = Least(5 * 2 ^ m, 600)
  <2>1. 5 * 2 ^ m \in Int
    OBVIOUS
  <2> QED
    BY <2>1 DEF Least
<1>10. a >= b
  BY <1>6, <1>8, <1>9
<1>11. wait >= b
  BY <1>4, <1>7, <1>10
<1> QED
  BY <1>8, <1>9, <1>11

(* An IDENTIFY that follows n others in a row that did not last waits at   *)
(* least 5 * 2^(n-1) units, or the 600 of the cap, whatever ended the      *)
(* connections between: flapping cannot spend the session starts of a day  *)
(* (Retry::spacing).                                                       *)
THEOREM IdentifiesAreSpaced == Spec => IdentifiesSpaced
<1>1. TInv /\ SpacingInv /\ [Next]_vars => SpacingInv'
  BY SpacingStep
<1>2. TInv /\ SpacingInv /\ [Next]_vars
        => (asks' = "identify" /\ asks # "identify" /\ spent > 0
               => wait >= Least(5 * 2 ^ (spent - 1), 600))
  BY SpacedStep
<1> QED
  BY <1>1, <1>2, SpacingInit, SpecTInv, PTL DEF Spec, IdentifiesSpaced

-----------------------------------------------------------------------------
(* The stream of events that the sessions are. *)

LEMMA ReadyBegins ==
  ASSUME TInv, EventInv, Ready
  PROVE  Stream!Begin
<1>1. PICK e : e = epoch + 1
  OBVIOUS
<1>2. /\ epoch < MaxSessions /\ epoch' = e /\ served' = 1
      /\ handed' = [handed EXCEPT ![e] = Append(@, 1)]
  BY <1>1 DEF Ready, Observe
<1>3. e \in 1 .. MaxSessions /\ e > epoch
  BY <1>1, <1>2, GatewayAssumption DEF TInv, TypeOK
<1>4. handed[e] = <<>> /\ handed \in [1 .. MaxSessions -> Seq(Nat)]
  BY <1>3 DEF EventInv
<1>5. Append(handed[e], 1) = <<1>>
  BY <1>4
<1>6. handed' = [handed EXCEPT ![e] = <<1>>]
  BY <1>2, <1>4, <1>5
<1> QED
  BY <1>1, <1>2, <1>3, <1>6 DEF Stream!Begin

LEMMA DispatchDelivers ==
  ASSUME TInv, EventInv, Dispatch
  PROVE  Stream!Deliver
<1>1. /\ resumable # 0 /\ resumable = epoch /\ cursor = sequence
      /\ sequence = Len(handed[epoch])
  BY DEF EventInv, Dispatch
<1>2. epoch \in 1 .. MaxSessions
  BY <1>1, GatewayAssumption DEF TInv, TypeOK
<1>3. /\ cursor < served /\ epoch' = epoch /\ served' = served
      /\ handed' = [handed EXCEPT ![epoch] = Append(@, cursor + 1)]
  BY DEF Dispatch, Observe
<1> QED
  BY <1>1, <1>2, <1>3 DEF Stream!Deliver

LEMMA StreamStep ==
  ASSUME TInv, EventInv, [Next]_vars
  PROVE  [Stream!Next]_(Stream!vars)
<1>1. CASE Ready
  BY <1>1, ReadyBegins DEF Stream!Next
<1>2. CASE Dispatch
  BY <1>2, DispatchDelivers DEF Stream!Next
<1>3. CASE Beat
  <2>1. /\ UNCHANGED <<epoch, handed>>
        /\ served' = served \/ (epoch > 0 /\ served' = served + 1)
    BY <1>3 DEF Beat
  <2>2. epoch > 0 => epoch \in 1 .. MaxSessions
    BY GatewayAssumption DEF TInv, TypeOK
  <2> QED
    BY <2>1, <2>2 DEF Stream!Next, Stream!Publish, Stream!vars
<1>4. CASE Connect \/ Introduce \/ Resumed \/ Stop
  <2>1. UNCHANGED <<epoch, served, handed>>
    BY <1>4 DEF Connect, Introduce, Resumed, Stop, gatewayVars, historyVars
  <2> QED
    BY <2>1 DEF Stream!vars
<1>5. CASE Ending
  <2>1. UNCHANGED <<epoch, served, handed>>
    BY <1>5 DEF Ending, End
  <2> QED
    BY <2>1 DEF Stream!vars
<1> QED
  BY <1>1, <1>2, <1>3, <1>4, <1>5, StepKinds

(* The client implements an event stream without connections: READY begins *)
(* a session, a dispatch, live or replayed, delivers its next event, and   *)
(* however a connection is lost, resumed or given up, nothing else is seen *)
(* by those the events are handed to (session, SessionState::observe).     *)
THEOREM ImplementsStream == Spec => HandsOnInOrder
<1>1. Init => Stream!Init
  BY DEF Init, Stream!Init
<1>2. TInv /\ EventInv /\ [Next]_vars => [Stream!Next]_(Stream!vars)
  BY StreamStep
<1> QED
  BY <1>1, <1>2, SpecTInv, SpecEventInv, PTL DEF Spec, HandsOnInOrder, Stream!Spec

-----------------------------------------------------------------------------
(* The voice states the bot asked for. *)

(* Commands are numbered as they are asked for, and as long as any command *)
(* for a guild is held, the newest is.  Without that, a batch could send   *)
(* an older voice state after the newest one had gone out.                 *)
CommandInv ==
    /\ issued \in [Guilds -> Nat]
    /\ written \in [Guilds -> Nat] /\ dropped \in [Guilds -> Nat]
    /\ inbox \subseteq [guild : Guilds, number : Nat]
    /\ \A c \in inbox :
          /\ c.number <= issued[c.guild]
          /\ [guild |-> c.guild, number |-> issued[c.guild]] \in inbox
    /\ \A g \in Guilds :
          \/ written[g] = issued[g] \/ dropped[g] = issued[g]
          \/ [guild |-> g, number |-> issued[g]] \in inbox

(* Of the commands held for a guild only the newest goes out. *)
LEMMA CoalescedIsNewest ==
  ASSUME CommandInv, NEW c \in Coalesce(inbox)
  PROVE  c = [guild |-> c.guild, number |-> issued[c.guild]]
<1>1. /\ c \in inbox
      /\ \A d \in inbox : d.guild = c.guild => d.number <= c.number
  BY DEF Coalesce
<1>2. PICK d : d = [guild |-> c.guild, number |-> issued[c.guild]]
  OBVIOUS
<1>3. /\ d \in inbox /\ c.number <= issued[c.guild]
      /\ c \in [guild : Guilds, number : Nat] /\ issued[c.guild] \in Nat
  BY <1>1, <1>2 DEF CommandInv
<1>4. issued[c.guild] <= c.number
  BY <1>1, <1>2, <1>3
<1>5. c.number = issued[c.guild]
  BY <1>3, <1>4
<1>6. c = [guild |-> c.guild, number |-> c.number]
  BY <1>3
<1> QED
  BY <1>5, <1>6

LEMMA NewestOfNone ==
  ASSUME NEW g, NEW commands, NEW old, \A c \in commands : c.guild # g
  PROVE  Newest(g, commands, old) = old
BY DEF Newest

LEMMA NewestOfOne ==
  ASSUME NEW g, NEW commands, NEW old, NEW c \in commands, c.guild = g,
         c.number \in Nat, \A d \in commands : d.guild = g => d = c
  PROVE  Newest(g, commands, old) = c.number
<1> DEFINE own == {d.number : d \in {e \in commands : e.guild = g}}
<1>1. own = {c.number}
  OBVIOUS
<1>2. Max({c.number}) = c.number
  BY DEF Max
<1> QED
  BY <1>1, <1>2 DEF Newest

LEMMA FlushKeepsNewest ==
  ASSUME CommandInv, Flush
  PROVE  CommandInv'
<1>1. PICK batch : batch = Coalesce(inbox)
  OBVIOUS
<1>2. PICK sent \in SUBSET batch :
        /\ written' = [g \in Guilds |-> Newest(g, sent, written[g])]
        /\ dropped' = [g \in Guilds |-> Newest(g, batch \ sent, dropped[g])]
  BY <1>1, ZenonT(60) DEF Flush
<1>3. inbox' = {} /\ issued' = issued
  BY DEF Flush
<1>4. /\ issued \in [Guilds -> Nat] /\ written \in [Guilds -> Nat]
      /\ dropped \in [Guilds -> Nat]
      /\ inbox \subseteq [guild : Guilds, number : Nat]
  BY DEF CommandInv
<1>5. \A c \in batch : /\ c \in inbox
                       /\ c = [guild |-> c.guild, number |-> issued[c.guild]]
  BY <1>1, CoalescedIsNewest DEF Coalesce
<1>6. ASSUME NEW g \in Guilds, NEW commands \in SUBSET batch, NEW old \in Nat
      PROVE  \/ Newest(g, commands, old) = issued[g]
             \/ Newest(g, commands, old) = old /\ \A c \in commands : c.guild # g
  <2>1. CASE \A c \in commands : c.guild # g
    BY <2>1, NewestOfNone
  <2>2. CASE \E c \in commands : c.guild = g
    <3>1. PICK c \in commands : c.guild = g
      BY <2>2
    <3>2. /\ \A d \in commands : d.guild = g => d = c
          /\ c.number = issued[g] /\ c.number \in Nat
      <4>1. \A d \in commands : d = [guild |-> d.guild, number |-> issued[d.guild]]
        BY <1>5
      <4>2. \A d \in commands : d.guild = g => d = [guild |-> g, number |-> issued[g]]
        BY <4>1
      <4>3. c = [guild |-> g, number |-> issued[g]]
        BY <3>1, <4>2
      <4>4. issued[g] \in Nat
        BY <1>4
      <4> QED
        BY <4>2, <4>3, <4>4
    <3>3. Newest(g, commands, old) = c.number
      BY <3>1, <3>2, NewestOfOne
    <3> QED
      BY <3>2, <3>3
  <2> QED
    BY <2>1, <2>2
<1>7. ASSUME NEW g \in Guilds
      PROVE  /\ written'[g] \in Nat /\ dropped'[g] \in Nat
             /\ written'[g] = issued[g] \/ dropped'[g] = issued[g]
  <2>1. /\ written'[g] = Newest(g, sent, written[g])
        /\ dropped'[g] = Newest(g, batch \ sent, dropped[g])
    BY <1>2
  <2>2. issued[g] \in Nat /\ written[g] \in Nat /\ dropped[g] \in Nat
    BY <1>4
  <2>3. /\ \/ written'[g] = issued[g]
           \/ written'[g] = written[g] /\ \A c \in sent : c.guild # g
        /\ \/ dropped'[g] = issued[g]
           \/ dropped'[g] = dropped[g] /\ \A c \in batch \ sent : c.guild # g
    BY <1>6, <2>1, <2>2
  <2>4. CASE [guild |-> g, number |-> issued[g]] \in inbox
    <3>1. PICK c \in inbox : c = [guild |-> g, number |-> issued[g]]
      BY <2>4
    <3>2. \A d \in inbox : d.guild = g => d.number <= issued[g]
      BY DEF CommandInv
    <3>3. c \in batch /\ c.guild = g
      BY <1>1, <3>1, <3>2 DEF Coalesce
    <3>4. c \in sent \/ c \in batch \ sent
      BY <3>3
    <3> QED
      BY <2>2, <2>3, <3>3, <3>4
  <2>5. CASE [guild |-> g, number |-> issued[g]] \notin inbox
    BY <2>2, <2>3, <2>5 DEF CommandInv
  <2> QED
    BY <2>4, <2>5
<1>8. written' \in [Guilds -> Nat] /\ dropped' \in [Guilds -> Nat]
  BY <1>2, <1>7
<1> QED
  BY <1>3, <1>4, <1>7, <1>8 DEF CommandInv

LEMMA CommandIsNewest ==
  ASSUME CommandInv, NEW g \in Guilds, Command(g)
  PROVE  CommandInv'
<1>1. PICK number \in 1 .. MaxCommands :
        /\ \A h \in Guilds : issued[h] < number
        /\ issued' = [issued EXCEPT ![g] = number]
        /\ inbox' = inbox \cup {[guild |-> g, number |-> number]}
        /\ written' = written /\ dropped' = dropped
  BY DEF Command
<1>2. /\ issued \in [Guilds -> Nat] /\ written \in [Guilds -> Nat]
      /\ dropped \in [Guilds -> Nat]
      /\ inbox \subseteq [guild : Guilds, number : Nat]
  BY DEF CommandInv
<1>3. number \in Nat
  BY GatewayAssumption
<1>4. PICK new : new = [guild |-> g, number |-> number]
  OBVIOUS
<1>5. /\ new.guild = g /\ new.number = number
      /\ new \in [guild : Guilds, number : Nat]
      /\ inbox' = inbox \cup {new}
  BY <1>1, <1>3, <1>4
<1>6. /\ issued' \in [Guilds -> Nat] /\ issued'[g] = number
      /\ \A h \in Guilds : h # g => issued'[h] = issued[h]
  BY <1>1, <1>2, <1>3
<1>7. ASSUME NEW c \in inbox'
      PROVE  /\ c.number <= issued'[c.guild]
             /\ [guild |-> c.guild, number |-> issued'[c.guild]] \in inbox'
  <2>1. CASE c.guild = g
    <3>1. [guild |-> c.guild, number |-> issued'[c.guild]] \in inbox'
      BY <1>4, <1>5, <1>6, <2>1
    <3>2. CASE c = new
      BY <1>3, <1>5, <1>6, <2>1, <3>2
    <3>3. CASE c # new
      <4>1. c \in inbox /\ c.number \in Nat /\ c.number <= issued[g]
        BY <1>2, <1>5, <2>1, <3>3 DEF CommandInv
      <4>2. issued[g] < number /\ issued[g] \in Nat
        BY <1>1, <1>2
      <4> QED
        BY <1>3, <1>6, <2>1, <3>1, <4>1, <4>2
    <3> QED
      BY <3>1, <3>2, <3>3
  <2>2. CASE c.guild # g
    <3>1. c \in inbox /\ c.guild \in Guilds
      BY <1>2, <1>5, <2>2
    <3>2. issued'[c.guild] = issued[c.guild]
      BY <1>6, <2>2, <3>1
    <3>3. /\ c.number <= issued[c.guild]
          /\ [guild |-> c.guild, number |-> issued[c.guild]] \in inbox
      BY <3>1 DEF CommandInv
    <3> QED
      BY <1>5, <3>2, <3>3
  <2> QED
    BY <2>1, <2>2
<1>8. ASSUME NEW h \in Guilds
      PROVE  \/ written'[h] = issued'[h] \/ dropped'[h] = issued'[h]
             \/ [guild |-> h, number |-> issued'[h]] \in inbox'
  <2>1. CASE h = g
    BY <1>4, <1>5, <1>6, <2>1
  <2>2. CASE h # g
    BY <1>1, <1>5, <1>6, <2>2 DEF CommandInv
  <2> QED
    BY <2>1, <2>2
<1> QED
  BY <1>1, <1>2, <1>5, <1>6, <1>7, <1>8 DEF CommandInv

LEMMA CommandStep ==
  ASSUME CommandInv, [Next]_vars
  PROVE  CommandInv'
<1>1. CASE UNCHANGED commandVars
  BY <1>1 DEF CommandInv, commandVars
<1>2. CASE Flush
  BY <1>2, FlushKeepsNewest
<1>3. ASSUME NEW g \in Guilds, Command(g) PROVE CommandInv'
  BY <1>3, CommandIsNewest
<1>4. CASE UNCHANGED vars \/ Stopped
  BY <1>1, <1>4 DEF vars, Stopped
<1>5. CASE Connect \/ FailToOpen \/ Introduce \/ Tick
  BY <1>1, <1>5 DEF Connect, FailToOpen, Introduce, Tick
<1>6. CASE Ready \/ Dispatch \/ Resumed
  BY <1>1, <1>6 DEF Ready, Dispatch, Resumed
<1>7. CASE AskForBeat \/ Acknowledge \/ AskToReconnect \/ Invalidate
  BY <1>1, <1>7 DEF AskForBeat, Acknowledge, AskToReconnect, Invalidate
<1>8. ASSUME NEW code \in Codes, Close(code) PROVE CommandInv'
  BY <1>1, <1>8 DEF Close
<1>9. CASE LoseConnection \/ GoSilent \/ NewEvent \/ CalmDown
  BY <1>1, <1>9 DEF LoseConnection, GoSilent, NewEvent, CalmDown
<1> QED
  BY <1>2, <1>3, <1>4, <1>5, <1>6, <1>7, <1>8, <1>9 DEF Next

LEMMA CommandInit == Init => CommandInv
BY DEF Init, CommandInv

(* Of the voice states asked for in a guild, however many were held and    *)
(* whichever batch was cut off, the newest is held, or was written after   *)
(* every other, or is what the failed send lost (commands, coalesce).      *)
THEOREM NewestGoesOutLast == Spec => []NewestCommandWritten
<1>1. CommandInv => NewestCommandWritten
  <2> SUFFICES ASSUME CommandInv, NEW g \in Guilds,
                      written[g] # issued[g], dropped[g] # issued[g]
               PROVE  \E c \in inbox : c.guild = g /\ c.number = issued[g]
    BY DEF NewestCommandWritten
  <2>1. [guild |-> g, number |-> issued[g]] \in inbox
    BY DEF CommandInv
  <2> QED
    BY <2>1
<1>2. CommandInv /\ [Next]_vars => CommandInv'
  BY CommandStep
<1> QED
  BY <1>1, <1>2, CommandInit, PTL DEF Spec
=============================================================================
