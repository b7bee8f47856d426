--------------------------- MODULE DiscordGateway ---------------------------
(***************************************************************************)
(* The gateway session of `discord live` (src/discord/gateway.rs): one     *)
(* Discord session carried across as many websocket connections as it      *)
(* takes, against a gateway that numbers the events of a session, replays  *)
(* them after RESUME, and may end a connection or the session at any time. *)
(*                                                                         *)
(* Time is kept only where a decision needs it: the age of a heartbeat     *)
(* that is owed an ACK, and the wait before a connection, in units of the  *)
(* configured backoff.                                                     *)
(***************************************************************************)
EXTENDS Naturals, Sequences, FiniteSetsExt

CONSTANTS
    MaxSessions,    \* bound: sessions the gateway starts
    MaxEvents,      \* bound: events of one session, READY included
    MaxCommands,    \* bound: voice state updates the bot asks for
    FailureCap,     \* bound: failures above it alternate, parity kept
    IdentifyCap,    \* bound: IDENTIFYs in a row that are told apart
    Guilds,         \* guilds a voice state update is for
    Codes           \* close codes the gateway may use

ASSUME GatewayAssumption ==
    /\ MaxSessions \in Nat \ {0}
    /\ MaxEvents \in Nat \ {0}
    /\ MaxCommands \in Nat
    /\ FailureCap \in Nat /\ FailureCap > 3
    /\ IdentifyCap \in Nat \ {0}
    /\ Codes \subseteq Nat

VARIABLES
    \* the session task
    phase,          \* "waiting", "opening", "open" or "stopped"
    tried,          \* how this or the next connection is introduced
    main,           \* the connection goes to the main gateway
    reached,        \* how far it got: Reached
    owed,           \* Heart.owed, by its age
    wait,           \* the wait before the next connection
    resumable,      \* SessionState.resumable: the session, or 0
    sequence,       \* SessionState.sequence, 0 for None
    optional,       \* the optional intents are still asked for
    failures, unanswered, identified,   \* Retry
    inbox,          \* commands not yet taken; their numbers say in which order
    \* the gateway and the network
    epoch,          \* the newest session the gateway started
    served,         \* events it has numbered
    asks,           \* what this connection was introduced as
    cursor,         \* the last event sent on this connection
    alive,          \* the connection still carries traffic
    gone,           \* the resume host is gone
    calm,           \* from now on nothing fails
    \* history
    handed,         \* per session, the events handed on, in order
    told,           \* the gateway ended the newest session
    tally,          \* RESUMEs in a row it answered and did not accept
    spent,          \* IDENTIFYs in a row that did not last
    issued, written, dropped    \* per guild, the newest command

clientVars == <<phase, tried, main, reached, owed, wait, resumable, sequence,
                optional, failures, unanswered, identified>>
gatewayVars == <<epoch, served, asks, cursor, alive, gone, calm>>
commandVars == <<inbox, issued, written, dropped>>
historyVars == <<handed, told, tally, spent>>
vars == <<clientVars, gatewayVars, commandVars, historyVars>>

-----------------------------------------------------------------------------
(* Reached, in its order. *)
Nothing == 0
Introduced == 1
Heard == 2
Established == 3
Lasted == 4

RESUME_ATTEMPTS == 3

Least(a, b) == IF a < b THEN a ELSE b
Most(a, b) == IF a > b THEN a ELSE b

(* Retry::backoff and Retry::spacing in units; FailureCap keeps parity. *)
Backoff(n) == IF n = 0 THEN 0 ELSE Least(2 ^ Least(n - 1, 6), 60)
Spacing(n) == IF n = 0 THEN 0 ELSE Least(5 * 2 ^ Least(n - 1, 7), 600)
OneMoreFailure == IF failures = FailureCap THEN FailureCap - 1
                                           ELSE failures + 1

(* again: what the connection after this one is introduced as. *)
Again == IF resumable = 0 THEN "identify" ELSE "resume"

NoTally == [answered |-> 0, cut |-> FALSE]

Init ==
    /\ phase = "waiting" /\ tried = "identify" /\ main = TRUE
    /\ reached = Nothing /\ owed = "none" /\ wait = 0
    /\ resumable = 0 /\ sequence = 0 /\ optional \in BOOLEAN
    /\ failures = 0 /\ unanswered = 0 /\ identified = 0
    /\ inbox = {}
    /\ epoch = 0 /\ served = 0 /\ asks = "none" /\ cursor = 0
    /\ alive = FALSE /\ gone \in BOOLEAN /\ calm = FALSE
    /\ handed = [e \in 1 .. MaxSessions |-> <<>>]
    /\ told = FALSE /\ tally = NoTally /\ spent = 0
    /\ issued = [g \in Guilds |-> 0]
    /\ written = [g \in Guilds |-> 0]
    /\ dropped = [g \in Guilds |-> 0]

-----------------------------------------------------------------------------
(* How a connection ends. *)

(* The history of a connection that got as far as r, and whether the        *)
(* network cut it off.  Of the RESUMEs in a row that were answered and not *)
(* accepted: whether all were replays cut off.                             *)
Remember(r, cut) ==
    /\ spent' = IF r = Lasted THEN 0 ELSE spent
    /\ tally' =
          IF r >= Established THEN NoTally
          ELSE IF r = Heard /\ asks \in {"resume", "replaying"}
          THEN [answered |-> Least(tally.answered + 1, RESUME_ATTEMPTS),
                cut |-> /\ tally.answered = 0 \/ tally.cut
                        /\ cut /\ asks = "replaying"]
          ELSE tally

(* Mutant: a connection lost before any answer counts as an answer. *)
IgnoredOrLost(r) ==
    IF r >= Established THEN 0
    ELSE IF r >= Introduced /\ tried = "resume" THEN unanswered + 1
    ELSE unanswered

(* RESUMEs in a row the gateway answered and neither accepted nor refused. *)
Ignored(r) ==
    IF r >= Established THEN 0
    ELSE IF r = Heard /\ tried = "resume" THEN unanswered + 1
    ELSE unanswered

(* Mutant: only an IDENTIFY that was answered counts. *)
IdentifiedAndHeard(r) ==
    IF r = Lasted THEN 0
    ELSE IF r >= Heard /\ tried = "identify"
    THEN Least(identified + 1, IdentifyCap) ELSE identified

(* IDENTIFYs in a row that were sent and did not last. *)
Identified(r) ==
    IF r = Lasted THEN 0
    ELSE IF r >= Introduced /\ tried = "identify"
    THEN Least(identified + 1, IdentifyCap) ELSE identified

(* Retry::after, for a connection that got as far as r and asks to go on   *)
(* as nxt after pause; forget when SessionState::forget was called.        *)
After(r, forget, nxt, pause) ==
    LET giveUp == nxt = "resume" /\ Ignored(r) >= RESUME_ATTEMPTS
    IN  /\ failures' = IF r = Lasted THEN 0 ELSE OneMoreFailure
        /\ unanswered' = IF giveUp THEN 0 ELSE Ignored(r)
        /\ identified' = Identified(r)
        /\ tried' = IF giveUp THEN "identify" ELSE nxt
        /\ wait' = Most(Most(pause, Backoff(failures')),
                        IF tried' = "identify" THEN Spacing(identified')
                                               ELSE 0)
        /\ IF forget \/ giveUp THEN resumable' = 0 /\ sequence' = 0
                               ELSE UNCHANGED <<resumable, sequence>>

(* The connection is over; session waits and then connects again. *)
End(r, forget, nxt, pause, cut) ==
    /\ phase' = "waiting"
    /\ reached' = Nothing /\ owed' = "none"
    /\ asks' = "none" /\ alive' = FALSE /\ cursor' = 0
    /\ After(r, forget, nxt, pause)
    /\ Remember(r, cut)
    /\ UNCHANGED <<main, epoch, served, gone, calm, handed>>

(* The connection failed, or closed without a code. *)
Lose == /\ End(reached, FALSE, Again, 0, TRUE)
        /\ UNCHANGED <<optional, told>>

-----------------------------------------------------------------------------
(* The session task. *)

(* Mutant: every RESUME goes to the resume host. *)
ConnectToSession ==
    /\ phase = "waiting"
    /\ phase' = "opening"
    /\ main' = (tried = "identify" \/ resumable = 0)
    /\ UNCHANGED <<tried, reached, owed, wait, resumable, sequence, optional,
                   failures, unanswered, identified, gatewayVars,
                   commandVars, historyVars>>

(* The wait is over: Retry::url says where to. *)
Connect ==
    /\ phase = "waiting"
    /\ phase' = "opening"
    /\ main' = \/ tried = "identify"
               \/ resumable = 0
               \/ failures >= RESUME_ATTEMPTS /\ failures % 2 = 1
    /\ UNCHANGED <<tried, reached, owed, wait, resumable, sequence, optional,
                   failures, unanswered, identified, gatewayVars,
                   commandVars, historyVars>>

(* The host cannot be reached, or says no HELLO within OPENING. *)
FailToOpen ==
    /\ phase = "opening"
    /\ ~calm \/ (gone /\ ~main)
    /\ Lose
    /\ UNCHANGED commandVars

(* HELLO arrived; IDENTIFY or RESUME goes out. *)
Introduce ==
    /\ phase = "opening"
    /\ main \/ ~gone
    /\ phase' = "open"
    /\ reached' = Introduced
    /\ alive' = TRUE
    /\ IF tried = "resume" /\ resumable # 0
       THEN asks' = "resume" /\ cursor' = sequence /\ UNCHANGED spent
       ELSE asks' = "identify" /\ cursor' = 0
            /\ spent' = Least(spent + 1, IdentifyCap)
    /\ UNCHANGED <<tried, main, owed, wait, resumable, sequence, optional,
                   failures, unanswered, identified, epoch, served, gone,
                   calm, commandVars, handed, told, tally>>

(* A tick of the heartbeat interval.  A beat sent at the tick before is a  *)
(* whole interval old; one that answered op 1 since then is, if this tick  *)
(* is late.  When all is calm the ACK comes before the next tick.          *)
Tick ==
    /\ phase = "open"
    /\ calm /\ alive => owed = "none"
    /\ \/ /\ owed # "aged"
          /\ owed' = "aged"
          /\ UNCHANGED <<phase, tried, main, reached, wait, resumable,
                         sequence, optional, failures, unanswered,
                         identified, gatewayVars, historyVars>>
       \/ owed # "none" /\ Lose
    /\ UNCHANGED commandVars

(* Mutant: of the commands for one guild the first is kept. *)
CoalesceToFirst(commands) ==
    {c \in commands :
        \A d \in commands : d.guild = c.guild => d.number >= c.number}

(* A voice state update takes the place of every earlier one for its guild.*)
Coalesce(commands) ==
    {c \in commands :
        \A d \in commands : d.guild = c.guild => d.number <= c.number}

(* The newest of the commands for g, or the old one if there is none. *)
Newest(g, commands, old) ==
    LET own == {c.number : c \in {d \in commands : d.guild = g}}
    IN  IF own = {} THEN old ELSE Max(own)

(* All commands held are taken and sent in their order; a send may fail on *)
(* the way.                                                                *)
Flush ==
    /\ phase = "open" /\ reached >= Established
    /\ inbox # {}
    /\ inbox' = {}
    /\ LET batch == Coalesce(inbox)
       IN  \E sent \in SUBSET batch :
             /\ \A c \in sent, d \in batch \ sent : c.number < d.number
             /\ written' = [g \in Guilds |-> Newest(g, sent, written[g])]
             /\ dropped' = [g \in Guilds |->
                                Newest(g, batch \ sent, dropped[g])]
             /\ IF sent # batch
                THEN ~calm /\ Lose
                ELSE UNCHANGED <<clientVars, gatewayVars, historyVars>>
    /\ UNCHANGED issued

-----------------------------------------------------------------------------
(* What the gateway sends, and what the connection does with it. *)

Hears == phase = "open" /\ alive

(* Mutant: only READY sets the sequence number. *)
ObserveReadyOnly(e, n, r) ==
    /\ sequence' = IF n = 1 THEN n ELSE sequence
    /\ reached' = Most(reached, r)
    /\ handed' = [handed EXCEPT ![e] = Append(@, n)]

(* Mutant: a replayed event does not move the sequence number. *)
ObserveAccepted(e, n, r) ==
    /\ sequence' = IF asks' = "accepted" THEN n ELSE sequence
    /\ reached' = Most(reached, r)
    /\ handed' = [handed EXCEPT ![e] = Append(@, n)]

(* A numbered dispatch: the sequence follows it and it is handed on. *)
Observe(e, n, r) ==
    /\ sequence' = n
    /\ reached' = Most(reached, r)
    /\ handed' = [handed EXCEPT ![e] = Append(@, n)]

(* IDENTIFY is answered with READY, the first event of a new session. *)
Ready ==
    /\ Hears /\ asks = "identify" /\ epoch < MaxSessions
    /\ epoch' = epoch + 1 /\ served' = 1
    /\ asks' = "accepted" /\ cursor' = 1
    /\ told' = FALSE
    /\ resumable' = epoch'
    /\ Observe(epoch', 1, Established)
    /\ UNCHANGED <<phase, tried, main, owed, wait, optional, failures,
                   unanswered, identified, alive, gone, calm, commandVars,
                   tally, spent>>

(* The next event, live or replayed; a replay comes before RESUMED. *)
Dispatch ==
    /\ Hears /\ asks \in {"resume", "replaying", "accepted"}
    /\ ~told /\ cursor < served
    /\ cursor' = cursor + 1
    /\ asks' = IF asks = "resume" THEN "replaying" ELSE asks
    /\ Observe(epoch, cursor', Heard)
    /\ UNCHANGED <<phase, tried, main, owed, wait, resumable, optional,
                   failures, unanswered, identified, epoch, served, alive,
                   gone, calm, commandVars, told, tally, spent>>

Resumed ==
    /\ Hears /\ asks \in {"resume", "replaying"}
    /\ ~told /\ cursor = served
    /\ asks' = "accepted"
    /\ reached' = Most(reached, Established)
    /\ UNCHANGED <<phase, tried, main, owed, wait, resumable, sequence,
                   optional, failures, unanswered, identified, epoch, served,
                   cursor, alive, gone, calm, commandVars, historyVars>>

(* op 1: a beat is sent at once. *)
AskForBeat ==
    /\ Hears /\ ~calm
    /\ owed' = IF owed = "none" THEN "asked" ELSE owed
    /\ reached' = Most(reached, Heard)
    /\ UNCHANGED <<phase, tried, main, wait, resumable, sequence, optional,
                   failures, unanswered, identified, gatewayVars,
                   commandVars, historyVars>>

(* op 11. *)
Acknowledge ==
    /\ Hears /\ owed # "none"
    /\ owed' = "none"
    /\ reached' = IF reached = Established THEN Lasted
                                           ELSE Most(reached, Heard)
    /\ UNCHANGED <<phase, tried, main, wait, resumable, sequence, optional,
                   failures, unanswered, identified, gatewayVars,
                   commandVars, historyVars>>

(* op 7, and op 9 with d = true. *)
AskToReconnect ==
    /\ Hears /\ ~calm
    /\ End(Most(reached, Heard), FALSE, Again, 0, FALSE)
    /\ UNCHANGED <<optional, told, commandVars>>

(* op 9 with d = false: the session is over, in 1 to 5 seconds a new one. *)
Invalidate ==
    /\ Hears /\ ~calm
    /\ \E pause \in {1, 5} :
          End(Most(reached, Heard), TRUE, "identify", pause, FALSE)
    /\ told' = (epoch > 0)
    /\ UNCHANGED <<optional, commandVars>>

(* SessionState::closed with a code the gateway sent. *)
Closed(code) ==
    LET r == IF phase = "open" THEN Most(reached, Heard) ELSE Nothing
        refused == code \in {4013, 4014} /\ optional
    IN  \/ /\ code \in {4004} \cup 4010 .. 4014 /\ ~refused
           /\ phase' = "stopped"
           /\ UNCHANGED <<tried, main, reached, owed, wait, resumable,
                          sequence, optional, failures, unanswered,
                          identified, epoch, served, asks, cursor, alive,
                          gone, calm, historyVars>>
        \/ /\ refused
           /\ optional' = FALSE
           /\ End(r, TRUE, "identify", 0, FALSE)
           /\ told' = (epoch > 0)
        \/ /\ code \in {4007, 4009}
           /\ End(r, TRUE, "identify", 0, FALSE)
           /\ told' = (epoch > 0)
           /\ UNCHANGED optional
        \/ /\ code \notin {4004, 4007, 4009} \cup 4010 .. 4014
           /\ End(r, FALSE, Again, 0, FALSE)
           /\ UNCHANGED <<optional, told>>

(* A close frame with a code, in the place of HELLO or later. *)
Close(code) ==
    /\ phase \in {"opening", "open"} /\ ~calm
    /\ phase = "open" => alive
    /\ Closed(code)
    /\ UNCHANGED commandVars

-----------------------------------------------------------------------------
(* The network, the resume host, and the rest of the world. *)

(* A read or a write fails, or the socket closes without a code. *)
LoseConnection ==
    /\ phase = "open" /\ ~calm
    /\ Lose
    /\ UNCHANGED commandVars

(* The connection is half open: nothing arrives any more. *)
GoSilent ==
    /\ Hears /\ ~calm
    /\ alive' = FALSE
    /\ UNCHANGED <<clientVars, epoch, served, asks, cursor, gone, calm,
                   commandVars, historyVars>>

(* Something happens in Discord, whether the bot is connected or not. *)
NewEvent ==
    /\ epoch > 0 /\ ~told /\ served < MaxEvents
    /\ served' = served + 1
    /\ UNCHANGED <<clientVars, epoch, asks, cursor, alive, gone, calm,
                   commandVars, historyVars>>

(* From now on the network and Discord do what they should; a resume host  *)
(* that is gone stays gone.                                                *)
CalmDown ==
    /\ ~calm
    /\ calm' = TRUE
    /\ UNCHANGED <<clientVars, epoch, served, asks, cursor, alive, gone,
                   commandVars, historyVars>>

(* The bot asks for a voice state in guild g, in the next command. *)
Command(g) ==
    \E number \in 1 .. MaxCommands :
        /\ \A h \in Guilds : issued[h] < number
        /\ number = 1 \/ \E h \in Guilds : issued[h] = number - 1
        /\ issued' = [issued EXCEPT ![g] = number]
        /\ inbox' = inbox \cup {[guild |-> g, number |-> number]}
        /\ UNCHANGED <<clientVars, gatewayVars, historyVars, written, dropped>>

-----------------------------------------------------------------------------
Stopped == phase = "stopped" /\ UNCHANGED vars

Next ==
    \/ Connect \/ FailToOpen \/ Introduce \/ Tick \/ Flush
    \/ Ready \/ Dispatch \/ Resumed \/ AskForBeat \/ Acknowledge
    \/ AskToReconnect \/ Invalidate \/ (\E code \in Codes : Close(code))
    \/ LoseConnection \/ GoSilent \/ NewEvent \/ CalmDown
    \/ (\E g \in Guilds : Command(g)) \/ Stopped

(* The task runs its timers and reads; a gateway that is reached answers. *)
Spec == /\ Init /\ [][Next]_vars
        /\ WF_vars(Connect) /\ WF_vars(Introduce) /\ WF_vars(FailToOpen)
        /\ WF_vars(Tick) /\ WF_vars(Flush)
        /\ WF_vars(Ready) /\ WF_vars(Dispatch) /\ WF_vars(Resumed)
        /\ WF_vars(Acknowledge)

-----------------------------------------------------------------------------
(* Properties. *)

TypeOK ==
    /\ phase \in {"waiting", "opening", "open", "stopped"}
    /\ tried \in {"identify", "resume"}
    /\ main \in BOOLEAN /\ optional \in BOOLEAN
    /\ reached \in Nothing .. Lasted
    /\ owed \in {"none", "asked", "aged"}
    /\ wait \in 0 .. 600
    /\ resumable \in 0 .. MaxSessions /\ sequence \in 0 .. MaxEvents
    /\ failures \in 0 .. FailureCap
    /\ unanswered \in 0 .. RESUME_ATTEMPTS
    /\ identified \in 0 .. IdentifyCap
    /\ epoch \in 0 .. MaxSessions /\ served \in 0 .. MaxEvents
    /\ asks \in {"none", "identify", "resume", "replaying", "accepted"}
    /\ cursor \in 0 .. MaxEvents
    /\ alive \in BOOLEAN /\ gone \in BOOLEAN /\ calm \in BOOLEAN
    /\ told \in BOOLEAN /\ spent \in 0 .. IdentifyCap
    /\ tried = "resume" => resumable # 0

(* The events of a session are handed on in order, each once and without a *)
(* gap, across every lost connection: RESUME carries the number of the     *)
(* last event observed (SessionState.sequence, introduction).              *)
EventsInOrder ==
    \A e \in 1 .. MaxSessions : \A i \in DOMAIN handed[e] : handed[e][i] = i

Stream == INSTANCE EventStream WITH
    Sessions <- 1 .. MaxSessions, newest <- epoch, published <- served,
    delivered <- handed

(* Whoever is handed the events sees one session after the other, whole    *)
(* and in order, and nothing of the connections that carried them: a READY *)
(* begins a session, a dispatch is its next event, and losing, resuming or *)
(* giving up a connection does not show (session, SessionState::observe).  *)
HandsOnInOrder == Stream!Spec

(* The session was given up and the gateway has a newest one to lose. *)
GivenUp == epoch > 0 /\ resumable = 0

(* "A network that is gone never gives a session up": a session is         *)
(* forgotten only when the gateway ended it, or after three RESUMEs in a   *)
(* row that it answered and did not accept (SessionState::forget).         *)
KeptUnlessTold == GivenUp => told \/ tally.answered = RESUME_ATTEMPTS

(* An IDENTIFY that follows others that did not last waits longer than     *)
(* they did, so flapping connections cannot spend the session starts of a  *)
(* day: the n-th waits 5 * 2^(n-2) units, at most 600 (Retry::spacing).    *)
IdentifiesSpaced ==
    [][asks' = "identify" /\ asks # "identify" /\ spent > 0
          => wait >= Least(5 * 2 ^ (spent - 1), 600)]_vars

(* Of the voice states asked for in a guild the newest is the last one     *)
(* that goes out: it is held, or it was written after every other, or the  *)
(* very batch that carried it was cut off (commands, coalesce).            *)
NewestCommandWritten ==
    \A g \in Guilds :
        \/ written[g] = issued[g] \/ dropped[g] = issued[g]
        \/ \E c \in inbox : c.guild = g /\ c.number = issued[g]

(* "An outage of any length ends in a RESUME, and the events it missed are *)
(* replayed", even when the resume host is gone: once the world is calm    *)
(* every event the session has is handed on.  (A session that was given up *)
(* when the bound on sessions was reached has no successor.)               *)
CaughtUp ==
    calm ~> \/ phase = "stopped"
            \/ epoch = MaxSessions /\ resumable = 0
            \/ epoch > 0 /\ Len(handed[epoch]) = served

(* "A network that is gone never gives a session up ... an outage of any   *)
(* length ends in a RESUME, and the events it missed are replayed"         *)
(* (gateway.rs:15): three replays the network cut off do not give it up.   *)
ReplayIsNotCounted == GivenUp /\ ~told => ~tally.cut
=============================================================================
