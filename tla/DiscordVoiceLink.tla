-------------------------- MODULE DiscordVoiceLink --------------------------
(***************************************************************************)
(* The voice connection of `discord live` (src/discord/voice.rs: run, Link,*)
(* Rejoin, VoiceJoin): being in the voice channel is a goal the task keeps *)
(* asking for, and whether a connection works is the driver's answer to    *)
(* the newest attempt.  Dispatches of the gateway, answers of the driver   *)
(* and losses it reports arrive on channels of their own, in any order     *)
(* relative to each other.                                                 *)
(*                                                                         *)
(* An attempt number only says whether an attempt is the newest one, so    *)
(* attempts carry that as a flag.  Instants are kept as far as they are    *)
(* compared: a join is due "later" until it is "ripe", a connection is     *)
(* "fresh" until it has "lasted" JOIN_CONFIRM.                             *)
(***************************************************************************)
EXTENDS Naturals, Sequences, FiniteSets, FiniteSetsExt, SequencesExt

CONSTANTS
    Names,          \* numbers for voice sessions and servers, used again
    MaxTrouble,     \* bound: things that go wrong
    MaxInFlight     \* bound: messages in one channel

ASSUME VoiceAssumption ==
    /\ Names \subseteq Nat \ {0} /\ IsFiniteSet(Names)
    /\ MaxTrouble \in Nat /\ MaxInFlight \in Nat \ {0}

VARIABLES
    link,       \* Link and its Rejoin
    session,    \* VoiceJoin.session_id, 0 for None
    server,     \* VoiceJoin.server: one not yet handed to the driver
    dispatches, \* gateway -> task
    commands,   \* task -> gateway: voice state updates
    requests,   \* task -> driver
    answer,     \* driver -> task: the result of the newest attempt
    losses,     \* driver -> task: lost connections
    member,     \* Discord: the bot's voice session in the channel, or 0
    host,       \* Discord: the voice server of the channel, or 0
    live,       \* the voice server still exists
    target, up, \* the driver's connection, and whether it works
    trouble, calm

taskVars == <<link, session, server>>
discordVars == <<member, host, live>>
driverVars == <<target, up>>
worldVars == <<trouble, calm>>
vars == <<taskVars, dispatches, commands, requests, answer, losses,
          discordVars, driverVars, worldVars>>

-----------------------------------------------------------------------------
NoInfo == [session |-> 0, server |-> 0]

NewLink ==
    [connected |-> FALSE, info |-> NoInfo, reallocating |-> FALSE,
     failed |-> FALSE, rejoining |-> FALSE, leaving |-> FALSE,
     due |-> "none", attempts |-> 0, upSince |-> "none",
     bumped |-> FALSE, hand |-> FALSE]

Init ==
    /\ link = NewLink /\ session = 0 /\ server = 0
    /\ dispatches = <<[t |-> "READY", id |-> 0]>>
    /\ commands = <<>> /\ requests = <<>> /\ answer = "none" /\ losses = <<>>
    /\ member = 0 /\ host = 0 /\ live = FALSE
    /\ target = NoInfo /\ up = FALSE
    /\ trouble = 0 /\ calm = FALSE

-----------------------------------------------------------------------------
(* Rejoin.  attempts counts to one: only the first is special. *)

(* ended: a connection that lasted resets the backoff. *)
EndedUp(l) ==
    [l EXCEPT !.upSince = "none",
              !.attempts = IF l.upSince = "lasted" THEN 0 ELSE @]

(* by: a join is due at the latest then. *)
By(l, at) ==
    [l EXCEPT !.due = IF "ripe" \in {@, at} THEN "ripe" ELSE "later"]

Soon(l) ==
    LET e == EndedUp(l)
    IN  By(e, IF e.attempts = 0 THEN "ripe" ELSE "later")

Confirmed(l) ==
    [l EXCEPT !.due = "none",
              !.upSince = IF @ = "none" THEN "fresh" ELSE @]

-----------------------------------------------------------------------------
(* Link.  bumped says that attempt was counted up, so that no attempt in   *)
(* flight is the newest any more; hand, that the last connection goes to   *)
(* the driver as the newest attempt.                                       *)

Down(l) == [l EXCEPT !.connected = FALSE]

Over(l) == Down([l EXCEPT !.info = NoInfo, !.bumped = TRUE])

(* again *)
HandAgain(l) ==
    IF l.info = NoInfo THEN l
    ELSE [l EXCEPT !.bumped = TRUE, !.hand = TRUE]

NewConnection(l, info) ==
    [l EXCEPT !.connected = FALSE, !.reallocating = FALSE, !.failed = FALSE,
              !.rejoining = FALSE, !.leaving = FALSE, !.info = info,
              !.bumped = TRUE, !.hand = TRUE]

(* Mutant: attempts in flight when a loss arrives still count. *)
LostKeepingAttempts(l) ==
    LET e == EndedUp(Down(l))
    IN  IF l.info = NoInfo
        THEN IF l.reallocating THEN Down(l) ELSE Soon(Down(l))
        ELSE IF e.attempts = 0
        THEN HandAgain(By([e EXCEPT !.attempts = 1], "later"))
        ELSE By(e, "later")

(* The driver lost a connection: with one to hand again, at once or, while *)
(* the backoff runs, with the next join.                                   *)
Lost(l) ==
    LET d == Down([l EXCEPT !.bumped = TRUE])
        e == EndedUp(d)
    IN  IF l.info = NoInfo
        THEN IF l.reallocating THEN d ELSE Soon(d)
        ELSE IF e.attempts = 0
        THEN HandAgain(By([e EXCEPT !.attempts = 1], "later"))
        ELSE By(e, "later")

(* Mutant: a stale connection is dropped and joined again in place. *)
StaleInPlace(l) ==
    Soon([l EXCEPT !.info = NoInfo, !.failed = FALSE, !.bumped = TRUE])

Stale(l) ==
    Soon([l EXCEPT !.info = NoInfo, !.failed = FALSE, !.bumped = TRUE,
                   !.rejoining = TRUE])

(* Discord no longer knows the voice session or server. *)
Invalid(l) ==
    LET m == Lost(l)
    IN  IF m.hand THEN [m EXCEPT !.failed = TRUE]
        ELSE IF m.info # NoInfo THEN Stale(m) ELSE m

(* Mutant: leaving the channel always ends the rejoin by itself. *)
LeftQuietly(l) ==
    [Over(l) EXCEPT !.reallocating = FALSE, !.leaving = FALSE,
                    !.rejoining = FALSE]

Left(l) ==
    LET o == [Over(l) EXCEPT !.reallocating = FALSE, !.leaving = FALSE,
                             !.rejoining = FALSE]
    IN  IF l.rejoining THEN o ELSE Soon(o)

(* Mutant: the connection to a voice server that went away stays. *)
ServerGoneDown(l) ==
    [EndedUp(Down(l)) EXCEPT !.bumped = TRUE, !.reallocating = TRUE,
                             !.due = "later"]

ServerGone(l) ==
    [EndedUp(Over(l)) EXCEPT !.reallocating = TRUE, !.due = "later"]

Result(l, ok) ==
    IF ok
    THEN Confirmed([l EXCEPT !.failed = FALSE, !.connected = TRUE])
    ELSE IF l.failed THEN Stale(Down(l))
    ELSE Soon([Down(l) EXCEPT !.failed = TRUE])

(* The link becomes l: attempts in flight are outdated, an attempt is      *)
(* handed over, also is a request that follows.                            *)
Become(l, also) ==
    LET outdated == IF ~l.bumped THEN requests
                    ELSE [i \in DOMAIN requests |->
                             [requests[i] EXCEPT !.newest = FALSE]]
        handed == IF l.hand
                  THEN <<[connect |-> TRUE, info |-> l.info, newest |-> TRUE]>>
                  ELSE <<>>
    IN  /\ requests' = outdated \o handed \o also
        /\ Len(requests') <= MaxInFlight
        /\ link' = [l EXCEPT !.bumped = FALSE, !.hand = FALSE]

Outdates(l) == IF l.bumped THEN answer' = "none" ELSE UNCHANGED answer

-----------------------------------------------------------------------------
(* The task. *)

(* A dispatch of the gateway: what run does with READY and RESUMED, then   *)
(* VoiceJoin::observe, then what its change asks of the link.              *)
TakeDispatch ==
    /\ dispatches # <<>>
    /\ dispatches' = Tail(dispatches)
    /\ LET d == Head(dispatches)
           s == CASE d.t = "STATE" -> d.id [] d.t \in {"READY", "LEFT"} -> 0
                  [] OTHER -> session
           v == CASE d.t = "SERVER" -> d.id [] d.t \in {"READY", "LEFT"} -> 0
                  [] OTHER -> server
           old == d.t = "LEFT" /\ session # 0 /\ d.id # session
           leave == <<[connect |-> FALSE, info |-> NoInfo, newest |-> FALSE]>>
           gone == d.t = "SERVER" /\ d.id = 0
           connect == d.t \in {"STATE", "SERVER"} /\ s # 0 /\ v # 0
           l == CASE d.t = "READY" ->
                        [link EXCEPT !.due = "ripe", !.attempts = 0]
                  [] d.t = "RESUMED" ->
                        IF link.connected THEN link ELSE Soon(link)
                  [] d.t = "LEFT" -> IF old THEN link ELSE Left(link)
                  [] gone -> ServerGone(link)
                  [] connect ->
                        NewConnection(link, [session |-> s, server |-> v])
                  [] OTHER -> link
       IN  /\ session' = IF old THEN session ELSE s
           /\ server' = IF old THEN server ELSE IF connect THEN 0 ELSE v
           /\ Become(l, IF gone THEN leave ELSE <<>>)
           /\ Outdates(l)
    /\ UNCHANGED <<commands, losses, discordVars, driverVars, worldVars>>

(* The result of the newest attempt; any other changes nothing. *)
TakeAnswer ==
    /\ answer # "none"
    /\ LET l == Result(link, answer = "ok")
       IN  Become(l, <<>>)
    /\ answer' = "none"
    /\ UNCHANGED <<session, server, dispatches, commands, losses, discordVars,
                   driverVars, worldVars>>

TakeLoss ==
    /\ losses # <<>>
    /\ losses' = Tail(losses)
    /\ LET l == IF Head(losses) = "gone" THEN Invalid(link) ELSE Lost(link)
       IN  Become(l, <<>>) /\ Outdates(l)
    /\ UNCHANGED <<session, server, dispatches, commands, discordVars,
                   driverVars, worldVars>>

Trouble == ~calm /\ trouble < MaxTrouble /\ trouble' = trouble + 1

(* A voice state update joins those the gateway holds, or, when it could   *)
(* not send them, takes their place.                                       *)
Send(update) ==
    /\ commands' \in {<<update>>, Append(commands, update)}
    /\ Len(commands') <= MaxInFlight
    /\ calm => commands' = Append(commands, update)

(* A batch that the gateway takes from its outbox and fails to send is     *)
(* gone, but for what went out before.                                     *)
LoseCommands ==
    /\ Trouble
    /\ \E i \in DOMAIN commands : commands' = SubSeq(commands, 1, i - 1)
    /\ UNCHANGED <<taskVars, dispatches, requests, answer, losses, discordVars,
                   driverVars, calm>>

(* When all is calm what is in flight arrives within a second, the time    *)
(* between two ticks, and the driver learns that its session is over.      *)
Settled ==
    /\ dispatches = <<>> /\ commands = <<>> /\ requests = <<>>
    /\ answer = "none" /\ losses = <<>>
    /\ up => target.session = member

(* The ticker: a rejoin leaves the channel first. *)
TickLeave ==
    /\ link.due = "ripe" /\ link.rejoining /\ ~link.leaving
    /\ calm => Settled
    /\ link' = [link EXCEPT !.leaving = TRUE]
    /\ Send("leave")
    /\ UNCHANGED <<session, server, dispatches, requests, answer, losses,
                   discordVars, driverVars, worldVars>>

(* The ticker: a join that is due goes out, and the last connection is     *)
(* handed to the driver again with it, unless a working one confirms it.   *)
TickJoin ==
    /\ link.due = "ripe" /\ (link.rejoining => link.leaving)
    /\ calm => Settled
    /\ LET taken == ~(link.connected /\ link.attempts > 0)
           l == IF taken
                THEN HandAgain([link EXCEPT !.attempts = 1, !.due = "later",
                                            !.leaving = FALSE])
                ELSE Confirmed(link)
       IN  /\ IF taken THEN Send("join") ELSE UNCHANGED commands
           /\ Become(l, <<>>)
           /\ Outdates(l)
    /\ UNCHANGED <<session, server, dispatches, losses, discordVars,
                   driverVars, worldVars>>

(* Time: a due join becomes ripe, a connection has lasted. *)
Ripen ==
    /\ link.due = "later"
    /\ calm => Settled
    /\ link' = [link EXCEPT !.due = "ripe"]
    /\ UNCHANGED <<session, server, dispatches, commands, requests, answer,
                   losses, discordVars, driverVars, worldVars>>

Age ==
    /\ link.upSince = "fresh"
    /\ link' = [link EXCEPT !.upSince = "lasted"]
    /\ UNCHANGED <<session, server, dispatches, commands, requests, answer,
                   losses, discordVars, driverVars, worldVars>>

-----------------------------------------------------------------------------
(* Discord. *)

(* A name nothing refers to any more. *)
Unused ==
    Names \ ({session, server, member, host, target.session, target.server,
              link.info.session, link.info.server}
             \cup {dispatches[i].id : i \in DOMAIN dispatches}
             \cup {requests[i].info.session : i \in DOMAIN requests}
             \cup {requests[i].info.server : i \in DOMAIN requests})

Dispatch(ds) == /\ dispatches' = dispatches \o ds
                /\ Len(dispatches') <= MaxInFlight

(* A join of a bot that is out of the channel starts a voice session on a  *)
(* server; one of a bot that is in it need not be answered.                *)
ServeJoin ==
    /\ commands # <<>> /\ Head(commands) = "join"
    /\ commands' = Tail(commands)
    /\ IF member = 0
       THEN /\ Cardinality(Unused) >= 1
            /\ LET n == Min(Unused)
                   state == [t |-> "STATE", id |-> n]
                   voice == [t |-> "SERVER", id |-> n]
               IN  /\ member' = n /\ host' = n /\ live' = TRUE
                   /\ \E ds \in {<<state, voice>>, <<voice, state>>} :
                         Dispatch(ds)
       ELSE /\ UNCHANGED discordVars
            /\ \E ds \in {<<>>, <<[t |-> "STATE", id |-> member]>>} :
                  Dispatch(ds)
    /\ UNCHANGED <<taskVars, requests, answer, losses, driverVars, worldVars>>

ServeLeave ==
    /\ commands # <<>> /\ Head(commands) = "leave"
    /\ commands' = Tail(commands)
    /\ IF member = 0 THEN UNCHANGED dispatches
                     ELSE Dispatch(<<[t |-> "LEFT", id |-> member]>>)
    /\ member' = 0 /\ host' = 0 /\ live' = FALSE
    /\ UNCHANGED <<taskVars, requests, answer, losses, driverVars, worldVars>>

(* The bot is taken out of the channel. *)
Kick ==
    /\ Trouble /\ member # 0
    /\ Dispatch(<<[t |-> "LEFT", id |-> member]>>)
    /\ member' = 0 /\ host' = 0 /\ live' = FALSE
    /\ UNCHANGED <<taskVars, commands, requests, answer, losses, driverVars,
                   calm>>

(* The voice server goes away, and Discord says so. *)
TakeServer ==
    /\ Trouble /\ member # 0 /\ host # 0
    /\ Dispatch(<<[t |-> "SERVER", id |-> 0]>>)
    /\ host' = 0 /\ live' = FALSE
    /\ UNCHANGED <<taskVars, commands, requests, answer, losses, member,
                   driverVars, calm>>

(* Discord allocates another. *)
Allocate ==
    /\ member # 0 /\ host = 0 /\ Unused # {}
    /\ host' = Min(Unused) /\ live' = TRUE
    /\ Dispatch(<<[t |-> "SERVER", id |-> host']>>)
    /\ UNCHANGED <<taskVars, commands, requests, answer, losses, member,
                   driverVars, worldVars>>

(* The voice server is gone and nobody says so. *)
LoseServer ==
    /\ Trouble /\ live
    /\ live' = FALSE
    /\ UNCHANGED <<taskVars, dispatches, commands, requests, answer, losses,
                   member, host, driverVars, calm>>

(* The gateway session is resumed, or replaced by a new one, with which    *)
(* the voice state of the old one ends.                                    *)
Resume ==
    /\ Trouble
    /\ Dispatch(<<[t |-> "RESUMED", id |-> 0]>>)
    /\ UNCHANGED <<taskVars, commands, requests, answer, losses, discordVars,
                   driverVars, calm>>

NewSession ==
    /\ Trouble
    /\ \E ds \in {<<>>} \cup
           (IF member = 0 THEN {} ELSE {<<[t |-> "LEFT", id |-> member]>>}) :
          Dispatch(<<[t |-> "READY", id |-> 0]>> \o ds)
    /\ member' = 0 /\ host' = 0 /\ live' = FALSE
    /\ UNCHANGED <<taskVars, commands, requests, answer, losses, driverVars,
                   calm>>

-----------------------------------------------------------------------------
(* songbird's driver. *)

Works(info) == live /\ info = [session |-> member, server |-> host]

(* Requests are taken in order.  A connection it already holds answers at  *)
(* once, even one that is lost and not yet known to be.                    *)
ServeRequest ==
    /\ requests # <<>>
    /\ requests' = Tail(requests)
    /\ LET r == Head(requests)
       IN  IF ~r.connect
           THEN /\ up' = FALSE /\ target' = NoInfo
                /\ UNCHANGED <<answer, trouble>>
           ELSE /\ target' = r.info
                /\ \/ /\ up' = ((up /\ target = r.info) \/ Works(r.info))
                      /\ UNCHANGED trouble
                   \/ up' = FALSE /\ Trouble
                /\ answer' = IF r.newest
                             THEN IF up' THEN "ok" ELSE "error" ELSE answer
    /\ UNCHANGED <<taskVars, dispatches, commands, losses, discordVars, calm>>

(* A connection that worked is lost; of one to a session or server that    *)
(* is over, Discord may say so.                                            *)
Lose ==
    /\ up
    /\ up' = FALSE
    /\ \/ Works(target) /\ Trouble /\ losses' = Append(losses, "lost")
       \/ /\ ~Works(target) /\ UNCHANGED trouble
          /\ losses' \in {Append(losses, "lost"), Append(losses, "gone")}
    /\ Len(losses') <= MaxInFlight
    /\ UNCHANGED <<taskVars, dispatches, commands, requests, answer,
                   discordVars, target, calm>>

CalmDown ==
    /\ ~calm /\ calm' = TRUE
    /\ UNCHANGED <<taskVars, dispatches, commands, requests, answer, losses,
                   discordVars, driverVars, trouble>>

-----------------------------------------------------------------------------
Next ==
    \/ TakeDispatch \/ TakeAnswer \/ TakeLoss \/ TickLeave \/ TickJoin
    \/ Ripen \/ Age
    \/ LoseCommands \/ ServeJoin \/ ServeLeave \/ Kick \/ TakeServer \/ Allocate
    \/ LoseServer \/ Resume \/ NewSession
    \/ ServeRequest \/ Lose \/ CalmDown

Spec == /\ Init /\ [][Next]_vars
        /\ WF_vars(TakeDispatch) /\ WF_vars(TakeAnswer) /\ WF_vars(TakeLoss)
        /\ WF_vars(TickLeave) /\ WF_vars(TickJoin) /\ WF_vars(Ripen)
        /\ WF_vars(ServeJoin) /\ WF_vars(ServeLeave) /\ WF_vars(Allocate)
        /\ WF_vars(ServeRequest) /\ WF_vars(Lose)

-----------------------------------------------------------------------------
(* Properties. *)

Info == [session : Names \cup {0}, server : Names \cup {0}]

TypeOK ==
    /\ link \in [connected : BOOLEAN, info : Info, reallocating : BOOLEAN,
                 failed : BOOLEAN, rejoining : BOOLEAN, leaving : BOOLEAN,
                 due : {"none", "later", "ripe"}, attempts : {0, 1},
                 upSince : {"none", "fresh", "lasted"}, bumped : {FALSE},
                 hand : {FALSE}]
    /\ {session, server, member, host} \subseteq Names \cup {0}
    /\ ToSet(dispatches) \subseteq
          [t : {"READY", "RESUMED", "STATE", "LEFT", "SERVER"},
           id : Names \cup {0}]
    /\ ToSet(commands) \subseteq {"join", "leave"}
    /\ ToSet(requests) \subseteq
          [connect : BOOLEAN, info : Info, newest : BOOLEAN]
    /\ answer \in {"none", "ok", "error"}
    /\ ToSet(losses) \subseteq {"lost", "gone"}
    /\ target \in Info
    /\ {live, up, calm} \subseteq BOOLEAN
    /\ trouble \in 0 .. MaxTrouble

(* The speaker is told that the connection works only when the driver      *)
(* holds the very connection the task means, or the news of its loss, of a *)
(* newer dispatch or of a newer request is under way: no answer or loss    *)
(* that arrives late makes a dead connection look alive.                   *)
ConnectedIsTrue ==
    link.connected =>
        \/ up /\ target = link.info
        \/ losses # <<>>
        \/ requests # <<>> \/ answer # "none"

(* Being in the channel is a goal: while no connection works a join is     *)
(* due, or the newest attempt is still with the driver.                    *)
GoalIsPursued ==
    \/ link.connected
    \/ link.due # "none"
    \/ answer # "none"
    \/ \E i \in DOMAIN requests : requests[i].newest
    \/ \E i \in DOMAIN dispatches : dispatches[i].t = "READY"

(* A connection that is over is never dialled again: the driver is handed  *)
(* only what the last dispatches gave, so once the bot left the channel or *)
(* its server went away every attempt that counts is for a newer one.      *)
OnlyStandingConnections ==
    /\ (link.reallocating \/ link.rejoining) => link.info = NoInfo
    /\ \A i \in DOMAIN requests :
          requests[i].newest => requests[i].info = link.info

(* Whatever went wrong before, once nothing more does the bot ends up with *)
(* a working voice connection and keeps it: after lost sessions, moved,    *)
(* silently dead or reallocated voice servers, kicks and failed attempts.  *)
EndsConnected == <>calm => <>[](link.connected /\ up /\ Works(target))
=============================================================================
