----------------------------- MODULE DiscordSay -----------------------------
(***************************************************************************)
(* Lines spoken in a Discord voice channel (src/discord/say.rs, speak_queue*)
(* in src/discord/voice.rs, say_turn in src/discord.rs).  `discord say`    *)
(* publishes requests in the store; the speaker of the resident process    *)
(* looks for them, plays them oldest first, and records what became of     *)
(* each.  The process may crash between any two steps, every access to the *)
(* store may fail, and a restarted speaker decides from the store alone.   *)
(*                                                                         *)
(* Times only matter relative to the start of a speaker, so the clock      *)
(* moves when a speaker starts: by one unit, or past SAY_STALE.            *)
(***************************************************************************)
EXTENDS Naturals, FiniteSets, Sequences, SequencesExt

CONSTANTS
    Requests,           \* say requests
    NoRequest,
    Stale,              \* SAY_STALE in clock units
    MaxRuns,            \* bound: speakers that are started
    MaxStoreFailures,   \* bound: store operations that fail
    MaxInterruptions,   \* bound: lines the voice connection interrupts
    FailedInARow        \* FAILED_IN_A_ROW

ASSUME SayAssumption ==
    /\ NoRequest \notin Requests
    /\ Stale \in Nat \ {0}
    /\ {MaxRuns, MaxStoreFailures, MaxInterruptions} \subseteq Nat
    /\ FailedInARow \in Nat \ {0}

VARIABLES
    \* the store
    asked,      \* requests in the order they were made
    askedAt,    \* when each was made
    beganAt,    \* the latest started outcome of each, 0 for none
    outcome,    \* settling outcomes of each: "played", "failed"
    \* the speaker
    pc,         \* "down", "idle", "reading", "judging", "speaking", ...
    started,    \* when this speaker started
    news,       \* the store changed since the snapshot in SayQueue.seen
    pending,    \* unsettled requests the look has still to judge
    current,    \* the request being played
    recorder,   \* the task that records Started
    line,       \* how far speak_line got
    failedInARow,
    \* environment and history
    now, runs, storeFailures, interruptions,
    heardBy,    \* per request, the speakers whose audio of it began
    landed,     \* per request, the speakers whose Started landed
    finished,   \* requests that played to their end
    lookFailed  \* the last look returned an error

store == <<asked, askedAt, beganAt, outcome>>
speaker == <<pc, started, news, pending, current, recorder, line,
             failedInARow>>
counters == <<now, runs, storeFailures, interruptions>>
history == <<heardBy, landed, finished, lookFailed>>
vars == <<store, speaker, counters, history>>

-----------------------------------------------------------------------------
Settled(r) == outcome[r] # {}

(* Mutant: a request a previous speaker began is played again. *)
MustNotPlayStale(r) == askedAt[r] + Stale < started

(* say_turn: begun by a previous speaker, or asked for too long ago. *)
MustNotPlay(r) ==
    \/ beganAt[r] # 0 /\ beganAt[r] < started
    \/ askedAt[r] + Stale < started

StoreFails == /\ storeFailures < MaxStoreFailures
              /\ storeFailures' = storeFailures + 1

(* An outcome is published; the store has changed since the last look. *)
Publish(r, what) ==
    /\ outcome' = [outcome EXCEPT ![r] = @ \cup {what}]
    /\ news' = TRUE
    /\ UNCHANGED <<asked, askedAt, beganAt, storeFailures>>

Init ==
    /\ asked = <<>> /\ askedAt = [r \in Requests |-> 0]
    /\ beganAt = [r \in Requests |-> 0]
    /\ outcome = [r \in Requests |-> {}]
    /\ pc = "down" /\ started = 0 /\ news = TRUE /\ pending = {}
    /\ current = NoRequest /\ recorder = "none" /\ line = "none"
    /\ failedInARow = 0
    /\ now = 1 /\ runs = 0 /\ storeFailures = 0 /\ interruptions = 0
    /\ heardBy = [r \in Requests |-> {}]
    /\ landed = [r \in Requests |-> {}]
    /\ finished = {} /\ lookFailed = FALSE

-----------------------------------------------------------------------------
(* Outside the speaker. *)

(* `discord say`, in a process of its own. *)
Ask(r) ==
    /\ r \notin ToSet(asked)
    /\ asked' = Append(asked, r)
    /\ askedAt' = [askedAt EXCEPT ![r] = now]
    /\ news' = TRUE
    /\ UNCHANGED <<beganAt, outcome, pc, started, pending, current, recorder,
                   line, failedInARow, counters, history>>

(* Any other record or blob arrives in the store. *)
OtherChange ==
    /\ news' = TRUE
    /\ UNCHANGED <<store, pc, started, pending, current, recorder, line,
                   failedInARow, counters, history>>

(* The resident process starts; what it began before is behind it. *)
Start ==
    /\ pc = "down" /\ runs < MaxRuns
    /\ runs' = runs + 1
    /\ \E later \in {1, Stale + 1} : now' = now + later
    /\ started' = now'
    /\ pc' = "idle" /\ news' = TRUE
    /\ lookFailed' = FALSE
    /\ UNCHANGED <<store, pending, current, recorder, line, failedInARow,
                   storeFailures, interruptions, heardBy, landed,
                   finished>>

(* The process is gone; nothing of the speaker is kept. *)
Gone ==
    /\ pc' = "down" /\ pending' = {} /\ current' = NoRequest
    /\ recorder' = "none" /\ line' = "none" /\ failedInARow' = 0
    /\ UNCHANGED <<started, now, runs>>

Crash ==
    /\ pc # "down"
    /\ Gone
    /\ UNCHANGED <<store, news, storeFailures, interruptions, heardBy, landed,
                   finished, lookFailed>>

-----------------------------------------------------------------------------
(* SayQueue::next *)

(* The snapshot is sampled; nothing to do unless it differs from the last. *)
Look ==
    /\ pc = "idle" /\ news
    /\ news' = FALSE
    /\ pc' = "reading"
    /\ UNCHANGED <<store, started, pending, current, recorder, line,
                   failedInARow, counters, history>>

(* unsettled_speech; a failed read leaves the last look where it was. *)
Read ==
    /\ pc = "reading"
    /\ \/ /\ pending' = {r \in ToSet(asked) : ~Settled(r)}
          /\ pc' = "judging" /\ lookFailed' = FALSE
          /\ UNCHANGED <<storeFailures, news>>
       \/ /\ StoreFails
          /\ pc' = "idle" /\ lookFailed' = TRUE /\ news' = TRUE
          /\ UNCHANGED pending
    /\ UNCHANGED <<store, started, current, recorder, line, failedInARow,
                   now, runs, interruptions, heardBy, landed,
                   finished>>

(* The pending requests are judged in the order they were made. *)
Oldest(r) ==
    /\ r \in pending
    /\ \E i \in DOMAIN asked :
          asked[i] = r /\ \A j \in 1 .. i - 1 : asked[j] \notin pending

(* The first pending request that may be played is taken. *)
TakeLine ==
    /\ pc = "judging"
    /\ \E r \in pending : Oldest(r) /\ ~MustNotPlay(r) /\ current' = r
    /\ pending' = {}
    /\ pc' = "speaking" /\ recorder' = "writing" /\ line' = "silent"
    /\ UNCHANGED <<store, started, news, failedInARow, counters, history>>

(* One that must not be is failed on the way; if that is not recorded the  *)
(* look returns the error.                                                 *)
FailPending ==
    /\ pc = "judging"
    /\ \E r \in pending :
          /\ Oldest(r) /\ MustNotPlay(r)
          /\ \/ /\ Publish(r, "failed")
                /\ pending' = pending \ {r} /\ UNCHANGED <<pc, lookFailed>>
             \/ /\ StoreFails
                /\ pending' = {} /\ pc' = "idle" /\ lookFailed' = TRUE
                /\ UNCHANGED <<store, news>>
    /\ UNCHANGED <<started, current, recorder, line, failedInARow, now, runs,
                   interruptions, heardBy, landed, finished>>

(* Mutant: the snapshot to compare with is sampled after the look. *)
EndLookSampling ==
    /\ pc = "judging" /\ pending = {}
    /\ pc' = "idle" /\ news' = FALSE
    /\ UNCHANGED <<store, started, pending, current, recorder, line,
                   failedInARow, counters, history>>

EndLook ==
    /\ pc = "judging" /\ pending = {}
    /\ pc' = "idle"
    /\ UNCHANGED <<store, started, news, pending, current, recorder, line,
                   failedInARow, counters, history>>

-----------------------------------------------------------------------------
(* speak_queue: Started is recorded beside the line. *)

RecordStarted ==
    /\ pc = "speaking" /\ recorder = "writing"
    /\ \/ /\ beganAt' = [beganAt EXCEPT ![current] = started]
          /\ news' = TRUE
          /\ recorder' = "landed"
          /\ landed' = [landed EXCEPT ![current] = @ \cup {started}]
          /\ UNCHANGED storeFailures
       \/ StoreFails /\ recorder' = "failed" /\ UNCHANGED <<beganAt, news,
                                                            landed>>
    /\ UNCHANGED <<asked, askedAt, outcome, pc, started, pending, current,
                   line, failedInARow, now, runs, interruptions, heardBy,
                   finished, lookFailed>>

(* The first sound is played. *)
Sound ==
    /\ pc = "speaking" /\ line = "silent"
    /\ line' = "audible"
    /\ heardBy' = [heardBy EXCEPT ![current] = @ \cup {started}]
    /\ UNCHANGED <<store, pc, started, news, pending, current, recorder,
                   failedInARow, counters, landed, finished,
                   lookFailed>>

(* How speak_line ends: the track completed, the line or the synthesizer   *)
(* failed, or the voice connection was lost or made again.                 *)
EndLine ==
    /\ pc = "speaking" /\ line \in {"silent", "audible"}
    /\ \E how \in {"played", "failed", "broken", "interrupted"} :
          /\ line' = how
          /\ how = "played" => line = "audible"
          /\ how = "interrupted" => interruptions < MaxInterruptions
          /\ interruptions' = interruptions
                 + IF how = "interrupted" THEN 1 ELSE 0
          /\ finished' = IF how = "played" THEN finished \cup {current}
                                           ELSE finished
    /\ UNCHANGED <<store, pc, started, news, pending, current, recorder,
                   failedInARow, now, runs, storeFailures, heardBy, landed,
                   lookFailed>>

(* The line has ended and so has the task that records Started. *)
Ended(how) == pc = "speaking" /\ line = how /\ recorder \in {"landed", "failed"}

(* Mutant: a line that was interrupted is settled as played. *)
SettleInterrupted ==
    /\ Ended("interrupted")
    /\ Publish(current, "played")
    /\ pc' = "idle" /\ current' = NoRequest
    /\ recorder' = "none" /\ line' = "none" /\ failedInARow' = 0
    /\ UNCHANGED <<started, pending, now, runs, interruptions, history>>

(* An interrupted line is played again, without looking at the store. *)
Again ==
    /\ Ended("interrupted")
    /\ recorder' = "writing" /\ line' = "silent"
    /\ UNCHANGED <<store, pc, started, news, pending, current, failedInARow,
                   counters, history>>

(* Mutant: the line is not let go of once its outcome is recorded. *)
SettleKeepingLine ==
    \E how \in {"played", "failed"} :
        /\ Ended(how)
        /\ Publish(current, how)
        /\ recorder' = "writing" /\ line' = "silent"
        /\ UNCHANGED <<pc, started, pending, current, failedInARow, now, runs,
                       interruptions, history>>

(* The outcome of a line that was played or failed is recorded.  Too many  *)
(* failures in a row, or an outcome that is not recorded, end the process. *)
Settle ==
    \E how \in {"played", "failed"} :
        LET failing == IF how = "played" THEN 0 ELSE failedInARow + 1
        IN  /\ Ended(how)
            /\ \/ /\ Publish(current, how)
                  /\ IF failing >= FailedInARow
                     THEN Gone
                     ELSE /\ pc' = "idle" /\ current' = NoRequest
                          /\ recorder' = "none" /\ line' = "none"
                          /\ failedInARow' = failing
                          /\ UNCHANGED <<started, pending, now, runs>>
               \/ StoreFails /\ Gone /\ UNCHANGED <<store, news>>
            /\ UNCHANGED <<interruptions, history>>

(* A broken synthesizer: the request is failed first, then the process     *)
(* ends whether or not that was recorded.                                  *)
Break ==
    /\ Ended("broken")
    /\ \/ Publish(current, "failed")
       \/ StoreFails /\ UNCHANGED <<store, news>>
    /\ Gone
    /\ UNCHANGED <<interruptions, history>>

-----------------------------------------------------------------------------
Speak == TakeLine \/ FailPending \/ EndLook \/ RecordStarted \/ Sound
           \/ EndLine \/ Again \/ Settle \/ Break

Next == Start \/ Crash \/ OtherChange \/ (\E r \in Requests : Ask(r))
          \/ Look \/ Read \/ Speak

(* The speaker goes on while it runs, and the process is restarted.  That  *)
(* anything else ever changes the store is not assumed.                    *)
Spec == /\ Init /\ [][Next]_vars
        /\ WF_vars(Start) /\ WF_vars(Look) /\ WF_vars(Read) /\ WF_vars(Speak)

-----------------------------------------------------------------------------
(* Properties. *)

TypeOK ==
    /\ asked \in Seq(Requests) /\ IsInjective(asked)
    /\ askedAt \in [Requests -> Nat] /\ beganAt \in [Requests -> Nat]
    /\ outcome \in [Requests -> SUBSET {"played", "failed"}]
    /\ pc \in {"down", "idle", "reading", "judging", "speaking"}
    /\ started \in Nat /\ now \in Nat /\ news \in BOOLEAN
    /\ pending \subseteq ToSet(asked)
    /\ current \in Requests \cup {NoRequest}
    /\ current # NoRequest <=> pc = "speaking"
    /\ recorder \in {"none", "writing", "landed", "failed"}
    /\ line \in {"none", "silent", "audible", "played", "failed", "broken",
                 "interrupted"}
    /\ failedInARow \in 0 .. FailedInARow - 1

(* A request whose start a speaker recorded is never audible again under a *)
(* later speaker: it may have been heard (say_turn).                       *)
NotReplayedOnceRecorded ==
    \A r \in Requests : \A a, b \in heardBy[r] : a < b => a \notin landed[r]

(* "a played or failed one is settled for good" (say.rs:12): once an       *)
(* outcome is recorded it is the only one, and the line is silent.         *)
SettledForGood ==
    \A r \in Requests :
        /\ Cardinality(outcome[r]) <= 1
        /\ Settled(r) => current # r

(* Played is only ever recorded of a line whose track completed, never of  *)
(* one that was interrupted and has to be played again (settle).           *)
PlayedIsTrue == \A r \in Requests : "played" \in outcome[r] => r \in finished

(* Every request is settled, or left for a speaker that is never started   *)
(* because the bound on runs is reached: nothing asked for is forgotten    *)
(* while the store works.                                                  *)
AskedIsSettled ==
    \A r \in Requests :
        (r \in ToSet(asked)) ~> \/ Settled(r)
                                \/ pc = "down" /\ runs = MaxRuns
                                \/ storeFailures > 0

(* "A failed look is looked at again on the next call" (say.rs:64): after  *)
(* one, the idle speaker still sees a store that changed.                  *)
FailedLookIsRepeated == pc = "idle" /\ lookFailed => news
=============================================================================
