------------------------------ MODULE McpStdio ------------------------------
(***************************************************************************)
(* The MCP stdio frontend (src/mcp.rs, serve): one thread reads frames     *)
(* and answers protocol messages in order, every tools/call runs on a      *)
(* scoped thread of its own, and notifications/cancelled finds a running   *)
(* call by its request id.  At most MaxCalls calls run at once: the reader *)
(* waits for a slot before it admits another.                              *)
(*                                                                         *)
(* The client is the environment.  It may use a request id again once the  *)
(* earlier call of that id has been answered (Idle).                       *)
(***************************************************************************)
EXTENDS Naturals, FiniteSets

CONSTANTS
    Calls,      \* the tools/call requests a client may send
    Ids,        \* JSON-RPC request ids
    IdOf,       \* the id each call carries
    MaxCalls,   \* MAX_CONCURRENT_CALLS
    NoCall      \* no call is held, no id is running

ASSUME StdioAssumption ==
    /\ IsFiniteSet(Calls)
    /\ IdOf \in [Calls -> Ids]
    /\ MaxCalls \in Nat \ {0}
    /\ NoCall \notin Calls

VARIABLES
    session,    \* Server.state
    reader,     \* where the reading thread is
    subject,    \* the id of the last cancellation it read
    held,       \* the call it admits, or whose flag it is about to set
    free,       \* slots: tokens in the channel
    running,    \* id -> call whose flag the map holds
    flag,       \* the cancellation flag of each call
    stage,      \* where the thread of each call is
    failure,    \* an error was recorded and not yet taken
    outcome,    \* what serve returns
    answered,   \* calls whose response line was written
    cancel      \* history: the strongest cancellation of each call

readerVars == <<session, reader, subject, held>>
vars == <<readerVars, free, running, flag, stage, failure, outcome,
          answered, cancel>>

-----------------------------------------------------------------------------
(* A thread is one of these between its spawn and the release of its slot. *)
Holding == {"spawned", "running", "returned", "removed", "writing",
            "releasing", "breaking"}

(* The handler of the call has not come to an end. *)
Unfinished == {"spawned", "running"}

(* The client may send call c: no call of its id waits for an answer. *)
Idle(c) ==
    /\ stage[c] = "unread"
    /\ \A d \in Calls \ {c} :
          IdOf[d] = IdOf[c] => stage[d] = "unread" \/ d \in answered

Init ==
    /\ session = "New"
    /\ reader = "looking"
    /\ subject \in Ids
    /\ held = NoCall
    /\ free = MaxCalls
    /\ running = [i \in Ids |-> NoCall]
    /\ flag = [c \in Calls |-> FALSE]
    /\ stage = [c \in Calls |-> "unread"]
    /\ failure = FALSE
    /\ outcome = "none"
    /\ answered = {}
    /\ cancel = [c \in Calls |-> "none"]

-----------------------------------------------------------------------------
(* The reading thread. *)

(* The loop leaves: the scope joins every thread before serve returns. *)
Leave(result) ==
    /\ reader' = "joining"
    /\ outcome' = result

(* The loop begins by taking a recorded failure. *)
LookForFailure ==
    /\ reader = "looking"
    /\ failure' = FALSE
    /\ IF failure THEN Leave("error")
                  ELSE reader' = "reading" /\ UNCHANGED outcome
    /\ UNCHANGED <<session, subject, held, free, running, flag, stage,
                   answered, cancel>>

(* End of input, or a frame that is fatal to the transport. *)
ReadEnd ==
    /\ reader = "reading"
    /\ \E result \in {"ok", "error"} : Leave(result)
    /\ UNCHANGED <<session, subject, held, free, running, flag, stage,
                   failure, answered, cancel>>

(* A message that is answered on the reading thread: initialize, ping,    *)
(* tools/list, every error, and a tools/call that is not ready or invalid. *)
ReadAnswered ==
    /\ reader = "reading"
    /\ reader' = "replying"
    /\ session' \in {session}
           \cup (IF session = "New" THEN {"AwaitingInitialized"} ELSE {})
    /\ UNCHANGED <<subject, held, free, running, flag, stage, failure,
                   outcome, answered, cancel>>

(* A notification or an unsolicited response: nothing is written. *)
ReadSilent ==
    /\ reader = "reading"
    /\ reader' = "looking"
    /\ session' \in {session}
           \cup (IF session = "AwaitingInitialized" THEN {"Ready"} ELSE {})
    /\ UNCHANGED <<subject, held, free, running, flag, stage, failure,
                   outcome, answered, cancel>>

ReadCancel(i) ==
    /\ reader = "reading"
    /\ reader' = "finding"
    /\ subject' = i
    /\ cancel' = [c \in Calls |->
          IF IdOf[c] = i /\ stage[c] \in Holding /\ c \notin answered
             /\ cancel[c] = "none"
          THEN "read" ELSE cancel[c]]
    /\ UNCHANGED <<session, held, free, running, flag, stage, failure,
                   outcome, answered>>

(* A valid tools/call: the reader holds it until there is a slot. *)
ReadCall(c) ==
    /\ reader = "reading"
    /\ session = "Ready"
    /\ Idle(c)
    /\ reader' = "admitting"
    /\ held' = c
    /\ UNCHANGED <<session, subject, free, running, flag, stage, failure,
                   outcome, answered, cancel>>

(* write, on the reading thread; an error leaves the loop. *)
WriteReply ==
    /\ reader = "replying"
    /\ \/ reader' = "looking" /\ UNCHANGED outcome
       \/ Leave("error")
    /\ UNCHANGED <<session, subject, held, free, running, flag, stage,
                   failure, answered, cancel>>

(* A cancellation the reader is done with binds a call that still runs. *)
Binding ==
    [c \in Calls |->
        IF cancel[c] = "read" /\ IdOf[c] = subject /\ stage[c] \in Unfinished
        THEN "binding" ELSE cancel[c]]

(* Take the flag out of the map under its lock, if the id is running. *)
FindFlag ==
    /\ reader = "finding"
    /\ IF running[subject] = NoCall
       THEN reader' = "looking" /\ cancel' = Binding /\ UNCHANGED held
       ELSE reader' = "storing" /\ held' = running[subject]
            /\ UNCHANGED cancel
    /\ UNCHANGED <<session, subject, free, running, flag, stage, failure,
                   outcome, answered>>

(* Set the flag, with no lock held. *)
StoreFlag ==
    /\ reader = "storing"
    /\ flag' = [flag EXCEPT ![held] = TRUE]
    /\ cancel' = Binding
    /\ reader' = "looking"
    /\ held' = NoCall
    /\ UNCHANGED <<session, subject, free, running, stage, failure, outcome,
                   answered>>

(* Mutant: a call that finds no free slot is dropped. *)
AdmitOrDrop ==
    /\ reader = "admitting"
    /\ IF free = 0
       THEN stage' = [stage EXCEPT ![held] = "done"]
            /\ UNCHANGED <<free, running>>
       ELSE stage' = [stage EXCEPT ![held] = "spawned"]
            /\ free' = free - 1
            /\ running' = [running EXCEPT ![IdOf[held]] = held]
    /\ reader' = "looking"
    /\ held' = NoCall
    /\ UNCHANGED <<session, subject, flag, failure, outcome, answered,
                   cancel>>

(* A slot, the entry in the map, the thread. *)
Admit ==
    /\ reader = "admitting"
    /\ free > 0
    /\ free' = free - 1
    /\ running' = [running EXCEPT ![IdOf[held]] = held]
    /\ stage' = [stage EXCEPT ![held] = "spawned"]
    /\ reader' = "looking"
    /\ held' = NoCall
    /\ UNCHANGED <<session, subject, flag, failure, outcome, answered,
                   cancel>>

(* The scope has joined every thread; an error left behind is reported. *)
Return ==
    /\ reader = "joining"
    /\ \A c \in Calls : stage[c] \in {"unread", "done"}
    /\ reader' = "done"
    /\ failure' = FALSE
    /\ outcome' = IF failure THEN "error" ELSE outcome
    /\ UNCHANGED <<session, subject, held, free, running, flag, stage,
                   answered, cancel>>

-----------------------------------------------------------------------------
(* The thread of call c. *)

Step(c, from, to) ==
    /\ stage[c] = from
    /\ stage' = [stage EXCEPT ![c] = to]

(* invoke_native: a call cancelled before its handler runs never runs it. *)
Invoke(c) ==
    /\ Step(c, "spawned", IF flag[c] THEN "returned" ELSE "running")
    /\ UNCHANGED <<readerVars, free, running, flag, failure, outcome,
                   answered, cancel>>

(* The handler ends: by itself, at a refused emission, or by a panic. *)
Finish(c) ==
    /\ Step(c, "running", "returned")
    /\ UNCHANGED <<readerVars, free, running, flag, failure, outcome,
                   answered, cancel>>

(* Mutant: the entry of a call outlives it. *)
KeepEntry(c) ==
    /\ Step(c, "returned", "removed")
    /\ UNCHANGED <<readerVars, free, running, flag, failure, outcome,
                   answered, cancel>>

(* The id is removed before the flag is looked at and the answer written. *)
Remove(c) ==
    /\ Step(c, "returned", "removed")
    /\ running' = [running EXCEPT ![IdOf[c]] = NoCall]
    /\ UNCHANGED <<readerVars, free, flag, failure, outcome, answered,
                   cancel>>

(* Mutant: only the handler looks at the flag. *)
CheckNothing(c) ==
    /\ Step(c, "removed", "writing")
    /\ UNCHANGED <<readerVars, free, running, flag, failure, outcome,
                   answered, cancel>>

(* A cancelled request gets no response at all. *)
CheckFlag(c) ==
    /\ Step(c, "removed", IF flag[c] THEN "releasing" ELSE "writing")
    /\ UNCHANGED <<readerVars, free, running, flag, failure, outcome,
                   answered, cancel>>

(* Mutant: the error of the writer is ignored. *)
WriteIgnoring(c) ==
    /\ \/ Step(c, "writing", "releasing") /\ answered' = answered \cup {c}
       \/ Step(c, "writing", "releasing") /\ UNCHANGED answered
    /\ UNCHANGED <<readerVars, free, running, flag, failure, outcome, cancel>>

(* The whole line under the output lock, or an error of the writer. *)
Write(c) ==
    /\ \/ Step(c, "writing", "releasing") /\ answered' = answered \cup {c}
       \/ Step(c, "writing", "breaking") /\ UNCHANGED answered
    /\ UNCHANGED <<readerVars, free, running, flag, failure, outcome, cancel>>

(* Mutant: the slot of a call that could not be answered is lost. *)
ReleaseUnlessBroken(c) ==
    /\ \/ Step(c, "releasing", "done") /\ free' = free + 1
       \/ Step(c, "breaking", "recording") /\ UNCHANGED free
    /\ UNCHANGED <<readerVars, running, flag, failure, outcome, answered,
                   cancel>>

Release(c) ==
    /\ free' = free + 1
    /\ \/ Step(c, "releasing", "done")
       \/ Step(c, "breaking", "recording")
    /\ UNCHANGED <<readerVars, running, flag, failure, outcome, answered,
                   cancel>>

(* Mutant: the error of a thread is dropped. *)
DropFailure(c) ==
    /\ Step(c, "recording", "done")
    /\ UNCHANGED <<readerVars, free, running, flag, failure, outcome,
                   answered, cancel>>

(* Mutant: an error waits until the reader took the one before it. *)
RecordWhenTaken(c) ==
    /\ Step(c, "recording", "done")
    /\ ~failure
    /\ failure' = TRUE
    /\ UNCHANGED <<readerVars, free, running, flag, outcome, answered,
                   cancel>>

(* get_or_insert, after the slot was released. *)
RecordFailure(c) ==
    /\ Step(c, "recording", "done")
    /\ failure' = TRUE
    /\ UNCHANGED <<readerVars, free, running, flag, outcome, answered,
                   cancel>>

-----------------------------------------------------------------------------
Thread(c) ==
    \/ Invoke(c)
    \/ Finish(c)
    \/ Remove(c)
    \/ CheckFlag(c)
    \/ Write(c)
    \/ Release(c)
    \/ RecordFailure(c)

(* What the reader does by itself, once it has a frame. *)
Serve == LookForFailure \/ WriteReply \/ FindFlag \/ StoreFlag \/ Admit
            \/ Return

(* What the client sends. *)
Read == ReadEnd \/ ReadAnswered \/ ReadSilent
          \/ (\E i \in Ids : ReadCancel(i)) \/ (\E c \in Calls : ReadCall(c))

Returned == reader = "done" /\ UNCHANGED vars

Next == Serve \/ Read \/ (\E c \in Calls : Thread(c)) \/ Returned

(* Handlers are finite and the client reads what it asked for, so every    *)
(* thread and the reader make progress; nothing makes a client send.       *)
Spec == /\ Init /\ [][Next]_vars
        /\ WF_vars(Serve)
        /\ \A c \in Calls : WF_vars(Thread(c))

-----------------------------------------------------------------------------
(* Properties. *)

TypeOK ==
    /\ session \in {"New", "AwaitingInitialized", "Ready"}
    /\ reader \in {"looking", "reading", "replying", "finding", "storing",
                   "admitting", "joining", "done"}
    /\ subject \in Ids
    /\ held \in Calls \cup {NoCall}
    /\ held # NoCall <=> reader \in {"storing", "admitting"}
    /\ free \in 0 .. MaxCalls
    /\ running \in [Ids -> Calls \cup {NoCall}]
    /\ flag \in [Calls -> BOOLEAN]
    /\ stage \in [Calls -> Holding \cup {"unread", "recording", "done"}]
    /\ failure \in BOOLEAN
    /\ outcome \in {"none", "ok", "error"}
    /\ answered \subseteq Calls
    /\ cancel \in [Calls -> {"none", "read", "binding"}]

(* Slots are neither lost nor duplicated, whether a call is answered,      *)
(* cancelled or cannot be written: free tokens and calls that hold one add *)
(* up to MAX_CONCURRENT_CALLS (mpsc slots of serve).                       *)
SlotsConserved ==
    free + Cardinality({c \in Calls : stage[c] \in Holding}) = MaxCalls

(* The map names exactly the calls whose thread has not removed them, so a *)
(* cancellation reaches the running call of its id and never an earlier    *)
(* one that used the same id (BTreeMap running of serve).                  *)
MapNamesRunning ==
    \A c \in Calls :
        running[IdOf[c]] = c <=> stage[c] \in Unfinished \cup {"returned"}

(* "notifications/cancelled for a running call suppresses its response":   *)
(* a cancellation the reader finished while the handler ran is final.      *)
CancelledIsSilent ==
    \A c \in answered : cancel[c] # "binding"

(* "At EOF, calls already admitted finish and answer before this returns": *)
(* when serve returns Ok no thread is left and every call it took was      *)
(* answered, except those whose cancellation was read in time.             *)
ReturnIsComplete ==
    reader = "done" =>
        /\ \A c \in Calls : stage[c] \in {"unread", "done"}
        /\ outcome = "ok" =>
              \A c \in Calls :
                  stage[c] = "unread" \/ c \in answered \/ cancel[c] # "none"

(* The client's view (CancellableCalls).  A call falls silent at the first *)
(* moment it is certain that no response follows: when the reader is done  *)
(* with a cancellation while the handler runs, when the thread finds the   *)
(* flag set, or when its response cannot be written.                       *)
Running == {c \in Calls : stage[c] \in Holding}

Ended == {c \in Calls : stage[c] \in {"recording", "done"}}

Asked == {c \in Calls : cancel[c] # "none"}

Silent ==
    {c \in Calls \ answered :
        \/ cancel[c] = "binding"
        \/ stage[c] \in {"releasing", "breaking", "recording", "done"}}

Failed ==
    \/ failure
    \/ outcome = "error"
    \/ \E c \in Calls : stage[c] \in {"breaking", "recording"}

Atomic == INSTANCE CancellableCalls WITH
    Limit <- MaxCalls, pending <- Running, finished <- Ended, asked <- Asked,
    silent <- Silent, failed <- Failed,
    result <- IF reader = "done" THEN outcome ELSE "none"

(* "notifications/cancelled for a running call suppresses its response" in *)
(* one step, though the code takes the flag under the map's lock, sets it  *)
(* without, and looks at it on another thread; and no call but the one     *)
(* that was meant falls silent, unless serve returns the error.            *)
CallsAreAtomic == Atomic!Spec

(* The reader that waits for a slot gets one: threads release their slots  *)
(* without needing the reader.                                             *)
CallsAreAdmitted ==
    \A c \in Calls : (reader = "admitting" /\ held = c)
                        ~> (stage[c] = "spawned")

(* End of input or a fatal error ends serve whatever is still running.     *)
ServeReturns == (reader = "joining") ~> (reader = "done")
=============================================================================
