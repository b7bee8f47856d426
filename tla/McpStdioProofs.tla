--------------------------- MODULE McpStdioProofs ---------------------------
(***************************************************************************)
(* Proofs about McpStdio for any finite set of calls, any assignment of    *)
(* request ids to them and any positive number of slots.                   *)
(***************************************************************************)
EXTENDS McpStdio, FiniteSetTheorems, TLAPS

Stages == Holding \cup {"unread", "recording", "done"}

Holders == {c \in Calls : stage[c] \in Holding}

(* The call the reader admits has not begun, and no call of its id waits.  *)
AdmitsIdle == reader = "admitting" => Idle(held)

(* The map files each call under its id. *)
FiledById == \A i \in Ids : running[i] # NoCall => IdOf[running[i]] = i

(* An answer is the last thing a call does before it releases its slot. *)
AnsweredEnds == \A c \in answered : stage[c] \in {"releasing", "done"}

(* The entry of the flag about to be set may go away, but no other call of *)
(* its id takes the place.                                                 *)
StoresFound == reader = "storing" => running[subject] \in {held, NoCall}

(* Only a call whose cancellation was read has its flag set. *)
CancelSeen ==
    /\ \A c \in Calls : flag[c] => cancel[c] # "none"
    /\ reader = "finding" =>
          \A c \in Calls :
              IdOf[c] = subject /\ stage[c] \in Unfinished \cup {"returned"}
                => cancel[c] # "none"
    /\ reader = "storing" => cancel[held] # "none"

(* A call bound by a cancellation has its flag set before it looks at it.  *)
BindingHolds ==
    \A c \in Calls :
        cancel[c] = "binding" =>
            /\ flag[c]
            /\ stage[c] \notin {"writing", "breaking", "recording"}
            /\ c \notin answered

(* A call that ended without an answer was cancelled or left an error.     *)
EndsExplained ==
    \A c \in Calls :
        stage[c] \in {"releasing", "done"} =>
            \/ c \in answered
            \/ cancel[c] # "none"
            \/ stage[c] = "done" /\ (failure \/ outcome = "error")

(* serve has a result from when it left its loop; when it returns every    *)
(* thread was joined and the last error taken.                             *)
JoinsLast ==
    /\ outcome # "none" <=> reader \in {"joining", "done"}
    /\ reader = "done" =>
          ~failure /\ \A c \in Calls : stage[c] \in {"unread", "done"}

(* Of the calls of one id at most one is taken and unanswered. *)
OneWaits ==
    \A c, d \in Calls :
        c # d /\ IdOf[c] = IdOf[d] =>
            "unread" \in {stage[c], stage[d]} \/ c \in answered \/ d \in answered

(* The inductive invariant.  None of the properties is inductive alone:    *)
(* that a cancellation finds the right call rests on the reader not        *)
(* admitting one while it holds a flag, and on clients reusing an id only  *)
(* once its call was answered.                                             *)
IInv ==
    /\ TypeOK /\ SlotsConserved /\ MapNamesRunning
    /\ AdmitsIdle /\ FiledById /\ AnsweredEnds
    /\ StoresFound /\ CancelSeen /\ BindingHolds
    /\ EndsExplained /\ JoinsLast /\ OneWaits

-----------------------------------------------------------------------------
(* Threads and the reader in terms of one step. *)

LEMMA FiniteHolders == IsFiniteSet(Holders) /\ Cardinality(Holders) \in Nat
<1>1. IsFiniteSet(Calls) /\ Holders \subseteq Calls
  BY StdioAssumption DEF Holders
<1>2. IsFiniteSet(Holders)
  BY <1>1, FS_Subset
<1> QED
  BY <1>2, FS_CardinalityType

(* A call that changes stage enters, leaves or stays in Holders. *)
LEMMA StageChange ==
  ASSUME stage \in [Calls -> Stages], NEW c \in Calls, NEW x \in Stages,
         stage' = [stage EXCEPT ![c] = x]
  PROVE  /\ stage[c] \notin Holding /\ x \in Holding =>
              Cardinality(Holders') = Cardinality(Holders) + 1
         /\ stage[c] \in Holding /\ x \notin Holding =>
              Cardinality(Holders') = Cardinality(Holders) - 1
         /\ (stage[c] \in Holding <=> x \in Holding) => Holders' = Holders
<1>1. CASE stage[c] \notin Holding /\ x \in Holding
  <2>1. Holders' = Holders \cup {c} /\ c \notin Holders
    BY <1>1 DEF Holders
  <2> QED
    BY <1>1, <2>1, FiniteHolders, FS_AddElement
<1>2. CASE stage[c] \in Holding /\ x \notin Holding
  <2>1. Holders' = Holders \ {c} /\ c \in Holders
    BY <1>2 DEF Holders
  <2> QED
    BY <1>2, <2>1, FiniteHolders, FS_RemoveElement
<1>3. (stage[c] \in Holding <=> x \in Holding) => Holders' = Holders
  BY DEF Holders
<1> QED
  BY <1>1, <1>2, <1>3

(* A step of serve is a step of the client, the reader or one thread. *)
LEMMA StepCases ==
  ASSUME [Next]_vars
  PROVE  \/ Serve \/ Read
         \/ \E c \in Calls : Thread(c)
         \/ UNCHANGED vars
BY DEF Next, Returned

-----------------------------------------------------------------------------
(* Type correctness and the slots. *)

LEMMA Initially == Init => IInv
<1> SUFFICES ASSUME Init PROVE IInv
  OBVIOUS
<1>1. TypeOK
  <2>1. free \in 0 .. MaxCalls
    BY StdioAssumption DEF Init
  <2>2. running \in [Ids -> Calls \cup {NoCall}]
    BY DEF Init
  <2>3. stage \in [Calls -> Holding \cup {"unread", "recording", "done"}]
    BY DEF Init
  <2>4. /\ flag \in [Calls -> BOOLEAN]
        /\ cancel \in [Calls -> {"none", "read", "binding"}]
    BY DEF Init
  <2> QED
    BY <2>1, <2>2, <2>3, <2>4 DEF Init, TypeOK
<1>2. SlotsConserved
  <2>1. {c \in Calls : stage[c] \in Holding} = {}
    BY DEF Init, Holding
  <2> QED
    BY <2>1, FS_EmptySet, StdioAssumption DEF Init, SlotsConserved
<1>3. MapNamesRunning
  BY StdioAssumption DEF Init, MapNamesRunning, Unfinished
<1>4. /\ AdmitsIdle /\ FiledById /\ AnsweredEnds /\ StoresFound /\ CancelSeen
      /\ BindingHolds /\ EndsExplained /\ JoinsLast /\ OneWaits
  BY DEF Init, AdmitsIdle, FiledById, AnsweredEnds, StoresFound, CancelSeen,
         BindingHolds, EndsExplained, JoinsLast, OneWaits
<1> QED
  BY <1>1, <1>2, <1>3, <1>4 DEF IInv

(* Admit moves the call it holds out of "unread". *)
LEMMA AdmitMoves ==
  ASSUME IInv, Admit
  PROVE  held \in Calls /\ stage[held] = "unread"
BY DEF IInv, TypeOK, AdmitsIdle, Idle, Admit

LEMMA SlotsStep == IInv /\ [Next]_vars => SlotsConserved'
<1> SUFFICES ASSUME IInv, [Next]_vars PROVE SlotsConserved'
  OBVIOUS
<1> USE DEF Stages
<1>1. /\ stage \in [Calls -> Stages] /\ free \in Nat /\ MaxCalls \in Nat
      /\ free + Cardinality(Holders) = MaxCalls
  BY StdioAssumption DEF IInv, TypeOK, SlotsConserved, Holders
<1>2. SUFFICES free' + Cardinality(Holders') = MaxCalls
  BY DEF SlotsConserved, Holders
<1>3. CASE Admit
  <2>1. held \in Calls /\ stage[held] \notin Holding
    BY <1>3, AdmitMoves DEF Holding
  <2>2. free' = free - 1 /\ stage' = [stage EXCEPT ![held] = "spawned"]
    BY <1>3 DEF Admit
  <2>3. Cardinality(Holders') = Cardinality(Holders) + 1
    BY <1>1, <2>1, <2>2, StageChange DEF Holding
  <2> QED
    BY <1>1, <2>2, <2>3, FiniteHolders
<1>4. ASSUME NEW c \in Calls, Release(c)
      PROVE  free' + Cardinality(Holders') = MaxCalls
  <2>1. PICK x \in Stages \ Holding : /\ stage[c] \in Holding
                                      /\ stage' = [stage EXCEPT ![c] = x]
    BY <1>4 DEF Release, Step, Holding
  <2>2. Cardinality(Holders') = Cardinality(Holders) - 1
    BY <1>1, <2>1, StageChange
  <2> QED
    BY <1>1, <1>4, <2>2, FiniteHolders DEF Release
<1>5. ASSUME NEW c \in Calls, Thread(c), ~Release(c)
      PROVE  free' + Cardinality(Holders') = MaxCalls
  <2>1. free' = free
    BY <1>5 DEF Thread, Invoke, Finish, Remove, CheckFlag, Write, RecordFailure
  <2>2. PICK x \in Stages : /\ stage[c] \in Holding <=> x \in Holding
                            /\ stage' = [stage EXCEPT ![c] = x]
    BY <1>5 DEF Thread, Invoke, Finish, Remove, CheckFlag, Write,
                RecordFailure, Step, Holding
  <2> QED
    BY <1>1, <2>1, <2>2, StageChange
<1>6. ASSUME UNCHANGED <<free, stage>>
      PROVE  free' + Cardinality(Holders') = MaxCalls
  BY <1>1, <1>6 DEF Holders
<1>7. (Serve /\ ~Admit) \/ Read \/ UNCHANGED vars => UNCHANGED <<free, stage>>
  BY DEF Serve, Read, LookForFailure, WriteReply, FindFlag, StoreFlag, Return,
         ReadEnd, ReadAnswered, ReadSilent, ReadCancel, ReadCall, vars
<1> QED
  BY <1>3, <1>4, <1>5, <1>6, <1>7, StepCases

LEMMA TypeStep == IInv /\ [Next]_vars => TypeOK'
<1> SUFFICES ASSUME IInv, [Next]_vars PROVE TypeOK'
  OBVIOUS
<1>1. TypeOK
  BY DEF IInv
<1>2. free' \in Int => free' \in 0 .. MaxCalls \/ free' < 0
  <2>1. free' + Cardinality(Holders') = MaxCalls
    BY SlotsStep DEF SlotsConserved, Holders
  <2>2. Cardinality(Holders') \in Nat
    <3>1. IsFiniteSet(Calls) /\ Holders' \subseteq Calls
      BY StdioAssumption DEF Holders
    <3>2. IsFiniteSet(Holders')
      BY <3>1, FS_Subset
    <3> QED
      BY <3>2, FS_CardinalityType
  <2> QED
    BY <2>1, <2>2, StdioAssumption
<1>3. CASE Serve
  <2> USE <1>1, StdioAssumption DEF TypeOK, readerVars, Holding
  <2>1. CASE LookForFailure
    BY <2>1 DEF LookForFailure, Leave
  <2>2. CASE WriteReply
    BY <2>2 DEF WriteReply, Leave
  <2>3. CASE FindFlag
    BY <2>3 DEF FindFlag, Binding
  <2>4. CASE StoreFlag
    BY <2>4 DEF StoreFlag, Binding
  <2>5. CASE Admit
    BY <2>5 DEF Admit
  <2>6. CASE Return
    BY <2>6 DEF Return
  <2> QED
    BY <1>3, <2>1, <2>2, <2>3, <2>4, <2>5, <2>6 DEF Serve
<1>4. CASE Read
  <2> USE <1>1, StdioAssumption DEF TypeOK, readerVars, Holding
  <2>1. CASE ReadEnd
    BY <2>1 DEF ReadEnd, Leave
  <2>2. CASE ReadAnswered
    BY <2>2 DEF ReadAnswered
  <2>3. CASE ReadSilent
    BY <2>3 DEF ReadSilent
  <2>4. ASSUME NEW i \in Ids, ReadCancel(i) PROVE TypeOK'
    BY <2>4 DEF ReadCancel
  <2>5. ASSUME NEW c \in Calls, ReadCall(c) PROVE TypeOK'
    BY <2>5 DEF ReadCall
  <2> QED
    BY <1>4, <2>1, <2>2, <2>3, <2>4, <2>5 DEF Read
<1>5. ASSUME NEW c \in Calls, Thread(c) PROVE TypeOK'
  <2> USE <1>1, StdioAssumption DEF TypeOK, readerVars, Holding, Step
  <2>1. CASE Invoke(c)
    BY <2>1 DEF Invoke
  <2>2. CASE Finish(c)
    BY <2>2 DEF Finish
  <2>3. CASE Remove(c)
    BY <2>3 DEF Remove
  <2>4. CASE CheckFlag(c)
    BY <2>4 DEF CheckFlag
  <2>5. CASE Write(c)
    BY <2>5 DEF Write
  <2>6. CASE Release(c)
    BY <1>2, <2>6 DEF Release
  <2>7. CASE RecordFailure(c)
    BY <2>7 DEF RecordFailure
  <2> QED
    BY <1>5, <2>1, <2>2, <2>3, <2>4, <2>5, <2>6, <2>7 DEF Thread
<1>6. CASE UNCHANGED vars
  BY <1>1, <1>6 DEF TypeOK, vars, readerVars
<1> QED
  BY <1>3, <1>4, <1>5, <1>6, StepCases

-----------------------------------------------------------------------------
(* The map of running calls. *)

LEMMA MapStep ==
  IInv /\ [Next]_vars
    => MapNamesRunning' /\ FiledById' /\ AdmitsIdle' /\ AnsweredEnds'
<1> DEFINE Goal == MapNamesRunning' /\ FiledById' /\ AdmitsIdle' /\ AnsweredEnds'
<1> SUFFICES ASSUME IInv, [Next]_vars PROVE Goal
  OBVIOUS
<1>1. TypeOK /\ MapNamesRunning /\ FiledById /\ AdmitsIdle /\ AnsweredEnds
  BY DEF IInv
<1>2. ASSUME UNCHANGED <<running, stage, answered>>,
             reader' = "admitting" => UNCHANGED <<reader, held>>
      PROVE  Goal
  BY <1>1, <1>2 DEF MapNamesRunning, FiledById, AdmitsIdle, AnsweredEnds, Idle
<1>3. CASE Admit
  <2>1. held \in Calls /\ stage[held] = "unread" /\ Idle(held)
        /\ IdOf[held] \in Ids
    BY <1>1, <1>3, StdioAssumption DEF TypeOK, AdmitsIdle, Idle, Admit
  <2>2. /\ running' = [running EXCEPT ![IdOf[held]] = held]
        /\ stage' = [stage EXCEPT ![held] = "spawned"]
        /\ answered' = answered /\ reader' = "looking"
    BY <1>3 DEF Admit
  <2>3. MapNamesRunning'
    BY <1>1, <2>1, <2>2, StdioAssumption
    DEF TypeOK, MapNamesRunning, AnsweredEnds, Idle, Unfinished
  <2>4. FiledById'
    BY <1>1, <2>1, <2>2 DEF TypeOK, FiledById
  <2>5. AnsweredEnds' /\ AdmitsIdle'
    BY <1>1, <2>1, <2>2 DEF TypeOK, AnsweredEnds, AdmitsIdle
  <2> QED
    BY <2>3, <2>4, <2>5
<1>4. ASSUME NEW c \in Calls, ReadCall(c) PROVE Goal
  BY <1>1, <1>4
  DEF ReadCall, MapNamesRunning, FiledById, AdmitsIdle, AnsweredEnds, Idle
<1>5. ASSUME NEW c \in Calls, Remove(c) PROVE Goal
  <2>1. /\ stage[c] = "returned" /\ c \notin answered /\ IdOf[c] \in Ids
        /\ running[IdOf[c]] = c
    BY <1>1, <1>5, StdioAssumption
    DEF Remove, Step, AnsweredEnds, MapNamesRunning
  <2>2. /\ running' = [running EXCEPT ![IdOf[c]] = NoCall]
        /\ stage' = [stage EXCEPT ![c] = "removed"]
        /\ UNCHANGED <<answered, reader, held>>
    BY <1>5 DEF Remove, Step, readerVars
  <2>3. MapNamesRunning'
    BY <1>1, <2>1, <2>2, StdioAssumption
    DEF TypeOK, MapNamesRunning, Unfinished
  <2>4. FiledById' /\ AnsweredEnds'
    BY <1>1, <2>1, <2>2 DEF TypeOK, FiledById, AnsweredEnds
  <2>5. AdmitsIdle'
    BY <1>1, <2>1, <2>2 DEF TypeOK, AdmitsIdle, Idle
  <2> QED
    BY <2>3, <2>4, <2>5
<1>6. ASSUME NEW c \in Calls, Thread(c), ~Remove(c) PROVE Goal
  <2>1. /\ UNCHANGED <<running, reader, held>>
        /\ answered' = answered \/ answered' = answered \cup {c}
    BY <1>6 DEF Thread, Invoke, Finish, CheckFlag, Write, Release,
                RecordFailure, readerVars
  <2>2. PICK x \in Stages :
          /\ stage' = [stage EXCEPT ![c] = x]
          /\ stage[c] # "unread" /\ x # "unread"
          /\ stage[c] \in Unfinished \cup {"returned"}
               <=> x \in Unfinished \cup {"returned"}
          /\ c \in answered' => x \in {"releasing", "done"}
    BY <1>1, <1>6 DEF Thread, Invoke, Finish, CheckFlag, Write, Release,
                RecordFailure, Step, Stages, Holding, Unfinished, AnsweredEnds
  <2>3. MapNamesRunning'
    BY <1>1, <2>1, <2>2 DEF TypeOK, Stages, MapNamesRunning
  <2>4. FiledById' /\ AnsweredEnds'
    BY <1>1, <2>1, <2>2 DEF TypeOK, Stages, FiledById, AnsweredEnds
  <2>5. AdmitsIdle'
    BY <1>1, <2>1, <2>2 DEF TypeOK, Stages, AdmitsIdle, Idle
  <2> QED
    BY <2>3, <2>4, <2>5
<1>7. Serve /\ ~Admit => Goal
  <2>1. Serve /\ ~Admit
          => UNCHANGED <<running, stage, answered>> /\ reader' # "admitting"
    BY DEF Serve, LookForFailure, WriteReply, FindFlag, StoreFlag, Return, Leave
  <2> QED
    BY <1>2, <2>1
<1>8. Read /\ (\A c \in Calls : ~ReadCall(c)) => Goal
  <2>1. Read /\ (\A c \in Calls : ~ReadCall(c))
          => UNCHANGED <<running, stage, answered>> /\ reader' # "admitting"
    BY DEF Read, ReadEnd, ReadAnswered, ReadSilent, ReadCancel, Leave
  <2> QED
    BY <1>2, <2>1
<1>9. UNCHANGED vars => Goal
  BY <1>2 DEF vars, readerVars
<1> HIDE DEF Goal
<1> QED
  BY <1>3, <1>4, <1>5, <1>6, <1>7, <1>8, <1>9, StepCases

-----------------------------------------------------------------------------
(* Cancellations. *)

(* A running call is the one the map has for its id, and is not answered.  *)
LEMMA Named ==
  ASSUME IInv, NEW c \in Calls, stage[c] \in Unfinished \cup {"returned"}
  PROVE  running[IdOf[c]] = c /\ c \notin answered /\ c # NoCall
BY StdioAssumption DEF IInv, MapNamesRunning, AnsweredEnds, Unfinished

LEMMA CancelStep ==
  IInv /\ [Next]_vars => StoresFound' /\ CancelSeen' /\ BindingHolds'
<1> DEFINE Goal == StoresFound' /\ CancelSeen' /\ BindingHolds'
<1> SUFFICES ASSUME IInv, [Next]_vars PROVE Goal
  OBVIOUS
<1>1. TypeOK /\ StoresFound /\ CancelSeen /\ BindingHolds
  BY DEF IInv
<1>2. ASSUME UNCHANGED <<flag, cancel, stage, answered>>,
             reader' \notin {"finding", "storing"}
      PROVE  Goal
  BY <1>1, <1>2 DEF StoresFound, CancelSeen, BindingHolds
<1>3. ASSUME NEW i \in Ids, ReadCancel(i) PROVE Goal
  <2>1. \A c \in Calls : cancel[c] # "none" => cancel'[c] = cancel[c]
    BY <1>3 DEF ReadCancel
  <2>2. \A c \in Calls : cancel'[c] = "binding" => cancel[c] = "binding"
    BY <1>3 DEF ReadCancel
  <2>3. \A c \in Calls :
          IdOf[c] = i /\ stage[c] \in Unfinished \cup {"returned"}
            => cancel'[c] # "none"
    BY <1>3, Named DEF ReadCancel, Unfinished, Holding
  <2>4. StoresFound' /\ CancelSeen'
    BY <1>1, <1>3, <2>1, <2>3 DEF ReadCancel, StoresFound, CancelSeen
  <2>5. BindingHolds'
    BY <1>1, <1>3, <2>2 DEF ReadCancel, BindingHolds
  <2> QED
    BY <2>4, <2>5
<1>4. CASE FindFlag
  <2>1. CASE running[subject] = NoCall
    <3>1. cancel' = cancel
      <4>1. \A c \in Calls : IdOf[c] = subject => stage[c] \notin Unfinished
        BY <2>1, Named
      <4>2. cancel' = [c \in Calls |-> cancel[c]]
        BY <1>4, <2>1, <4>1 DEF FindFlag, Binding
      <4> QED
        BY <1>1, <4>2 DEF TypeOK
    <3> QED
      BY <1>2, <1>4, <2>1, <3>1 DEF FindFlag
  <2>2. CASE running[subject] # NoCall
    <3>1. /\ running[subject] \in Calls /\ IdOf[running[subject]] = subject
          /\ stage[running[subject]] \in Unfinished \cup {"returned"}
      BY <2>2 DEF IInv, TypeOK, FiledById, MapNamesRunning
    <3>2. cancel[running[subject]] # "none"
      BY <1>1, <1>4, <3>1 DEF FindFlag, CancelSeen
    <3> QED
      BY <1>1, <1>4, <2>2, <3>2
      DEF FindFlag, StoresFound, CancelSeen, BindingHolds
  <2> QED
    BY <2>1, <2>2
<1>5. CASE StoreFlag
  <2>1. /\ held \in Calls /\ cancel[held] # "none"
        /\ running[subject] \in {held, NoCall}
    BY <1>1, <1>5 DEF StoreFlag, TypeOK, CancelSeen, StoresFound
  <2>2. flag' = [flag EXCEPT ![held] = TRUE] /\ flag \in [Calls -> BOOLEAN]
    BY <1>1, <1>5 DEF StoreFlag, TypeOK
  <2>3. UNCHANGED <<stage, answered>> /\ reader' = "looking" /\ cancel' = Binding
    BY <1>5 DEF StoreFlag
  <2>4. \A c \in Calls : cancel[c] # "none" => cancel'[c] # "none"
    BY <2>3 DEF Binding
  <2>5. CancelSeen' /\ StoresFound'
    BY <1>1, <2>1, <2>2, <2>3, <2>4 DEF CancelSeen, StoresFound
  <2>6. ASSUME NEW c \in Calls, cancel'[c] = "binding"
          PROVE  flag'[c] /\ c \notin answered
               /\ stage[c] \notin {"writing", "breaking", "recording"}
    <3>1. CASE cancel[c] = "binding"
      BY <1>1, <2>2, <3>1 DEF BindingHolds
    <3>2. CASE cancel[c] # "binding"
      <4>1. IdOf[c] = subject /\ stage[c] \in Unfinished
        BY <2>3, <2>6, <3>2 DEF Binding
      <4>2. c = held /\ c \notin answered
        BY <2>1, <4>1, Named
      <4> QED
        BY <2>2, <4>1, <4>2 DEF Unfinished
    <3> QED
      BY <3>1, <3>2
  <2>7. BindingHolds'
    BY <2>3, <2>6 DEF BindingHolds
  <2> QED
    BY <2>5, <2>7
<1>6. CASE Admit
  <2>1. held \in Calls /\ stage[held] = "unread"
    BY <1>6, AdmitMoves
  <2>2. UNCHANGED <<flag, cancel, answered>> /\ reader' = "looking"
        /\ stage' = [stage EXCEPT ![held] = "spawned"]
    BY <1>6 DEF Admit
  <2> QED
    BY <1>1, <2>1, <2>2 DEF TypeOK, StoresFound, CancelSeen, BindingHolds
<1>7. ASSUME NEW c \in Calls, Thread(c) PROVE Goal
  <2>1. UNCHANGED <<flag, cancel, reader, subject, held>>
    BY <1>7 DEF Thread, Invoke, Finish, Remove, CheckFlag, Write, Release,
                RecordFailure, readerVars
  <2>2. running' = running \/ running' = [running EXCEPT ![IdOf[c]] = NoCall]
    BY <1>7 DEF Thread, Invoke, Finish, Remove, CheckFlag, Write, Release,
                RecordFailure
  <2>3. PICK x \in Stages :
          /\ stage' = [stage EXCEPT ![c] = x]
          /\ x \in Unfinished \cup {"returned"}
               => stage[c] \in Unfinished \cup {"returned"}
          /\ x \in {"writing", "breaking", "recording"}
               => (~flag[c] \/ stage[c] \in {"writing", "breaking", "recording"})
          /\ answered' = answered
             \/ (stage[c] = "writing" /\ answered' = answered \cup {c})
    BY <1>7 DEF Thread, Invoke, Finish, Remove, CheckFlag, Write, Release,
                RecordFailure, Step, Stages, Holding, Unfinished
  <2>4. StoresFound'
    BY <1>1, <2>1, <2>2, StdioAssumption DEF TypeOK, StoresFound
  <2>5. CancelSeen'
    BY <1>1, <2>1, <2>3 DEF TypeOK, Stages, CancelSeen
  <2>6. BindingHolds'
    BY <1>1, <2>1, <2>3 DEF TypeOK, Stages, BindingHolds
  <2> QED
    BY <2>4, <2>5, <2>6
<1>8. Serve /\ ~FindFlag /\ ~StoreFlag /\ ~Admit => Goal
  <2>1. Serve /\ ~FindFlag /\ ~StoreFlag /\ ~Admit
          => /\ UNCHANGED <<flag, cancel, stage, answered>>
             /\ reader' \notin {"finding", "storing"}
    BY DEF Serve, LookForFailure, WriteReply, Return, Leave
  <2> QED
    BY <1>2, <2>1
<1>9. Read /\ (\A i \in Ids : ~ReadCancel(i)) => Goal
  <2>1. Read /\ (\A i \in Ids : ~ReadCancel(i))
          => /\ UNCHANGED <<flag, cancel, stage, answered>>
             /\ reader' \notin {"finding", "storing"}
    BY DEF Read, ReadEnd, ReadAnswered, ReadSilent, ReadCall, Leave
  <2> QED
    BY <1>2, <2>1
<1>10. UNCHANGED vars => Goal
  BY <1>1 DEF vars, readerVars, StoresFound, CancelSeen, BindingHolds
<1> HIDE DEF Goal
<1> QED
  BY <1>3, <1>4, <1>5, <1>6, <1>7, <1>8, <1>9, <1>10, StepCases

-----------------------------------------------------------------------------
(* How serve and its calls end. *)

LEMMA EndStep == IInv /\ [Next]_vars => EndsExplained' /\ JoinsLast'
<1> DEFINE Goal == EndsExplained' /\ JoinsLast'
<1> SUFFICES ASSUME IInv, [Next]_vars PROVE Goal
  OBVIOUS
<1>1. TypeOK /\ EndsExplained /\ JoinsLast
  BY DEF IInv
<1>2. ASSUME UNCHANGED <<stage, failure, outcome, answered>>,
             {reader, reader'} \cap {"joining", "done"} = {},
             \A c \in Calls : cancel[c] # "none" => cancel'[c] # "none"
      PROVE  Goal
  BY <1>1, <1>2 DEF EndsExplained, JoinsLast
<1>3. CASE LookForFailure
  BY <1>1, <1>3 DEF LookForFailure, Leave, EndsExplained, JoinsLast
<1>4. WriteReply \/ ReadEnd => Goal
  BY <1>1 DEF WriteReply, ReadEnd, Leave, EndsExplained, JoinsLast
<1>5. FindFlag \/ StoreFlag => Goal
  <2>1. \A c \in Calls : cancel[c] # "none" => Binding[c] # "none"
    BY DEF Binding
  <2> QED
    BY <1>1, <2>1 DEF FindFlag, StoreFlag, EndsExplained, JoinsLast
<1>6. CASE Admit
  <2>1. held \in Calls /\ stage[held] = "unread"
    BY <1>6, AdmitMoves
  <2> QED
    BY <1>1, <1>6, <2>1 DEF Admit, TypeOK, EndsExplained, JoinsLast
<1>7. CASE Return
  BY <1>1, <1>7 DEF Return, TypeOK, EndsExplained, JoinsLast
<1>8. Read /\ ~ReadEnd => Goal
  <2>1. Read /\ ~ReadEnd
          => /\ UNCHANGED <<stage, failure, outcome, answered>>
             /\ reader = "reading" /\ reader' \notin {"joining", "done"}
    BY DEF Read, ReadAnswered, ReadSilent, ReadCancel, ReadCall
  <2>2. Read /\ ~ReadEnd
          => \A c \in Calls : cancel[c] # "none" => cancel'[c] # "none"
    BY DEF Read, ReadAnswered, ReadSilent, ReadCancel, ReadCall
  <2> QED
    BY <1>2, <2>1, <2>2
<1>9. ASSUME NEW c \in Calls, Thread(c) PROVE Goal
  <2>1. /\ UNCHANGED <<cancel, reader, outcome>>
        /\ failure => failure'
        /\ answered \subseteq answered'
    BY <1>9 DEF Thread, Invoke, Finish, Remove, CheckFlag, Write, Release,
                RecordFailure, readerVars
  <2>2. stage[c] \notin {"unread", "done"}
    BY <1>9 DEF Thread, Invoke, Finish, Remove, CheckFlag, Write, Release,
                RecordFailure, Step
  <2>3. reader # "done"
    BY <1>1, <2>2 DEF JoinsLast
  <2>4. PICK x \in Stages : stage' = [stage EXCEPT ![c] = x]
    BY <1>9 DEF Thread, Invoke, Finish, Remove, CheckFlag, Write, Release,
                RecordFailure, Step, Stages, Holding
  <2>5. x \in {"releasing", "done"} =>
          c \in answered' \/ cancel[c] # "none" \/ (x = "done" /\ failure')
    BY <1>1, <1>9, <2>4
    DEF Thread, Invoke, Finish, Remove, CheckFlag, Write, Release,
        RecordFailure, Step, TypeOK, EndsExplained, IInv, CancelSeen
  <2>6. EndsExplained'
    BY <1>1, <2>1, <2>4, <2>5 DEF TypeOK, Stages, EndsExplained
  <2>7. JoinsLast'
    BY <1>1, <2>1, <2>3 DEF JoinsLast
  <2> QED
    BY <2>6, <2>7
<1>10. UNCHANGED vars => Goal
  BY <1>1 DEF vars, readerVars, EndsExplained, JoinsLast
<1> HIDE DEF Goal
<1> QED
  BY <1>3, <1>4, <1>5, <1>6, <1>7, <1>8, <1>9, <1>10, StepCases DEF Serve

LEMMA WaitsStep == IInv /\ [Next]_vars => OneWaits'
<1> SUFFICES ASSUME IInv, [Next]_vars PROVE OneWaits'
  OBVIOUS
<1>1. TypeOK /\ OneWaits
  BY DEF IInv
<1>2. CASE Admit
  <2>1. held \in Calls /\ stage[held] = "unread" /\ Idle(held)
    BY <1>2, AdmitMoves DEF IInv, AdmitsIdle, Admit
  <2>2. stage' = [stage EXCEPT ![held] = "spawned"] /\ answered' = answered
    BY <1>2 DEF Admit
  <2> QED
    BY <1>1, <2>1, <2>2 DEF TypeOK, OneWaits, Idle
<1>3. ASSUME NEW c \in Calls, Thread(c) PROVE OneWaits'
  <2>1. PICK x \in Stages : stage' = [stage EXCEPT ![c] = x]
    BY <1>3 DEF Thread, Invoke, Finish, Remove, CheckFlag, Write, Release,
                RecordFailure, Step, Stages, Holding
  <2>2. stage[c] # "unread" /\ answered \subseteq answered'
    BY <1>3 DEF Thread, Invoke, Finish, Remove, CheckFlag, Write, Release,
                RecordFailure, Step
  <2> QED
    BY <1>1, <2>1, <2>2 DEF TypeOK, Stages, OneWaits
<1>4. (Serve /\ ~Admit) \/ Read \/ UNCHANGED vars
        => UNCHANGED <<stage, answered>>
  BY DEF Serve, Read, LookForFailure, WriteReply, FindFlag, StoreFlag, Return,
         ReadEnd, ReadAnswered, ReadSilent, ReadCancel, ReadCall, vars
<1>5. UNCHANGED <<stage, answered>> => OneWaits'
  BY <1>1 DEF OneWaits
<1> QED
  BY <1>2, <1>3, <1>4, <1>5, StepCases

-----------------------------------------------------------------------------
LEMMA Inductive == Spec => []IInv
<1>1. IInv /\ [Next]_vars => IInv'
  BY TypeStep, SlotsStep, MapStep, CancelStep, EndStep, WaitsStep DEF IInv
<1> QED
  BY Initially, <1>1, PTL DEF Spec

(* Every variable keeps its type, the free slots stay within their number. *)
THEOREM TypeCorrect == Spec => []TypeOK
<1>1. IInv => TypeOK
  BY DEF IInv
<1> QED
  BY Inductive, <1>1, PTL

(* No way a call can end, answered, cancelled or unwritable, loses a slot  *)
(* or returns one twice (mpsc slots of serve).                             *)
THEOREM SlotsAreConserved == Spec => []SlotsConserved
<1>1. IInv => SlotsConserved
  BY DEF IInv
<1> QED
  BY Inductive, <1>1, PTL

(* The map names exactly the running calls (BTreeMap running of serve),    *)
(* for clients that reuse an id only after its answer.                     *)
THEOREM MapIsExact == Spec => []MapNamesRunning
<1>1. IInv => MapNamesRunning
  BY DEF IInv
<1> QED
  BY Inductive, <1>1, PTL

(* A call whose cancellation the reader finished while its handler ran is  *)
(* never answered, although the flag is looked up under the map's lock and *)
(* set after it was released.                                              *)
THEOREM CancelledStaysSilent == Spec => []CancelledIsSilent
<1>1. IInv => CancelledIsSilent
  BY DEF IInv, TypeOK, BindingHolds, CancelledIsSilent
<1> QED
  BY Inductive, <1>1, PTL

(* When serve returns Ok every call it admitted was answered or cancelled. *)
THEOREM ReturnsComplete == Spec => []ReturnIsComplete
<1>1. IInv => ReturnIsComplete
  BY DEF IInv, JoinsLast, EndsExplained, ReturnIsComplete
<1> QED
  BY Inductive, <1>1, PTL

-----------------------------------------------------------------------------
(* The refinement: the client sees a call admitted, asked to cease,        *)
(* silenced, dropped, answered or ended, the transport break and serve     *)
(* return; every other step of the reader or a thread is a stutter.        *)

Result == IF reader = "done" THEN outcome ELSE "none"

Shown == <<Running, Ended, Asked, answered, Silent, Failed, Result>>

(* What shows of a step of the thread of c that leaves it in stage x. *)
LEMMA ThreadShows ==
  ASSUME IInv, NEW c \in Calls, NEW x \in Stages,
         stage' = [stage EXCEPT ![c] = x],
         UNCHANGED <<cancel, reader, outcome>>
  PROVE  /\ Running' = IF x \in Holding THEN Running \cup {c}
                                        ELSE Running \ {c}
         /\ Ended' = IF x \in {"recording", "done"} THEN Ended \cup {c}
                                                    ELSE Ended \ {c}
         /\ Asked' = Asked /\ Result' = Result
<1>1. stage \in [Calls -> Stages]
  BY DEF IInv, TypeOK, Stages
<1> QED
  BY <1>1 DEF Running, Ended, Asked, Result

(* A thread that writes, or ends, shows; any other of its steps does not,  *)
(* but a look at a flag that no finished cancellation has set yet.         *)
LEMMA ThreadStep ==
  ASSUME IInv, NEW c \in Calls, Thread(c)
  PROVE  Atomic!Next \/ UNCHANGED Shown
<1>1. /\ TypeOK /\ CancelSeen /\ BindingHolds /\ AnsweredEnds
      /\ EndsExplained
  BY DEF IInv
<1>2. stage \in [Calls -> Stages] /\ c \in Calls
  BY <1>1 DEF TypeOK, Stages
<1>3. CASE Invoke(c) \/ Finish(c) \/ Remove(c)
  <2>1. PICK x \in Stages :
          /\ stage[c] \in Holding \ {"releasing", "breaking"}
          /\ x \in Holding \ {"releasing", "breaking"}
          /\ stage' = [stage EXCEPT ![c] = x]
    BY <1>3 DEF Invoke, Finish, Remove, Step, Stages, Holding
  <2>2. UNCHANGED <<cancel, reader, outcome, failure, answered>>
    BY <1>3 DEF Invoke, Finish, Remove, readerVars
  <2>3. Running' = Running /\ Ended' = Ended /\ Asked' = Asked
        /\ Result' = Result
    BY <2>1, <2>2, ThreadShows DEF Running, Ended, Holding
  <2>4. Silent' = Silent
    BY <1>2, <2>1, <2>2 DEF Silent, Holding
  <2>5. Failed' = Failed
    BY <1>2, <2>1, <2>2 DEF Failed, Holding
  <2> QED
    BY <2>2, <2>3, <2>4, <2>5 DEF Shown
<1>4. CASE CheckFlag(c)
  <2>1. PICK x \in {"releasing", "writing"} :
          /\ stage[c] = "removed" /\ (x = "releasing" <=> flag[c])
          /\ stage' = [stage EXCEPT ![c] = x]
    BY <1>1, <1>4 DEF CheckFlag, Step, TypeOK
  <2>2. UNCHANGED <<cancel, reader, outcome, failure, answered>>
    BY <1>4 DEF CheckFlag, readerVars
  <2>3. Running' = Running /\ Ended' = Ended /\ Asked' = Asked
        /\ Result' = Result /\ c \in Running
    BY <2>1, <2>2, ThreadShows DEF Running, Ended, Holding, Stages
  <2>4. Failed' = Failed
    BY <1>2, <2>1, <2>2 DEF Failed
  <2>5. c \notin answered
    BY <1>1, <2>1 DEF AnsweredEnds
  <2>6. Silent' = IF flag[c] THEN Silent \cup {c} ELSE Silent
    BY <1>2, <2>1, <2>2, <2>5 DEF Silent
  <2>7. CASE c \in Silent \/ ~flag[c]
    <3>1. Silent' = Silent
      BY <2>6, <2>7
    <3> QED
      BY <2>2, <2>3, <2>4, <3>1 DEF Shown
  <2>8. CASE c \notin Silent /\ flag[c]
    <3>1. c \in Asked
      BY <1>1, <2>8 DEF CancelSeen, Asked
    <3>2. Atomic!Silence(c)
      BY <2>2, <2>3, <2>4, <2>5, <2>6, <2>8, <3>1
      DEF Atomic!Silence, Atomic!Undecided, Result
    <3> QED
      BY <3>2 DEF Atomic!Next
  <2> QED
    BY <2>7, <2>8
<1>5. CASE Write(c)
  <2>1. PICK x \in {"releasing", "breaking"} :
          /\ stage[c] = "writing" /\ stage' = [stage EXCEPT ![c] = x]
          /\ answered' = IF x = "releasing" THEN answered \cup {c}
                                            ELSE answered
    BY <1>5 DEF Write, Step
  <2>2. UNCHANGED <<cancel, reader, outcome, failure>>
    BY <1>5 DEF Write, readerVars
  <2>3. Running' = Running /\ Ended' = Ended /\ Asked' = Asked
        /\ Result' = Result /\ c \in Running
    BY <2>1, <2>2, ThreadShows DEF Running, Ended, Holding, Stages
  <2>4. c \notin answered /\ c \notin Silent
    BY <1>1, <2>1 DEF AnsweredEnds, BindingHolds, Silent
  <2>5. CASE x = "releasing"
    <3>1. Silent' = Silent
      BY <1>2, <2>1, <2>2, <2>4, <2>5 DEF Silent
    <3>2. Failed' = Failed
      BY <1>2, <2>1, <2>2, <2>5 DEF Failed
    <3>3. Atomic!Answer(c)
      BY <2>1, <2>3, <2>4, <2>5, <3>1, <3>2
      DEF Atomic!Answer, Atomic!Undecided, Result
    <3> QED
      BY <3>3 DEF Atomic!Next
  <2>6. CASE x = "breaking"
    <3>1. Silent' = Silent \cup {c}
      BY <1>2, <2>1, <2>2, <2>4, <2>6 DEF Silent
    <3>2. Failed'
      BY <1>2, <2>1, <2>6 DEF Failed
    <3>3. Failed' = TRUE
      BY <3>2 DEF Failed
    <3>4. Atomic!Drop(c)
      BY <2>1, <2>3, <2>4, <2>6, <3>1, <3>3
      DEF Atomic!Drop, Atomic!Undecided, Result
    <3> QED
      BY <3>4 DEF Atomic!Next
  <2> QED
    BY <2>1, <2>5, <2>6
<1>6. CASE Release(c)
  <2>1. PICK x \in {"done", "recording"} :
          /\ stage[c] = IF x = "done" THEN "releasing" ELSE "breaking"
          /\ stage' = [stage EXCEPT ![c] = x]
    BY <1>6 DEF Release, Step
  <2>2. UNCHANGED <<cancel, reader, outcome, failure, answered>>
    BY <1>6 DEF Release, readerVars
  <2>3. /\ Running' = Running \ {c} /\ Ended' = Ended \cup {c}
        /\ Asked' = Asked /\ Result' = Result /\ c \in Running
    BY <2>1, <2>2, ThreadShows DEF Running, Holding, Stages
  <2>4. Silent' = Silent /\ c \in answered \cup Silent
    BY <1>2, <2>1, <2>2 DEF Silent
  <2>5. Failed' = Failed
    BY <1>2, <2>1, <2>2 DEF Failed
  <2>6. Atomic!End(c)
    BY <2>2, <2>3, <2>4, <2>5 DEF Atomic!End, Result
  <2> QED
    BY <2>6 DEF Atomic!Next
<1>7. CASE RecordFailure(c)
  <2>1. /\ stage[c] = "recording" /\ stage' = [stage EXCEPT ![c] = "done"]
        /\ failure' = TRUE
    BY <1>7 DEF RecordFailure, Step
  <2>2. UNCHANGED <<cancel, reader, outcome, answered>>
    BY <1>7 DEF RecordFailure, readerVars
  <2>3. Running' = Running /\ Ended' = Ended /\ Asked' = Asked
        /\ Result' = Result
    BY <2>1, <2>2, ThreadShows DEF Running, Ended, Holding, Stages
  <2>4. Silent' = Silent
    BY <1>2, <2>1, <2>2 DEF Silent
  <2>5. Failed /\ Failed'
    BY <2>1 DEF Failed
  <2>6. Failed' = Failed
    BY <2>5 DEF Failed
  <2> QED
    BY <2>2, <2>3, <2>4, <2>6 DEF Shown
<1> QED
  BY <1>3, <1>4, <1>5, <1>6, <1>7 DEF Thread

(* A cancellation the reader is done with silences the call of its id that *)
(* still runs, and there is at most one.                                   *)
LEMMA BindingShows ==
  ASSUME IInv, cancel' = Binding,
         UNCHANGED <<stage, failure, outcome, answered, Result>>
  PROVE  Atomic!Next \/ UNCHANGED Shown
<1>1. TypeOK /\ AnsweredEnds
  BY DEF IInv
<1>2. /\ Running' = Running /\ Ended' = Ended /\ Failed' = Failed
      /\ answered' = answered /\ Result' = Result
  BY DEF Running, Ended, Failed
<1>3. Asked' = Asked
  BY DEF Asked, Binding
<1>4. CASE \E c \in Calls : /\ cancel[c] = "read" /\ IdOf[c] = subject
                            /\ stage[c] \in Unfinished
  <2>1. PICK c \in Calls : /\ cancel[c] = "read" /\ IdOf[c] = subject
                           /\ stage[c] \in Unfinished
    BY <1>4
  <2>2. c \notin answered /\ running[subject] = c
    BY <2>1, Named
  <2>3. \A d \in Calls \ {c} : ~(IdOf[d] = subject /\ stage[d] \in Unfinished)
    BY <2>2, Named
  <2>4. Silent' = Silent \cup {c} /\ c \notin Silent
    <3>1. \A d \in Calls : cancel'[d] = IF d = c THEN "binding" ELSE cancel[d]
      BY <2>1, <2>3 DEF Binding
    <3> QED
      BY <2>1, <2>2, <3>1 DEF Silent, Unfinished
  <2>5. c \in Running /\ c \in Asked
    BY <2>1 DEF Running, Asked, Unfinished, Holding
  <2>6. Atomic!Silence(c)
    BY <1>2, <1>3, <2>2, <2>4, <2>5
    DEF Atomic!Silence, Atomic!Undecided, Result
  <2> QED
    BY <2>6 DEF Atomic!Next
<1>5. CASE \A c \in Calls : ~(/\ cancel[c] = "read" /\ IdOf[c] = subject
                              /\ stage[c] \in Unfinished)
  <2>1. \A c \in Calls : cancel'[c] = cancel[c]
    BY <1>5 DEF Binding
  <2>2. Silent' = Silent
    BY <2>1 DEF Silent
  <2> QED
    BY <1>2, <1>3, <2>2 DEF Shown
<1> QED
  BY <1>4, <1>5

(* What the reader decides about its own loop shows only as a failure.     *)
LEMMA LoopShows ==
  ASSUME IInv, UNCHANGED <<stage, cancel, answered>>,
         reader # "done", reader' # "done",
         Failed => Failed'
  PROVE  Atomic!Next \/ UNCHANGED Shown
<1>1. /\ Running' = Running /\ Ended' = Ended /\ Asked' = Asked
      /\ Silent' = Silent /\ answered' = answered
      /\ Result = "none" /\ Result' = "none"
  BY DEF Running, Ended, Asked, Silent, Result
<1>2. CASE Failed' = Failed
  BY <1>1, <1>2 DEF Shown
<1>3. CASE Failed' # Failed
  <2>1. Failed'
    <3>1. Failed \in BOOLEAN /\ Failed' \in BOOLEAN
      BY DEF Failed
    <3> QED
      BY <1>3, <3>1
  <2>2. Failed' = TRUE
    BY <2>1 DEF Failed
  <2>3. Atomic!Break
    BY <1>1, <2>2 DEF Atomic!Break, Result
  <2> QED
    BY <2>3 DEF Atomic!Next
<1> QED
  BY <1>2, <1>3

LEMMA ReaderStep ==
  ASSUME IInv, Serve \/ Read
  PROVE  Atomic!Next \/ UNCHANGED Shown
<1> DEFINE Goal == Atomic!Next \/ UNCHANGED Shown
<1> SUFFICES Goal
  OBVIOUS
<1>1. TypeOK /\ JoinsLast
  BY DEF IInv
<1> HIDE DEF Goal
<1>2. CASE LookForFailure
  <2>1. UNCHANGED <<stage, cancel, answered>> /\ reader # "done"
        /\ reader' # "done"
    BY <1>2 DEF LookForFailure, Leave
  <2>2. Failed => Failed'
    BY <1>2 DEF LookForFailure, Leave, Failed
  <2> QED
    BY <2>1, <2>2, LoopShows DEF Goal
<1>3. ASSUME WriteReply \/ ReadEnd \/ ReadAnswered \/ ReadSilent
             \/ \E c \in Calls : ReadCall(c)
      PROVE  Goal
  <2>1. UNCHANGED <<stage, cancel, answered, failure>>
        /\ reader \in {"replying", "reading"} /\ reader' # "done"
    BY <1>3 DEF WriteReply, ReadEnd, ReadAnswered, ReadSilent, ReadCall, Leave
  <2>2. outcome = "none"
    BY <1>1, <2>1 DEF JoinsLast
  <2>3. Failed => Failed'
    BY <2>1, <2>2 DEF Failed
  <2> QED
    BY <2>1, <2>3, LoopShows DEF Goal
<1>4. ASSUME NEW i \in Ids, ReadCancel(i) PROVE Goal
  <2>1. /\ UNCHANGED <<stage, answered, failure, outcome>>
        /\ reader = "reading" /\ reader' = "finding"
    BY <1>4 DEF ReadCancel
  <2>2. /\ Running' = Running /\ Ended' = Ended /\ Failed' = Failed
        /\ Result' = Result
    BY <2>1 DEF Running, Ended, Failed, Result
  <2>3. \A c \in Calls : cancel'[c] = "binding" <=> cancel[c] = "binding"
    BY <1>1, <1>4 DEF ReadCancel, TypeOK
  <2>4. Silent' = Silent
    BY <2>1, <2>3 DEF Silent
  <2>5. CASE \E c \in Calls : /\ IdOf[c] = i /\ stage[c] \in Holding
                              /\ c \notin answered /\ cancel[c] = "none"
    <3>1. PICK c \in Calls : /\ IdOf[c] = i /\ stage[c] \in Holding
                             /\ c \notin answered /\ cancel[c] = "none"
      BY <2>5
    <3>2. \A d \in Calls \ {c} :
            ~(IdOf[d] = i /\ stage[d] \in Holding /\ d \notin answered)
      BY <3>1 DEF IInv, OneWaits, Holding
    <3>3. Asked' = Asked \cup {c}
      BY <1>4, <3>1, <3>2 DEF ReadCancel, Asked
    <3>4. Atomic!Ask(c)
      BY <2>1, <2>2, <2>4, <3>1, <3>3 DEF Atomic!Ask, Running, Result
    <3> QED
      BY <3>4 DEF Atomic!Next, Goal
  <2>6. CASE \A c \in Calls : ~(/\ IdOf[c] = i /\ stage[c] \in Holding
                                /\ c \notin answered /\ cancel[c] = "none")
    <3>1. \A c \in Calls : cancel'[c] = cancel[c]
      BY <1>4, <2>6 DEF ReadCancel
    <3>2. Asked' = Asked
      BY <3>1 DEF Asked
    <3> QED
      BY <2>1, <2>2, <2>4, <3>2 DEF Shown, Goal
  <2> QED
    BY <2>5, <2>6
<1>5. CASE FindFlag \/ StoreFlag
  <2>1. /\ UNCHANGED <<stage, failure, outcome, answered>>
        /\ reader # "done" /\ reader' # "done"
        /\ cancel' = Binding \/ cancel' = cancel
    BY <1>5 DEF FindFlag, StoreFlag
  <2>2. Result' = Result
    BY <2>1 DEF Result
  <2>3. cancel' = Binding => Goal
    BY <2>1, <2>2, BindingShows DEF Goal
  <2>4. cancel' = cancel => Goal
    <3>1. Failed => Failed'
      BY <2>1 DEF Failed
    <3> QED
      BY <2>1, <3>1, LoopShows DEF Goal
  <2> QED
    BY <2>1, <2>3, <2>4
<1>6. CASE Admit
  <2>1. held \in Calls /\ stage[held] = "unread"
    BY <1>6, AdmitMoves
  <2>2. /\ stage' = [stage EXCEPT ![held] = "spawned"]
        /\ UNCHANGED <<cancel, answered, failure, outcome>>
        /\ reader = "admitting" /\ reader' = "looking" /\ free > 0
    BY <1>6 DEF Admit
  <2>3. stage \in [Calls -> Stages]
    BY <1>1 DEF TypeOK, Stages
  <2>4. /\ Running' = Running \cup {held} /\ held \notin Running \cup Ended
        /\ Ended' = Ended /\ Asked' = Asked /\ Silent' = Silent
        /\ Failed' = Failed /\ Result = "none" /\ Result' = "none"
    BY <2>1, <2>2, <2>3
    DEF Running, Ended, Asked, Silent, Failed, Result, Holding
  <2>5. Atomic!Cardinality(Running) < MaxCalls
    <3>1. Atomic!Cardinality(Running) = Cardinality(Holders)
      BY DEF Running, Holders, Atomic!Cardinality, Cardinality
    <3>2. free + Cardinality(Holders) = MaxCalls /\ free \in Nat
      BY <1>1, StdioAssumption DEF IInv, SlotsConserved, Holders, TypeOK
    <3>3. Cardinality(Holders) < MaxCalls
      BY <2>2, <3>2, FiniteHolders
    <3> QED
      BY <3>1, <3>3
  <2>6. Atomic!Admit(held)
    BY <2>2, <2>4, <2>5 DEF Atomic!Admit, Result
  <2> QED
    BY <2>1, <2>6 DEF Atomic!Next, Goal
<1>7. CASE Return
  <2>1. /\ UNCHANGED <<stage, cancel, answered>>
        /\ reader = "joining" /\ reader' = "done"
        /\ \A c \in Calls : stage[c] \in {"unread", "done"}
        /\ failure' = FALSE
        /\ outcome' = IF failure THEN "error" ELSE outcome
    BY <1>7 DEF Return
  <2>2. Running = {} /\ Running' = {}
    BY <2>1 DEF Running, Holding
  <2>3. Ended' = Ended /\ Asked' = Asked /\ Silent' = Silent
    BY <2>1 DEF Ended, Asked, Silent
  <2>4. outcome \in {"ok", "error"}
    BY <1>1, <2>1 DEF JoinsLast, TypeOK
  <2>5. Failed <=> failure \/ outcome = "error"
    BY <2>1 DEF Failed
  <2>6. Failed' <=> outcome' = "error"
    BY <2>1 DEF Failed
  <2>7. Failed' = Failed
    <3>1. Failed' <=> Failed
      BY <2>1, <2>5, <2>6
    <3> QED
      BY <3>1 DEF Failed
  <2>8. Result = "none" /\ Result' = IF Failed THEN "error" ELSE "ok"
    BY <2>1, <2>4, <2>5 DEF Result
  <2>9. Atomic!Return
    BY <2>1, <2>2, <2>3, <2>7, <2>8 DEF Atomic!Return, Result
  <2> QED
    BY <2>9 DEF Atomic!Next, Goal
<1> QED
  BY <1>2, <1>3, <1>4, <1>5, <1>6, <1>7 DEF Serve, Read

(* serve implements CancellableCalls: what a cancellation takes several    *)
(* steps of two threads to do is, for the client, one step that silences   *)
(* the call it named and no other.                                         *)
THEOREM ImplementsCancellableCalls == Spec => CallsAreAtomic
<1>1. Init => Atomic!Init
  <2> SUFFICES ASSUME Init PROVE Atomic!Init
    OBVIOUS
  <2>1. Running = {} /\ Ended = {} /\ Asked = {} /\ Silent = {}
    BY DEF Init, Running, Ended, Asked, Silent, Holding
  <2>2. Failed = FALSE /\ reader # "done" /\ answered = {}
    BY DEF Init, Failed
  <2> QED
    BY <2>1, <2>2 DEF Atomic!Init
<1>2. IInv /\ [Next]_vars => [Atomic!Next]_(Atomic!vars)
  <2> SUFFICES ASSUME IInv, [Next]_vars
               PROVE  Atomic!Next \/ UNCHANGED Shown
    BY DEF Atomic!vars, Shown, Result
  <2>1. UNCHANGED vars => UNCHANGED Shown
    BY DEF vars, readerVars, Shown, Running, Ended, Asked, Silent, Failed,
           Result
  <2> QED
    BY <2>1, StepCases, ReaderStep, ThreadStep
<1> QED
  BY Inductive, <1>1, <1>2, PTL DEF Spec, CallsAreAtomic, Atomic!Spec

(* What keeps OneFate true in CancellableCalls: a call that is silent      *)
(* unasked has failed the transport, and serve returns Ok only without a   *)
(* failure and without a call left that could fail it.                     *)
AtomicInv ==
    /\ Atomic!OneFate
    /\ Silent \subseteq Asked \/ Failed
    /\ Result = "ok" => ~Failed

(* Every call of any implementation of CancellableCalls has one fate.      *)
LEMMA AtomicMeansOneFate == CallsAreAtomic => []Atomic!OneFate
<1> USE DEF Result, AtomicInv, Atomic!OneFate
<1>1. Atomic!Init => AtomicInv
  BY DEF Atomic!Init
<1>2. AtomicInv /\ [Atomic!Next]_(Atomic!vars) => AtomicInv'
  <2> SUFFICES ASSUME AtomicInv, [Atomic!Next]_(Atomic!vars) PROVE AtomicInv'
    OBVIOUS
  <2>1. ASSUME NEW c \in Calls, Atomic!Admit(c) PROVE AtomicInv'
    BY <2>1 DEF Atomic!Admit
  <2>2. ASSUME NEW c \in Calls, Atomic!Ask(c) PROVE AtomicInv'
    BY <2>2 DEF Atomic!Ask
  <2>3. ASSUME NEW c \in Calls, Atomic!Silence(c) PROVE AtomicInv'
    BY <2>3 DEF Atomic!Silence, Atomic!Undecided
  <2>4. ASSUME NEW c \in Calls, Atomic!Drop(c) PROVE AtomicInv'
    BY <2>4 DEF Atomic!Drop, Atomic!Undecided
  <2>5. ASSUME NEW c \in Calls, Atomic!Answer(c) PROVE AtomicInv'
    BY <2>5 DEF Atomic!Answer, Atomic!Undecided
  <2>6. ASSUME NEW c \in Calls, Atomic!End(c) PROVE AtomicInv'
    BY <2>6 DEF Atomic!End
  <2>7. CASE Atomic!Break
    BY <2>7 DEF Atomic!Break
  <2>8. CASE Atomic!Return
    BY <2>8 DEF Atomic!Return
  <2>9. CASE UNCHANGED Atomic!vars
    BY <2>9 DEF Atomic!vars
  <2> QED
    BY <2>1, <2>2, <2>3, <2>4, <2>5, <2>6, <2>7, <2>8, <2>9 DEF Atomic!Next
<1>3. AtomicInv => Atomic!OneFate
  OBVIOUS
<1> QED
  BY <1>1, <1>2, <1>3, PTL DEF CallsAreAtomic, Atomic!Spec

(* Every call serve took has one fate: it is answered or silent, never     *)
(* both, has one of the two before its thread gives back the slot, and,    *)
(* when serve returns Ok, is only silent because it was asked to be.       *)
THEOREM EveryCallHasOneFate == Spec => []Atomic!OneFate
BY ImplementsCancellableCalls, AtomicMeansOneFate, PTL

-----------------------------------------------------------------------------
(* What the liveness of serve rests on, short of fairness.                 *)

(* How far a call has come. *)
Progress(s) ==
    CASE s = "unread" -> 0
      [] s = "spawned" -> 1
      [] s = "running" -> 2
      [] s = "returned" -> 3
      [] s = "removed" -> 4
      [] s = "writing" -> 5
      [] s \in {"releasing", "breaking"} -> 6
      [] s = "recording" -> 7
      [] s = "done" -> 8

(* A call only ever advances, a step of its thread always does, and once   *)
(* reading has ended no call begins: a thread is at its end after at most  *)
(* seven steps, and what the scope waits for only gets less.               *)
THEOREM CallsAdvance ==
  Spec => [][\A c \in Calls :
                /\ stage'[c] # stage[c] => Progress(stage[c]) < Progress(stage'[c])
                /\ Thread(c) => stage'[c] # stage[c]
                /\ reader \in {"joining", "done"} /\ stage[c] = "unread"
                      => stage'[c] = "unread"]_vars
<1>1. ASSUME IInv, Next, NEW c \in Calls
      PROVE  /\ stage'[c] # stage[c] => Progress(stage[c]) < Progress(stage'[c])
             /\ Thread(c) => stage'[c] # stage[c]
             /\ reader \in {"joining", "done"} /\ stage[c] = "unread"
                   => stage'[c] = "unread"
  <2>1. stage \in [Calls -> Stages]
    BY <1>1 DEF IInv, TypeOK, Stages
  <2>2. ASSUME NEW d \in Calls, Thread(d)
        PROVE  /\ Progress(stage[d]) < Progress(stage'[d])
               /\ stage[d] # "unread" /\ stage'[d] # stage[d]
               /\ \A e \in Calls \ {d} : stage'[e] = stage[e]
    <3>1. \A e \in Calls \ {d} : stage'[e] = stage[e]
      BY <2>1, <2>2 DEF Thread, Invoke, Finish, Remove, CheckFlag, Write,
                        Release, RecordFailure, Step
    <3>2. /\ Progress(stage[d]) < Progress(stage'[d])
          /\ stage[d] # "unread" /\ stage'[d] # stage[d]
      BY <2>1, <2>2 DEF Thread, Invoke, Finish, Remove, CheckFlag, Write,
                        Release, RecordFailure, Step, Progress
    <3> QED
      BY <3>1, <3>2
  <2>3. CASE \E d \in Calls : Thread(d)
    <3>1. PICK d \in Calls : Thread(d)
      BY <2>3
    <3>2. CASE c = d
      BY <2>2, <3>1, <3>2
    <3>3. CASE c # d
      <4>1. stage'[c] = stage[c]
        BY <2>2, <3>1, <3>3
      <4>2. ~Thread(c)
        BY <2>2, <4>1
      <4> QED
        BY <4>1, <4>2
    <3> QED
      BY <3>2, <3>3
  <2>4. CASE ~ \E d \in Calls : Thread(d)
    <3>1. CASE Admit
      <4>1. held \in Calls /\ stage[held] = "unread"
        BY <1>1, <3>1, AdmitMoves
      <4> QED
        BY <2>1, <2>4, <3>1, <4>1 DEF Admit, Progress
    <3>2. (Serve /\ ~Admit) \/ Read \/ UNCHANGED vars => UNCHANGED stage
      BY DEF Serve, Read, LookForFailure, WriteReply, FindFlag, StoreFlag,
             Return, ReadEnd, ReadAnswered, ReadSilent, ReadCancel, ReadCall,
             vars
    <3> QED
      BY <1>1, <2>4, <3>1, <3>2, StepCases
  <2> QED
    BY <2>3, <2>4
<1>2. IInv /\ [Next]_vars
        => [\A c \in Calls :
               /\ stage'[c] # stage[c]
                     => Progress(stage[c]) < Progress(stage'[c])
               /\ Thread(c) => stage'[c] # stage[c]
               /\ reader \in {"joining", "done"} /\ stage[c] = "unread"
                     => stage'[c] = "unread"]_vars
  BY <1>1
<1> QED
  BY Inductive, <1>2, PTL DEF Spec

(* The reader is never the last to move: while it waits for a slot a call  *)
(* holds one, in a stage from which its thread goes on without the reader. *)
THEOREM NeverWaitsAlone ==
  Spec => [](reader = "admitting" /\ free = 0
                => \E c \in Calls : stage[c] \in Holding)
<1>1. ASSUME IInv, free = 0 PROVE \E c \in Calls : stage[c] \in Holding
  <2>1. Cardinality(Holders) # 0
    BY <1>1, FiniteHolders, StdioAssumption DEF IInv, SlotsConserved, Holders
  <2>2. Holders # {}
    BY <2>1, FS_EmptySet
  <2> QED
    BY <2>2 DEF Holders
<1> QED
  BY Inductive, <1>1, PTL
=============================================================================
