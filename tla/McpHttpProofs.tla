--------------------------- MODULE McpHttpProofs ---------------------------
(***************************************************************************)
(* Proofs about McpHttp for any number of clients, requests and sessions,  *)
(* and any positive limits.                                                *)
(***************************************************************************)
EXTENDS McpHttp, FiniteSetTheorems, SequenceTheorems, TLAPS

(* The queue holds each waiting request once. *)
QueueInv ==
    /\ \A i \in 1..Len(queue) : stage[queue[i]] = "queued"
    /\ \A i, j \in 1..Len(queue) : queue[i] = queue[j] => i = j

(* The worker's request is the one it is dispatching. *)
CurrentInv == current # NoRequest => stage[current] = "running"

(* The inductive invariant: conservation alone is not inductive, because a *)
(* dispatch that finds its request already released would release it twice.*)
IInv ==
    /\ TypeOK
    /\ QueueInv
    /\ CurrentInv
    /\ PermitsConserved
    /\ \A r \in Requests : answer[r] # "unavailable"

-----------------------------------------------------------------------------
(* Sets of requests and of streams are finite. *)
LEMMA FiniteHolders == IsFiniteSet(Holders) /\ Cardinality(Holders) \in Nat
<1>1. IsFiniteSet(Requests) /\ Holders \subseteq Requests
  BY McpHttpAssumption DEF Holders
<1>2. IsFiniteSet(Holders)
  BY <1>1, FS_Subset
<1> QED
  BY <1>2, FS_CardinalityType

LEMMA FiniteStreams == IsFiniteSet(OpenStreams) /\ Cardinality(OpenStreams) \in Nat
<1>1. IsFiniteSet(Clients) /\ OpenStreams \subseteq Clients
  BY McpHttpAssumption DEF OpenStreams
<1>2. IsFiniteSet(OpenStreams)
  BY <1>1, FS_Subset
<1> QED
  BY <1>2, FS_CardinalityType

(* A request that changes stage enters, leaves or stays in Holders. *)
LEMMA StageChange ==
  ASSUME stage \in [Requests -> Stages], NEW r \in Requests, NEW x \in Stages,
         stage' = [stage EXCEPT ![r] = x]
  PROVE  /\ stage[r] \notin Holding /\ x \in Holding =>
              Cardinality(Holders') = Cardinality(Holders) + 1
         /\ stage[r] \in Holding /\ x \notin Holding =>
              Cardinality(Holders') = Cardinality(Holders) - 1
         /\ (stage[r] \in Holding <=> x \in Holding) => Holders' = Holders
<1>1. CASE stage[r] \notin Holding /\ x \in Holding
  <2>1. Holders' = Holders \cup {r} /\ r \notin Holders
    BY <1>1 DEF Holders
  <2> QED
    BY <1>1, <2>1, FiniteHolders, FS_AddElement
<1>2. CASE stage[r] \in Holding /\ x \notin Holding
  <2>1. Holders' = Holders \ {r} /\ r \in Holders
    BY <1>2 DEF Holders
  <2> QED
    BY <1>2, <2>1, FiniteHolders, FS_RemoveElement
<1>3. (stage[r] \in Holding <=> x \in Holding) => Holders' = Holders
  BY DEF Holders
<1> QED
  BY <1>1, <1>2, <1>3

(* A stream that opens or closes changes OpenStreams by one. *)
LEMMA StreamChange ==
  ASSUME stream \in [Clients -> {"away", "backlog", "open"}], NEW c \in Clients,
         NEW x \in {"away", "backlog", "open"},
         stream' = [stream EXCEPT ![c] = x]
  PROVE  /\ stream[c] # "open" /\ x = "open" =>
              Cardinality(OpenStreams') = Cardinality(OpenStreams) + 1
         /\ stream[c] = "open" /\ x # "open" =>
              Cardinality(OpenStreams') = Cardinality(OpenStreams) - 1
         /\ stream[c] # "open" /\ x # "open" => OpenStreams' = OpenStreams
<1>1. CASE stream[c] # "open" /\ x = "open"
  <2>1. OpenStreams' = OpenStreams \cup {c} /\ c \notin OpenStreams
    BY <1>1 DEF OpenStreams
  <2> QED
    BY <1>1, <2>1, FiniteStreams, FS_AddElement
<1>2. CASE stream[c] = "open" /\ x # "open"
  <2>1. OpenStreams' = OpenStreams \ {c} /\ c \in OpenStreams
    BY <1>2 DEF OpenStreams
  <2> QED
    BY <1>2, <2>1, FiniteStreams, FS_RemoveElement
<1>3. stream[c] # "open" /\ x # "open" => OpenStreams' = OpenStreams
  BY DEF OpenStreams
<1> QED
  BY <1>1, <1>2, <1>3

(* Distinct waiting requests: the channel is no longer than Holders, and   *)
(* shorter when some holder is not waiting in it.                          *)
LEMMA QueueBound ==
  ASSUME TypeOK, QueueInv
  PROVE  /\ Len(queue) <= Cardinality(Holders)
         /\ \A r \in Holders : stage[r] # "queued" => Len(queue) < Cardinality(Holders)
<1> DEFINE Waiting == {r \in Requests : stage[r] = "queued"}
<1>1. Waiting \subseteq Holders /\ IsFiniteSet(Waiting)
  <2>1. Waiting \subseteq Holders
    BY DEF Holders, Holding
  <2> QED
    BY <2>1, FiniteHolders, FS_Subset
<1>2. Len(queue) <= Cardinality(Waiting)
  <2>1. Len(queue) \in Nat /\ queue \in [1..Len(queue) -> Waiting]
    <3>1. Len(queue) \in Nat /\ queue \in [1..Len(queue) -> Requests]
      BY LenProperties DEF TypeOK
    <3>2. \A i \in 1..Len(queue) : queue[i] \in Waiting
      BY <3>1 DEF QueueInv
    <3> QED
      BY <3>1, <3>2
  <2>2. IsFiniteSet(1..Len(queue)) /\ Cardinality(1..Len(queue)) = Len(queue)
    BY <2>1, FS_Interval, SMTT(30)
  <2>3. ~(Cardinality(Waiting) < Cardinality(1..Len(queue)))
    BY <2>1, <2>2, <1>1, FS_PigeonHole DEF QueueInv
  <2> QED
    BY <2>1, <2>2, <2>3, <1>1, FS_CardinalityType
<1>3. Cardinality(Waiting) <= Cardinality(Holders)
  BY <1>1, FiniteHolders, FS_Subset
<1>4. ASSUME NEW r \in Holders, stage[r] # "queued"
      PROVE  Len(queue) < Cardinality(Holders)
  <2>1. Waiting \subseteq Holders \ {r}
    BY <1>1, <1>4
  <2>2. Cardinality(Holders \ {r}) = Cardinality(Holders) - 1
        /\ IsFiniteSet(Holders \ {r})
    BY <1>4, FiniteHolders, FS_RemoveElement
  <2>3. Cardinality(Waiting) <= Cardinality(Holders \ {r})
    BY <2>1, <2>2, FS_Subset
  <2> QED
    BY <2>2, <2>3, <1>1, <1>2, FiniteHolders, FS_CardinalityType DEF TypeOK
<1> QED
  BY <1>1, <1>2, <1>3, <1>4, FiniteHolders, FS_CardinalityType DEF TypeOK

-----------------------------------------------------------------------------
(* Type correctness. *)

LEMMA TypeInit == Init => TypeOK
BY McpHttpAssumption DEF Init, TypeOK, Stages, Answers, Command, Methods, Bodies

LEMMA TypeStep == TypeOK /\ [Next]_vars => TypeOK'
<1> SUFFICES ASSUME TypeOK, [Next]_vars PROVE TypeOK'
  OBVIOUS
<1> USE McpHttpAssumption DEF TypeOK, streamVars, requestVars, workerVars
<1>0. ASSUME NEW r \in Requests, Send(r)
      PROVE  /\ queue' \in Seq(Requests)
             /\ stage' \in [Requests -> Stages]
             /\ answer' \in [Requests -> Answers]
  <2>1. Append(queue, r) \in Seq(Requests)
    OBVIOUS
  <2>2. CASE Len(queue) < MaxRequests
    BY <1>0, <2>1, <2>2 DEF Send, Stages
  <2>3. CASE ~(Len(queue) < MaxRequests)
    BY <1>0, <2>3 DEF Send, Refuse, Stages, Answers
  <2> QED
    BY <2>2, <2>3
<1>1. CASE Reserve
  BY <1>1 DEF Reserve
<1>2. ASSUME NEW c \in Clients, Connect(c) \/ Accept(c) \/ GiveUp(c)
      PROVE  TypeOK'
  BY <1>2 DEF Connect, Accept, GiveUp
<1>3. ASSUME NEW c \in Clients, HangUp(c) PROVE TypeOK'
  BY <1>3 DEF HangUp, CloseStream, DropHandler, Stages
<1>4. ASSUME NEW c \in Clients, Written(c) PROVE TypeOK'
  BY <1>4 DEF Written, Stages
<1>5. ASSUME NEW c \in Clients, CloseIdle(c) PROVE TypeOK'
  BY <1>5 DEF CloseIdle, CloseStream
<1>6. ASSUME NEW c \in Clients, NEW r \in Requests, ArriveRejected(c, r)
      PROVE  TypeOK'
  BY <1>6 DEF ArriveRejected, Arrives, Refuse, Stages, Answers
<1>7. ASSUME NEW c \in Clients, NEW r \in Requests, NEW m \in Traffic,
             ArriveBusy(c, r, m)
      PROVE  TypeOK'
  BY <1>7 DEF ArriveBusy, Arrives, Refuse, Stages, Answers
<1>8. ASSUME NEW c \in Clients, NEW r \in Requests, NEW m \in Traffic,
             ArrivePost(c, r, m)
      PROVE  TypeOK'
  BY <1>8 DEF ArrivePost, Arrives, Stages
<1>9. ASSUME NEW c \in Clients, NEW r \in Requests, NEW m \in Traffic,
             ArriveBare(c, r, m)
      PROVE  TypeOK'
  BY <1>0, <1>9 DEF ArriveBare, Arrives
<1>10. ASSUME NEW r \in Requests, BodyArrives(r) PROVE TypeOK'
  BY <1>0, <1>10 DEF BodyArrives
<1>11. ASSUME NEW r \in Requests, BodyFails(r) PROVE TypeOK'
  BY <1>11 DEF BodyFails, Refuse, Stages, Answers
<1>12. CASE Take
  <2>1. Head(queue) \in Requests /\ Tail(queue) \in Seq(Requests)
    BY <1>12 DEF Take
  <2> QED
    BY <1>12, <2>1 DEF Take, Stages
<1>13. ASSUME NEW r \in Requests, NEW why \in Answers, Reply(r, why)
       PROVE  /\ phase' = phase /\ listener' = listener /\ connFree' = connFree
              /\ stream' = stream /\ on' = on /\ cmd' = cmd /\ queue' = queue
              /\ now' = now /\ current' = NoRequest
              /\ free' \in Nat /\ stage' \in [Requests -> Stages]
              /\ answer' \in [Requests -> Answers]
  BY <1>13 DEF Reply, Stages
<1>14. CASE DispatchUnserved
  BY <1>13, <1>14 DEF DispatchUnserved, Answers
<1>15. CASE DispatchDelete
  BY <1>13, <1>15 DEF DispatchDelete, Answers
<1>16. CASE DispatchPost
  <2> DEFINE why == IF cmd[current].body = "oversized" THEN "bad" ELSE "answered"
  <2>1. current \in Requests /\ why \in Answers /\ Reply(current, why)
    BY <1>16 DEF DispatchPost, Answers
  <2>2. cmd[current].session \in Sessions
    BY <1>16, <2>1 DEF DispatchPost, Command
  <2>3. /\ rpc' \in [Sessions -> {"absent", "awaiting", "ready"}]
        /\ touched' \in [Sessions -> Nat]
        /\ ran' \in [Requests -> Nat]
    BY <1>16, <2>1, <2>2 DEF DispatchPost
  <2> QED
    BY <1>13, <2>1, <2>3
<1>17. CASE DispatchInitialize
  <2>1. \E why \in Answers : Reply(current, why)
    BY <1>17 DEF DispatchInitialize, Answers
  <2>2. /\ current \in Requests
        /\ rpc' \in [Sessions -> {"absent", "awaiting", "ready"}]
        /\ touched' \in [Sessions -> Nat]
        /\ ran' = ran
    BY <1>17 DEF DispatchInitialize
  <2> QED
    BY <1>13, <2>1, <2>2
<1>18. CASE Tick
  BY <1>18 DEF Tick
<1>19. CASE Shutdown
  BY <1>19 DEF Shutdown
<1>20. CASE Stop
  BY <1>20 DEF Stop
<1>21. CASE UNCHANGED vars
  BY <1>21 DEF vars
<1> QED
  BY <1>1, <1>2, <1>3, <1>4, <1>5, <1>6, <1>7, <1>8, <1>9, <1>10, <1>11, <1>12,
     <1>14, <1>15, <1>16, <1>17, <1>18, <1>19, <1>20, <1>21
     DEF Next, Dispatch, Stopped

(* Every variable keeps its range (TypeOK of the whole frontend). *)
THEOREM TypeCorrect == Spec => []TypeOK
BY TypeInit, TypeStep, PTL DEF Spec

-----------------------------------------------------------------------------
(* Conservation of the admission permits. *)

NeverUnavailable == \A r \in Requests : answer[r] # "unavailable"

LEMMA IInitial == Init => IInv
<1> SUFFICES ASSUME Init PROVE IInv
  OBVIOUS
<1>1. TypeOK
  BY TypeInit
<1>2. QueueInv /\ CurrentInv /\ NeverUnavailable
  BY McpHttpAssumption DEF Init, QueueInv, CurrentInv, NeverUnavailable
<1>3. Holders = {}
  BY DEF Init, Holders, Holding
<1>4. PermitsConserved
  BY <1>3, FS_EmptySet, McpHttpAssumption DEF Init, PermitsConserved
<1> QED
  BY <1>1, <1>2, <1>4 DEF IInv, NeverUnavailable

(* A request outside channel and worker may change its stage without       *)
(* disturbing either of them.                                              *)
LEMMA OutsideStep ==
  ASSUME IInv, NEW r \in Requests, NEW x \in Stages,
         stage[r] \notin {"queued", "running"},
         stage' = [stage EXCEPT ![r] = x],
         UNCHANGED <<queue, current>>
  PROVE  QueueInv' /\ CurrentInv'
<1>1. \A i \in 1..Len(queue) : queue[i] \in Requests /\ queue[i] # r
  <2>1. queue \in [1..Len(queue) -> Requests]
    BY LenProperties DEF IInv, TypeOK
  <2> QED
    BY <2>1 DEF IInv, QueueInv
<1>2. QueueInv'
  BY <1>1 DEF IInv, QueueInv, TypeOK
<1>3. CurrentInv'
  BY DEF IInv, CurrentInv, TypeOK
<1> QED
  BY <1>2, <1>3

(* try_send of a request that owns a permit, or has just taken one, finds  *)
(* room: the channel cannot hold all the permits besides this one.         *)
LEMMA SendStep ==
  ASSUME IInv, NEW r \in Requests, Send(r), UNCHANGED current,
         \/ stage[r] = "body" /\ free' = (IF Len(queue) < MaxRequests
                                            THEN free ELSE free + 1)
         \/ stage[r] = "new" /\ free > 0
              /\ free' = (IF Len(queue) < MaxRequests THEN free - 1 ELSE free)
  PROVE  QueueInv' /\ CurrentInv' /\ PermitsConserved' /\ NeverUnavailable'
<1>1. TypeOK /\ QueueInv /\ PermitsConserved
  BY DEF IInv
<1>2. Len(queue) < MaxRequests
  <2>1. CASE stage[r] = "body"
    <3>1. r \in Holders
      BY <2>1 DEF Holders, Holding
    <3>2. Len(queue) < Cardinality(Holders)
      BY <1>1, <2>1, <3>1, QueueBound
    <3> QED
      BY <1>1, <3>2, FiniteHolders, McpHttpAssumption DEF PermitsConserved, TypeOK
  <2>2. CASE stage[r] = "new" /\ free > 0
    <3>1. Len(queue) <= Cardinality(Holders)
      BY <1>1, QueueBound
    <3> QED
      BY <1>1, <2>2, <3>1, FiniteHolders, McpHttpAssumption DEF PermitsConserved, TypeOK
  <2> QED
    BY <2>1, <2>2
<1>3. /\ queue' = Append(queue, r)
      /\ stage' = [stage EXCEPT ![r] = "queued"]
      /\ answer' = answer
  BY <1>2 DEF Send
<1>4. queue \in [1..Len(queue) -> Requests] /\ Len(queue) \in Nat
  BY <1>1, LenProperties DEF TypeOK
<1>5. \A i \in 1..Len(queue) : queue[i] # r
  BY <1>1 DEF QueueInv
<1>6. QueueInv'
  <2>1. Len(queue') = Len(queue) + 1 /\ queue'[Len(queue) + 1] = r
        /\ \A i \in 1..Len(queue) : queue'[i] = queue[i]
    BY <1>1, <1>3, AppendProperties DEF TypeOK
  <2>2. \A i \in 1..Len(queue') : i = Len(queue) + 1 \/ i \in 1..Len(queue)
    BY <1>4, <2>1
  <2>3. \A i \in 1..Len(queue') : stage'[queue'[i]] = "queued"
    BY <1>1, <1>3, <1>4, <2>1, <2>2 DEF QueueInv, TypeOK
  <2>4. \A i, j \in 1..Len(queue') : queue'[i] = queue'[j] => i = j
    BY <1>1, <1>5, <2>1, <2>2 DEF QueueInv
  <2> QED
    BY <2>3, <2>4 DEF QueueInv
<1>7. CurrentInv'
  BY <1>1, <1>3 DEF IInv, CurrentInv, TypeOK
<1>8. PermitsConserved'
  <2>1. stage[r] = "new" => Cardinality(Holders') = Cardinality(Holders) + 1
    BY <1>1, <1>3, StageChange DEF TypeOK, Holding, Stages
  <2>2. stage[r] = "body" => Holders' = Holders
    BY <1>1, <1>3, StageChange DEF TypeOK, Holding, Stages
  <2> QED
    BY <1>1, <1>2, <2>1, <2>2, FiniteHolders, McpHttpAssumption
       DEF PermitsConserved, TypeOK
<1>9. NeverUnavailable'
  BY <1>3 DEF IInv, NeverUnavailable
<1> QED
  BY <1>6, <1>7, <1>8, <1>9

(* Taking the head of the channel leaves the rest of it in order. *)
LEMMA TakeStep ==
  ASSUME IInv, Take
  PROVE  QueueInv' /\ CurrentInv' /\ PermitsConserved' /\ NeverUnavailable'
<1> DEFINE r == Head(queue)
<1>1. TypeOK /\ QueueInv /\ PermitsConserved /\ queue # <<>>
  BY DEF IInv, Take
<1>2. /\ queue \in [1..Len(queue) -> Requests] /\ Len(queue) \in Nat
      /\ Len(queue) > 0 /\ r = queue[1] /\ r \in Requests
  BY <1>1, LenProperties, EmptySeq, HeadTailProperties DEF TypeOK
<1>3. /\ queue' = Tail(queue) /\ Len(queue') = Len(queue) - 1
      /\ \A i \in 1..Len(queue') : queue'[i] = queue[i + 1]
  BY <1>1, <1>2, HeadTailProperties DEF TypeOK, Take
<1>4. stage[r] = "queued" /\ stage' = [stage EXCEPT ![r] = "running"]
  BY <1>1, <1>2 DEF QueueInv, Take
<1>5. QueueInv'
  <2>1. \A i \in 1..Len(queue') : i + 1 \in 1..Len(queue) /\ i + 1 # 1
    BY <1>2, <1>3
  <2>2. \A i \in 1..Len(queue') : stage'[queue'[i]] = "queued"
    BY <1>1, <1>2, <1>3, <1>4, <2>1 DEF QueueInv, TypeOK
  <2>3. \A i, j \in 1..Len(queue') : queue'[i] = queue'[j] => i = j
    BY <1>1, <1>2, <1>3, <2>1 DEF QueueInv
  <2> QED
    BY <2>2, <2>3 DEF QueueInv
<1>6. CurrentInv'
  BY <1>1, <1>2, <1>4 DEF CurrentInv, Take, TypeOK
<1>7. PermitsConserved'
  <2>1. Holders' = Holders
    BY <1>1, <1>2, <1>4, StageChange DEF TypeOK, Holding, Stages
  <2> QED
    BY <1>1, <2>1 DEF PermitsConserved, Take
<1>8. NeverUnavailable'
  BY DEF IInv, NeverUnavailable, Take
<1> QED
  BY <1>5, <1>6, <1>7, <1>8

(* A reply hands the permit on, or releases it when nobody is waiting. *)
LEMMA ReplyStep ==
  ASSUME IInv, current \in Requests,
         NEW why \in Answers \ {"unavailable"}, Reply(current, why)
  PROVE  QueueInv' /\ CurrentInv' /\ PermitsConserved' /\ NeverUnavailable'
<1>1. TypeOK /\ QueueInv /\ PermitsConserved /\ current # NoRequest
      /\ stage[current] = "running"
  BY McpHttpAssumption DEF IInv, CurrentInv
<1> DEFINE x == IF Attached(current) THEN "writing" ELSE "over"
<1>2. stage' = [stage EXCEPT ![current] = x] /\ x \in Stages
  BY DEF Reply, Stages
<1>3. QueueInv'
  <2>1. queue \in [1..Len(queue) -> Requests] /\ queue' = queue
    BY <1>1, LenProperties DEF TypeOK, Reply
  <2>2. \A i \in 1..Len(queue) : queue[i] # current
    BY <1>1 DEF QueueInv
  <2> QED
    BY <1>1, <1>2, <2>1, <2>2 DEF QueueInv, TypeOK
<1>4. CurrentInv'
  BY DEF CurrentInv, Reply
<1>5. PermitsConserved'
  <2>1. CASE Attached(current)
    <3>1. Holders' = Holders /\ free' = free
      BY <1>1, <1>2, <2>1, StageChange DEF TypeOK, Holding, Reply
    <3> QED
      BY <1>1, <3>1 DEF PermitsConserved
  <2>2. CASE ~Attached(current)
    <3>1. Cardinality(Holders') = Cardinality(Holders) - 1 /\ free' = free + 1
      BY <1>1, <1>2, <2>2, StageChange DEF TypeOK, Holding, Reply
    <3> QED
      BY <1>1, <3>1, FiniteHolders DEF PermitsConserved, TypeOK
  <2> QED
    BY <2>1, <2>2
<1>6. NeverUnavailable'
  BY <1>1 DEF IInv, NeverUnavailable, Reply, TypeOK
<1> QED
  BY <1>3, <1>4, <1>5, <1>6

(* Steps that touch neither requests, channel nor worker. *)
LEMMA IdleStep ==
  ASSUME IInv, UNCHANGED <<free, stage, answer, queue, current>>
  PROVE  QueueInv' /\ CurrentInv' /\ PermitsConserved' /\ NeverUnavailable'
BY DEF IInv, QueueInv, CurrentInv, PermitsConserved, NeverUnavailable, Holders

LEMMA IStep == IInv /\ [Next]_vars => IInv'
<1> SUFFICES ASSUME IInv, [Next]_vars
             PROVE  QueueInv' /\ CurrentInv' /\ PermitsConserved' /\ NeverUnavailable'
  BY TypeStep DEF IInv, NeverUnavailable
<1> USE DEF streamVars, requestVars, workerVars
<1>0. TypeOK /\ PermitsConserved /\ NeverUnavailable
  BY DEF IInv, NeverUnavailable
<1>1. CASE Reserve \/ Tick \/ Shutdown \/ Stop \/ UNCHANGED vars
  BY <1>1, IdleStep DEF Reserve, Tick, Shutdown, Stop, vars
<1>2. ASSUME NEW c \in Clients, Connect(c) \/ Accept(c) \/ GiveUp(c) \/ CloseIdle(c)
      PROVE  QueueInv' /\ CurrentInv' /\ PermitsConserved' /\ NeverUnavailable'
  BY <1>2, IdleStep DEF Connect, Accept, GiveUp, CloseIdle
(* A hang-up drops a handler; what is in the channel or being dispatched stays. *)
<1>3. ASSUME NEW c \in Clients, HangUp(c)
      PROVE  QueueInv' /\ CurrentInv' /\ PermitsConserved' /\ NeverUnavailable'
  <2> DEFINE r == on[c]
  <2>1. UNCHANGED <<answer, queue, current>> /\ r \in Requests \cup {NoRequest}
    BY <1>0, <1>3 DEF HangUp, TypeOK
  <2>2. CASE r # NoRequest /\ stage[r] \in {"body", "writing", "refused"}
    <3>1. stage' = [stage EXCEPT ![r] = "over"] /\ r \in Requests
          /\ stage[r] \notin {"queued", "running"}
      BY <1>3, <2>1, <2>2 DEF HangUp, DropHandler
    <3>2. QueueInv' /\ CurrentInv'
      BY <2>1, <3>1, OutsideStep DEF Stages
    <3>3. CASE stage[r] = "refused"
      <4>1. Holders' = Holders /\ free' = free
        BY <1>0, <1>3, <3>1, <3>3, StageChange
           DEF TypeOK, Stages, Holding, HangUp, DropHandler
      <4> QED
        BY <1>0, <2>1, <3>2, <4>1 DEF PermitsConserved, NeverUnavailable
    <3>4. CASE stage[r] \in {"body", "writing"}
      <4>1. Cardinality(Holders') = Cardinality(Holders) - 1
        BY <1>0, <3>1, <3>4, StageChange DEF TypeOK, Stages, Holding
      <4>2. free' = free + 1
        BY <1>3, <2>2, <3>4 DEF HangUp, DropHandler
      <4> QED
        BY <1>0, <2>1, <3>2, <4>1, <4>2, FiniteHolders
           DEF PermitsConserved, TypeOK, NeverUnavailable
    <3> QED
      BY <2>2, <3>3, <3>4
  <2>3. CASE ~(r # NoRequest /\ stage[r] \in {"body", "writing", "refused"})
    <3>1. stage' = stage /\ free' = free
      BY <1>3, <2>3 DEF HangUp, DropHandler
    <3> QED
      BY <2>1, <3>1, IdleStep
  <2> QED
    BY <2>2, <2>3
<1>4. ASSUME NEW c \in Clients, Written(c)
      PROVE  QueueInv' /\ CurrentInv' /\ PermitsConserved' /\ NeverUnavailable'
  <2> DEFINE r == on[c]
  <2>1. /\ UNCHANGED <<answer, queue, current>> /\ r \in Requests
        /\ stage' = [stage EXCEPT ![r] = "over"]
        /\ stage[r] \in {"writing", "refused"}
    BY <1>0, <1>4 DEF Written, TypeOK
  <2>2. QueueInv' /\ CurrentInv'
    BY <2>1, OutsideStep DEF Stages
  <2>3. CASE stage[r] = "writing"
    <3>1. Cardinality(Holders') = Cardinality(Holders) - 1 /\ free' = free + 1
      BY <1>0, <1>4, <2>1, <2>3, StageChange DEF TypeOK, Stages, Holding, Written
    <3> QED
      BY <1>0, <2>1, <2>2, <3>1, FiniteHolders
         DEF PermitsConserved, TypeOK, NeverUnavailable
  <2>4. CASE stage[r] = "refused"
    <3>1. Holders' = Holders /\ free' = free
      BY <1>0, <1>4, <2>1, <2>4, StageChange DEF TypeOK, Stages, Holding, Written
    <3> QED
      BY <1>0, <2>1, <2>2, <3>1 DEF PermitsConserved, NeverUnavailable
  <2> QED
    BY <2>1, <2>3, <2>4
<1>5. ASSUME NEW c \in Clients, NEW r \in Requests, NEW m \in Command,
             \/ ArriveRejected(c, r)
             \/ ArriveBusy(c, r, m)
      PROVE  QueueInv' /\ CurrentInv' /\ PermitsConserved' /\ NeverUnavailable'
  <2>1. /\ UNCHANGED <<free, queue, current>>
        /\ stage[r] = "new"
        /\ stage' = [stage EXCEPT ![r] = "refused"]
        /\ answer'[r] # "unavailable"
        /\ \A q \in Requests : q # r => answer'[q] = answer[q]
    BY <1>0, <1>5 DEF ArriveRejected, ArriveBusy, Arrives, Refuse, TypeOK
  <2>2. Holders' = Holders
    BY <1>0, <2>1, StageChange DEF TypeOK, Stages, Holding
  <2> QED
    <3>1. QueueInv' /\ CurrentInv'
      BY <2>1, OutsideStep DEF Stages
    <3>2. PermitsConserved'
      BY <1>0, <2>1, <2>2 DEF PermitsConserved
    <3>3. NeverUnavailable'
      BY <1>0, <2>1 DEF NeverUnavailable
    <3> QED
      BY <3>1, <3>2, <3>3
<1>6. ASSUME NEW c \in Clients, NEW r \in Requests, NEW m \in Command,
             ArrivePost(c, r, m)
      PROVE  QueueInv' /\ CurrentInv' /\ PermitsConserved' /\ NeverUnavailable'
  <2>1. /\ UNCHANGED <<answer, queue, current>>
        /\ stage[r] = "new" /\ free' = free - 1 /\ free > 0
        /\ stage' = [stage EXCEPT ![r] = "body"]
    BY <1>6 DEF ArrivePost, Arrives
  <2>2. Cardinality(Holders') = Cardinality(Holders) + 1
    BY <1>0, <2>1, StageChange DEF TypeOK, Stages, Holding
  <2> QED
    <3>1. QueueInv' /\ CurrentInv'
      BY <2>1, OutsideStep DEF Stages
    <3>2. PermitsConserved'
      BY <1>0, <2>1, <2>2, FiniteHolders DEF PermitsConserved, TypeOK
    <3>3. NeverUnavailable'
      BY <1>0, <2>1 DEF NeverUnavailable
    <3> QED
      BY <3>1, <3>2, <3>3
<1>7. ASSUME NEW c \in Clients, NEW r \in Requests, NEW m \in Command,
             ArriveBare(c, r, m)
      PROVE  QueueInv' /\ CurrentInv' /\ PermitsConserved' /\ NeverUnavailable'
  BY <1>7, SendStep DEF ArriveBare, Arrives
<1>8. ASSUME NEW r \in Requests, BodyArrives(r)
      PROVE  QueueInv' /\ CurrentInv' /\ PermitsConserved' /\ NeverUnavailable'
  BY <1>8, SendStep DEF BodyArrives
<1>9. ASSUME NEW r \in Requests, BodyFails(r)
      PROVE  QueueInv' /\ CurrentInv' /\ PermitsConserved' /\ NeverUnavailable'
  <2>1. /\ UNCHANGED <<queue, current>>
        /\ stage[r] = "body" /\ free' = free + 1
        /\ stage' = [stage EXCEPT ![r] = "refused"]
        /\ answer' = [answer EXCEPT ![r] = "unread"]
    BY <1>9 DEF BodyFails, Refuse
  <2>2. Cardinality(Holders') = Cardinality(Holders) - 1
    BY <1>0, <2>1, StageChange DEF TypeOK, Stages, Holding
  <2>3. QueueInv' /\ CurrentInv'
    BY <2>1, OutsideStep DEF Stages
  <2> QED
    BY <1>0, <2>1, <2>2, <2>3, FiniteHolders
       DEF PermitsConserved, NeverUnavailable, TypeOK
<1>10. CASE Take
  BY <1>10, TakeStep
<1>11. CASE Dispatch
  <2>1. current \in Requests
        /\ \E why \in Answers \ {"unavailable"} : Reply(current, why)
    BY <1>0, <1>11 DEF Dispatch, DispatchUnserved, DispatchDelete, DispatchPost,
                       DispatchInitialize, Answers, TypeOK
  <2> QED
    BY <2>1, ReplyStep
<1>12. CASE Next
  <2> DEFINE Goal == QueueInv' /\ CurrentInv' /\ PermitsConserved' /\ NeverUnavailable'
  <2>1. Traffic \subseteq Command
    BY McpHttpAssumption
  <2>2. ASSUME NEW c \in Clients, NEW r \in Requests,
               \/ ArriveRejected(c, r)
               \/ \E m \in Traffic : ArriveBusy(c, r, m) \/ ArrivePost(c, r, m)
                                        \/ ArriveBare(c, r, m)
        PROVE  Goal
    <3>1. CASE ArriveRejected(c, r)
      <4>1. cmd[r] \in Command
        BY <1>0 DEF TypeOK
      <4> QED
        BY <1>5, <3>1, <4>1
    <3>2. ASSUME NEW m \in Traffic, ArriveBusy(c, r, m) \/ ArrivePost(c, r, m)
                                     \/ ArriveBare(c, r, m)
          PROVE  Goal
      BY <1>5, <1>6, <1>7, <2>1, <3>2
    <3> QED
      BY <2>2, <3>1, <3>2
  <2>3. Stopped => UNCHANGED vars
    BY DEF Stopped
  <2> HIDE DEF Goal
  <2>4. (\E c \in Clients : Connect(c) \/ Accept(c) \/ HangUp(c) \/ GiveUp(c)
            \/ Written(c) \/ CloseIdle(c)) => Goal
    BY <1>2, <1>3, <1>4 DEF Goal
  <2>5. (\E r \in Requests : BodyArrives(r) \/ BodyFails(r)) => Goal
    BY <1>8, <1>9 DEF Goal
  <2>6. Reserve \/ Tick \/ Shutdown \/ Stop \/ Stopped \/ Take \/ Dispatch => Goal
    BY <1>1, <1>10, <1>11, <2>3 DEF Goal
  <2> QED
    BY <1>12, <2>2, <2>4, <2>5, <2>6 DEF Next, Goal
<1> QED
  BY <1>1, <1>12

(* Whichever of handler, channel, worker and response owns a permit, and   *)
(* whenever peers hang up, permits are neither lost nor duplicated.         *)
THEOREM PermitsAreConserved == Spec => []PermitsConserved
<1>1. IInv => PermitsConserved
  BY DEF IInv
<1> QED
  BY <1>1, IInitial, IStep, PTL DEF Spec

(* The 503 behind try_send never means a full channel. *)
THEOREM ChannelIsNeverFull == Spec => []ChannelNeverFull
<1>1. IInv => ChannelNeverFull
  <2> SUFFICES ASSUME IInv, NEW r \in Requests, stage[r] = "body"
               PROVE  Len(queue) < MaxRequests
    BY DEF IInv, ChannelNeverFull
  <2>1. r \in Holders
    BY DEF Holders, Holding
  <2>2. Len(queue) < Cardinality(Holders)
    BY <2>1, QueueBound DEF IInv
  <2> QED
    BY <2>2, FiniteHolders, McpHttpAssumption DEF IInv, PermitsConserved, TypeOK
<1> QED
  BY <1>1, IInitial, IStep, PTL DEF Spec

-----------------------------------------------------------------------------
(* Conservation of the connection permits. *)

LEMMA ConnectionStep ==
  TypeOK /\ ConnectionsConserved /\ [Next]_vars => ConnectionsConserved'
<1> SUFFICES ASSUME TypeOK, ConnectionsConserved, [Next]_vars
             PROVE  ConnectionsConserved'
  OBVIOUS
<1> USE DEF streamVars, requestVars, workerVars
<1>0. /\ connFree \in Nat /\ Cardinality(OpenStreams) \in Nat
      /\ stream \in [Clients -> {"away", "backlog", "open"}]
      /\ listener \in {"idle", "reserved", "closed"}
      /\ MaxConnections \in Nat
  BY FiniteStreams, McpHttpAssumption DEF TypeOK
<1>1. ASSUME UNCHANGED streamVars PROVE ConnectionsConserved'
  BY <1>1 DEF ConnectionsConserved, OpenStreams
<1>2. CASE Reserve
  <2>1. OpenStreams' = OpenStreams
    BY <1>2 DEF Reserve, OpenStreams
  <2> QED
    BY <1>0, <1>2, <2>1 DEF Reserve, ConnectionsConserved
<1>3. ASSUME NEW c \in Clients, Accept(c) PROVE ConnectionsConserved'
  <2>1. Cardinality(OpenStreams') = Cardinality(OpenStreams) + 1
    BY <1>0, <1>3, StreamChange DEF Accept
  <2> QED
    BY <1>0, <1>3, <2>1 DEF Accept, ConnectionsConserved
<1>4. ASSUME NEW c \in Clients, HangUp(c) \/ CloseIdle(c)
      PROVE  ConnectionsConserved'
  <2>1. /\ stream[c] = "open" /\ stream' = [stream EXCEPT ![c] = "away"]
        /\ connFree' = connFree + 1 /\ listener' = listener
    BY <1>4 DEF HangUp, CloseIdle, CloseStream
  <2>2. Cardinality(OpenStreams') = Cardinality(OpenStreams) - 1
    BY <1>0, <2>1, StreamChange
  <2> QED
    BY <1>0, <2>1, <2>2 DEF ConnectionsConserved
<1>5. ASSUME NEW c \in Clients, Connect(c) \/ GiveUp(c)
      PROVE  ConnectionsConserved'
  <2>1. \E x \in {"away", "backlog"} : stream' = [stream EXCEPT ![c] = x]
    BY <1>5 DEF Connect, GiveUp
  <2>2. stream[c] # "open" /\ UNCHANGED <<connFree, listener>>
    BY <1>5 DEF Connect, GiveUp
  <2>3. OpenStreams' = OpenStreams
    BY <1>0, <2>1, <2>2, StreamChange
  <2> QED
    BY <2>2, <2>3 DEF ConnectionsConserved
<1>6. CASE Shutdown
  <2>1. OpenStreams' = OpenStreams
    BY <1>0, <1>6 DEF Shutdown, OpenStreams
  <2>2. listener' = "closed"
        /\ connFree' = (IF listener = "reserved" THEN connFree + 1 ELSE connFree)
    BY <1>6 DEF Shutdown
  <2> QED
    BY <1>0, <2>1, <2>2 DEF ConnectionsConserved
<1>7. ASSUME NEW c \in Clients, NEW r \in Requests,
             \/ ArriveRejected(c, r) \/ Written(c)
             \/ \E m \in Traffic : ArriveBusy(c, r, m) \/ ArrivePost(c, r, m)
                                      \/ ArriveBare(c, r, m)
      PROVE  UNCHANGED streamVars
  BY <1>7 DEF ArriveRejected, Written, ArriveBusy, ArrivePost, ArriveBare
<1>8. ASSUME NEW c \in Clients, Written(c) PROVE UNCHANGED streamVars
  BY <1>8 DEF Written
<1>9. ASSUME NEW r \in Requests, BodyArrives(r) \/ BodyFails(r)
      PROVE  UNCHANGED streamVars
  BY <1>9 DEF BodyArrives, BodyFails
<1>10. Take \/ Tick \/ Stop \/ Stopped \/ UNCHANGED vars => UNCHANGED streamVars
  BY DEF Take, Tick, Stop, Stopped, vars
<1>11. Dispatch => UNCHANGED streamVars
  BY DEF Dispatch, DispatchUnserved, DispatchDelete, DispatchPost,
         DispatchInitialize, Reply
<1> QED
  BY <1>1, <1>2, <1>3, <1>4, <1>5, <1>6, <1>7, <1>8, <1>9, <1>10, <1>11 DEF Next

(* Accepted streams, with the slot reserved across an accept, never exceed *)
(* max_connections, whenever peers hang up and the signal arrives.          *)
THEOREM ConnectionsAreConserved == Spec => []ConnectionsConserved
<1>1. Init => ConnectionsConserved
  <2> SUFFICES ASSUME Init PROVE ConnectionsConserved
    OBVIOUS
  <2>1. OpenStreams = {}
    BY DEF Init, OpenStreams
  <2> QED
    BY <2>1, FS_EmptySet, McpHttpAssumption DEF Init, ConnectionsConserved
<1> QED
  BY <1>1, TypeInit, TypeStep, ConnectionStep, PTL DEF Spec

-----------------------------------------------------------------------------
(* What becomes of the requests: each is somewhere, runs once, and all are *)
(* gone when the server is.                                                *)

(* Nothing ran for a request the worker has not finished with. *)
WorkDone ==
    \A r \in Requests :
        /\ ran[r] \in {0, 1}
        /\ stage[r] \notin {"writing", "over"} => ran[r] = 0
        /\ ran[r] = 1 => answer[r] = "answered"

(* A stage names a place: a stream, the channel, or the worker. *)
Placed ==
    \A r \in Requests :
        /\ stage[r] \in {"body", "writing"} => Attached(r)
        /\ stage[r] = "queued" => \E i \in 1..Len(queue) : queue[i] = r
        /\ stage[r] = "running" => current = r

(* After the signal no stream is added, and a stopped server has none. *)
Closing ==
    /\ phase # "serving" => listener = "closed"
    /\ \A c \in Clients : on[c] # NoRequest => stream[c] = "open"
    /\ phase = "stopped" => OpenStreams = {} /\ queue = <<>> /\ current = NoRequest

(* Where a request is must be known to say that none is left: with Placed  *)
(* alone a stopped server could still accept, with Closing alone a request *)
(* could be held by nobody.                                                *)
DInv == WorkDone /\ Placed /\ Closing

LEMMA DInitial == Init => DInv
BY McpHttpAssumption DEF Init, DInv, WorkDone, Placed, Closing

(* The worker's reply is the only step after which a tool has run. *)
LEMMA WorkStep == IInv /\ WorkDone /\ [Next]_vars => WorkDone'
<1> SUFFICES ASSUME IInv, WorkDone, [Next]_vars PROVE WorkDone'
  OBVIOUS
<1> USE DEF streamVars, requestVars, workerVars
<1>0. TypeOK /\ CurrentInv /\ QueueInv
  BY DEF IInv
<1>1. ASSUME UNCHANGED <<stage, answer, ran>> PROVE WorkDone'
  BY <1>1 DEF WorkDone
<1>2. ASSUME NEW r \in Requests, stage[r] \notin {"writing", "over"},
             UNCHANGED ran, NEW x \in Stages, NEW why \in Answers,
             stage' = [stage EXCEPT ![r] = x],
             answer' = [answer EXCEPT ![r] = why]
      PROVE  WorkDone'
  BY <1>0, <1>2 DEF WorkDone, TypeOK
<1>3. ASSUME NEW r \in Requests, UNCHANGED <<ran, answer>>, 
             NEW x \in {"over", "body", "queued", "running"},
             stage' = [stage EXCEPT ![r] = x],
             x = "over" \/ stage[r] \notin {"writing", "over"}
      PROVE  WorkDone'
  BY <1>0, <1>3 DEF WorkDone, TypeOK
<1>4. CASE Reserve \/ Tick \/ Shutdown \/ Stop \/ UNCHANGED vars
  BY <1>1, <1>4 DEF Reserve, Tick, Shutdown, Stop, vars
<1>5. ASSUME NEW c \in Clients, Connect(c) \/ Accept(c) \/ GiveUp(c) \/ CloseIdle(c)
      PROVE  WorkDone'
  BY <1>1, <1>5 DEF Connect, Accept, GiveUp, CloseIdle
<1>6. ASSUME NEW c \in Clients, HangUp(c) \/ Written(c) PROVE WorkDone'
  <2>1. UNCHANGED <<ran, answer>> /\ on[c] \in Requests \cup {NoRequest}
    BY <1>0, <1>6 DEF HangUp, Written, TypeOK
  <2>2. \/ stage' = stage
        \/ on[c] \in Requests /\ stage' = [stage EXCEPT ![on[c]] = "over"]
    BY <1>6, <2>1 DEF HangUp, DropHandler, Written
  <2> QED
    BY <1>1, <1>3, <2>1, <2>2
<1>7. ASSUME NEW r \in Requests, Send(r), stage[r] \in {"new", "body"}, UNCHANGED ran
      PROVE  WorkDone'
  <2>1. CASE Len(queue) < MaxRequests
    BY <1>3, <1>7, <2>1 DEF Send
  <2>2. CASE ~(Len(queue) < MaxRequests)
    BY <1>2, <1>7, <2>2 DEF Send, Refuse, Stages, Answers
  <2> QED
    BY <2>1, <2>2
<1>8. ASSUME NEW c \in Clients, NEW r \in Requests,
             \/ ArriveRejected(c, r)
             \/ \E m \in Traffic : ArriveBusy(c, r, m)
      PROVE  WorkDone'
  BY <1>2, <1>8 DEF ArriveRejected, ArriveBusy, Arrives, Refuse, Stages, Answers
<1>9. ASSUME NEW c \in Clients, NEW r \in Requests, NEW m \in Traffic, ArrivePost(c, r, m)
      PROVE  WorkDone'
  BY <1>3, <1>9 DEF ArrivePost, Arrives
<1>10. ASSUME NEW c \in Clients, NEW r \in Requests, NEW m \in Traffic, ArriveBare(c, r, m)
       PROVE  WorkDone'
  BY <1>7, <1>10 DEF ArriveBare, Arrives
<1>11. ASSUME NEW r \in Requests, BodyArrives(r) PROVE WorkDone'
  BY <1>7, <1>11 DEF BodyArrives
<1>12. ASSUME NEW r \in Requests, BodyFails(r) PROVE WorkDone'
  BY <1>2, <1>12 DEF BodyFails, Refuse, Stages, Answers
<1>13. CASE Take
  <2>1. /\ Head(queue) = queue[1] /\ Head(queue) \in Requests
        /\ 1 \in 1..Len(queue)
    BY <1>0, <1>13, EmptySeq, HeadTailProperties DEF Take, TypeOK
  <2>2. stage[Head(queue)] = "queued"
    BY <1>0, <2>1 DEF QueueInv
  <2> QED
    BY <1>3, <1>13, <2>1, <2>2 DEF Take
<1>14. ASSUME NEW why \in Answers, Reply(current, why), current \in Requests,
              UNCHANGED ran
       PROVE  WorkDone'
  <2>1. stage[current] = "running"
    BY <1>0, <1>14, McpHttpAssumption DEF CurrentInv
  <2> QED
    BY <1>2, <1>14, <2>1 DEF Reply, Stages
<1>15. CASE DispatchUnserved \/ DispatchDelete \/ DispatchInitialize
  <2>1. current \in Requests /\ UNCHANGED ran
        /\ \E why \in Answers : Reply(current, why)
    BY <1>0, <1>15 DEF DispatchUnserved, DispatchDelete, DispatchInitialize,
                       Answers, TypeOK
  <2> QED
    BY <1>14, <2>1
<1>16. CASE DispatchPost
  <2>1. current \in Requests /\ stage[current] = "running" /\ ran[current] = 0
    BY <1>0, <1>16, McpHttpAssumption DEF DispatchPost, CurrentInv, WorkDone, TypeOK
  <2>2. /\ stage'[current] \in {"writing", "over"}
        /\ \A q \in Requests \ {current} :
              stage'[q] = stage[q] /\ answer'[q] = answer[q] /\ ran'[q] = ran[q]
    BY <1>0, <1>16, <2>1 DEF DispatchPost, Reply, TypeOK
  <2>3. CASE ran'[current] = 0
    BY <2>1, <2>2, <2>3 DEF WorkDone
  <2>4. CASE ran'[current] # 0
    <3>1. cmd[current].body = "call" /\ ran'[current] = 1
      BY <1>0, <1>16, <2>1, <2>4 DEF DispatchPost, TypeOK
    <3>2. answer'[current] = "answered"
      BY <1>0, <1>16, <2>1, <3>1 DEF DispatchPost, Reply, TypeOK
    <3> QED
      BY <2>1, <2>2, <3>1, <3>2 DEF WorkDone
  <2> QED
    BY <2>3, <2>4
<1> QED
  BY <1>4, <1>5, <1>6, <1>8, <1>9, <1>10, <1>11, <1>12, <1>13, <1>15, <1>16
     DEF Next, Dispatch, Stopped, vars

(* A request leaves its place only together with its stage. *)
LEMMA PlacedStep == IInv /\ Placed /\ [Next]_vars => Placed'
<1> SUFFICES ASSUME IInv, Placed, [Next]_vars PROVE Placed'
  OBVIOUS
<1> USE DEF streamVars, requestVars, workerVars
<1>0. TypeOK /\ CurrentInv /\ QueueInv
  BY DEF IInv
<1>1. ASSUME UNCHANGED <<on, stage, queue, current>> PROVE Placed'
  BY <1>1 DEF Placed, Attached
<1>2. CASE Reserve \/ Tick \/ Shutdown \/ Stop \/ UNCHANGED vars
  BY <1>1, <1>2 DEF Reserve, Tick, Shutdown, Stop, vars
<1>3. ASSUME NEW c \in Clients, Connect(c) \/ Accept(c) \/ GiveUp(c)
      PROVE  Placed'
  BY <1>1, <1>3 DEF Connect, Accept, GiveUp
(* A stream lets go of its request: no other stream of it is disturbed. *)
<1>4. ASSUME NEW c \in Clients, on' = [on EXCEPT ![c] = NoRequest],
             UNCHANGED <<queue, current>>,
             \/ stage' = stage /\ (on[c] \in Requests =>
                                     stage[on[c]] \notin {"body", "writing"})
             \/ on[c] \in Requests /\ stage' = [stage EXCEPT ![on[c]] = "over"]
      PROVE  Placed'
  <2> SUFFICES ASSUME NEW q \in Requests
               PROVE  /\ stage'[q] \in {"body", "writing"} => \E d \in Clients : on'[d] = q
                      /\ stage'[q] = "queued" => \E i \in 1..Len(queue) : queue[i] = q
                      /\ stage'[q] = "running" => current = q
    BY <1>4 DEF Placed, Attached
  <2>1. stage'[q] = stage[q] \/ stage'[q] = "over"
    BY <1>0, <1>4 DEF TypeOK
  <2>2. ASSUME stage'[q] \in {"body", "writing"}
        PROVE  \E d \in Clients : on'[d] = q
    <3>1. stage[q] \in {"body", "writing"} /\ q # on[c]
      BY <1>0, <1>4, <2>1, <2>2 DEF TypeOK
    <3>2. PICK d \in Clients : on[d] = q
      BY <3>1 DEF Placed, Attached
    <3> QED
      BY <1>0, <1>4, <3>1, <3>2 DEF TypeOK
  <2> QED
    BY <2>1, <2>2 DEF Placed
<1>5. ASSUME NEW c \in Clients, HangUp(c) \/ Written(c) \/ CloseIdle(c)
      PROVE  Placed'
  <2>1. on[c] \in Requests \cup {NoRequest}
    BY <1>0 DEF TypeOK
  <2>2. on' = [on EXCEPT ![c] = NoRequest] /\ UNCHANGED <<queue, current>>
    BY <1>5 DEF HangUp, Written, CloseIdle, CloseStream
  <2>3. \/ stage' = stage /\ (on[c] \in Requests =>
                                stage[on[c]] \notin {"body", "writing"})
        \/ on[c] \in Requests /\ stage' = [stage EXCEPT ![on[c]] = "over"]
    BY <1>5, <2>1, McpHttpAssumption DEF HangUp, DropHandler, Written, CloseIdle
  <2> QED
    BY <1>4, <2>2, <2>3
(* A stream takes up a new request, or one is handed on. *)
<1>6. ASSUME NEW c \in Clients, NEW r \in Requests, on[c] = NoRequest,
             on' = [on EXCEPT ![c] = r], UNCHANGED current,
             \/ UNCHANGED queue /\ stage' = [stage EXCEPT ![r] = "refused"]
             \/ UNCHANGED queue /\ stage' = [stage EXCEPT ![r] = "body"]
             \/ queue' = Append(queue, r) /\ stage' = [stage EXCEPT ![r] = "queued"]
      PROVE  Placed'
  <2> SUFFICES ASSUME NEW q \in Requests
               PROVE  /\ stage'[q] \in {"body", "writing"} => \E d \in Clients : on'[d] = q
                      /\ stage'[q] = "queued" => \E i \in 1..Len(queue') : queue'[i] = q
                      /\ stage'[q] = "running" => current = q
    BY <1>6 DEF Placed, Attached
  <2>1. CASE q = r
    <3>1. on'[c] = r
      BY <1>0, <1>6 DEF TypeOK
    <3>2. queue' = Append(queue, r) => \E i \in 1..Len(queue') : queue'[i] = r
      BY <1>0, AppendProperties DEF TypeOK
    <3> QED
      BY <1>0, <1>6, <2>1, <3>1, <3>2 DEF TypeOK
  <2>2. CASE q # r
    <3>1. stage'[q] = stage[q]
      BY <1>0, <1>6, <2>2 DEF TypeOK
    <3>2. ASSUME stage[q] \in {"body", "writing"} PROVE \E d \in Clients : on'[d] = q
      <4>1. PICK d \in Clients : on[d] = q
        BY <3>2 DEF Placed, Attached
      <4> QED
        BY <1>0, <1>6, <4>1, McpHttpAssumption DEF TypeOK
    <3>3. ASSUME stage[q] = "queued" PROVE \E i \in 1..Len(queue') : queue'[i] = q
      <4>1. PICK i \in 1..Len(queue) : queue[i] = q
        BY <3>3 DEF Placed
      <4>2. i \in 1..Len(Append(queue, r)) /\ Append(queue, r)[i] = q
        BY <1>0, <4>1, AppendProperties DEF TypeOK
      <4> QED
        BY <1>6, <4>1, <4>2
    <3> QED
      BY <3>1, <3>2, <3>3 DEF Placed
  <2> QED
    BY <2>1, <2>2
<1>7. ASSUME NEW c \in Clients, NEW r \in Requests,
             \/ ArriveRejected(c, r)
             \/ \E m \in Traffic : \/ ArriveBusy(c, r, m) \/ ArrivePost(c, r, m)
                                   \/ ArriveBare(c, r, m)
      PROVE  Placed'
  BY <1>6, <1>7
     DEF ArriveRejected, ArriveBusy, ArrivePost, ArriveBare, Arrives, Refuse, Send
<1>8. ASSUME NEW r \in Requests, stage[r] = "body", UNCHANGED <<on, current>>,
             \/ UNCHANGED queue /\ stage' = [stage EXCEPT ![r] = "refused"]
             \/ queue' = Append(queue, r) /\ stage' = [stage EXCEPT ![r] = "queued"]
      PROVE  Placed'
  <2> SUFFICES ASSUME NEW q \in Requests
               PROVE  /\ stage'[q] \in {"body", "writing"} => Attached(q)'
                      /\ stage'[q] = "queued" => \E i \in 1..Len(queue') : queue'[i] = q
                      /\ stage'[q] = "running" => current' = q
    BY DEF Placed
  <2>0. Attached(q)' <=> Attached(q)
    BY <1>8 DEF Attached
  <2>1. \E i \in 1..Len(Append(queue, r)) : Append(queue, r)[i] = r
    <3>1. /\ Len(queue) + 1 \in 1..Len(Append(queue, r))
          /\ Append(queue, r)[Len(queue) + 1] = r
      BY <1>0, AppendProperties DEF TypeOK
    <3> QED
      BY <3>1
  <2>2. \A i \in 1..Len(queue) : i \in 1..Len(Append(queue, r))
                                  /\ Append(queue, r)[i] = queue[i]
    BY <1>0, AppendProperties DEF TypeOK
  <2>3. CASE q = r
    BY <1>0, <1>8, <2>1, <2>3 DEF TypeOK
  <2>4. CASE q # r
    <3>1. stage'[q] = stage[q]
      BY <1>0, <1>8, <2>4 DEF TypeOK
    <3> QED
      BY <1>8, <2>0, <2>2, <3>1 DEF Placed
  <2> QED
    BY <2>3, <2>4
<1>9. ASSUME NEW r \in Requests, BodyArrives(r) \/ BodyFails(r) PROVE Placed'
  BY <1>8, <1>9 DEF BodyArrives, BodyFails, Send, Refuse
<1>10. CASE Take
  <2> DEFINE r == Head(queue)
  <2>1. /\ r = queue[1] /\ r \in Requests /\ Len(queue) \in Nat /\ Len(queue) > 0
        /\ Len(queue') = Len(queue) - 1
        /\ \A i \in 1..Len(queue') : queue'[i] = queue[i + 1]
    BY <1>0, <1>10, EmptySeq, HeadTailProperties DEF Take, TypeOK
  <2>2. stage' = [stage EXCEPT ![r] = "running"] /\ current' = r
        /\ current = NoRequest /\ on' = on
    BY <1>10 DEF Take
  <2> SUFFICES ASSUME NEW q \in Requests
               PROVE  /\ stage'[q] \in {"body", "writing"} => Attached(q)
                      /\ stage'[q] = "queued" => \E i \in 1..Len(queue') : queue'[i] = q
                      /\ stage'[q] = "running" => current' = q
    BY <2>2 DEF Placed, Attached
  <2>3. CASE q = r
    BY <1>0, <2>1, <2>2, <2>3 DEF TypeOK
  <2>4. CASE q # r
    <3>1. stage'[q] = stage[q] /\ stage[q] # "running"
      BY <1>0, <2>1, <2>2, <2>4, McpHttpAssumption DEF TypeOK, Placed
    <3>2. ASSUME stage[q] = "queued" PROVE \E i \in 1..Len(queue') : queue'[i] = q
      <4>1. PICK i \in 1..Len(queue) : queue[i] = q
        BY <3>2 DEF Placed
      <4>2. i - 1 \in 1..Len(queue') /\ queue'[i - 1] = q
        BY <2>1, <2>4, <4>1
      <4> QED
        BY <4>2
    <3> QED
      BY <3>1, <3>2 DEF Placed
  <2> QED
    BY <2>3, <2>4
<1>11. CASE Dispatch
  <2>1. current \in Requests /\ \E why \in Answers : Reply(current, why)
    BY <1>0, <1>11 DEF Dispatch, DispatchUnserved, DispatchDelete, DispatchPost,
                       DispatchInitialize, Answers, TypeOK
  <2>2. /\ UNCHANGED <<on, queue>>
        /\ stage' = [stage EXCEPT ![current] =
                       IF Attached(current) THEN "writing" ELSE "over"]
    BY <2>1 DEF Reply
  <2> SUFFICES ASSUME NEW q \in Requests
               PROVE  /\ stage'[q] \in {"body", "writing"} => Attached(q)
                      /\ stage'[q] = "queued" => \E i \in 1..Len(queue) : queue[i] = q
                      /\ stage'[q] # "running"
    BY <2>2 DEF Placed, Attached
  <2>3. CASE q = current
    BY <1>0, <2>1, <2>2, <2>3 DEF TypeOK
  <2>4. CASE q # current
    BY <1>0, <2>1, <2>2, <2>4 DEF TypeOK, Placed
  <2> QED
    BY <2>3, <2>4
<1> QED
  BY <1>2, <1>3, <1>5, <1>7, <1>9, <1>10, <1>11 DEF Next, Stopped, vars

(* Nothing but the signal closes the listener, and nothing opens it again. *)
LEMMA ClosingStep == IInv /\ Placed /\ Closing /\ [Next]_vars => Closing'
<1> SUFFICES ASSUME IInv, Placed, Closing, [Next]_vars PROVE Closing'
  OBVIOUS
<1> USE DEF streamVars, requestVars, workerVars
<1>0. TypeOK
  BY DEF IInv
<1>1. CASE Reserve \/ Tick \/ UNCHANGED vars
  BY <1>1 DEF Reserve, Tick, vars, Closing, OpenStreams
<1>2. CASE Shutdown
  BY <1>0, <1>2 DEF Shutdown, Closing, TypeOK
<1>3. CASE Stop
  BY <1>3 DEF Stop, Closing, OpenStreams
<1>4. ASSUME NEW c \in Clients, Connect(c) \/ Accept(c) \/ GiveUp(c)
      PROVE  Closing'
  <2>1. /\ stream[c] # "open"
        /\ \E x \in {"away", "backlog", "open"} : stream' = [stream EXCEPT ![c] = x]
        /\ UNCHANGED <<phase, on, queue, current>>
        /\ phase # "serving" => listener' = listener
    BY <1>4 DEF Connect, Accept, GiveUp, Closing
  <2>2. phase = "stopped" => stream' = [stream EXCEPT ![c] = "away"]
    BY <1>4 DEF Connect, Accept, GiveUp, Closing
  <2> QED
    BY <1>0, <2>1, <2>2 DEF Closing, OpenStreams, TypeOK
<1>5. ASSUME NEW c \in Clients, HangUp(c) \/ Written(c) \/ CloseIdle(c)
      PROVE  Closing'
  <2>1. phase # "stopped"
    BY <1>0, <1>5, McpHttpAssumption
       DEF HangUp, Written, CloseIdle, Closing, OpenStreams, TypeOK
  <2> QED
    BY <1>0, <1>5, <2>1
       DEF HangUp, Written, CloseIdle, CloseStream, Closing, TypeOK
<1>6. ASSUME NEW c \in Clients, NEW r \in Requests,
             \/ ArriveRejected(c, r)
             \/ \E m \in Traffic : \/ ArriveBusy(c, r, m) \/ ArrivePost(c, r, m)
                                   \/ ArriveBare(c, r, m)
      PROVE  Closing'
  <2>1. /\ stream[c] = "open" /\ on' = [on EXCEPT ![c] = r]
        /\ UNCHANGED <<phase, listener, stream>>
    BY <1>6 DEF ArriveRejected, ArriveBusy, ArrivePost, ArriveBare, Arrives
  <2> QED
    BY <1>0, <2>1 DEF Closing, OpenStreams, TypeOK
<1>7. ASSUME NEW r \in Requests, BodyArrives(r) \/ BodyFails(r) PROVE Closing'
  <2>1. UNCHANGED <<phase, listener, stream, on>> /\ stage[r] = "body"
    BY <1>7 DEF BodyArrives, BodyFails
  <2>2. PICK c \in Clients : on[c] = r
    BY <2>1 DEF Placed, Attached
  <2>3. stream[c] = "open"
    BY <2>2, McpHttpAssumption DEF Closing
  <2> QED
    BY <2>1, <2>3 DEF Closing, OpenStreams
<1>8. CASE Take
  BY <1>8 DEF Take, Closing
<1>9. CASE Dispatch
  <2>1. UNCHANGED <<phase, listener, stream, on>> /\ current # NoRequest
    BY <1>9 DEF Dispatch, DispatchUnserved, DispatchDelete, DispatchPost,
                DispatchInitialize, Reply
  <2> QED
    BY <2>1 DEF Closing
<1> QED
  BY <1>1, <1>2, <1>3, <1>4, <1>5, <1>6, <1>7, <1>8, <1>9 DEF Next, Stopped, vars

LEMMA DStep == IInv /\ DInv /\ [Next]_vars => DInv'
BY WorkStep, PlacedStep, ClosingStep DEF DInv

(* A native tool runs at most once for a request, and only for one that is *)
(* answered as dispatched, its client present or gone: with the other      *)
(* answers "request was not dispatched" is the truth.                      *)
THEOREM RunsAtMostOnce == Spec => []RanAtMostOnce
<1>1. IInv /\ DInv => RanAtMostOnce
  BY DEF IInv, TypeOK, Stages, DInv, WorkDone, RanAtMostOnce
<1> QED
  BY <1>1, IInitial, IStep, DInitial, DStep, PTL DEF Spec

(* When serve_until returns nothing admitted is left undispatched, and     *)
(* every admission and connection permit is back.                          *)
THEOREM ReturnsDrained == Spec => []StoppedIsDrained
<1>1. IInv /\ DInv /\ ConnectionsConserved => StoppedIsDrained
  <2> SUFFICES ASSUME IInv, DInv, ConnectionsConserved, phase = "stopped"
               PROVE  Holders = {} /\ free = MaxRequests /\ connFree = MaxConnections
    BY DEF StoppedIsDrained
  <2>1. /\ OpenStreams = {} /\ queue = <<>> /\ current = NoRequest
        /\ listener = "closed"
        /\ \A c \in Clients : on[c] \in Requests => stream[c] = "open"
    BY McpHttpAssumption DEF DInv, Closing
  <2>2. Holders = {}
    <3> SUFFICES ASSUME NEW r \in Requests, stage[r] \in Holding PROVE FALSE
      BY DEF Holders
    <3>1. ~Attached(r)
      BY <2>1 DEF Attached, OpenStreams
    <3>2. stage[r] \in {"queued", "running"}
      BY <3>1 DEF Holding, DInv, Placed
    <3>3. Len(queue) = 0
      BY <2>1
    <3> QED
      BY <2>1, <3>2, <3>3, McpHttpAssumption DEF DInv, Placed
  <2>3. Cardinality(Holders) = 0 /\ Cardinality(OpenStreams) = 0
    BY <2>1, <2>2, FS_EmptySet
  <2> QED
    BY <2>1, <2>2, <2>3, McpHttpAssumption
       DEF IInv, TypeOK, PermitsConserved, ConnectionsConserved
<1> QED
  BY <1>1, IInitial, IStep, DInitial, DStep, ConnectionsAreConserved, PTL DEF Spec

-----------------------------------------------------------------------------
(* What may end a session. *)

EndsOnlyItsOwn ==
    \A s \in Live : rpc'[s] = "absent" =>
        \/ now - touched[s] >= IdleTimeout
        \/ current # NoRequest /\ cmd[current].session = s

LEMMA SessionStep == TypeOK /\ [Next]_vars => [EndsOnlyItsOwn]_vars
<1> SUFFICES ASSUME TypeOK, Next PROVE EndsOnlyItsOwn
  BY DEF EndsOnlyItsOwn
<1> USE DEF streamVars, requestVars, workerVars
<1>1. ASSUME UNCHANGED rpc PROVE EndsOnlyItsOwn
  BY <1>1 DEF EndsOnlyItsOwn, Live
<1>2. CASE Take
  BY <1>2 DEF Take, Expired, EndsOnlyItsOwn, Live
<1>3. CASE DispatchUnserved
  BY <1>1, <1>3 DEF DispatchUnserved
<1>4. CASE DispatchDelete \/ DispatchPost
  BY <1>4 DEF DispatchDelete, DispatchPost, EndsOnlyItsOwn, Live, TypeOK
<1>5. CASE DispatchInitialize
  BY <1>5 DEF DispatchInitialize, EndsOnlyItsOwn, Live, TypeOK
<1>6. ASSUME NEW c \in Clients, NEW r \in Requests,
             \/ ArriveRejected(c, r)
             \/ \E m \in Traffic : \/ ArriveBusy(c, r, m) \/ ArrivePost(c, r, m)
                                   \/ ArriveBare(c, r, m)
      PROVE  UNCHANGED rpc
  BY <1>6 DEF ArriveRejected, ArriveBusy, ArrivePost, ArriveBare
<1>7. ASSUME NEW c \in Clients,
             \/ Connect(c) \/ Accept(c) \/ HangUp(c) \/ GiveUp(c) \/ Written(c)
             \/ CloseIdle(c)
      PROVE  UNCHANGED rpc
  BY <1>7 DEF Connect, Accept, HangUp, GiveUp, Written, CloseIdle
<1>8. ASSUME NEW r \in Requests, BodyArrives(r) \/ BodyFails(r)
      PROVE  UNCHANGED rpc
  BY <1>8 DEF BodyArrives, BodyFails
<1>9. Reserve \/ Tick \/ Shutdown \/ Stop \/ Stopped => UNCHANGED rpc
  BY DEF Reserve, Tick, Shutdown, Stop, Stopped, vars
<1> QED
  BY <1>1, <1>2, <1>3, <1>4, <1>5, <1>6, <1>7, <1>8, <1>9 DEF Next, Dispatch

(* A session ends by idling for the whole timeout or by a request naming   *)
(* it: no other client's call, error, disconnect or shutdown takes it away. *)
THEOREM SessionsAreIsolated == Spec => SessionIsolation
<1>1. TypeOK /\ [Next]_vars =>
        [\A s \in Live : rpc'[s] = "absent" =>
            \/ now - touched[s] >= IdleTimeout
            \/ current # NoRequest /\ cmd[current].session = s]_vars
  BY SessionStep DEF EndsOnlyItsOwn
<1> QED
  BY <1>1, TypeCorrect, PTL DEF Spec, SessionIsolation

-----------------------------------------------------------------------------
(* What the drain rests on, short of fairness: it waits for nobody but     *)
(* those who act or time out and clients that read, and nothing goes back. *)

(* A stream waits for a request that is under way, and no other stream     *)
(* waits for the same one.                                                 *)
Served ==
    /\ \A c \in Clients :
          on[c] # NoRequest => stage[on[c]] \notin {"new", "over"}
    /\ \A c, d \in Clients : on[c] # NoRequest /\ on[c] = on[d] => c = d

(* How far a request has come. *)
Rank(s) == CASE s = "new" -> 0
             [] s = "body" -> 1
             [] s = "queued" -> 2
             [] s = "running" -> 3
             [] s \in {"writing", "refused"} -> 4
             [] s = "over" -> 5

Advances ==
    \A r \in Requests : stage'[r] = stage[r] \/ Rank(stage[r]) < Rank(stage'[r])

(* One request moves on; it is over only for a stream that lets go of it.  *)
LEMMA MoveOn ==
  ASSUME TypeOK, Served, NEW r \in Requests, NEW x \in Stages,
         stage' = [stage EXCEPT ![r] = x],
         Rank(stage[r]) < Rank(x), x # "new",
         \/ UNCHANGED on /\ (x = "over" => ~Attached(r))
         \/ stage[r] = "new" /\ x # "over" /\ \E c \in Clients :
               on[c] = NoRequest /\ on' = [on EXCEPT ![c] = r]
         \/ \E c \in Clients : on[c] = r /\ on' = [on EXCEPT ![c] = NoRequest]
  PROVE  Served' /\ Advances
<1>1. Advances
  BY DEF TypeOK, Advances
<1>2. ASSUME UNCHANGED on, x = "over" => ~Attached(r) PROVE Served'
  <2>1. \A q \in Requests : stage'[q] = IF q = r THEN x ELSE stage[q]
    BY DEF TypeOK
  <2>2. \A c \in Clients : on[c] = r => x # "over"
    BY <1>2 DEF Attached
  <2>3. \A c \in Clients : on[c] # NoRequest => on[c] \in Requests
    BY DEF TypeOK
  <2> QED
    BY <1>2, <2>1, <2>2, <2>3 DEF Served
<1>3. ASSUME NEW c \in Clients, on[c] = NoRequest, on' = [on EXCEPT ![c] = r],
             stage[r] = "new", x # "over"
      PROVE  Served'
  <2>1. \A d \in Clients : on[d] # r
    BY <1>3, McpHttpAssumption DEF Served
  <2>2. \A d \in Clients : on'[d] = IF d = c THEN r ELSE on[d]
    BY <1>3 DEF TypeOK
  <2>3. \A q \in Requests : stage'[q] = IF q = r THEN x ELSE stage[q]
    BY DEF TypeOK
  <2> QED
    BY <1>3, <2>1, <2>2, <2>3 DEF TypeOK, Served
<1>4. ASSUME NEW c \in Clients, on[c] = r, on' = [on EXCEPT ![c] = NoRequest]
      PROVE  Served'
  <2>1. \A d \in Clients \ {c} : on[d] # r
    BY <1>4, McpHttpAssumption DEF Served
  <2>2. \A d \in Clients : on'[d] = IF d = c THEN NoRequest ELSE on[d]
    BY <1>4 DEF TypeOK
  <2> QED
    BY <1>4, <2>1, <2>2 DEF TypeOK, Served
<1> QED
  BY <1>1, <1>2, <1>3, <1>4

LEMMA ServedStep == IInv /\ Served /\ [Next]_vars => Served' /\ Advances
<1> DEFINE Goal == Served' /\ Advances
<1> SUFFICES ASSUME IInv, Served, [Next]_vars PROVE Goal
  OBVIOUS
<1> USE DEF streamVars, requestVars, workerVars
<1>0. TypeOK /\ CurrentInv /\ QueueInv
  BY DEF IInv
<1>1. ASSUME UNCHANGED <<stage, on>> PROVE Goal
  BY <1>1 DEF Served, Advances
<1> HIDE DEF Goal
<1>2. CASE Reserve \/ Tick \/ Shutdown \/ Stop \/ UNCHANGED vars
  BY <1>1, <1>2 DEF Reserve, Tick, Shutdown, Stop, vars
<1>3. ASSUME NEW c \in Clients, Connect(c) \/ Accept(c) \/ GiveUp(c)
      PROVE  Goal
  BY <1>1, <1>3 DEF Connect, Accept, GiveUp
<1>4. ASSUME NEW c \in Clients, HangUp(c) \/ Written(c) \/ CloseIdle(c)
      PROVE  Goal
  <2>1. on[c] \in Requests \cup {NoRequest}
    BY <1>0 DEF TypeOK
  <2>2. on' = [on EXCEPT ![c] = NoRequest]
    BY <1>4 DEF HangUp, Written, CloseIdle, CloseStream
  <2>3. CASE UNCHANGED stage
    <3>1. Served'
      BY <1>0, <2>2, <2>3 DEF TypeOK, Served
    <3>2. Advances
      BY <2>3 DEF Advances
    <3> QED
      BY <3>1, <3>2 DEF Goal
  <2>4. CASE stage' # stage
    <3>1. /\ on[c] \in Requests /\ stage' = [stage EXCEPT ![on[c]] = "over"]
          /\ stage[on[c]] \in {"body", "writing", "refused"}
      BY <1>4, <2>1, <2>4 DEF HangUp, Written, CloseIdle, DropHandler
    <3>2. PICK r \in Requests : r = on[c]
      BY <3>1
    <3>3. Rank(stage[r]) < Rank("over") /\ "over" \in Stages
      BY <3>1, <3>2 DEF Rank, Stages
    <3> QED
      BY <1>0, <2>2, <3>1, <3>2, <3>3, MoveOn DEF Goal
  <2> QED
    BY <2>3, <2>4
<1>5. ASSUME NEW c \in Clients, NEW r \in Requests,
             \/ ArriveRejected(c, r)
             \/ \E m \in Traffic : \/ ArriveBusy(c, r, m) \/ ArrivePost(c, r, m)
                                   \/ ArriveBare(c, r, m)
      PROVE  Goal
  <2>1. /\ stage[r] = "new" /\ on[c] = NoRequest
        /\ on' = [on EXCEPT ![c] = r]
    BY <1>5 DEF ArriveRejected, ArriveBusy, ArrivePost, ArriveBare, Arrives
  <2>2. PICK x \in {"refused", "body", "queued"} : stage' = [stage EXCEPT ![r] = x]
    BY <1>5 DEF ArriveRejected, ArriveBusy, ArrivePost, ArriveBare, Refuse, Send
  <2>3. x \in Stages /\ Rank("new") < Rank(x)
    BY DEF Stages, Rank
  <2> QED
    BY <1>0, <2>1, <2>2, <2>3, MoveOn DEF Goal
<1>6. ASSUME NEW r \in Requests, BodyArrives(r) \/ BodyFails(r)
      PROVE  Goal
  <2>1. stage[r] = "body" /\ UNCHANGED on
    BY <1>6 DEF BodyArrives, BodyFails
  <2>2. PICK x \in {"refused", "queued"} : stage' = [stage EXCEPT ![r] = x]
    BY <1>6 DEF BodyArrives, BodyFails, Refuse, Send
  <2>3. x \in Stages /\ Rank("body") < Rank(x)
    BY DEF Stages, Rank
  <2> QED
    BY <1>0, <2>1, <2>2, <2>3, MoveOn DEF Goal
<1>7. CASE Take
  <2>1. PICK r : r = Head(queue)
    OBVIOUS
  <2>2. queue # <<>> /\ stage' = [stage EXCEPT ![r] = "running"] /\ UNCHANGED on
    BY <1>7, <2>1 DEF Take
  <2>3. r \in Requests /\ stage[r] = "queued"
    <3>1. /\ queue \in [1..Len(queue) -> Requests] /\ Len(queue) \in Nat
          /\ Len(queue) > 0 /\ r = queue[1]
      BY <1>0, <2>1, <2>2, LenProperties, EmptySeq, HeadTailProperties DEF TypeOK
    <3> QED
      BY <1>0, <3>1 DEF QueueInv
  <2>4. "running" \in Stages /\ Rank("queued") < Rank("running")
    BY DEF Stages, Rank
  <2> QED
    BY <1>0, <2>2, <2>3, <2>4, MoveOn DEF Goal
<1>8. CASE Dispatch
  <2>1. current # NoRequest /\ UNCHANGED on /\ current \in Requests
    BY <1>0, <1>8 DEF Dispatch, DispatchUnserved, DispatchDelete, DispatchPost,
                      DispatchInitialize, Reply, TypeOK
  <2>2. PICK x : x = IF Attached(current) THEN "writing" ELSE "over"
    OBVIOUS
  <2>3. stage' = [stage EXCEPT ![current] = x]
    BY <1>8, <2>2 DEF Dispatch, DispatchUnserved, DispatchDelete, DispatchPost,
                      DispatchInitialize, Reply
  <2>4. stage[current] = "running"
    BY <1>0, <2>1 DEF CurrentInv
  <2>5. x \in Stages /\ Rank("running") < Rank(x)
    BY <2>2 DEF Stages, Rank
  <2>6. PICK r \in Requests : r = current
    BY <2>1
  <2> QED
    BY <1>0, <2>1, <2>2, <2>3, <2>4, <2>5, <2>6, MoveOn DEF Goal
<1> QED
  BY <1>2, <1>3, <1>4, <1>5, <1>6, <1>7, <1>8 DEF Next, Stopped

LEMMA AlwaysServed == Spec => []Served
<1>1. Init => Served
  BY DEF Init, Served
<1> QED
  BY <1>1, IInitial, IStep, ServedStep, PTL DEF Spec

(* A request only ever advances: from its head to its end it takes at most *)
(* five steps, whatever hangs up or shuts down, and none is dispatched     *)
(* again.  So what a drain waits for only gets less.                       *)
THEOREM RequestsAdvance ==
  Spec => [][\A r \in Requests :
                stage'[r] = stage[r] \/ Rank(stage[r]) < Rank(stage'[r])]_vars
<1>1. IInv /\ Served /\ [Next]_vars
        => [\A r \in Requests :
               stage'[r] = stage[r] \/ Rank(stage[r]) < Rank(stage'[r])]_vars
  BY ServedStep DEF Advances
<1> QED
  BY <1>1, IInitial, IStep, AlwaysServed, PTL DEF Spec

(* A drain that is not over has something to wait for that needs no new    *)
(* client: work for the worker, an upload that will time out, an idle      *)
(* stream to close, or a response its client has not read.                 *)
THEOREM DrainIsHeldUp ==
  Spec => [](phase = "draining" =>
                \/ OpenStreams = {} /\ queue = <<>> /\ current = NoRequest
                \/ queue # <<>> \/ current # NoRequest
                \/ \E r \in Requests : stage[r] = "body"
                \/ \E c \in Clients : stream[c] = "open" /\ on[c] = NoRequest
                \/ \E c \in Clients : Unread(c))
<1>1. ASSUME IInv, DInv, Served, queue = <<>>, current = NoRequest,
             NEW c \in OpenStreams, on[c] # NoRequest
      PROVE  stage[on[c]] = "body" \/ Unread(c)
  <2>1. c \in Clients /\ on[c] \in Requests
    BY <1>1 DEF OpenStreams, IInv, TypeOK
  <2>2. stage[on[c]] \in Stages \ {"new", "over"}
    BY <1>1, <2>1 DEF IInv, TypeOK, Served
  <2>3. stage[on[c]] \notin {"queued", "running"}
    <3>1. Len(queue) = 0
      BY <1>1
    <3> QED
      BY <1>1, <2>1, <3>1, McpHttpAssumption DEF DInv, Placed
  <2> QED
    BY <1>1, <2>2, <2>3 DEF Stages, Unread
<1>2. IInv /\ DInv /\ Served
        => \/ OpenStreams = {} /\ queue = <<>> /\ current = NoRequest
           \/ queue # <<>> \/ current # NoRequest
           \/ \E r \in Requests : stage[r] = "body"
           \/ \E c \in Clients : stream[c] = "open" /\ on[c] = NoRequest
           \/ \E c \in Clients : Unread(c)
  <2> SUFFICES ASSUME IInv, DInv, Served, queue = <<>>, current = NoRequest,
                      NEW c \in OpenStreams, on[c] # NoRequest
               PROVE  \/ \E r \in Requests : stage[r] = "body"
                      \/ \E d \in Clients : Unread(d)
    BY DEF OpenStreams
  <2> QED
    BY <1>1 DEF OpenStreams, IInv, TypeOK
<1> QED
  BY <1>2, IInitial, IStep, DInitial, DStep, AlwaysServed, PTL DEF Spec
=============================================================================
