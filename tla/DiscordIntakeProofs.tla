------------------------ MODULE DiscordIntakeProofs ------------------------
(***************************************************************************)
(* Proofs about DiscordIntake for any channels, any number of messages and *)
(* pulls, and however often the process stops, its accesses fail and the   *)
(* gateway loses its session.                                              *)
(***************************************************************************)
EXTENDS DiscordIntake, FiniteSetTheorems, SequenceTheorems,
        WellFoundedInduction, TLAPS

-----------------------------------------------------------------------------
(* Least and greatest elements. *)

(* A set of naturals has a least element. *)
LEMMA LeastNatural ==
  ASSUME NEW S \in SUBSET Nat, S # {}
  PROVE  Min(S) \in S /\ \A y \in S : Min(S) <= y
<1> DEFINE R == OpToRel(<, Nat)
<1>1. IsWellFoundedOn(R, Nat)
  BY NatLessThanWellFounded
<1>2. \A x, y \in Nat : x < y => <<x, y>> \in R
  BY DEF OpToRel
<1> HIDE DEF R
<1>3. PICK x \in S : \A y \in S : ~ (<<y, x>> \in R)
  BY <1>1, WFMin
<1>4. \A y \in S : ~ (y < x)
  BY <1>2, <1>3
<1>5. \A y \in S : x <= y
  BY <1>4
<1> QED
  BY <1>5 DEF Min

(* A bounded one has a greatest element too. *)
LEMMA GreatestNatural ==
  ASSUME NEW n \in Nat, NEW S \in SUBSET (0 .. n), S # {}
  PROVE  Max(S) \in S /\ \A y \in S : y <= Max(S)
<1> DEFINE Gaps == {g \in 0 .. n : n - g \in S}
<1>1. Gaps \in SUBSET Nat /\ Gaps # {}
  <2>1. PICK y \in S : TRUE
    OBVIOUS
  <2>2. n - y \in 0 .. n /\ n - (n - y) = y
    OBVIOUS
  <2>3. n - y \in Gaps
    BY <2>2
  <2>4. \A g \in Gaps : g \in Nat
    OBVIOUS
  <2> HIDE DEF Gaps
  <2> QED
    BY <2>3, <2>4
<1>2. Min(Gaps) \in Gaps /\ \A g \in Gaps : Min(Gaps) <= g
  BY <1>1, LeastNatural
<1> DEFINE m == n - Min(Gaps)
<1>3. m \in S
  BY <1>2
<1>4. ASSUME NEW y \in S PROVE y <= m
  <2>1. n - y \in 0 .. n /\ n - (n - y) = y
    OBVIOUS
  <2>2. Min(Gaps) <= n - y
    BY <1>2, <2>1
  <2> QED
    BY <1>2, <2>2
<1>5. \A y \in S : m >= y
  BY <1>2, <1>4
<1> HIDE DEF m
<1> QED
  BY <1>3, <1>5 DEF Max

LEMMA MaxIdBounds ==
  /\ MaxId \in Nat \ {0}
  /\ MaxGuildId <= MaxId
  /\ MaxDmId <= MaxId
<1>1. MaxGuildId \in Nat \ {0} /\ MaxDmId \in Nat \ {0}
  BY IntakeAssumption
<1>2. \E x \in {MaxGuildId, MaxDmId} : \A y \in {MaxGuildId, MaxDmId} : x >= y
  BY <1>1
<1> QED
  BY <1>1, <1>2 DEF MaxId, Max

(* With an id, every older one of a set is among its first. *)
LEMMA SmallestIsClosed ==
  ASSUME NEW n \in Nat, NEW S \in SUBSET (0 .. n), NEW size \in Nat,
         NEW i \in Smallest(S, size), NEW j \in S, j <= i
  PROVE  j \in Smallest(S, size)
<1>0. i \in S /\ \A k \in S : k \in Nat
  BY DEF Smallest
<1>1. {k \in S : k < j} \subseteq {k \in S : k < i}
  <2>1. \A k \in S : k < j => k < i
    BY <1>0
  <2> QED
    BY <2>1
<1>2. IsFiniteSet({k \in S : k < i})
  <2>1. IsFiniteSet(0 .. n)
    BY FS_Interval
  <2> QED
    BY <2>1, FS_Subset
<1>3. Cardinality({k \in S : k < j}) <= Cardinality({k \in S : k < i})
  BY <1>1, <1>2, FS_Subset
<1>4. IsFiniteSet({k \in S : k < j})
  BY <1>1, <1>2, FS_Subset
<1>5. Cardinality({k \in S : k < i}) \in Nat /\ Cardinality({k \in S : k < j}) \in Nat
  BY <1>2, <1>4, FS_CardinalityType
<1>6. Cardinality({k \in S : k < i}) < size
  BY DEF Smallest
<1> QED
  BY <1>3, <1>5, <1>6 DEF Smallest

(* With an id, every newer one of a set is among its last. *)
LEMMA LargestIsClosed ==
  ASSUME NEW n \in Nat, NEW S \in SUBSET (0 .. n), NEW size \in Nat,
         NEW i \in Largest(S, size), NEW j \in S, i <= j
  PROVE  j \in Largest(S, size)
<1>0. i \in S /\ \A k \in S : k \in Nat
  BY DEF Largest
<1>1. {k \in S : k > j} \subseteq {k \in S : k > i}
  <2>1. \A k \in S : k > j => k > i
    BY <1>0
  <2> QED
    BY <2>1
<1>2. IsFiniteSet({k \in S : k > i})
  <2>1. IsFiniteSet(0 .. n)
    BY FS_Interval
  <2> QED
    BY <2>1, FS_Subset
<1>3. Cardinality({k \in S : k > j}) <= Cardinality({k \in S : k > i})
  BY <1>1, <1>2, FS_Subset
<1>4. IsFiniteSet({k \in S : k > j})
  BY <1>1, <1>2, FS_Subset
<1>5. Cardinality({k \in S : k > i}) \in Nat /\ Cardinality({k \in S : k > j}) \in Nat
  BY <1>2, <1>4, FS_CardinalityType
<1>6. Cardinality({k \in S : k > i}) < size
  BY DEF Largest
<1> QED
  BY <1>3, <1>5, <1>6 DEF Largest

-----------------------------------------------------------------------------
(* What a pull fetches. *)

Intervals == {v \in Nat \X Ids \X BOOLEAN : v[1] < v[2]}
Batches == [channel : Channels \cup {None}, messages : SUBSET Messages,
            interval : SUBSET Intervals, more : BOOLEAN]

(* What a pull's interval says was read is what it fetched. *)
Complete(b) ==
    \A v \in b.interval :
        /\ v[2] <= sent[b.channel]
        /\ \A i \in Existing(b.channel) :
              v[1] < i /\ i <= v[2] => <<b.channel, i>> \in b.messages

LEMMA ExistingBounds ==
  ASSUME sent \in [Channels -> 0 .. MaxId], NEW c \in Channels
  PROVE  /\ Existing(c) \in SUBSET (0 .. MaxId) /\ Existing(c) \subseteq Ids
         /\ \A i \in Existing(c) : i \in Nat /\ i > 0 /\ i <= sent[c]
BY MaxIdBounds DEF Existing, Ids

(* Coverage never reaches below where it starts nor past the last id. *)
LEMMA ReachBounds ==
  ASSUME NEW I \in SUBSET Intervals, NEW start \in 0 .. MaxId
  PROVE  Reach(I, start) \in start .. MaxId
<1> DEFINE X == {x \in start .. MaxId : \A v \in I : ~ (v[1] <= x /\ x < v[2])}
<1>1. \A v \in I : v[2] <= MaxId /\ v[2] \in Nat
  BY MaxIdBounds DEF Intervals, Ids
<1>2. MaxId \in start .. MaxId /\ \A v \in I : ~ (MaxId < v[2])
  BY <1>1, MaxIdBounds
<1>3. X \in SUBSET Nat /\ X # {}
  <2>1. MaxId \in X
    BY <1>2
  <2> QED
    BY <2>1, MaxIdBounds
<1>4. Min(X) \in X
  BY <1>3, LeastNatural
<1> QED
  BY <1>4 DEF Reach

LEMMA FrontierBounds ==
  ASSUME NEW I \in SUBSET Intervals, Baselines(I) # {}
  PROVE  Frontier(I) \in 0 .. MaxId
<1> DEFINE B == Baselines(I)
           oldest == Min({v[1] : v \in B})
           Ends == {v[2] : v \in {w \in B : w[1] = oldest}}
<1>1. \A v \in B : v[1] \in Nat /\ v[2] \in 0 .. MaxId
  BY MaxIdBounds DEF Baselines, Intervals, Ids
<1>2. {v[1] : v \in B} \in SUBSET Nat /\ {v[1] : v \in B} # {}
  BY <1>1
<1>3. oldest \in {v[1] : v \in B}
  BY <1>2, LeastNatural
<1>4. Ends \in SUBSET (0 .. MaxId) /\ Ends # {}
  BY <1>1, <1>3
<1>5. Max(Ends) \in 0 .. MaxId
  BY <1>4, MaxIdBounds, GreatestNatural
<1>6. Reach(I, Max(Ends)) \in Max(Ends) .. MaxId
  BY <1>5, ReachBounds
<1> QED
  BY <1>5, <1>6, MaxIdBounds DEF Frontier

(* The pages after `after` are complete up to the newest of them, and what *)
(* lies at or below `above` is left out.                                   *)
LEMMA ForwardIsComplete ==
  ASSUME sent \in [Channels -> 0 .. MaxId], NEW c \in Channels,
         NEW after \in 0 .. MaxId, NEW above \in 0 .. MaxId, above <= after,
         NEW baseline \in BOOLEAN, NEW recent \in BOOLEAN
  PROVE  LET b == Forward(c, after, baseline, recent, above)
         IN  /\ b \in Batches /\ b.channel = c /\ Complete(b)
             /\ \A m \in b.messages : m[1] = c /\ m[2] \in Ids /\ m[2] > above
<1> DEFINE S == {i \in Existing(c) : i > after}
           next == Smallest(S, PullSize)
           page == IF recent THEN Largest(Existing(c), RecentSize) ELSE {}
           interval == IF next = {} THEN {} ELSE {<<after, Max(next), baseline>>}
           messages == {c} \X {i \in next \cup page : i > above}
           b == Forward(c, after, baseline, recent, above)
<1>1. b = [channel |-> c, messages |-> messages, interval |-> interval,
           more |-> Cardinality(next) = PullSize]
  BY DEF Forward
<1>2. S \in SUBSET (0 .. MaxId) /\ next \subseteq S /\ page \subseteq Existing(c)
      /\ S \subseteq Existing(c)
  BY ExistingBounds DEF Smallest, Largest
<1>3. messages \subseteq Messages
  BY <1>2, ExistingBounds DEF Messages
<1>4. ASSUME next # {}
      PROVE  /\ Max(next) \in Existing(c) /\ Max(next) > after
             /\ \A i \in Existing(c) : after < i /\ i <= Max(next) => i \in next
  <2>1. next \in SUBSET (0 .. MaxId)
    BY <1>2
  <2>2. Max(next) \in next
    BY <1>4, <2>1, MaxIdBounds, GreatestNatural
  <2>3. ASSUME NEW i \in Existing(c), after < i, i <= Max(next) PROVE i \in next
    <3>1. i \in S
      BY <2>3, ExistingBounds
    <3> QED
      BY <1>2, <2>2, <2>3, <3>1, MaxIdBounds, IntakeAssumption, SmallestIsClosed
  <2> QED
    BY <1>2, <2>2, <2>3
<1>5. interval \subseteq Intervals /\ \A v \in interval : v[2] <= sent[c]
  <2>1. CASE next = {}
    <3>1. interval = {}
      BY <2>1
    <3> QED
      BY <3>1
  <2>2. CASE next # {}
    <3>1. /\ Max(next) \in Ids /\ Max(next) <= sent[c] /\ after < Max(next)
          /\ after \in Nat
      BY <1>4, <2>2, ExistingBounds, MaxIdBounds
    <3>2. interval = {<<after, Max(next), baseline>>}
      BY <2>2
    <3> HIDE DEF interval, next
    <3>3. <<after, Max(next), baseline>> \in Intervals
      BY <3>1 DEF Intervals
    <3> QED
      BY <3>1, <3>2, <3>3
  <2> QED
    BY <2>1, <2>2
<1>6. b \in Batches /\ b.channel = c
  BY <1>1, <1>3, <1>5 DEF Batches
<1>7. ASSUME NEW v \in interval, NEW i \in Existing(c), v[1] < i, i <= v[2]
      PROVE  <<c, i>> \in messages
  <2>1. v = <<after, Max(next), baseline>> /\ next # {}
    BY <1>7
  <2>2. after < i /\ i <= Max(next)
    BY <1>7, <2>1
  <2>3. i \in next
    BY <1>4, <2>1, <2>2
  <2>4. i > above
    BY <2>2, ExistingBounds
  <2> QED
    BY <2>3, <2>4
<1>9. Complete(b)
  BY <1>1, <1>5, <1>7 DEF Complete
<1>10. \A m \in messages : m[1] = c /\ m[2] \in Ids /\ m[2] > above
  BY <1>2, ExistingBounds
<1> QED
  BY <1>1, <1>6, <1>9, <1>10

(* A live pull: everything above the floor from where coverage ends. *)
LEMMA PullIsComplete ==
  ASSUME sent \in [Channels -> 0 .. MaxId], NEW c \in Channels,
         cover[c] \in SUBSET Intervals, NEW floor \in 0 .. MaxId
  PROVE  LET b == PullBatch(c, floor)
         IN  /\ b \in Batches /\ b.channel = c /\ Complete(b)
             /\ \A m \in b.messages : m[1] = c /\ m[2] \in Ids /\ m[2] > floor
<1> DEFINE reached == Reach(cover[c], floor)
<1>1. reached \in floor .. MaxId
  BY ReachBounds
<1>2. reached \in 0 .. MaxId /\ floor <= reached
  BY <1>1, MaxIdBounds
<1>3. PICK baseline \in BOOLEAN, recent \in BOOLEAN :
        PullBatch(c, floor) = Forward(c, reached, baseline, recent, floor)
  <2>1. PullBatch(c, floor) = Forward(c, reached, reached = floor, reached > floor, floor)
    BY DEF PullBatch
  <2>2. (reached = floor) \in BOOLEAN /\ (reached > floor) \in BOOLEAN
    OBVIOUS
  <2> WITNESS (reached = floor) \in BOOLEAN, (reached > floor) \in BOOLEAN
  <2> QED
    BY <2>1
<1> HIDE DEF reached
<1> QED
  BY <1>2, <1>3, ForwardIsComplete

(* A pull of `discord read`: on from the frontier, or a bounded baseline. *)
LEMMA ReadIsComplete ==
  ASSUME sent \in [Channels -> 0 .. MaxId], NEW c \in Channels,
         cover[c] \in SUBSET Intervals
  PROVE  LET b == ReadBatch(c)
         IN  b \in Batches /\ b.channel = c /\ Complete(b)
<1>1. CASE Baselines(cover[c]) # {}
  <2>1. Frontier(cover[c]) \in 0 .. MaxId
    BY <1>1, FrontierBounds
  <2>2. PICK baseline \in BOOLEAN, recent \in BOOLEAN :
          ReadBatch(c) = Forward(c, Frontier(cover[c]), baseline, recent, 0)
    BY <1>1 DEF ReadBatch
  <2>3. 0 \in 0 .. MaxId /\ 0 <= Frontier(cover[c])
    BY <2>1, MaxIdBounds
  <2> QED
    BY <2>1, <2>2, <2>3, ForwardIsComplete
<1>2. CASE Baselines(cover[c]) = {}
  <2> DEFINE newest == Largest(Existing(c), RecentSize)
             interval == IF newest = {} THEN {}
                         ELSE {<<Min(newest) - 1, Max(newest), TRUE>>}
             b == ReadBatch(c)
  <2>1. b = [channel |-> c, messages |-> {c} \X newest, interval |-> interval,
             more |-> FALSE]
    BY <1>2 DEF ReadBatch
  <2>2. newest \in SUBSET (0 .. MaxId) /\ newest \subseteq Existing(c)
        /\ newest \subseteq Ids /\ newest \in SUBSET Nat
    BY ExistingBounds, MaxIdBounds DEF Largest
  <2>3. ASSUME newest # {}
        PROVE  /\ Min(newest) \in newest /\ Max(newest) \in newest
               /\ Min(newest) <= Max(newest)
    BY <2>2, <2>3, MaxIdBounds, LeastNatural, GreatestNatural
  <2>4. ASSUME newest # {}
        PROVE  /\ Min(newest) - 1 \in Nat /\ Max(newest) \in Ids
               /\ Min(newest) - 1 < Max(newest) /\ Max(newest) <= sent[c]
    <3>1. /\ Min(newest) \in Existing(c) /\ Max(newest) \in Existing(c)
          /\ Min(newest) <= Max(newest)
      BY <2>2, <2>3, <2>4
    <3> QED
      BY <3>1, ExistingBounds
  <2>5. ASSUME NEW i \in Existing(c), newest # {}, Min(newest) - 1 < i
        PROVE  i \in newest
    <3>1. Min(newest) <= i
      BY <2>2, <2>3, <2>5, ExistingBounds
    <3>2. Existing(c) \in SUBSET (0 .. MaxId)
      BY ExistingBounds
    <3> QED
      BY <2>3, <2>5, <3>1, <3>2, MaxIdBounds, IntakeAssumption, LargestIsClosed
  <2>6. /\ interval \subseteq Intervals
        /\ \A v \in interval : v[2] <= sent[c] /\ newest # {} /\ v[1] = Min(newest) - 1
    <3>1. CASE newest = {}
      <4>1. interval = {}
        BY <3>1
      <4> QED
        BY <4>1
    <3>2. CASE newest # {}
      <4>1. interval = {<<Min(newest) - 1, Max(newest), TRUE>>}
        BY <3>2
      <4>2. <<Min(newest) - 1, Max(newest), TRUE>> \in Intervals /\ Max(newest) <= sent[c]
        BY <2>4, <3>2 DEF Intervals
      <4> HIDE DEF interval
      <4> QED
        BY <3>2, <4>1, <4>2
    <3> QED
      BY <3>1, <3>2
  <2>7. {c} \X newest \subseteq Messages
    BY <2>2 DEF Messages
  <2> HIDE DEF interval, newest, b
  <2>8. b \in Batches /\ b.channel = c
    BY <2>1, <2>6, <2>7 DEF Batches
  <2>9. Complete(b)
    BY <2>1, <2>5, <2>6 DEF Complete
  <2> QED
    BY <2>8, <2>9 DEF b
<1> QED
  BY <1>1, <1>2

-----------------------------------------------------------------------------
(* Type correctness. *)

Handling == {"floor", "observe", "keep", "unkeep"}
Works == [kind : {"Account", "Backfill", "NoMessages"}]
           \cup [kind : {"Message", "Update"}, channel : Channels, id : Ids]
Tasks == [channel : Channels, id : Ids, created : BOOLEAN, new : BOOLEAN,
          live : BOOLEAN, floor : (0 .. MaxId) \cup {None}]

(* The variables that only hold data. *)
DiscordTypes ==
    /\ sent \in [Channels -> 0 .. MaxId] /\ gone \subseteq Messages
    /\ link \in {"none", "up", "down"} /\ (link # "down" => missed = <<>>)
    /\ missed \in Seq(Works) /\ inbox \in Seq(Works)

StoreTypes ==
    /\ stored \subseteq Messages /\ taken \subseteq Messages
    /\ cover \in [Channels -> SUBSET Intervals]
    /\ batch \in Batches /\ reader \in Batches
    /\ pc = "commit" => batch.channel \in Channels
    /\ reader # NoBatch => reader.channel \in Channels

FloorTypes ==
    /\ floors \in [Kinds -> [Channels -> (0 .. MaxId) \cup {None}]]
    /\ unstored \subseteq Channels \X Ids \X BOOLEAN
    /\ configured \subseteq Guilds
    /\ startFloor \in [Channels -> 0 .. MaxId]
    /\ base \in [Guilds -> (0 .. MaxId) \cup {None}]
    /\ heard \subseteq Dms \X Ids /\ excused \subseteq Messages
    /\ overlooked \subseteq Messages

FlagTypes == known \in BOOLEAN /\ dms \in BOOLEAN /\ account \in BOOLEAN
             /\ due \in BOOLEAN /\ behind \in BOOLEAN

(* What the thread holds at each of its steps. *)
Phases ==
    /\ pc \in {"down", "idle", "kept", "retry", "pull", "commit", "end"}
              \cup Handling
    /\ pc \in Handling => task \in Tasks
    /\ pc \notin Handling => task = NoTask
    /\ pc \in {"down", "idle"} \/ task.live => ~behind /\ retrying = {}
    /\ pc \notin {"retry"} \cup Handling => retrying = {}
    /\ retrying \subseteq Channels \X Ids \X BOOLEAN
    /\ pc \notin {"pull", "commit"} => pulling = {}
    /\ pulling \subseteq Channels
    /\ \A c \in pulling : FloorOf(c) # None

TInv == DiscordTypes /\ StoreTypes /\ FloorTypes /\ FlagTypes /\ Phases

LEMMA NoTaskIsNone == NoTask \notin Tasks /\ NoTask.live = FALSE
BY IntakeAssumption, MaxIdBounds DEF NoTask, Tasks, Ids

LEMMA NoBatchIsEmpty ==
  /\ NoBatch \in Batches /\ NoBatch.messages = {} /\ NoBatch.interval = {}
  /\ \A c \in Channels : [NoBatch EXCEPT !.channel = c] \in Batches
                           /\ [NoBatch EXCEPT !.channel = c].messages = {}
                           /\ [NoBatch EXCEPT !.channel = c].interval = {}
BY DEF NoBatch, Batches

LEMMA TypeInit == Init => TInv
<1> SUFFICES ASSUME Init PROVE TInv
  OBVIOUS
<1> USE MaxIdBounds
<1>1. DiscordTypes
  BY DEF Init, DiscordTypes
<1>2. StoreTypes
  BY NoBatchIsEmpty DEF Init, StoreTypes
<1>3. FloorTypes
  BY DEF Init, FloorTypes
<1>4. FlagTypes
  BY DEF Init, FlagTypes
<1>5. Phases
  BY NoTaskIsNone DEF Init, Phases, Handling
<1> QED
  BY <1>1, <1>2, <1>3, <1>4, <1>5 DEF TInv

(* A dispatch leaves inbox and missed sequences of work. *)
LEMMA DispatchStep ==
  ASSUME DiscordTypes, NEW kind \in {"Message", "Update"}, NEW c \in Channels,
         NEW i \in Ids, Dispatch(kind, c, i)
  PROVE  /\ inbox' \in Seq(Works) /\ missed' \in Seq(Works)
         /\ link # "down" => missed' = missed
<1> DEFINE work == [kind |-> kind, channel |-> c, id |-> i]
<1>1. work \in Works
  BY DEF Works
<1> HIDE DEF work
<1>2. CASE link = "none"
  BY <1>2 DEF Dispatch, DiscordTypes
<1>3. CASE link = "down"
  <2>1. missed' = Append(missed, work) /\ inbox' = inbox
    BY <1>3 DEF Dispatch, work
  <2> QED
    BY <1>1, <1>3, <2>1 DEF DiscordTypes
<1>4. CASE link = "up"
  <2>1. missed' = missed
        /\ \E k \in 1 .. Len(inbox) + 1 : inbox' = InsertAt(inbox, k, work)
    BY <1>4 DEF Dispatch, work
  <2>2. PICK k \in 1 .. Len(inbox) + 1 : inbox' = InsertAt(inbox, k, work)
    BY <2>1
  <2>3. Len(inbox) \in Nat /\ inbox \in [1 .. Len(inbox) -> Works]
    BY LenProperties DEF DiscordTypes
  <2>4. SubSeq(inbox, 1, k - 1) \in Seq(Works) /\ SubSeq(inbox, k, Len(inbox)) \in Seq(Works)
    BY <2>3, SubSeqProperties DEF DiscordTypes
  <2>5. InsertAt(inbox, k, work) \in Seq(Works)
    BY <1>1, <2>4 DEF InsertAt
  <2> QED
    BY <2>1, <2>2, <2>5 DEF DiscordTypes
<1> QED
  BY <1>2, <1>3, <1>4 DEF DiscordTypes

(* Every step keeps what Discord, the gateway and the inbox hold in range. *)
LEMMA DiscordStep == TInv /\ [Next]_vars => DiscordTypes'
<1> SUFFICES ASSUME TInv, [Next]_vars PROVE DiscordTypes'
  OBVIOUS
<1> USE DEF discord, store, directory, config, backfill, environment, counters,
            history
<1>0. DiscordTypes
  BY DEF TInv
<1>1. ASSUME UNCHANGED <<discord, inbox>> PROVE DiscordTypes'
  BY <1>0, <1>1 DEF DiscordTypes
<1>2. ASSUME UNCHANGED discord, inbox # <<>>, inbox' = Tail(inbox)
      PROVE  DiscordTypes'
  BY <1>0, <1>2 DEF DiscordTypes
<1>3. ASSUME NEW c \in Channels, Send(c) PROVE DiscordTypes'
  <2>1. sent[c] \in Nat /\ sent[c] + 1 \in Ids
    BY <1>0, <1>3, MaxIdBounds, IntakeAssumption, SMTT(30)
       DEF Send, DiscordTypes, Channels, Ids
  <2>2. sent' = [sent EXCEPT ![c] = sent[c] + 1] /\ UNCHANGED <<gone, link>>
        /\ sent'[c] = sent[c] + 1 /\ Dispatch("Message", c, sent'[c])
    BY <1>0, <1>3 DEF Send, DiscordTypes
  <2>3. Dispatch("Message", c, sent[c] + 1)
    BY <2>2
  <2>4. /\ inbox' \in Seq(Works) /\ missed' \in Seq(Works)
        /\ link # "down" => missed' = missed
    BY <1>0, <2>1, <2>3, DispatchStep
  <2> QED
    BY <1>0, <2>1, <2>2, <2>4, MaxIdBounds DEF DiscordTypes, Ids
<1>4. ASSUME NEW c \in Channels, NEW i \in Ids, Edit(c, i) PROVE DiscordTypes'
  <2>1. /\ inbox' \in Seq(Works) /\ missed' \in Seq(Works)
        /\ link # "down" => missed' = missed
    BY <1>0, <1>4, DispatchStep DEF Edit
  <2> QED
    BY <1>0, <1>4, <2>1 DEF Edit, DiscordTypes
<1>5. ASSUME NEW c \in Channels, NEW i \in Ids, Delete(c, i) PROVE DiscordTypes'
  BY <1>0, <1>5 DEF Delete, DiscordTypes, Messages
<1>6. ASSUME NEW s \in Seq(Works), inbox' = inbox \o s,
             UNCHANGED <<sent, gone>>,
             \/ UNCHANGED <<link, missed>>
             \/ link' = "up" /\ missed' = <<>>
      PROVE  DiscordTypes'
  <2>1. inbox \o s \in Seq(Works) /\ <<>> \in Seq(Works)
    BY <1>0 DEF DiscordTypes
  <2>2. missed' \in Seq(Works) /\ link' \in {"none", "up", "down"}
        /\ (link' # "down" => missed' = <<>>)
    BY <1>0, <1>6, <2>1 DEF DiscordTypes
  <2> QED
    BY <1>0, <1>6, <2>1, <2>2 DEF DiscordTypes
<1>7. /\ [kind |-> "Account"] \in Works /\ Backfill \in Works
      /\ [kind |-> "NoMessages"] \in Works
  BY DEF Works, Backfill
<1>8. CASE Ready
  <2>1. <<[kind |-> "Account"], Backfill>> \in Seq(Works)
    BY <1>7
  <2> QED
    BY <1>6, <1>8, <2>1 DEF Ready, Post
<1>9. CASE Resume
  <2>1. missed \o <<Backfill>> \in Seq(Works)
    BY <1>0, <1>7 DEF DiscordTypes
  <2> QED
    BY <1>6, <1>9, <2>1 DEF Resume, Post
<1>10. CASE Refuse
  <2>1. <<[kind |-> "NoMessages"]>> \in Seq(Works)
    BY <1>7
  <2> QED
    BY <1>6, <1>10, <2>1 DEF Refuse, Post
<1>11. CASE Lose
  BY <1>0, <1>11 DEF Lose, DiscordTypes
<1>12. CASE Crash
  BY <1>0, <1>12 DEF Crash, DiscordTypes
<1>13. CASE Start
  BY <1>1, <1>13 DEF Start
<1>14. CASE Panic
  BY <1>1, <1>14 DEF Panic
<1>15. ASSUME NEW c \in Channels, ReadFetch(c) PROVE DiscordTypes'
  BY <1>1, <1>15 DEF ReadFetch
<1>16. CASE ReadEnd
  BY <1>1, <1>16 DEF ReadEnd
<1>17. CASE TakeMessage \/ TakeAccount \/ TakeNoMessages
  BY <1>2, <1>17 DEF TakeMessage, TakeAccount, TakeNoMessages
<1>18. CASE StartBackfill
  BY <1>1, <1>2, <1>18 DEF StartBackfill
<1>19. CASE FindFloor \/ Observe \/ Keep \/ Unkeep
  BY <1>1, <1>19 DEF FindFloor, Observe, Keep, Unkeep
<1>20. CASE ListKept \/ NextKept \/ ListChannels \/ Fetch \/ Commit \/ EndBackfill
  BY <1>1, <1>20 DEF ListKept, NextKept, ListChannels, Fetch, Commit, EndBackfill
<1>21. CASE UNCHANGED vars
  BY <1>1, <1>21 DEF vars
<1> QED
  BY <1>3, <1>4, <1>5, <1>8, <1>9, <1>10, <1>11, <1>12, <1>13, <1>14, <1>15,
     <1>16, <1>17, <1>18, <1>19, <1>20, <1>21 DEF Next, Environment, Work

(* What FindFloor leaves in the directory, and the floor it works with. *)
LEMMA FoundFloor ==
  ASSUME FloorTypes, NEW c \in Channels, NEW dm \in BOOLEAN,
         NEW first \in (0 .. MaxId) \cup {None}
  PROVE  /\ FloorFor(c, dm, first).floor \in (0 .. MaxId) \cup {None}
         /\ FloorFor(c, dm, first).floors
              \in [Kinds -> [Channels -> (0 .. MaxId) \cup {None}]]
<1>1. ConfiguredFloor(c) \in (0 .. MaxId) \cup {None} /\ floors["dms"][c] \in (0 .. MaxId) \cup {None}
  BY DEF ConfiguredFloor, FloorTypes, Kinds
<1> DEFINE F == FloorFor(c, dm, first)
<1>2. \/ F.floor = ConfiguredFloor(c) /\ F.floors = [floors EXCEPT !["channels"][c] = ConfiguredFloor(c)]
      \/ F.floor = first /\ F.floors = [floors EXCEPT !["dms"][c] = first]
      \/ F.floor \in {floors["dms"][c], None} /\ F.floors = floors
  BY DEF FloorFor
<1> HIDE DEF F
<1>3. \A f \in (0 .. MaxId) \cup {None}, k \in Kinds :
         [floors EXCEPT ![k][c] = f] \in [Kinds -> [Channels -> (0 .. MaxId) \cup {None}]]
  BY DEF FloorTypes
<1>4. "channels" \in Kinds /\ "dms" \in Kinds
  BY DEF Kinds
<1>5. F.floor \in (0 .. MaxId) \cup {None}
  BY <1>1, <1>2
<1>6. F.floors \in [Kinds -> [Channels -> (0 .. MaxId) \cup {None}]]
  <2>1. CASE F.floors = [floors EXCEPT !["channels"][c] = ConfiguredFloor(c)]
    BY <1>1, <1>3, <1>4, <2>1
  <2>2. CASE F.floors = [floors EXCEPT !["dms"][c] = first]
    BY <1>3, <1>4, <2>2
  <2>3. CASE F.floors = floors
    BY <2>3 DEF FloorTypes
  <2> QED
    BY <1>2, <2>1, <2>2, <2>3
<1> QED
  BY <1>5, <1>6 DEF F

LEMMA KeptFloors ==
  ASSUME FloorTypes, NEW C \in SUBSET Channels, KeepFloors(C)
  PROVE  /\ floors' \in [Kinds -> [Channels -> (0 .. MaxId) \cup {None}]]
         /\ floors'["dms"] = floors["dms"]
         /\ \A c \in Channels :
               floors'["channels"][c] = IF c \in C THEN ConfiguredFloor(c)
                                        ELSE floors["channels"][c]
<1>1. \A c \in Channels : ConfiguredFloor(c) \in (0 .. MaxId) \cup {None}
  BY DEF ConfiguredFloor, FloorTypes, Kinds
<1> DEFINE new == [c \in Channels |-> IF c \in C THEN ConfiguredFloor(c)
                                      ELSE floors["channels"][c]]
<1>2. new \in [Channels -> (0 .. MaxId) \cup {None}]
  BY <1>1 DEF FloorTypes, Kinds
<1>3. floors' = [floors EXCEPT !["channels"] = new]
  BY DEF KeepFloors
<1>4. \A c \in Channels : new[c] = IF c \in C THEN ConfiguredFloor(c)
                                   ELSE floors["channels"][c]
  OBVIOUS
<1> HIDE DEF new
<1> QED
  BY <1>2, <1>3, <1>4 DEF FloorTypes, Kinds

(* Every step keeps what a message in hand, the directory and the history  *)
(* of floors hold in range.                                                *)
LEMMA FloorTypesStep == TInv /\ [Next]_vars => FloorTypes'
<1> SUFFICES ASSUME TInv, [Next]_vars PROVE FloorTypes'
  OBVIOUS
<1> USE DEF discord, store, directory, config, backfill, environment, counters,
            history
<1>0. /\ DiscordTypes /\ FloorTypes /\ Phases
      /\ InHand \subseteq Messages
      /\ configured \subseteq Channels
  BY DEF TInv, InHand, Phases, Tasks, NoTask, FloorTypes, Channels, Messages
<1>1. ASSUME UNCHANGED <<floors, unstored, configured, startFloor, base, heard>>,
             excused' \in {excused, excused \cup InHand},
             overlooked' \subseteq Messages
      PROVE  FloorTypes'
  BY <1>0, <1>1 DEF FloorTypes
<1>a. overlooked \subseteq Messages
  BY <1>0 DEF FloorTypes
<1>2. CASE Start
  BY <1>0, <1>2 DEF Start, FloorTypes, DiscordTypes, Channels
<1>3. CASE Crash
  BY <1>0, <1>3, MaxIdBounds DEF Crash, FloorTypes
<1>4. CASE Panic
  BY <1>1, <1>4 DEF Panic
<1>5. CASE Environment
  BY <1>1, <1>5, <1>a DEF Environment, Send, ReadFetch, Edit, Delete, ReadEnd, Lose, Refuse
<1>6. CASE Ready \/ Resume
  BY <1>1, <1>6, <1>a DEF Ready, Resume
<1>7. CASE TakeMessage
  <2>1. Head(inbox) \in Works
    BY <1>0, <1>7 DEF TakeMessage, DiscordTypes
  <2>2. Head(inbox).channel \in Channels /\ Head(inbox).id \in Ids
    BY <1>7, <2>1 DEF TakeMessage, IsMessage, Works
  <2>3. heard' \subseteq Dms \X Ids
    BY <1>0, <1>7, <2>2 DEF TakeMessage, FloorTypes
  <2> QED
    BY <1>0, <1>7, <2>3 DEF TakeMessage, FloorTypes
<1>8. CASE FindFloor
  <2> DEFINE first == IF task.created \/ task.new THEN task.id - 1 ELSE None
             dm == ~task.live \/ task.channel \in Dms
             found == FloorFor(task.channel, dm, first)
  <2>1. task \in Tasks /\ task.channel \in Channels
    BY <1>0, <1>8 DEF FindFloor, Phases, Handling, Tasks
  <2>2. first \in (0 .. MaxId) \cup {None} /\ dm \in BOOLEAN
    BY <2>1, MaxIdBounds DEF Tasks, Ids
  <2>3. found.floors \in [Kinds -> [Channels -> (0 .. MaxId) \cup {None}]]
    BY <1>0, <2>1, <2>2, FoundFloor
  <2>4. floors' \in {floors, found.floors} /\ excused' \subseteq excused \cup Torn \cup InHand
        /\ UNCHANGED <<unstored, configured, startFloor, base, heard, overlooked>>
    <3> HIDE DEF found
    <3> QED
      BY <1>8 DEF FindFloor, found
  <2>5. Torn \subseteq Messages
    BY <2>1 DEF Torn, Tasks, Messages
  <2> HIDE DEF found
  <2> QED
    BY <1>0, <2>3, <2>4, <2>5 DEF FloorTypes
<1>9. CASE Observe
  BY <1>1, <1>9, <1>a DEF Observe
<1>10. CASE Keep
  <2>1. <<task.channel, task.id, task.new>> \in Channels \X Ids \X BOOLEAN
    BY <1>0, <1>10 DEF Keep, Phases, Handling, Tasks
  <2> QED
    BY <1>0, <1>10, <2>1 DEF Keep, FloorTypes
<1>11. CASE Unkeep
  BY <1>0, <1>11 DEF Unkeep, FloorTypes
<1>12. CASE TakeAccount \/ NextKept \/ Fetch \/ Commit \/ EndBackfill
  BY <1>1, <1>12, <1>a DEF TakeAccount, NextKept, Fetch, Commit, EndBackfill
<1>16. CASE ListKept
  <2>1. {<<k[1], k[2]>> : k \in unstored} \subseteq Messages
    BY <1>0 DEF FloorTypes, Messages
  <2>2. overlooked' \subseteq overlooked \cup {<<k[1], k[2]>> : k \in unstored}
    BY <1>16 DEF ListKept
  <2> QED
    BY <1>1, <1>16, <1>a, <2>1, <2>2 DEF ListKept
<1>13. CASE TakeNoMessages
  BY <1>0, <1>13 DEF TakeNoMessages, FloorTypes
<1>14. CASE StartBackfill \/ ListChannels
  <2>1. \/ floors' = floors
        \/ \E C \in SUBSET Channels : KeepFloors(C)
    BY <1>0, <1>14 DEF StartBackfill, ListChannels
  <2>2. floors' \in [Kinds -> [Channels -> (0 .. MaxId) \cup {None}]]
    BY <1>0, <2>1, KeptFloors DEF FloorTypes
  <2>3. UNCHANGED <<unstored, configured, startFloor, base, heard, excused>>
    BY <1>14 DEF StartBackfill, ListChannels
  <2>4. overlooked' \subseteq Messages
    BY <1>14, <1>a DEF StartBackfill, ListChannels
  <2> QED
    BY <1>0, <2>2, <2>3, <2>4 DEF FloorTypes
<1>15. CASE UNCHANGED vars
  BY <1>1, <1>15, <1>a DEF vars
<1> QED
  BY <1>2, <1>3, <1>4, <1>5, <1>6, <1>7, <1>8, <1>9, <1>10, <1>11, <1>12, <1>13,
     <1>14, <1>15, <1>16 DEF Next, Work

(* What a channel's floor is while it is pulled. *)
LEMMA PulledFloor ==
  ASSUME TInv, NEW c \in pulling
  PROVE  c \in Channels /\ FloorOf(c) \in 0 .. MaxId
BY DEF TInv, Phases, FloorTypes, FloorOf, Kinds

(* Every step keeps what is stored, covered and fetched in range. *)
LEMMA StoreStep == TInv /\ [Next]_vars => StoreTypes'
<1> SUFFICES ASSUME TInv, [Next]_vars PROVE StoreTypes'
  OBVIOUS
<1> USE DEF discord, store, directory, config, backfill, environment, counters,
            history
<1>0. DiscordTypes /\ StoreTypes /\ Phases
  BY DEF TInv
<1>1. ASSUME UNCHANGED <<stored, taken, cover, batch, reader>>, pc' # "commit" \/ pc = "commit"
      PROVE  StoreTypes'
  BY <1>0, <1>1 DEF StoreTypes
<1>2. CASE Start \/ Ready \/ Resume
  BY <1>1, <1>2 DEF Start, Ready, Resume
<1>3. CASE Crash \/ Panic
  BY <1>0, <1>3, NoBatchIsEmpty DEF Crash, Panic, StoreTypes
<1>4. CASE Lose \/ Refuse
  BY <1>1, <1>4 DEF Lose, Refuse
<1>5. ASSUME NEW c \in Channels, NEW i \in Ids, Send(c) \/ Edit(c, i) \/ Delete(c, i)
      PROVE  StoreTypes'
  BY <1>1, <1>5 DEF Send, Edit, Delete
<1>6. ASSUME NEW c \in Channels, Send(c) PROVE StoreTypes'
  BY <1>1, <1>6 DEF Send
<1>7. ASSUME NEW c \in Channels, ReadFetch(c) PROVE StoreTypes'
  <2>1. reader' \in Batches /\ reader'.channel = c
    BY <1>0, <1>7, ReadIsComplete DEF ReadFetch, DiscordTypes, StoreTypes
  <2> QED
    BY <1>0, <1>7, <2>1 DEF ReadFetch, StoreTypes
<1>8. CASE ReadEnd
  <2>1. reader.channel \in Channels /\ reader.messages \subseteq Messages
        /\ reader.interval \subseteq Intervals
    BY <1>0, <1>8 DEF ReadEnd, StoreTypes, Batches
  <2>2. stored' \subseteq Messages /\ cover' \in [Channels -> SUBSET Intervals]
    BY <1>0, <1>8, <2>1 DEF ReadEnd, StoreTypes
  <2> QED
    BY <1>0, <1>8, <2>2, NoBatchIsEmpty DEF ReadEnd, StoreTypes
<1>9. CASE Observe
  <2>1. <<task.channel, task.id>> \in Messages
    BY <1>0, <1>9 DEF Observe, Phases, Handling, Tasks, Messages
  <2>2. pc' # "commit" /\ UNCHANGED <<cover, batch, reader>>
    BY <1>9 DEF Observe, Finish
  <2>3. stored' \subseteq Messages /\ taken' \subseteq Messages
    BY <1>0, <1>9, <2>1 DEF Observe, StoreTypes
  <2> QED
    BY <1>0, <2>2, <2>3 DEF StoreTypes
<1>10. CASE FindFloor \/ Keep \/ Unkeep \/ TakeMessage
  BY <1>1, <1>10 DEF FindFloor, Keep, Unkeep, TakeMessage, Finish
<1>11. CASE TakeAccount \/ TakeNoMessages \/ StartBackfill \/ ListKept \/ NextKept
            \/ ListChannels \/ EndBackfill
  BY <1>1, <1>11 DEF TakeAccount, TakeNoMessages, StartBackfill, ListKept, NextKept,
                     ListChannels, EndBackfill
<1>12. CASE Fetch
  <2>1. PICK c \in pulling :
           \/ batch' = PullBatch(c, FloorOf(c))
           \/ batch' = NoBatch /\ pc' # "commit"
    BY <1>12 DEF Fetch
  <2>2. c \in Channels /\ FloorOf(c) \in 0 .. MaxId
    BY PulledFloor
  <2>3. batch' \in Batches /\ (pc' = "commit" => batch'.channel \in Channels)
    BY <1>0, <2>1, <2>2, PullIsComplete, NoBatchIsEmpty DEF DiscordTypes, StoreTypes
  <2> QED
    BY <1>0, <1>12, <2>3 DEF Fetch, StoreTypes
<1>13. CASE Commit
  <2>1. batch.channel \in Channels /\ batch.messages \subseteq Messages
        /\ batch.interval \subseteq Intervals
    BY <1>0, <1>13 DEF Commit, StoreTypes, Batches
  <2>2. stored' \subseteq Messages /\ taken' \subseteq Messages
        /\ cover' \in [Channels -> SUBSET Intervals]
    BY <1>0, <1>13, <2>1 DEF Commit, StoreTypes
  <2>3. batch' \in Batches
    BY <1>13, <2>1, NoBatchIsEmpty DEF Commit
  <2>4. pc' # "commit" /\ reader' = reader
    BY <1>13 DEF Commit
  <2> QED
    BY <1>0, <2>2, <2>3, <2>4 DEF StoreTypes
<1>14. CASE UNCHANGED vars
  BY <1>1, <1>14 DEF vars
<1> QED
  BY <1>2, <1>3, <1>4, <1>5, <1>6, <1>7, <1>8, <1>9, <1>10, <1>11, <1>12, <1>13,
     <1>14 DEF Next, Environment, Work

(* Flags stay flags. *)
LEMMA FlagStep == TInv /\ [Next]_vars => FlagTypes'
<1> SUFFICES ASSUME TInv, [Next]_vars PROVE FlagTypes'
  OBVIOUS
<1> USE DEF discord, store, directory, config, backfill, environment, counters,
            history
<1>0. FlagTypes
  BY DEF TInv
<1>1. CASE Start \/ Ready \/ Resume \/ Crash \/ Panic
  BY <1>0, <1>1 DEF FlagTypes, Start, Ready, Resume, Crash, Panic
<1>6. CASE Environment
  <2>1. UNCHANGED <<known, dms, account, due, behind>>
    BY <1>6 DEF Environment, Send, ReadFetch, Edit, Delete, ReadEnd, Lose, Refuse
  <2> QED
    BY <1>0, <2>1 DEF FlagTypes
<1>2. CASE TakeMessage \/ FindFloor \/ Observe \/ Keep \/ Unkeep
  BY <1>0, <1>2 DEF FlagTypes, TakeMessage, FindFloor, Observe, Keep, Unkeep, Finish
<1>3. CASE TakeAccount \/ TakeNoMessages \/ ListKept \/ NextKept \/ ListChannels
  BY <1>0, <1>3 DEF FlagTypes, TakeAccount, TakeNoMessages, ListKept, NextKept,
                    ListChannels
<1>4. CASE StartBackfill \/ Fetch \/ Commit \/ EndBackfill
  BY <1>0, <1>4 DEF FlagTypes, StartBackfill, Fetch, Commit, EndBackfill
<1>5. CASE UNCHANGED vars
  BY <1>0, <1>5 DEF FlagTypes, vars
<1> QED
  BY <1>1, <1>2, <1>3, <1>4, <1>5, <1>6 DEF Next, Work

(* A message done with leaves the thread idle, or at the next kept one. *)
LEMMA FinishStep ==
  ASSUME Phases, FlagTypes, pc \in Handling, NEW result, Finish(result),
         UNCHANGED <<retrying, pulling>>
  PROVE  Phases'
<1>1. task' = NoTask /\ pulling' = {} /\ retrying' = retrying /\ pulling = {}
      /\ (pc' = IF task.live THEN "idle" ELSE "retry")
  BY DEF Finish, Phases, Handling
<1>2. task.live => retrying = {} /\ ~behind /\ ~behind'
  BY DEF Finish, Phases, Handling
<1> QED
  BY <1>1, <1>2, NoTaskIsNone DEF Phases, Handling

(* A message that stays in hand. *)
LEMMA HandStep ==
  ASSUME Phases, pc \in Handling, pc' \in Handling,
         UNCHANGED <<retrying, pulling, behind>>,
         task' \in Tasks, task'.live = task.live
  PROVE  Phases'
<1>1. pulling = {}
  BY DEF Phases, Handling
<1> QED
  BY <1>1 DEF Phases, Handling

LEMMA PhaseStep == TInv /\ [Next]_vars => Phases'
<1> SUFFICES ASSUME TInv, [Next]_vars PROVE Phases'
  OBVIOUS
<1> USE DEF discord, store, directory, config, backfill, environment, counters,
            history
<1>0. DiscordTypes /\ FloorTypes /\ FlagTypes /\ Phases
  BY DEF TInv
<1>1. ASSUME UNCHANGED <<pc, task, behind, retrying, pulling, floors, configured>>
      PROVE  Phases'
  BY <1>0, <1>1 DEF Phases, FloorOf
<1>2. ASSUME pc' \in {"down", "idle"}, task' = NoTask, ~behind', retrying' = {},
             pulling' = {}
      PROVE  Phases'
  BY <1>2, NoTaskIsNone DEF Phases, Handling
<1>3. CASE Start
  BY <1>0, <1>2, <1>3 DEF Start, Phases, Handling
<1>4. CASE Crash \/ Panic
  BY <1>2, <1>4 DEF Crash, Panic
<1>5. CASE Environment
  <2>1. UNCHANGED <<pc, task, behind, retrying, pulling, floors, configured>>
    BY <1>5 DEF Environment, Send, ReadFetch, Edit, Delete, ReadEnd, Lose, Refuse
  <2> QED
    BY <1>1, <2>1
<1>6. CASE Ready \/ Resume
  BY <1>1, <1>6 DEF Ready, Resume
<1>7. CASE TakeMessage
  <2>1. Head(inbox) \in Works
    BY <1>0, <1>7 DEF TakeMessage, DiscordTypes
  <2>2. Head(inbox).channel \in Channels /\ Head(inbox).id \in Ids
    BY <1>7, <2>1 DEF TakeMessage, IsMessage, Works
  <2>3. task' \in Tasks /\ task'.live /\ pc' = "floor"
    BY <1>7, <2>2 DEF TakeMessage, Tasks
  <2>4. ~behind' /\ retrying' = {} /\ pulling' = {}
    BY <1>0, <1>7 DEF TakeMessage, Phases, Handling
  <2> QED
    BY <2>3, <2>4 DEF Phases, Handling
<1>8. CASE FindFloor
  <2> DEFINE first == IF task.created \/ task.new THEN task.id - 1 ELSE None
             dm == ~task.live \/ task.channel \in Dms
             found == FloorFor(task.channel, dm, first)
  <2>1. task \in Tasks /\ task.channel \in Channels /\ pc \in Handling
    BY <1>0, <1>8 DEF FindFloor, Phases, Handling, Tasks
  <2>2. first \in (0 .. MaxId) \cup {None} /\ dm \in BOOLEAN
    BY <2>1, MaxIdBounds DEF Tasks, Ids
  <2>3. found.floor \in (0 .. MaxId) \cup {None}
    BY <1>0, <2>1, <2>2, FoundFloor
  <2>4. /\ UNCHANGED <<retrying, pulling>>
        /\ \/ task' = [task EXCEPT !.floor = found.floor] /\ pc' = "observe"
              /\ UNCHANGED behind
           \/ Finish("ignored") \/ Finish("failed")
           \/ pc' \in {"unkeep", "keep"} /\ UNCHANGED <<task, behind>>
    BY <1>8 DEF FindFloor
  <2> HIDE DEF found
  <2>5. CASE task' = [task EXCEPT !.floor = found.floor] /\ pc' = "observe"
             /\ UNCHANGED behind
    <3>1. task' \in Tasks /\ task'.live = task.live
      BY <2>1, <2>3, <2>5 DEF Tasks
    <3> QED
      BY <1>0, <2>1, <2>4, <2>5, <3>1, HandStep DEF Handling
  <2>6. CASE Finish("ignored") \/ Finish("failed")
    BY <1>0, <2>1, <2>4, <2>6, FinishStep
  <2>7. CASE pc' \in {"unkeep", "keep"} /\ UNCHANGED <<task, behind>>
    BY <1>0, <2>1, <2>4, <2>7, HandStep DEF Handling
  <2> QED
    BY <2>4, <2>5, <2>6, <2>7
<1>9. CASE Observe \/ Keep \/ Unkeep
  <2>1. task \in Tasks /\ pc \in Handling /\ UNCHANGED <<retrying, pulling>>
    BY <1>0, <1>9 DEF Observe, Keep, Unkeep, Phases, Handling
  <2>2. \/ Finish("done") \/ Finish("failed")
        \/ pc' \in {"unkeep", "keep"} /\ UNCHANGED <<task, behind>>
    BY <1>9 DEF Observe, Keep, Unkeep
  <2>3. CASE Finish("done") \/ Finish("failed")
    BY <1>0, <2>1, <2>3, FinishStep
  <2>4. CASE pc' \in {"unkeep", "keep"} /\ UNCHANGED <<task, behind>>
    BY <1>0, <2>1, <2>4, HandStep DEF Handling
  <2> QED
    BY <2>2, <2>3, <2>4
<1>10. CASE TakeAccount \/ TakeNoMessages
  BY <1>0, <1>10 DEF TakeAccount, TakeNoMessages, Phases, Handling
<1>11. CASE StartBackfill \/ ListKept
  <2>1. pulling' = {} /\ task' = NoTask /\ pc' \in {"kept", "end", "retry"}
        /\ (pc' # "retry" => retrying' = {})
        /\ retrying' \subseteq Channels \X Ids \X BOOLEAN
    BY <1>0, <1>11 DEF StartBackfill, ListKept, Phases, Handling, FloorTypes
  <2> QED
    BY <2>1, NoTaskIsNone DEF Phases, Handling
<1>12. CASE NextKept
  <2>1. PICK k \in retrying :
           task' = [channel |-> k[1], id |-> k[2], created |-> FALSE,
                    new |-> \E m \in {m \in retrying : m[1] = k[1] /\ m[2] = k[2]} : m[3],
                    live |-> FALSE, floor |-> None]
    BY <1>12 DEF NextKept
  <2>2. k[1] \in Channels /\ k[2] \in Ids
    BY <1>0 DEF Phases
  <2>3. task' \in Tasks /\ task'.live = FALSE
    BY <2>1, <2>2 DEF Tasks
  <2>4. pc' = "floor" /\ pulling' = {} /\ retrying' \subseteq retrying
    BY <1>0, <1>12 DEF NextKept, Phases, Handling
  <2> QED
    BY <1>0, <2>3, <2>4 DEF Phases, Handling
<1>13. CASE ListChannels
  <2> DEFINE seen == IF dms THEN {c \in Channels : floors["dms"][c] # None} ELSE {}
             all == configured \cup seen
  <2>1. PICK over \in SUBSET Channels :
           /\ KeepFloors(configured \ over)
           /\ pulling' = all \ over
    <3>1. all \subseteq Channels
      BY <1>0 DEF FloorTypes, Channels
    <3>2. \/ pulling' = all /\ KeepFloors(configured)
          \/ \E over \in {{c} : c \in all} \cup {seen \ configured} :
                pulling' = all \ over /\ KeepFloors(configured \ over)
          \/ \E out \in SUBSET (seen \ configured) :
                pulling' = all \ out /\ KeepFloors(configured)
      BY <1>13 DEF ListChannels
    <3>3. CASE pulling' = all /\ KeepFloors(configured)
      <4>1. configured \ {} = configured /\ all \ {} = all
        OBVIOUS
      <4> HIDE DEF all
      <4> QED
        BY <3>3, <4>1
    <3>4. CASE \E over \in {{c} : c \in all} \cup {seen \ configured} :
                  pulling' = all \ over /\ KeepFloors(configured \ over)
      <4>1. \A over \in {{c} : c \in all} \cup {seen \ configured} : over \subseteq Channels
        BY <3>1
      <4> HIDE DEF all, seen
      <4> QED
        BY <3>4, <4>1
    <3>5. CASE \E out \in SUBSET (seen \ configured) :
                  pulling' = all \ out /\ KeepFloors(configured)
      <4>1. PICK out \in SUBSET (seen \ configured) :
               pulling' = all \ out /\ KeepFloors(configured)
        BY <3>5
      <4>2. configured \ out = configured /\ out \subseteq Channels
        BY <3>1, <4>1
      <4> HIDE DEF all, seen
      <4> QED
        BY <4>1, <4>2
    <3> QED
      BY <3>2, <3>3, <3>4, <3>5
  <2>2. configured \ over \in SUBSET Channels
    BY <1>0 DEF FloorTypes, Channels
  <2>3. /\ floors'["dms"] = floors["dms"]
        /\ \A c \in Channels :
              floors'["channels"][c] = IF c \in configured \ over THEN ConfiguredFloor(c)
                                       ELSE floors["channels"][c]
    BY <1>0, <2>1, <2>2, KeptFloors
  <2>4. \A c \in Channels : ConfiguredFloor(c) # None
    BY <1>0, IntakeAssumption, MaxIdBounds DEF ConfiguredFloor, FloorTypes
  <2>5. ASSUME NEW c \in pulling' PROVE c \in Channels /\ FloorOf(c)' # None
    <3>1. c \in all /\ c \notin over /\ c \in Channels
      BY <1>0, <2>1 DEF FloorTypes, Channels
    <3>2. configured' = configured
      BY <1>13 DEF ListChannels
    <3>3. CASE c \in configured
      <4>1. FloorOf(c)' = floors'["channels"][c]
        BY <3>2, <3>3 DEF FloorOf
      <4> QED
        BY <2>3, <2>4, <3>1, <3>3, <4>1
    <3>4. CASE c \notin configured
      <4>1. FloorOf(c)' = floors'["dms"][c] /\ floors["dms"][c] # None
        BY <3>1, <3>2, <3>4 DEF FloorOf
      <4> QED
        BY <2>3, <3>1, <4>1
    <3> QED
      BY <3>3, <3>4
  <2>6. pc' = "pull" /\ task' = NoTask /\ retrying' = {}
    BY <1>0, <1>13 DEF ListChannels, Phases, Handling
  <2> QED
    BY <2>5, <2>6, NoTaskIsNone DEF Phases, Handling
<1>14. CASE Fetch \/ Commit
  <2>1. /\ pc' \in {"pull", "commit"} /\ task' = NoTask /\ retrying' = {}
        /\ pulling' \subseteq pulling /\ UNCHANGED <<floors, configured>>
    BY <1>0, <1>14 DEF Fetch, Commit, Phases, Handling
  <2>2. \A c \in pulling' : FloorOf(c)' # None
    BY <1>0, <2>1 DEF Phases, FloorOf
  <2> QED
    BY <1>0, <2>1, <2>2, NoTaskIsNone DEF Phases, Handling
<1>15. CASE EndBackfill
  BY <1>0, <1>2, <1>15 DEF EndBackfill, Phases, Handling
<1>16. CASE UNCHANGED vars
  BY <1>1, <1>16 DEF vars
<1> QED
  BY <1>3, <1>4, <1>5, <1>6, <1>7, <1>8, <1>9, <1>10, <1>11, <1>12, <1>13,
     <1>14, <1>15, <1>16 DEF Next, Work

LEMMA TypeStep == TInv /\ [Next]_vars => TInv'
BY DiscordStep, FloorTypesStep, StoreStep, FlagStep, PhaseStep DEF TInv

(* Every variable keeps its range, and the thread holds a message, kept    *)
(* messages and channels to pull only at the steps that work on them.      *)
THEOREM TypeCorrect == Spec => []TypeOK
<1>1. TInv => TypeOK
  <2> SUFFICES ASSUME TInv PROVE TypeOK
    OBVIOUS
  <2>1. /\ sent \in [Channels -> 0 .. MaxId] /\ gone \subseteq Messages
        /\ link \in {"none", "up", "down"} /\ (link # "down" => missed = <<>>)
    BY DEF TInv, DiscordTypes
  <2>2. /\ stored \subseteq Messages /\ known \in BOOLEAN
        /\ floors \in [Kinds -> [Channels -> (0 .. MaxId) \cup {None}]]
        /\ unstored \subseteq Channels \X Ids \X BOOLEAN
        /\ configured \subseteq Guilds /\ {dms, account, due} \subseteq BOOLEAN
    BY DEF TInv, StoreTypes, FloorTypes, FlagTypes
  <2>3. \A c \in Channels : \A v \in cover[c] : v[1] < v[2]
    BY DEF TInv, StoreTypes, Intervals
  <2>4. batch.messages \cup reader.messages \cup heard \cup taken \cup overlooked
          \subseteq Messages
    BY DEF TInv, StoreTypes, FloorTypes, Batches, Messages, Channels
  <2>5. /\ pc \in {"down", "idle", "floor", "observe", "keep", "unkeep",
                   "kept", "retry", "pull", "commit", "end"}
        /\ (task = NoTask) = (pc \notin {"floor", "observe", "keep", "unkeep"})
        /\ behind => pc \notin {"down", "idle"}
        /\ \A c \in pulling : FloorOf(c) # None
    BY NoTaskIsNone DEF TInv, Phases, Handling
  <2> QED
    BY <2>1, <2>2, <2>3, <2>4, <2>5 DEF TypeOK
<1> QED
  BY <1>1, TypeInit, TypeStep, PTL DEF Spec

-----------------------------------------------------------------------------
(* Coverage. *)

(* An interval ends at a message that was sent: the next one, still unread, *)
(* lies outside it.  And an interval in hand already has its messages, so  *)
(* that whenever it is committed, they are.                                *)
CoverInv ==
    /\ \A c \in Channels : \A v \in cover[c] : v[2] <= sent[c]
    /\ CoveredIsStored
    /\ Complete(batch) /\ Complete(reader)
    /\ pc # "commit" => batch.interval = {}

(* Messages are only added behind the newest, and only deleted. *)
LEMMA ExistingStep ==
  ASSUME TInv, [Next]_vars, NEW c \in Channels
  PROVE  /\ sent[c] \in Nat /\ sent'[c] \in Nat /\ sent[c] <= sent'[c]
         /\ \A i \in Existing(c)' : i <= sent[c] => i \in Existing(c)
<1> USE DEF discord, store, directory, config, backfill, environment, counters,
            history
<1>0. /\ sent \in [Channels -> 0 .. MaxId] /\ sent' \in [Channels -> 0 .. MaxId]
  BY TypeStep DEF TInv, DiscordTypes
<1>1. \/ UNCHANGED <<sent, gone>>
      \/ \E d \in Channels : sent' = [sent EXCEPT ![d] = @ + 1] /\ gone' = gone
      \/ sent' = sent /\ gone \subseteq gone'
  BY DEF Next, vars, Start, Crash, Panic, Environment, Send, Edit, Delete, ReadFetch,
         ReadEnd, Lose, Refuse, Ready, Resume, Work, TakeMessage, FindFloor, Observe,
         Keep, Unkeep, TakeAccount, TakeNoMessages, StartBackfill, ListKept, NextKept,
         ListChannels, Fetch, Commit, EndBackfill
<1>2. sent[c] \in Nat /\ sent'[c] \in Nat
  BY <1>0, MaxIdBounds
<1>3. sent'[c] \in {sent[c], sent[c] + 1} /\ gone \subseteq gone'
  BY <1>0, <1>1
<1> QED
  BY <1>2, <1>3 DEF Existing

(* What a pull has in hand stays complete. *)
LEMMA CompleteStep ==
  ASSUME TInv, [Next]_vars, NEW b \in Batches, b.channel \in Channels, Complete(b)
  PROVE  Complete(b)'
<1> DEFINE c == b.channel
<1>1. /\ sent[c] \in Nat /\ sent'[c] \in Nat /\ sent[c] <= sent'[c]
      /\ \A i \in Existing(c)' : i <= sent[c] => i \in Existing(c)
  BY ExistingStep
<1>2. \A v \in b.interval : v[2] \in Nat /\ v[2] <= sent[c]
  BY DEF Batches, Intervals, Ids, Complete
<1>3. \A i \in Existing(c)' : i \in Nat
  BY <1>1 DEF Existing
<1>4. ASSUME NEW v \in b.interval, NEW i \in Existing(c)', v[1] < i, i <= v[2]
      PROVE  <<c, i>> \in b.messages
  <2>1. i \in Existing(c)
    BY <1>1, <1>2, <1>3, <1>4
  <2> QED
    BY <1>4, <2>1 DEF Complete
<1>5. \A v \in b.interval : v[2] <= sent'[c]
  BY <1>1, <1>2
<1> QED
  BY <1>4, <1>5 DEF Complete

(* Coverage of a channel that does not grow is not invalidated. *)
LEMMA CoveredStep ==
  ASSUME TInv, CoverInv, [Next]_vars, stored \subseteq stored',
         NEW c \in Channels, NEW v \in cover[c]
  PROVE  /\ v[2] <= sent'[c]
         /\ \A i \in Existing(c)' : v[1] < i /\ i <= v[2] => <<c, i>> \in stored'
<1>1. /\ sent[c] \in Nat /\ sent'[c] \in Nat /\ sent[c] <= sent'[c]
      /\ \A i \in Existing(c)' : i <= sent[c] => i \in Existing(c)
  BY ExistingStep
<1>2. v[2] \in Nat /\ v[2] <= sent[c]
  BY DEF TInv, StoreTypes, Intervals, Ids, CoverInv
<1>3. \A i \in Existing(c)' : i \in Nat
  BY <1>1 DEF Existing
<1>4. ASSUME NEW i \in Existing(c)', v[1] < i, i <= v[2] PROVE <<c, i>> \in stored'
  <2>1. i \in Existing(c)
    BY <1>1, <1>2, <1>3, <1>4
  <2> QED
    BY <1>4, <2>1 DEF CoverInv, CoveredIsStored
<1> QED
  BY <1>1, <1>2, <1>4

(* A commit stores the messages of its interval with it. *)
LEMMA CommitStep ==
  ASSUME TInv, CoverInv, [Next]_vars,
         NEW b \in Batches, b.channel \in Channels, Complete(b),
         stored' = stored \cup b.messages,
         cover' = [cover EXCEPT ![b.channel] = @ \cup b.interval]
  PROVE  /\ \A c \in Channels : \A v \in cover'[c] : v[2] <= sent'[c]
         /\ CoveredIsStored'
<1>1. Complete(b)'
  BY CompleteStep
<1>2. ASSUME NEW c \in Channels, NEW v \in cover'[c]
      PROVE  /\ v[2] <= sent'[c]
             /\ \A i \in Existing(c)' : v[1] < i /\ i <= v[2] => <<c, i>> \in stored'
  <2>1. v \in cover[c] \/ (c = b.channel /\ v \in b.interval)
    BY <1>2 DEF TInv, StoreTypes
  <2>2. CASE v \in cover[c]
    BY <2>2, CoveredStep
  <2>3. CASE c = b.channel /\ v \in b.interval
    BY <1>1, <2>3 DEF Complete
  <2> QED
    BY <2>1, <2>2, <2>3
<1> QED
  BY <1>2 DEF CoveredIsStored

LEMMA CoverStep == TInv /\ CoverInv /\ [Next]_vars => CoverInv'
<1> SUFFICES ASSUME TInv, CoverInv, [Next]_vars PROVE CoverInv'
  OBVIOUS
<1> USE DEF discord, store, directory, config, backfill, environment, counters,
            history
<1>0. /\ DiscordTypes /\ StoreTypes /\ Phases
      /\ reader \in Batches /\ batch \in Batches
      /\ pc # "commit" => batch.interval = {}
      /\ reader # NoBatch => reader.channel \in Channels
  BY DEF TInv, StoreTypes, CoverInv
<1>1. ASSUME cover' = cover, stored \subseteq stored'
      PROVE  (\A c \in Channels : \A v \in cover'[c] : v[2] <= sent'[c]) /\ CoveredIsStored'
  BY <1>1, CoveredStep DEF CoveredIsStored
(* What is in hand and stays so. *)
<1>2. ASSUME batch' = batch PROVE Complete(batch)'
  <2>1. CASE pc = "commit"
    <3>1. batch.channel \in Channels /\ Complete(batch)
      BY <2>1 DEF TInv, StoreTypes, CoverInv
    <3>2. PICK b : b = batch
      OBVIOUS
    <3>3. Complete(b)'
      BY <1>0, <3>1, <3>2, CompleteStep
    <3> QED
      BY <1>2, <3>2, <3>3
  <2>2. CASE pc # "commit"
    BY <1>0, <1>2, <2>2 DEF Complete
  <2> QED
    BY <2>1, <2>2
<1>3. ASSUME reader' = reader PROVE Complete(reader)'
  <2>1. CASE reader # NoBatch
    <3>1. reader.channel \in Channels /\ Complete(reader)
      BY <1>0, <2>1 DEF CoverInv
    <3> QED
      BY <1>0, <1>3, <3>1, CompleteStep DEF Complete
  <2>2. CASE reader = NoBatch
    BY <1>3, <2>2, NoBatchIsEmpty DEF Complete
  <2> QED
    BY <2>1, <2>2
<1>4. ASSUME UNCHANGED <<cover, batch, reader>>, stored \subseteq stored',
             pc = "commit" => pc' = "commit"
      PROVE  CoverInv'
  BY <1>0, <1>1, <1>2, <1>3, <1>4 DEF CoverInv
<1>5. CASE Start \/ Ready \/ Resume \/ Lose \/ Refuse
  BY <1>0, <1>4, <1>5 DEF Start, Ready, Resume, Lose, Refuse
<1>6. ASSUME NEW c \in Channels,
             Send(c) \/ \E i \in Ids : Edit(c, i) \/ Delete(c, i)
      PROVE  CoverInv'
  BY <1>4, <1>6 DEF Send, Edit, Delete
<1>7. CASE Crash \/ Panic
  <2>1. /\ UNCHANGED <<stored, cover, reader>> /\ batch' = NoBatch
    BY <1>7 DEF Crash, Panic
  <2>2. Complete(batch)' /\ batch'.interval = {}
    BY <2>1, NoBatchIsEmpty DEF Complete
  <2> QED
    BY <1>1, <1>3, <2>1, <2>2 DEF CoverInv
<1>8. ASSUME NEW c \in Channels, ReadFetch(c) PROVE CoverInv'
  <2>1. PICK b : b = ReadBatch(c)
    OBVIOUS
  <2>2. b \in Batches /\ b.channel = c /\ Complete(b)
    BY <1>0, <2>1, ReadIsComplete DEF DiscordTypes, StoreTypes
  <2>3. Complete(b)'
    BY <2>2, CompleteStep
  <2>4. reader' = b /\ UNCHANGED <<stored, cover, batch, pc>>
    BY <1>8, <2>1 DEF ReadFetch
  <2>5. Complete(reader)'
    BY <2>3, <2>4
  <2> QED
    BY <1>0, <1>1, <1>2, <2>4, <2>5 DEF CoverInv
<1>9. CASE ReadEnd
  <2>1. reader' = NoBatch /\ UNCHANGED <<batch, pc>> /\ reader.channel \in Channels
        /\ Complete(reader)
    BY <1>0, <1>9 DEF ReadEnd, CoverInv
  <2>2. Complete(reader)'
    BY <2>1, NoBatchIsEmpty DEF Complete
  <2>3. (\A c \in Channels : \A v \in cover'[c] : v[2] <= sent'[c]) /\ CoveredIsStored'
    <3>1. CASE UNCHANGED <<stored, cover>>
      BY <1>1, <3>1
    <3>2. CASE /\ stored' = stored \cup reader.messages
               /\ cover' = [cover EXCEPT ![reader.channel] = @ \cup reader.interval]
      BY <1>0, <2>1, <3>2, CommitStep
    <3> QED
      BY <1>9, <3>1, <3>2 DEF ReadEnd
  <2> QED
    BY <1>0, <1>2, <2>1, <2>2, <2>3 DEF CoverInv
<1>10. CASE Observe
  BY <1>0, <1>4, <1>10 DEF Observe
<1>11. CASE TakeMessage \/ FindFloor \/ Keep \/ Unkeep \/ TakeAccount \/ TakeNoMessages
  BY <1>4, <1>11 DEF TakeMessage, FindFloor, Keep, Unkeep, TakeAccount, TakeNoMessages
<1>12. CASE StartBackfill \/ ListKept \/ NextKept \/ ListChannels \/ EndBackfill
  BY <1>4, <1>12 DEF StartBackfill, ListKept, NextKept, ListChannels, EndBackfill
<1>13. CASE Fetch
  <2>1. UNCHANGED <<stored, cover, reader>> /\ pc = "pull"
    BY <1>13 DEF Fetch
  <2>2. PICK c \in pulling :
           \/ batch' = PullBatch(c, FloorOf(c)) /\ pc' = "commit"
           \/ batch' = NoBatch
    BY <1>13 DEF Fetch
  <2>3. CASE batch' = PullBatch(c, FloorOf(c)) /\ pc' = "commit"
    <3>1. c \in Channels /\ FloorOf(c) \in 0 .. MaxId
      BY PulledFloor
    <3>2. PICK b : b = PullBatch(c, FloorOf(c))
      OBVIOUS
    <3>3. b \in Batches /\ b.channel = c /\ Complete(b)
      BY <1>0, <3>1, <3>2, PullIsComplete DEF DiscordTypes, StoreTypes
    <3>4. Complete(b)' /\ batch' = b
      BY <2>3, <3>1, <3>2, <3>3, CompleteStep
    <3>5. Complete(batch)'
      BY <3>4
    <3> QED
      BY <1>1, <1>3, <2>1, <2>3, <3>5 DEF CoverInv
  <2>4. CASE batch' = NoBatch
    <3>1. Complete(batch)' /\ batch'.interval = {}
      BY <2>4, NoBatchIsEmpty DEF Complete
    <3> QED
      BY <1>1, <1>3, <2>1, <3>1 DEF CoverInv
  <2> QED
    BY <2>2, <2>3, <2>4
<1>14. CASE Commit
  <2>1. batch.channel \in Channels /\ reader' = reader /\ Complete(batch)
        /\ batch'.interval = {}
    BY <1>0, <1>14, NoBatchIsEmpty DEF Commit, StoreTypes, CoverInv
  <2>2. Complete(batch)'
    BY <2>1 DEF Complete
  <2>3. (\A c \in Channels : \A v \in cover'[c] : v[2] <= sent'[c]) /\ CoveredIsStored'
    <3>1. CASE UNCHANGED <<stored, cover>>
      BY <1>1, <3>1
    <3>2. CASE /\ stored' = stored \cup batch.messages
               /\ cover' = [cover EXCEPT ![batch.channel] = @ \cup batch.interval]
      BY <1>0, <2>1, <3>2, CommitStep
    <3> QED
      BY <1>14, <3>1, <3>2 DEF Commit
  <2> QED
    BY <1>3, <2>1, <2>2, <2>3 DEF CoverInv
<1>15. CASE UNCHANGED vars
  BY <1>4, <1>15 DEF vars
<1> QED
  BY <1>5, <1>6, <1>7, <1>8, <1>9, <1>10, <1>11, <1>12, <1>13, <1>14, <1>15
     DEF Next, Environment, Work

LEMMA CoverInit == Init => CoverInv
BY NoBatchIsEmpty DEF Init, CoverInv, CoveredIsStored, Complete

(* What a coverage interval says was read is stored as long as Discord has *)
(* it, whoever pulled it, and whatever was sent, deleted, lost or stopped  *)
(* between the fetch and the commit.                                       *)
THEOREM CoverageIsTrue == Spec => []CoveredIsStored
<1>1. CoverInv => CoveredIsStored
  BY DEF CoverInv
<1> QED
  BY <1>1, TypeInit, TypeStep, CoverInit, CoverStep, PTL DEF Spec

-----------------------------------------------------------------------------
(* Where channels begin. *)

(* f is no earlier than where channel c may begin. *)
Begun(c, f) ==
    \/ c \in Guilds /\ base[c] # None /\ base[c] <= f
    \/ \E h \in heard : h[1] = c /\ h[2] <= f + 1

(* The message is none of its channel's history. *)
Allowed(m) ==
    \/ m[1] \in Guilds /\ base[m[1]] # None /\ m[2] > base[m[1]]
    \/ \E h \in heard : h[1] = m[1] /\ h[2] <= m[2]

(* A start never begins a channel before it was first configured. *)
BaseInv ==
    /\ \A c \in Guilds : base[c] # None => base[c] <= sent[c]
    /\ \A c \in configured : base[c] # None /\ base[c] <= startFloor[c]

FloorsInv ==
    /\ \A k \in Kinds, c \in Channels :
          floors[k][c] # None => Begun(c, floors[k][c])
    /\ \A c \in Guilds : floors["dms"][c] = None

(* New is what was heard as new: in hand, kept, or listed to be fetched.   *)
(* A live message of a DM is only taken for heard while DMs are served.    *)
NewInv ==
    /\ \A m \in unstored \cup retrying : m[3] => <<m[1], m[2]>> \in heard
    /\ pc \in Handling =>
          /\ task.new => task.channel \in Dms
          /\ task.created => task.live /\ (task.channel \in Dms => task.new)
          /\ task.new /\ (dms \/ ~task.live \/ pc # "floor")
               => <<task.channel, task.id>> \in heard

TakenInv ==
    /\ pc = "observe" => task.floor # None /\ task.id > task.floor
                         /\ Begun(task.channel, task.floor)
    /\ \A m \in batch.messages \cup taken : Allowed(m)

(* HistoryStaysOut is what a store must show; that no step breaks it rests *)
(* on the floors, which rest on what was configured and heard before.      *)
FloorInv == BaseInv /\ FloorsInv /\ NewInv /\ TakenInv

(* Where a channel begins is never forgotten, nor what was heard. *)
LEMMA HistoryStep ==
  ASSUME TInv, [Next]_vars
  PROVE  /\ heard \subseteq heard'
         /\ \A c \in Guilds : base[c] # None => base'[c] = base[c]
<1> USE DEF discord, store, directory, config, backfill, environment, counters,
            history
<1>1. CASE Start
  BY <1>1 DEF Start, TInv, FloorTypes
<1>2. CASE TakeMessage
  BY <1>2 DEF TakeMessage
<1>3. CASE UNCHANGED vars \/ Crash \/ Panic \/ Ready \/ Resume
  BY <1>3 DEF vars, Crash, Panic, Ready, Resume
<1>4. CASE Environment
  BY <1>4 DEF Environment, Send, ReadFetch, Edit, Delete, ReadEnd, Lose, Refuse
<1>5. CASE FindFloor \/ Observe \/ Keep \/ Unkeep \/ TakeAccount \/ TakeNoMessages
  BY <1>5 DEF FindFloor, Observe, Keep, Unkeep, TakeAccount, TakeNoMessages
<1>6. CASE StartBackfill \/ ListKept \/ NextKept \/ ListChannels \/ Fetch \/ Commit
           \/ EndBackfill
  BY <1>6 DEF StartBackfill, ListKept, NextKept, ListChannels, Fetch, Commit,
              EndBackfill
<1> QED
  BY <1>1, <1>2, <1>3, <1>4, <1>5, <1>6 DEF Next, Work

LEMMA BegunStep ==
  ASSUME TInv, [Next]_vars, NEW c, NEW f, Begun(c, f)
  PROVE  Begun(c, f)'
BY HistoryStep DEF Begun

LEMMA AllowedStep ==
  ASSUME TInv, [Next]_vars, NEW m, Allowed(m)
  PROVE  Allowed(m)'
BY HistoryStep DEF Allowed

(* What lies above where a channel begins is none of its history. *)
LEMMA AboveIsAllowed ==
  ASSUME TInv, NEW c \in Channels, NEW f \in 0 .. MaxId, Begun(c, f),
         NEW i \in Ids, i > f
  PROVE  Allowed(<<c, i>>)
<1>1. i \in Nat /\ f \in Nat /\ f + 1 <= i
  BY MaxIdBounds DEF Ids
<1>2. ASSUME c \in Guilds, base[c] # None, base[c] <= f PROVE Allowed(<<c, i>>)
  BY <1>1, <1>2, MaxIdBounds DEF Allowed, TInv, FloorTypes
<1>3. ASSUME NEW h \in heard, h[1] = c, h[2] <= f + 1 PROVE Allowed(<<c, i>>)
  BY <1>1, <1>3, MaxIdBounds DEF Allowed, TInv, FloorTypes, Ids
<1> QED
  BY <1>2, <1>3 DEF Begun

LEMMA ConfiguredIsBegun ==
  ASSUME TInv, FloorInv, NEW c \in configured
  PROVE  c \in Channels /\ c \in Guilds /\ ConfiguredFloor(c) \in 0 .. MaxId
         /\ Begun(c, ConfiguredFloor(c))
<1>1. c \in Channels /\ c \in Guilds /\ base[c] # None /\ base[c] <= startFloor[c]
  BY DEF TInv, FloorTypes, Channels, FloorInv, BaseInv
<1>2. CASE floors["channels"][c] = None
  BY <1>1, <1>2 DEF ConfiguredFloor, Begun, TInv, FloorTypes
<1>3. CASE floors["channels"][c] # None
  BY <1>1, <1>3 DEF ConfiguredFloor, FloorInv, FloorsInv, Kinds, TInv, FloorTypes
<1> QED
  BY <1>1, <1>2, <1>3

LEMMA BaseStep == TInv /\ BaseInv /\ [Next]_vars => BaseInv'
<1> SUFFICES ASSUME TInv, BaseInv, [Next]_vars PROVE BaseInv'
  OBVIOUS
<1> USE DEF discord, store, directory, config, backfill, environment, counters,
            history
<1>0. /\ configured \subseteq Guilds /\ Guilds \subseteq Channels
      /\ base \in [Guilds -> (0 .. MaxId) \cup {None}]
      /\ sent \in [Channels -> 0 .. MaxId] /\ startFloor \in [Channels -> 0 .. MaxId]
      /\ sent' \in [Channels -> 0 .. MaxId]
  BY TypeStep DEF TInv, DiscordTypes, FloorTypes, Channels
<1>1. ASSUME UNCHANGED base, configured' = {} \/ UNCHANGED <<configured, startFloor>>
      PROVE  BaseInv'
  <2>1. \A c \in Guilds : sent[c] <= sent'[c] /\ sent[c] \in Nat /\ sent'[c] \in Nat
    BY <1>0, ExistingStep
  <2> QED
    BY <1>0, <1>1, <2>1, MaxIdBounds DEF BaseInv
<1>2. CASE Start
  BY <1>0, <1>2, MaxIdBounds, IntakeAssumption DEF Start, BaseInv
<1>3. CASE UNCHANGED vars \/ Crash \/ Panic \/ Ready \/ Resume
  BY <1>1, <1>3 DEF vars, Crash, Panic, Ready, Resume
<1>4. CASE Environment
  BY <1>1, <1>4 DEF Environment, Send, ReadFetch, Edit, Delete, ReadEnd, Lose, Refuse
<1>5. CASE FindFloor \/ Observe \/ Keep \/ Unkeep \/ TakeMessage \/ TakeAccount
           \/ TakeNoMessages
  BY <1>1, <1>5 DEF FindFloor, Observe, Keep, Unkeep, TakeMessage, TakeAccount,
                    TakeNoMessages
<1>6. CASE StartBackfill \/ ListKept \/ NextKept \/ ListChannels \/ Fetch \/ Commit
           \/ EndBackfill
  BY <1>1, <1>6 DEF StartBackfill, ListKept, NextKept, ListChannels, Fetch, Commit,
                    EndBackfill
<1> QED
  BY <1>2, <1>3, <1>4, <1>5, <1>6 DEF Next, Work

(* What FindFloor finds for the message in hand. *)
First == IF task.created \/ task.new THEN task.id - 1 ELSE None
Found == FloorFor(task.channel, ~task.live \/ task.channel \in Dms, First)

LEMMA FoundTypes ==
  ASSUME TInv, pc = "floor"
  PROVE  /\ task \in Tasks /\ First \in (0 .. MaxId) \cup {None}
         /\ Found.floor \in (0 .. MaxId) \cup {None}
         /\ Found.floors \in [Kinds -> [Channels -> (0 .. MaxId) \cup {None}]]
<1>1. task \in Tasks /\ task.channel \in Channels /\ FloorTypes
  BY DEF TInv, Phases, Handling, Tasks
<1>2. First \in (0 .. MaxId) \cup {None}
  BY <1>1, MaxIdBounds DEF Tasks, Ids, First
<1>3. PICK dm \in BOOLEAN : dm = (~task.live \/ task.channel \in Dms)
  OBVIOUS
<1>4. Found = FloorFor(task.channel, dm, First)
  BY <1>3 DEF Found
<1> QED
  BY <1>1, <1>2, <1>4, FoundFloor

(* It lowers the floor of a DM channel only, to a message heard as new. *)
LEMMA LoweredIsHeard ==
  ASSUME TInv, NewInv, pc = "floor", dms, ~task.live \/ task.channel \in Dms,
         First # None
  PROVE  /\ task.new /\ task.channel \in Dms
         /\ <<task.channel, task.id>> \in heard /\ First = task.id - 1
BY DEF NewInv, Handling, First

LEMMA FoundIsBegun ==
  ASSUME TInv, FloorInv, pc = "floor"
  PROVE  /\ Found.floor # None => Begun(task.channel, Found.floor)
         /\ \A k \in Kinds, c \in Channels :
               Found.floors[k][c] # None => Begun(c, Found.floors[k][c])
         /\ \A c \in Guilds : Found.floors["dms"][c] = None
<1> DEFINE t == task.channel
           dm == ~task.live \/ t \in Dms
<1>0. /\ t \in Channels /\ task.id \in Ids /\ Guilds \subseteq Channels
      /\ floors \in [Kinds -> [Channels -> (0 .. MaxId) \cup {None}]]
  BY FoundTypes DEF TInv, FloorTypes, Tasks, Channels
<1>1. /\ \A k \in Kinds, c \in Channels : floors[k][c] # None => Begun(c, floors[k][c])
      /\ \A c \in Guilds : floors["dms"][c] = None
  BY DEF FloorInv, FloorsInv
<1>2. CASE t \in configured
  <2>1. /\ Found.floor = ConfiguredFloor(t)
        /\ Found.floors = [floors EXCEPT !["channels"][t] = ConfiguredFloor(t)]
    BY <1>2 DEF Found, FloorFor
  <2>2. Begun(t, ConfiguredFloor(t))
    BY <1>2, ConfiguredIsBegun
  <2>3. \A k \in Kinds, c \in Channels :
           Found.floors[k][c] = IF k = "channels" /\ c = t THEN ConfiguredFloor(t)
                                ELSE floors[k][c]
    BY <1>0, <2>1
  <2> QED
    BY <1>0, <1>1, <2>1, <2>2, <2>3 DEF Kinds
<1>3. CASE t \notin configured /\ dms /\ dm /\ Lower(t, First)
  <2>1. Found.floor = First /\ Found.floors = [floors EXCEPT !["dms"][t] = First]
    BY <1>3 DEF Found, FloorFor
  <2>2. First # None
    BY <1>3 DEF Lower
  <2>3. t \in Dms /\ <<t, task.id>> \in heard /\ First = task.id - 1
    BY <1>3, <2>2, LoweredIsHeard DEF FloorInv
  <2>4. Begun(t, First)
    BY <1>0, <2>3, MaxIdBounds DEF Begun, Ids
  <2>5. \A k \in Kinds, c \in Channels :
           Found.floors[k][c] = IF k = "dms" /\ c = t THEN First ELSE floors[k][c]
    BY <1>0, <2>1
  <2>6. t \notin Guilds
    BY <2>3, IntakeAssumption
  <2>7. \A k \in Kinds, c \in Channels :
           Found.floors[k][c] # None => Begun(c, Found.floors[k][c])
    BY <1>1, <2>4, <2>5
  <2>8. \A c \in Guilds : Found.floors["dms"][c] = None
    BY <1>0, <1>1, <2>5, <2>6 DEF Kinds
  <2> QED
    BY <2>1, <2>4, <2>7, <2>8
<1>4. CASE ~ (t \in configured) /\ ~ (t \notin configured /\ dms /\ dm /\ Lower(t, First))
  <2>1. Found.floor \in {floors["dms"][t], None} /\ Found.floors = floors
    BY <1>4 DEF Found, FloorFor
  <2> QED
    BY <1>0, <1>1, <2>1 DEF Kinds
<1> QED
  BY <1>2, <1>3, <1>4

(* What FindFloor does, step by step. *)
LEMMA FindFloorStep ==
  ASSUME FindFloor
  PROVE  /\ pc = "floor"
         /\ \/ /\ floors' = Found.floors /\ Found.floor # None
               /\ task.id > Found.floor
               /\ task' = [task EXCEPT !.floor = Found.floor]
               /\ pc' = "observe" /\ UNCHANGED <<due, behind, excused, failures>>
            \/ /\ floors' = Found.floors
               /\ Found.floor = None \/ ~ (task.id > Found.floor)
               /\ \/ task.live /\ Finish("ignored")
                  \/ ~task.live /\ pc' = "unkeep" /\ UNCHANGED <<task, due, behind>>
               /\ excused' = excused \cup Torn
                               \cup (IF Found.floor = None THEN InHand ELSE {})
            \/ /\ task.channel \in configured \/ dms
               /\ UNCHANGED <<floors, excused>>
               /\ \/ task.live /\ pc' = "keep" /\ UNCHANGED <<task, due, behind>>
                  \/ ~task.live /\ Finish("failed")
         /\ UNCHANGED <<discord, store, unstored, inbox, config, account,
                        retrying, pulling, pulls, batch, environment, starts,
                        losses, base, heard, taken, overlooked>>
<1>1. PICK found : found = Found
  OBVIOUS
<1>3. PICK above \in BOOLEAN : above = (found.floor # None /\ task.id > found.floor)
  OBVIOUS
<1>2. /\ pc = "floor"
      /\ \/ /\ floors' = found.floors
            /\ IF above
               THEN /\ task' = [task EXCEPT !.floor = found.floor]
                    /\ pc' = "observe" /\ UNCHANGED <<due, behind>>
               ELSE IF task.live THEN Finish("ignored")
               ELSE pc' = "unkeep" /\ UNCHANGED <<task, due, behind>>
            /\ excused' = excused \cup (IF above THEN {} ELSE Torn)
                            \cup (IF found.floor = None THEN InHand ELSE {})
            /\ UNCHANGED failures
         \/ /\ task.channel \in configured \/ dms
            /\ UNCHANGED <<floors, excused>>
            /\ IF task.live THEN /\ pc' = "keep"
                                 /\ UNCHANGED <<task, due, behind>>
                            ELSE Finish("failed")
      /\ UNCHANGED <<discord, store, unstored, inbox, config, account,
                     retrying, pulling, pulls, batch, environment, starts,
                     losses, base, heard, taken, overlooked>>
  BY <1>1, <1>3 DEF FindFloor, Found, First
<1>4. CASE above = TRUE
  BY <1>1, <1>2, <1>3, <1>4
<1>5. CASE above = FALSE
  BY <1>1, <1>2, <1>3, <1>5
<1> QED
  BY <1>4, <1>5

LEMMA FloorsStep == TInv /\ FloorInv /\ [Next]_vars => FloorsInv'
<1> SUFFICES ASSUME TInv, FloorInv, [Next]_vars PROVE FloorsInv'
  OBVIOUS
<1> USE DEF discord, store, directory, config, backfill, environment, counters,
            history
<1>0. /\ FloorsInv /\ FloorTypes /\ configured \in SUBSET Channels
      /\ Guilds \subseteq Channels
      /\ floors \in [Kinds -> [Channels -> (0 .. MaxId) \cup {None}]]
  BY DEF TInv, FloorInv, FloorTypes, Channels
<1>1. ASSUME NEW F \in [Kinds -> [Channels -> (0 .. MaxId) \cup {None}]], floors' = F,
             \A k \in Kinds, c \in Channels : F[k][c] # None => Begun(c, F[k][c]),
             \A c \in Guilds : F["dms"][c] = None
      PROVE  FloorsInv'
  <2>1. \A k \in Kinds, c \in Channels : F[k][c] # None => Begun(c, F[k][c])'
    BY <1>1, BegunStep
  <2> QED
    BY <1>1, <2>1 DEF FloorsInv
<1>2. ASSUME UNCHANGED floors PROVE FloorsInv'
  BY <1>0, <1>1, <1>2 DEF FloorsInv
<1>3. CASE FindFloor
  <2>1. pc = "floor" /\ floors' \in {floors, Found.floors}
    BY <1>3, FindFloorStep
  <2>2. PICK F : F = Found.floors
    OBVIOUS
  <2>3. /\ F \in [Kinds -> [Channels -> (0 .. MaxId) \cup {None}]]
        /\ \A k \in Kinds, c \in Channels : F[k][c] # None => Begun(c, F[k][c])
        /\ \A c \in Guilds : F["dms"][c] = None
    BY <2>1, <2>2, FoundTypes, FoundIsBegun
  <2> QED
    BY <1>1, <1>2, <2>1, <2>2, <2>3
<1>4. ASSUME NEW C \in SUBSET configured, KeepFloors(C) PROVE FloorsInv'
  <2>1. /\ floors' \in [Kinds -> [Channels -> (0 .. MaxId) \cup {None}]]
        /\ floors'["dms"] = floors["dms"]
        /\ \A c \in Channels :
              floors'["channels"][c] = IF c \in C THEN ConfiguredFloor(c)
                                       ELSE floors["channels"][c]
    BY <1>0, <1>4, KeptFloors
  <2>2. PICK F : F = floors'
    OBVIOUS
  <2>3. \A k \in Kinds, c \in Channels : F[k][c] # None => Begun(c, F[k][c])
    <3>1. ASSUME NEW c \in C PROVE Begun(c, ConfiguredFloor(c))
      BY ConfiguredIsBegun
    <3> QED
      BY <1>0, <2>1, <2>2, <3>1 DEF FloorsInv, Kinds
  <2>4. \A c \in Guilds : F["dms"][c] = None
    BY <1>0, <2>1, <2>2 DEF FloorsInv
  <2> QED
    BY <1>1, <2>1, <2>2, <2>3, <2>4
<1>5. CASE StartBackfill
  BY <1>2, <1>4, <1>5 DEF StartBackfill
<1>6. CASE ListChannels
  <2>1. \/ UNCHANGED floors
        \/ \E C \in SUBSET configured : KeepFloors(C)
    BY <1>6 DEF ListChannels
  <2> QED
    BY <1>2, <1>4, <2>1
<1>7. CASE UNCHANGED vars \/ Start \/ Crash \/ Panic \/ Ready \/ Resume
  BY <1>2, <1>7 DEF vars, Start, Crash, Panic, Ready, Resume
<1>8. CASE Environment
  BY <1>2, <1>8 DEF Environment, Send, ReadFetch, Edit, Delete, ReadEnd, Lose, Refuse
<1>9. CASE Observe \/ Keep \/ Unkeep \/ TakeMessage \/ TakeAccount \/ TakeNoMessages
  BY <1>2, <1>9 DEF Observe, Keep, Unkeep, TakeMessage, TakeAccount, TakeNoMessages
<1>10. CASE ListKept \/ NextKept \/ Fetch \/ Commit \/ EndBackfill
  BY <1>2, <1>10 DEF ListKept, NextKept, Fetch, Commit, EndBackfill
<1> QED
  BY <1>3, <1>5, <1>6, <1>7, <1>8, <1>9, <1>10 DEF Next, Work

(* Without the DM channels served, a DM's live message has no floor. *)
LEMMA NoFloorWithoutDms ==
  ASSUME TInv, NewInv, pc = "floor", task.new, ~dms
  PROVE  task.channel \notin configured /\ Found.floor = None
<1>1. task.channel \notin configured
  BY IntakeAssumption DEF TInv, FloorTypes, NewInv, Handling
<1> QED
  BY <1>1 DEF Found, FloorFor

LEMMA NewStep == TInv /\ FloorInv /\ [Next]_vars => NewInv'
<1> SUFFICES ASSUME TInv, FloorInv, [Next]_vars PROVE NewInv'
  OBVIOUS
<1> USE DEF discord, store, directory, config, backfill, environment, counters,
            history
<1>0. /\ NewInv /\ FloorTypes /\ DiscordTypes /\ Phases
      /\ heard \subseteq heard'
  BY HistoryStep DEF TInv, FloorInv
<1>1. ASSUME unstored' \cup retrying' \subseteq unstored \cup retrying
      PROVE  \A m \in unstored' \cup retrying' : m[3] => <<m[1], m[2]>> \in heard'
  BY <1>0, <1>1 DEF NewInv
<1>2. ASSUME unstored' \cup retrying' \subseteq unstored \cup retrying, pc' \notin Handling
      PROVE  NewInv'
  BY <1>1, <1>2 DEF NewInv, Handling
<1>3. ASSUME unstored' \cup retrying' \subseteq unstored \cup retrying, pc \in Handling,
             task' = task \/ task' = [task EXCEPT !.floor = task'.floor],
             \/ UNCHANGED <<pc, dms>>
             \/ task.new => <<task.channel, task.id>> \in heard
      PROVE  NewInv'
  <2>1. task \in Tasks
    BY <1>0, <1>3 DEF Phases
  <2>2. /\ task'.new = task.new /\ task'.channel = task.channel /\ task'.id = task.id
        /\ task'.created = task.created /\ task'.live = task.live
    BY <1>3, <2>1 DEF Tasks
  <2> QED
    BY <1>0, <1>1, <1>3, <2>2 DEF NewInv
<1>4. CASE TakeMessage
  <2>1. Head(inbox) \in Works
    BY <1>0, <1>4 DEF TakeMessage, DiscordTypes
  <2>2. PICK m \in Works, created \in BOOLEAN, new \in BOOLEAN :
           /\ created = (m.kind = "Message") /\ new = (created /\ m.channel \in Dms)
           /\ task' = [channel |-> m.channel, id |-> m.id, created |-> created,
                       new |-> new, live |-> TRUE, floor |-> None]
           /\ heard' = IF new /\ dms THEN heard \cup {<<m.channel, m.id>>} ELSE heard
    <3> DEFINE m == Head(inbox)
               created == m.kind = "Message"
    <3>1. created \in BOOLEAN /\ (created /\ m.channel \in Dms) \in BOOLEAN
      OBVIOUS
    <3> WITNESS m \in Works, created \in BOOLEAN, (created /\ m.channel \in Dms) \in BOOLEAN
    <3> QED
      BY <1>4 DEF TakeMessage
  <2>3. pc' = "floor" /\ UNCHANGED <<unstored, retrying, dms>>
    BY <1>4 DEF TakeMessage
  <2>4. \A k \in unstored' \cup retrying' : k[3] => <<k[1], k[2]>> \in heard'
    BY <1>1, <2>3
  <2>5. /\ task'.new => task'.channel \in Dms
        /\ task'.created => task'.live /\ (task'.channel \in Dms => task'.new)
        /\ task'.new /\ (dms' \/ ~task'.live \/ pc' # "floor")
             => <<task'.channel, task'.id>> \in heard'
    BY <2>2, <2>3
  <2> QED
    BY <2>3, <2>4, <2>5 DEF NewInv
<1>5. CASE FindFloor
  <2>1. pc = "floor" /\ pc \in Handling /\ UNCHANGED <<unstored, retrying, dms>>
    BY <1>5, FindFloorStep DEF Handling
  <2>2. CASE pc' \notin Handling
    BY <1>2, <2>1, <2>2
  <2>3. CASE pc' \in Handling
    <3>1. task' = task \/ task' = [task EXCEPT !.floor = task'.floor]
      <4>1. task \in Tasks
        BY <2>1, FoundTypes
      <4>2. task' = task \/ task' = [task EXCEPT !.floor = Found.floor] \/ pc' \in {"idle", "retry"}
        BY <1>5, FindFloorStep DEF Finish
      <4> QED
        BY <2>3, <4>1, <4>2 DEF Tasks, Handling
    <3>2. \/ Found.floor # None \/ task.channel \in configured \/ dms \/ ~task.live
      BY <1>5, <2>3, FindFloorStep DEF Finish, Handling
    <3>3. task.new => dms \/ ~task.live
      BY <1>0, <2>1, <3>2, NoFloorWithoutDms
    <3>4. task.new => <<task.channel, task.id>> \in heard
      BY <1>0, <2>1, <3>3 DEF NewInv
    <3> QED
      BY <1>3, <2>1, <3>1, <3>4
  <2> QED
    BY <2>2, <2>3
<1>6. CASE Observe \/ Keep \/ Unkeep
  <2>1. pc \in Handling /\ pc # "floor" /\ task \in Tasks
    BY <1>0, <1>6 DEF Observe, Keep, Unkeep, Handling, Phases
  <2>2. task.new => <<task.channel, task.id>> \in heard
    BY <1>0, <2>1 DEF NewInv
  <2>3. /\ retrying' = retrying
        /\ \/ unstored' \subseteq unstored
           \/ unstored' = unstored \cup {<<task.channel, task.id, task.new>>}
        /\ \/ pc' \notin Handling
           \/ task' = task /\ unstored' = unstored
    BY <1>6 DEF Observe, Keep, Unkeep, Finish, Handling
  <2>4. \A m \in unstored' \cup retrying' : m[3] => <<m[1], m[2]>> \in heard'
    BY <1>0, <2>2, <2>3 DEF NewInv
  <2>5. CASE pc' \notin Handling
    BY <2>4, <2>5 DEF NewInv
  <2>6. CASE task' = task /\ unstored' = unstored
    BY <1>3, <2>1, <2>2, <2>3, <2>6
  <2> QED
    BY <2>3, <2>5, <2>6
<1>7. CASE NextKept
  <2>1. PICK k \in retrying :
          /\ task' = [channel |-> k[1], id |-> k[2], created |-> FALSE,
                      new |-> \E m \in {m \in retrying : m[1] = k[1] /\ m[2] = k[2]} : m[3],
                      live |-> FALSE, floor |-> None]
          /\ retrying' \subseteq retrying
    BY <1>7 DEF NextKept
  <2>2. PICK new \in BOOLEAN :
          new = \E m \in {m \in retrying : m[1] = k[1] /\ m[2] = k[2]} : m[3]
    OBVIOUS
  <2>3. task' = [channel |-> k[1], id |-> k[2], created |-> FALSE, new |-> new,
                 live |-> FALSE, floor |-> None]
    BY <2>1, <2>2
  <2>4. new => <<k[1], k[2]>> \in heard
    BY <1>0, <2>2 DEF NewInv
  <2>5. <<k[1], k[2]>> \in heard => k[1] \in Dms
    BY <1>0 DEF FloorTypes
  <2>6. pc' = "floor" /\ unstored' = unstored /\ heard' = heard
    BY <1>7 DEF NextKept
  <2>7. \A m \in unstored' \cup retrying' : m[3] => <<m[1], m[2]>> \in heard'
    BY <1>1, <2>1, <2>6
  <2> QED
    BY <2>3, <2>4, <2>5, <2>6, <2>7 DEF NewInv
<1>8. CASE UNCHANGED vars \/ Ready \/ Resume \/ Environment
  <2>1. UNCHANGED <<pc, task, unstored, retrying, dms>>
    BY <1>8 DEF vars, Ready, Resume, Environment, Send, ReadFetch, Edit, Delete,
                ReadEnd, Lose, Refuse
  <2> QED
    BY <1>2, <1>3, <2>1
<1>9. CASE Start \/ Crash \/ Panic
  BY <1>2, <1>9 DEF Start, Crash, Panic, Handling
<1>10. CASE TakeAccount \/ TakeNoMessages \/ StartBackfill \/ ListKept \/ ListChannels
  BY <1>2, <1>10 DEF TakeAccount, TakeNoMessages, StartBackfill, ListKept, ListChannels,
                     Handling
<1>11. CASE Fetch \/ Commit \/ EndBackfill
  BY <1>2, <1>11 DEF Fetch, Commit, EndBackfill, Handling
<1> QED
  BY <1>4, <1>5, <1>6, <1>7, <1>8, <1>9, <1>10, <1>11 DEF Next, Work

LEMMA TakenStep == TInv /\ FloorInv /\ [Next]_vars => TakenInv'
<1> SUFFICES ASSUME TInv, FloorInv, [Next]_vars PROVE TakenInv'
  OBVIOUS
<1> USE DEF discord, store, directory, config, backfill, environment, counters,
            history
<1>0. /\ TakenInv /\ FloorTypes /\ DiscordTypes /\ Phases /\ StoreTypes
      /\ FloorsInv
  BY DEF TInv, FloorInv
<1>1. ASSUME NEW M, \A m \in M : Allowed(m), batch'.messages \cup taken' \subseteq M
      PROVE  \A m \in batch'.messages \cup taken' : Allowed(m)'
  BY <1>1, AllowedStep
<1>2. ASSUME batch'.messages \cup taken' \subseteq batch.messages \cup taken,
             \/ pc' # "observe"
             \/ UNCHANGED <<pc, task>>
      PROVE  TakenInv'
  <2>1. \A m \in batch'.messages \cup taken' : Allowed(m)'
    BY <1>0, <1>1, <1>2 DEF TakenInv
  <2>2. ASSUME UNCHANGED <<pc, task>>, pc = "observe"
        PROVE  Begun(task.channel, task.floor)' /\ task.floor # None /\ task.id > task.floor
    <3>1. Begun(task.channel, task.floor) /\ task.floor # None /\ task.id > task.floor
      BY <1>0, <2>2 DEF TakenInv
    <3>2. PICK c, f : c = task.channel /\ f = task.floor
      OBVIOUS
    <3>3. Begun(c, f)'
      BY <3>1, <3>2, BegunStep
    <3>4. c = task'.channel /\ f = task'.floor
      BY <2>2, <3>2
    <3> QED
      BY <3>1, <3>3, <3>4
  <2> QED
    BY <1>2, <2>1, <2>2 DEF TakenInv
<1>3. CASE FindFloor
  <2>1. pc = "floor" /\ UNCHANGED <<batch, taken>> /\ task \in Tasks
    BY <1>3, FindFloorStep, FoundTypes
  <2>2. CASE pc' # "observe"
    BY <1>2, <2>1, <2>2
  <2>3. CASE pc' = "observe"
    <3>1. Found.floor # None /\ task.id > Found.floor
          /\ task' = [task EXCEPT !.floor = Found.floor]
      BY <1>3, <2>3, FindFloorStep DEF Finish
    <3>2. PICK c, f : c = task.channel /\ f = Found.floor
      OBVIOUS
    <3>3. Begun(c, f)
      BY <2>1, <3>1, <3>2, FoundIsBegun
    <3>4. Begun(c, f)'
      BY <3>3, BegunStep
    <3>5. task'.channel = c /\ task'.floor = f /\ task'.id = task.id
      BY <2>1, <3>1, <3>2 DEF Tasks
    <3>6. \A m \in batch'.messages \cup taken' : Allowed(m)'
      BY <1>0, <1>1, <2>1 DEF TakenInv
    <3> QED
      BY <3>1, <3>2, <3>4, <3>5, <3>6 DEF TakenInv
  <2> QED
    BY <2>2, <2>3
<1>4. CASE Observe
  <2>1. pc = "observe" /\ task \in Tasks
    BY <1>0, <1>4 DEF Observe, Phases, Handling
  <2>2. /\ task.channel \in Channels /\ task.id \in Ids /\ task.floor \in 0 .. MaxId
        /\ task.id > task.floor /\ Begun(task.channel, task.floor)
    BY <1>0, <2>1 DEF TakenInv, Tasks
  <2>3. Allowed(<<task.channel, task.id>>)
    BY <2>2, AboveIsAllowed
  <2>4. pc' # "observe" /\ batch' = batch
        /\ taken' \subseteq taken \cup {<<task.channel, task.id>>}
    BY <1>4 DEF Observe, Finish
  <2>5. \A m \in batch'.messages \cup taken' : Allowed(m)'
    <3>1. PICK M : M = batch.messages \cup taken \cup {<<task.channel, task.id>>}
      OBVIOUS
    <3>2. \A m \in M : Allowed(m)
      BY <1>0, <2>3, <3>1 DEF TakenInv
    <3> QED
      BY <1>1, <2>4, <3>1, <3>2
  <2> QED
    BY <2>4, <2>5 DEF TakenInv
<1>5. CASE Fetch
  <2>1. PICK c \in pulling : batch' = PullBatch(c, FloorOf(c)) \/ batch' = NoBatch
    BY <1>5 DEF Fetch
  <2>2. taken' = taken /\ pc' # "observe"
    BY <1>5 DEF Fetch
  <2>3. CASE batch' = PullBatch(c, FloorOf(c))
    <3>1. c \in Channels /\ FloorOf(c) \in 0 .. MaxId
      BY PulledFloor
    <3>2. PICK b : b = PullBatch(c, FloorOf(c))
      OBVIOUS
    <3>8. PICK f \in 0 .. MaxId : f = FloorOf(c)
      BY <3>1
    <3>3. \A m \in b.messages : m[1] = c /\ m[2] \in Ids /\ m[2] > f
      BY <1>0, <3>1, <3>2, <3>8, PullIsComplete DEF DiscordTypes, StoreTypes
    <3>4. b.messages \subseteq Messages
      BY <1>0, <3>1, <3>2, <3>8, PullIsComplete DEF DiscordTypes, StoreTypes, Batches
    <3>5. Begun(c, f)
      <4>1. f # None
        BY <3>8, MaxIdBounds, IntakeAssumption
      <4>2. CASE c \in configured
        BY <1>0, <3>1, <3>8, <4>1, <4>2 DEF FloorOf, FloorsInv, Kinds
      <4>3. CASE c \notin configured
        BY <1>0, <3>1, <3>8, <4>1, <4>3 DEF FloorOf, FloorsInv, Kinds
      <4> QED
        BY <4>2, <4>3
    <3>6. \A m \in b.messages : Allowed(m)
      <4>1. ASSUME NEW m \in b.messages PROVE Allowed(m)
        <5>1. Allowed(<<c, m[2]>>)
          BY <3>1, <3>3, <3>5, <4>1, AboveIsAllowed
        <5>2. m = <<c, m[2]>>
          BY <3>3, <3>4, <4>1 DEF Messages
        <5> QED
          BY <5>1, <5>2
      <4> QED
        BY <4>1
    <3>7. \A m \in batch'.messages \cup taken' : Allowed(m)'
      <4>1. PICK M : M = b.messages \cup taken
        OBVIOUS
      <4>2. \A m \in M : Allowed(m)
        BY <1>0, <3>6, <4>1 DEF TakenInv
      <4> QED
        BY <1>1, <2>2, <2>3, <3>2, <4>1, <4>2
    <3> QED
      BY <2>2, <3>7 DEF TakenInv
  <2>4. CASE batch' = NoBatch
    BY <1>2, <2>2, <2>4, NoBatchIsEmpty
  <2> QED
    BY <2>1, <2>3, <2>4
<1>6. CASE Commit
  <2>1. batch.channel \in Channels
    BY <1>0, <1>6 DEF Commit, StoreTypes
  <2>2. batch'.messages = {} /\ taken' \subseteq taken \cup batch.messages
        /\ pc' # "observe"
    BY <1>6, <2>1, NoBatchIsEmpty DEF Commit
  <2> QED
    BY <1>2, <2>2
<1>7. CASE Start
  BY <1>2, <1>7 DEF Start
<1>8. CASE Crash \/ Panic
  BY <1>2, <1>8, NoBatchIsEmpty DEF Crash, Panic
<1>9. CASE UNCHANGED vars \/ Ready \/ Resume \/ Environment
  <2>1. UNCHANGED <<pc, task, batch, taken>>
    BY <1>9 DEF vars, Ready, Resume, Environment, Send, ReadFetch, Edit, Delete,
                ReadEnd, Lose, Refuse
  <2> QED
    BY <1>2, <2>1
<1>10. CASE Keep \/ Unkeep \/ TakeMessage \/ TakeAccount \/ TakeNoMessages
  BY <1>2, <1>10 DEF Keep, Unkeep, Finish, TakeMessage, TakeAccount, TakeNoMessages
<1>11. CASE StartBackfill \/ ListKept \/ NextKept \/ ListChannels \/ EndBackfill
  BY <1>2, <1>11 DEF StartBackfill, ListKept, NextKept, ListChannels, EndBackfill
<1> QED
  BY <1>3, <1>4, <1>5, <1>6, <1>7, <1>8, <1>9, <1>10, <1>11 DEF Next, Work

LEMMA FloorInit == Init => FloorInv
<1> SUFFICES ASSUME Init PROVE FloorInv
  OBVIOUS
<1>1. BaseInv /\ NewInv
  BY DEF Init, BaseInv, NewInv, Handling
<1>2. FloorsInv
  BY DEF Init, FloorsInv, Kinds, Channels
<1>3. TakenInv
  BY NoBatchIsEmpty DEF Init, TakenInv
<1> QED
  BY <1>1, <1>2, <1>3 DEF FloorInv

LEMMA FloorStep == TInv /\ FloorInv /\ [Next]_vars => FloorInv'
BY BaseStep, FloorsStep, NewStep, TakenStep DEF FloorInv

(* Intake never takes the history of a channel: a guild's messages from    *)
(* before it was first configured, a DM's from before the first one heard  *)
(* as new, across restarts, panics, kept messages and pulls, whatever was  *)
(* configured in between; and no guild channel begins as a DM channel.     *)
THEOREM HistoryStaysOutside == Spec => []HistoryStaysOut
<1>1. FloorInv => HistoryStaysOut
  BY DEF FloorInv, FloorsInv, TakenInv, Allowed, HistoryStaysOut
<1> QED
  BY <1>1, TypeInit, TypeStep, FloorInit, FloorStep, PTL DEF Spec

-----------------------------------------------------------------------------
(* What was heard as new. *)

(* The message is stored, or nothing is left to store, or it will be        *)
(* fetched again: by id as new, or above where its channel begins.          *)
Secured(m) ==
    \/ m \in stored \cup gone \cup excused
    \/ <<m[1], m[2], TRUE>> \in unstored
    \/ floors["dms"][m[1]] # None /\ floors["dms"][m[1]] < m[2]

(* What a backfill has still to fetch are markers, and the kept message in *)
(* hand is none of them; where it is new, its marker says so.              *)
MarkerInv ==
    /\ retrying \subseteq unstored
    /\ pc \in Handling /\ ~task.live =>
          /\ task.new => <<task.channel, task.id, TRUE>> \in unstored
          /\ \A new \in BOOLEAN : <<task.channel, task.id, new>> \notin retrying

(* Markers are removed for what is stored, deleted or excused, or for a    *)
(* kept message that no marker says is new.                                *)
UnkeepInv ==
    pc = "unkeep" => \/ <<task.channel, task.id>> \in stored \cup gone \cup excused
                     \/ ~task.live /\ <<task.channel, task.id, TRUE>> \notin unstored

SecuredInv == \A m \in heard : Secured(m) \/ m \in InHand

KeptInv == MarkerInv /\ UnkeepInv /\ SecuredInv

(* Where a DM channel begins only moves down, and what is stored, deleted  *)
(* or excused stays so.                                                    *)
LEMMA LowerFloors ==
  ASSUME FloorTypes, NEW c \in Channels, NEW dm \in BOOLEAN,
         NEW first \in (0 .. MaxId) \cup {None}, NEW x \in Channels,
         floors["dms"][x] # None
  PROVE  /\ FloorFor(c, dm, first).floors["dms"][x] # None
         /\ FloorFor(c, dm, first).floors["dms"][x] <= floors["dms"][x]
<1>6. PICK F : F = FloorFor(c, dm, first)
  OBVIOUS
<1>0. /\ floors \in [Kinds -> [Channels -> (0 .. MaxId) \cup {None}]]
      /\ "dms" \in Kinds /\ "channels" \in Kinds /\ floors["dms"][x] \in 0 .. MaxId
  BY DEF FloorTypes, Kinds
<1>1. \/ F.floors = [floors EXCEPT !["channels"][c] = ConfiguredFloor(c)]
      \/ Lower(c, first) /\ F.floors = [floors EXCEPT !["dms"][c] = first]
      \/ F.floors = floors
  BY <1>6 DEF FloorFor
<1>5. floors["dms"][x] # None /\ floors["dms"][x] <= floors["dms"][x]
  BY <1>0, MaxIdBounds
<1>2. ASSUME F.floors = [floors EXCEPT !["channels"][c] = ConfiguredFloor(c)]
      PROVE  F.floors["dms"][x] # None /\ F.floors["dms"][x] <= floors["dms"][x]
  <2>1. F.floors["dms"][x] = floors["dms"][x]
    BY <1>0, <1>2
  <2> QED
    BY <1>5, <2>1
<1>3. ASSUME Lower(c, first), F.floors = [floors EXCEPT !["dms"][c] = first]
      PROVE  F.floors["dms"][x] # None /\ F.floors["dms"][x] <= floors["dms"][x]
  <2>1. F.floors["dms"][x] = IF x = c THEN first ELSE floors["dms"][x]
    BY <1>0, <1>3
  <2>2. first \in 0 .. MaxId /\ (x = c => first < floors["dms"][x])
    BY <1>0, <1>3 DEF Lower
  <2>3. CASE x = c
    <3>1. first # None /\ first <= floors["dms"][x]
      BY <1>0, <2>2, <2>3, MaxIdBounds, IntakeAssumption
    <3> QED
      BY <2>1, <2>3, <3>1
  <2>4. CASE x # c
    BY <1>5, <2>1, <2>4
  <2> QED
    BY <2>3, <2>4
<1>4. ASSUME F.floors = floors
      PROVE  F.floors["dms"][x] # None /\ F.floors["dms"][x] <= floors["dms"][x]
  BY <1>4, <1>5
<1>7. F.floors["dms"][x] # None /\ F.floors["dms"][x] <= floors["dms"][x]
  BY <1>1, <1>2, <1>3, <1>4
<1> QED
  BY <1>6, <1>7

LEMMA DmFloorStep ==
  ASSUME TInv, [Next]_vars, NEW c \in Channels, floors["dms"][c] # None
  PROVE  floors'["dms"][c] # None /\ floors'["dms"][c] <= floors["dms"][c]
<1> USE DEF discord, store, directory, config, backfill, environment, counters,
            history
<1>0. FloorTypes /\ configured \in SUBSET Channels /\ floors["dms"][c] \in 0 .. MaxId
  BY DEF TInv, FloorTypes, Channels, Kinds
<1>1. ASSUME floors'["dms"] = floors["dms"]
      PROVE  floors'["dms"][c] # None /\ floors'["dms"][c] <= floors["dms"][c]
  BY <1>0, <1>1, MaxIdBounds
<1>2. CASE FindFloor
  <2>1. pc = "floor" /\ floors' \in {floors, Found.floors}
    BY <1>2, FindFloorStep
  <2>2. task.channel \in Channels /\ First \in (0 .. MaxId) \cup {None}
    BY <2>1, FoundTypes DEF Tasks
  <2>3. PICK dm \in BOOLEAN : dm = (~task.live \/ task.channel \in Dms)
    OBVIOUS
  <2>4. Found.floors["dms"][c] # None /\ Found.floors["dms"][c] <= floors["dms"][c]
    BY <1>0, <2>2, <2>3, LowerFloors DEF Found
  <2> QED
    BY <1>1, <2>1, <2>4
<1>3. CASE StartBackfill \/ ListChannels
  <2>1. \/ floors' = floors
        \/ \E C \in SUBSET configured : KeepFloors(C)
    BY <1>3 DEF StartBackfill, ListChannels
  <2> QED
    BY <1>0, <1>1, <2>1, KeptFloors
<1>4. CASE UNCHANGED vars \/ Start \/ Crash \/ Panic \/ Ready \/ Resume
  BY <1>1, <1>4 DEF vars, Start, Crash, Panic, Ready, Resume
<1>5. CASE Environment
  BY <1>1, <1>5 DEF Environment, Send, ReadFetch, Edit, Delete, ReadEnd, Lose, Refuse
<1>6. CASE Observe \/ Keep \/ Unkeep \/ TakeMessage \/ TakeAccount \/ TakeNoMessages
  BY <1>1, <1>6 DEF Observe, Keep, Unkeep, TakeMessage, TakeAccount, TakeNoMessages
<1>7. CASE ListKept \/ NextKept \/ Fetch \/ Commit \/ EndBackfill
  BY <1>1, <1>7 DEF ListKept, NextKept, Fetch, Commit, EndBackfill
<1> QED
  BY <1>2, <1>3, <1>4, <1>5, <1>6, <1>7 DEF Next, Work

LEMMA DoneStep ==
  ASSUME [Next]_vars
  PROVE  stored \subseteq stored' /\ gone \subseteq gone' /\ excused \subseteq excused'
<1> USE DEF discord, store, directory, config, backfill, environment, counters,
            history
<1>1. CASE UNCHANGED vars \/ Start \/ Crash \/ Panic \/ Ready \/ Resume
  BY <1>1 DEF vars, Start, Crash, Panic, Ready, Resume
<1>2. CASE Environment
  BY <1>2 DEF Environment, Send, ReadFetch, Edit, Delete, ReadEnd, Lose, Refuse
<1>3. CASE FindFloor \/ Observe \/ Keep \/ Unkeep \/ TakeMessage \/ TakeAccount
           \/ TakeNoMessages
  BY <1>3 DEF FindFloor, Observe, Keep, Unkeep, TakeMessage, TakeAccount, TakeNoMessages
<1>4. CASE StartBackfill \/ ListKept \/ NextKept \/ ListChannels \/ Fetch \/ Commit
           \/ EndBackfill
  BY <1>4 DEF StartBackfill, ListKept, NextKept, ListChannels, Fetch, Commit, EndBackfill
<1> QED
  BY <1>1, <1>2, <1>3, <1>4 DEF Next, Work

(* What is secured stays so while its marker does. *)
LEMMA SecuredStep ==
  ASSUME TInv, [Next]_vars, NEW m \in Messages, Secured(m),
         <<m[1], m[2], TRUE>> \in unstored' \/ <<m[1], m[2], TRUE>> \notin unstored
  PROVE  Secured(m)'
<1>0. m[1] \in Channels /\ m[2] \in Ids
  BY DEF Messages
<1>1. CASE m \in stored \cup gone \cup excused
  BY <1>1, DoneStep DEF Secured
<1>2. CASE <<m[1], m[2], TRUE>> \in unstored
  BY <1>2 DEF Secured
<1>3. CASE floors["dms"][m[1]] # None /\ floors["dms"][m[1]] < m[2]
  <2>1. floors'["dms"][m[1]] # None /\ floors'["dms"][m[1]] <= floors["dms"][m[1]]
    BY <1>0, <1>3, DmFloorStep
  <2>2. FloorTypes /\ FloorTypes'
    BY TypeStep DEF TInv
  <2>3. floors["dms"][m[1]] \in Nat /\ floors'["dms"][m[1]] \in Nat /\ m[2] \in Nat
    BY <1>0, <1>3, <2>1, <2>2, MaxIdBounds DEF FloorTypes, Kinds, Ids
  <2> QED
    BY <1>3, <2>1, <2>3 DEF Secured
<1> QED
  BY <1>1, <1>2, <1>3 DEF Secured

(* A new message in hand that has a floor lies above it. *)
LEMMA NewIsAbove ==
  ASSUME TInv, FloorInv, pc = "floor", task.new, Found.floor # None
  PROVE  task.id > Found.floor
<1> DEFINE t == task.channel
           dm == ~task.live \/ t \in Dms
<1>0. /\ FloorTypes /\ NewInv /\ t \in Dms /\ task.id \in Ids /\ t \in Channels
      /\ task.id \in Nat /\ First \in 0 .. MaxId /\ First = task.id - 1
  BY FoundTypes, MaxIdBounds DEF TInv, FloorInv, NewInv, Handling, First, Tasks, Ids
<1>1. t \notin configured
  BY <1>0, IntakeAssumption DEF FloorTypes
<1>2. CASE dms /\ dm /\ Lower(t, First)
  <2>1. Found.floor = First
    BY <1>1, <1>2 DEF Found, FloorFor
  <2> QED
    BY <1>0, <2>1
<1>3. CASE ~ (dms /\ dm /\ Lower(t, First))
  <2>1. Found.floor = IF dms /\ dm THEN floors["dms"][t] ELSE None
    BY <1>1, <1>3 DEF Found, FloorFor
  <2>2. Found.floor = floors["dms"][t] /\ dms /\ dm /\ ~Lower(t, First)
    BY <1>3, <2>1
  <2>3. floors["dms"][t] \in Nat /\ ~ (First < floors["dms"][t])
    BY <1>0, <2>2, MaxIdBounds, IntakeAssumption DEF Lower, FloorTypes, Kinds
  <2> QED
    BY <1>0, <2>2, <2>3
<1> QED
  BY <1>2, <1>3

LEMMA MarkerStep == TInv /\ FloorInv /\ KeptInv /\ [Next]_vars => MarkerInv'
<1> SUFFICES ASSUME TInv, FloorInv, KeptInv, [Next]_vars PROVE MarkerInv'
  OBVIOUS
<1> USE DEF discord, store, directory, config, backfill, environment, counters,
            history
<1>0. FloorTypes /\ Phases /\ MarkerInv
  BY DEF TInv, KeptInv
<1>1. ASSUME UNCHANGED unstored, retrying' \in {retrying, {}},
             \/ pc' \notin Handling
             \/ task'.live
             \/ pc \in Handling /\ task' = task
      PROVE  MarkerInv'
  BY <1>0, <1>1 DEF MarkerInv
<1>2. CASE TakeMessage
  <2>1. task'.live /\ UNCHANGED <<unstored, retrying>>
    BY <1>2 DEF TakeMessage
  <2> QED
    BY <1>1, <2>1
<1>3. CASE FindFloor
  <2>1. pc \in Handling /\ task \in Tasks /\ UNCHANGED <<unstored, retrying>>
    BY <1>3, FindFloorStep, FoundTypes DEF Handling
  <2>2. CASE pc' = "observe"
    <3>1. task' = [task EXCEPT !.floor = Found.floor]
      BY <1>3, <2>2, FindFloorStep DEF Finish
    <3>2. /\ task'.channel = task.channel /\ task'.id = task.id
          /\ task'.new = task.new /\ task'.live = task.live
      BY <2>1, <3>1 DEF Tasks
    <3> QED
      BY <1>0, <2>1, <3>2 DEF MarkerInv
  <2>3. CASE pc' # "observe"
    <3>1. pc' \notin Handling \/ task' = task
      BY <1>3, <2>3, FindFloorStep DEF Finish, Handling
    <3> QED
      BY <1>1, <2>1, <3>1
  <2> QED
    BY <2>2, <2>3
<1>4. CASE Observe
  <2>1. pc \in Handling /\ (pc' \notin Handling \/ task' = task)
        /\ UNCHANGED <<unstored, retrying>>
    BY <1>4 DEF Observe, Finish, Handling
  <2> QED
    BY <1>1, <2>1
<1>5. CASE Keep
  <2>1. /\ pc \in Handling /\ task \in Tasks /\ pc' \notin Handling
        /\ retrying' = retrying
        /\ unstored' \in {unstored, unstored \cup {<<task.channel, task.id, task.new>>}}
    BY <1>0, <1>5 DEF Keep, Finish, Handling, Phases
  <2>2. CASE task.live
    <3>1. retrying' = {}
      BY <1>0, <2>1, <2>2 DEF Phases
    <3> QED
      BY <2>1, <3>1 DEF MarkerInv
  <2>3. CASE ~task.live
    BY <1>0, <2>1, <2>3 DEF MarkerInv
  <2> QED
    BY <2>2, <2>3
<1>6. CASE Unkeep
  <2>1. /\ pc \in Handling /\ task \in Tasks /\ pc' \notin Handling
        /\ retrying' = retrying
        /\ unstored' \in {unstored, unstored \ {<<task.channel, task.id, new>> : new \in BOOLEAN}}
    BY <1>0, <1>6 DEF Unkeep, Finish, Handling, Phases
  <2>2. CASE task.live
    <3>1. retrying' = {}
      BY <1>0, <2>1, <2>2 DEF Phases
    <3> QED
      BY <2>1, <3>1 DEF MarkerInv
  <2>3. CASE ~task.live
    BY <1>0, <2>1, <2>3 DEF MarkerInv
  <2> QED
    BY <2>2, <2>3
<1>7. CASE ListKept
  BY <1>0, <1>1, <1>7 DEF ListKept, MarkerInv, Handling
<1>8. CASE NextKept
  <2>1. PICK k \in retrying :
          /\ task' = [channel |-> k[1], id |-> k[2], created |-> FALSE,
                      new |-> \E m \in {m \in retrying : m[1] = k[1] /\ m[2] = k[2]} : m[3],
                      live |-> FALSE, floor |-> None]
          /\ retrying' = retrying \ {m \in retrying : m[1] = k[1] /\ m[2] = k[2]}
    BY <1>8 DEF NextKept
  <2>2. PICK new \in BOOLEAN :
          new = \E m \in {m \in retrying : m[1] = k[1] /\ m[2] = k[2]} : m[3]
    OBVIOUS
  <2>3. task' = [channel |-> k[1], id |-> k[2], created |-> FALSE, new |-> new,
                 live |-> FALSE, floor |-> None]
    BY <2>1, <2>2
  <2>4. pc' = "floor" /\ unstored' = unstored
    BY <1>8 DEF NextKept
  <2>5. retrying \subseteq Channels \X Ids \X BOOLEAN
    BY <1>0 DEF Phases
  <2>6. new => <<k[1], k[2], TRUE>> \in unstored
    <3> SUFFICES ASSUME new PROVE <<k[1], k[2], TRUE>> \in unstored
      OBVIOUS
    <3>1. PICK m \in retrying : m[1] = k[1] /\ m[2] = k[2] /\ m[3]
      BY <2>2
    <3>2. m \in Channels \X Ids \X BOOLEAN
      BY <2>5, <3>1
    <3>3. m = <<m[1], m[2], m[3]>> /\ m[3] \in BOOLEAN
      BY <3>2
    <3>4. m[3] = TRUE
      BY <3>1, <3>3
    <3>5. m = <<k[1], k[2], TRUE>>
      BY <3>1, <3>3, <3>4
    <3> QED
      BY <1>0, <3>1, <3>5 DEF MarkerInv
  <2>7. \A n \in BOOLEAN : <<k[1], k[2], n>> \notin retrying'
    BY <2>1
  <2>9. retrying' \subseteq unstored'
    BY <1>0, <2>1, <2>4 DEF MarkerInv
  <2> QED
    BY <2>3, <2>4, <2>6, <2>7, <2>9 DEF MarkerInv
<1>9. CASE UNCHANGED vars \/ Ready \/ Resume \/ Environment
  <2>1. UNCHANGED <<pc, task, unstored, retrying>>
    BY <1>9 DEF vars, Ready, Resume, Environment, Send, ReadFetch, Edit, Delete,
                ReadEnd, Lose, Refuse
  <2> QED
    BY <1>1, <2>1
<1>10. CASE Start \/ Crash \/ Panic
  BY <1>1, <1>10 DEF Start, Crash, Panic, Handling
<1>11. CASE TakeAccount \/ TakeNoMessages \/ StartBackfill \/ ListChannels
  BY <1>1, <1>11 DEF TakeAccount, TakeNoMessages, StartBackfill, ListChannels, Handling
<1>12. CASE Fetch \/ Commit \/ EndBackfill
  BY <1>1, <1>12 DEF Fetch, Commit, EndBackfill, Handling
<1> QED
  BY <1>2, <1>3, <1>4, <1>5, <1>6, <1>7, <1>8, <1>9, <1>10, <1>11, <1>12 DEF Next, Work

LEMMA UnkeepStep == TInv /\ FloorInv /\ KeptInv /\ [Next]_vars => UnkeepInv'
<1> SUFFICES ASSUME TInv, FloorInv, KeptInv, [Next]_vars PROVE UnkeepInv'
  OBVIOUS
<1> USE DEF discord, store, directory, config, backfill, environment, counters,
            history
<1>1. ASSUME pc' # "unkeep" PROVE UnkeepInv'
  BY <1>1 DEF UnkeepInv
<1>2. CASE FindFloor
  <2>1. CASE pc' = "unkeep"
    <3>1. /\ pc = "floor" /\ ~task.live /\ task' = task
          /\ Found.floor = None \/ ~ (task.id > Found.floor)
          /\ excused' = excused \cup Torn
                          \cup (IF Found.floor = None THEN InHand ELSE {})
          /\ unstored' = unstored
      BY <1>2, <2>1, FindFloorStep DEF Finish
    <3>2. task.new => Found.floor = None
      BY <3>1, NewIsAbove
    <3>3. task.new => <<task.channel, task.id>> \in excused'
      BY <3>1, <3>2 DEF InHand
    <3>4. task.new \in BOOLEAN
      BY <3>1, FoundTypes DEF Tasks
    <3>5. CASE ~task.new /\ <<task.channel, task.id, TRUE>> \in unstored
      <4>1. <<task.channel, task.id>> \in excused'
        BY <3>1, <3>5 DEF Torn
      <4> QED
        BY <3>1, <4>1 DEF UnkeepInv
    <3> QED
      BY <3>1, <3>3, <3>4, <3>5 DEF UnkeepInv
  <2> QED
    BY <1>1, <2>1
<1>3. CASE Observe
  BY <1>1, <1>3 DEF Observe, Finish, UnkeepInv
<1>4. CASE UNCHANGED vars \/ Ready \/ Resume \/ Environment
  <2>1. UNCHANGED <<pc, task, unstored>>
    BY <1>4 DEF vars, Ready, Resume, Environment, Send, ReadFetch, Edit, Delete,
                ReadEnd, Lose, Refuse
  <2> QED
    BY <2>1, DoneStep DEF UnkeepInv, KeptInv
<1>5. CASE Start \/ Crash \/ Panic
  BY <1>1, <1>5 DEF Start, Crash, Panic
<1>6. CASE Keep \/ Unkeep \/ TakeMessage
  BY <1>1, <1>6 DEF Keep, Unkeep, Finish, TakeMessage
<1>7. CASE TakeAccount \/ TakeNoMessages \/ StartBackfill \/ ListKept \/ NextKept \/ ListChannels
  BY <1>1, <1>7 DEF TakeAccount, TakeNoMessages, StartBackfill, ListKept, NextKept,
                    ListChannels
<1>8. CASE Fetch \/ Commit \/ EndBackfill
  BY <1>1, <1>8 DEF Fetch, Commit, EndBackfill
<1> QED
  BY <1>2, <1>3, <1>4, <1>5, <1>6, <1>7, <1>8 DEF Next, Work

(* A message done with is secured. *)
LEMMA FinishedIsSecured ==
  ASSUME TInv, FloorInv, KeptInv, [Next]_vars, NEW m \in heard, m \in InHand,
         m \notin InHand'
  PROVE  Secured(m)'
<1> USE DEF discord, store, directory, config, backfill, environment, counters,
            history
<1>0. /\ task.new /\ m = <<task.channel, task.id>> /\ pc \in Handling /\ task \in Tasks
      /\ MarkerInv /\ UnkeepInv /\ FloorTypes /\ ~ (pc \in {"idle", "down"}) /\ pc \in Handling
  BY DEF InHand, TInv, Phases, NoTask, KeptInv, Handling
<1>1. ~ (UNCHANGED task) /\ task' # [task EXCEPT !.floor = task'.floor]
  BY <1>0 DEF InHand, Tasks
<1>2. CASE Crash \/ Panic
  BY <1>0, <1>2 DEF Crash, Panic, Secured, InHand
<1>3. CASE FindFloor
  <2>1. pc = "floor" /\ unstored' = unstored
    BY <1>3, FindFloorStep
  <2>2. CASE task' = [task EXCEPT !.floor = Found.floor]
    BY <1>0, <1>1, <2>2 DEF Tasks
  <2>3. CASE /\ Found.floor = None \/ ~ (task.id > Found.floor)
             /\ excused' = excused \cup Torn
                             \cup (IF Found.floor = None THEN InHand ELSE {})
    <3>1. Found.floor = None
      BY <1>0, <2>1, <2>3, NewIsAbove
    <3> QED
      BY <2>3, <3>1 DEF Secured
  <2>4. CASE ~task.live
    BY <1>0, <2>1, <2>4 DEF MarkerInv, Secured
  <2> QED
    BY <1>1, <1>3, <2>2, <2>3, <2>4, FindFloorStep
<1>4. CASE Observe
  <2>1. ~task.live /\ unstored' = unstored
    BY <1>1, <1>4 DEF Observe
  <2> QED
    BY <1>0, <2>1 DEF MarkerInv, Secured
<1>5. CASE Keep
  <2>1. \/ excused' = excused \cup InHand
        \/ unstored' = unstored \cup {<<task.channel, task.id, task.new>>}
    BY <1>5 DEF Keep
  <2>2. task.new = TRUE
    BY <1>0 DEF Tasks
  <2> QED
    BY <1>0, <2>1, <2>2 DEF Secured
<1>6. CASE Unkeep
  <2>1. m \in stored \cup gone \cup excused
    BY <1>0, <1>6 DEF Unkeep, UnkeepInv, MarkerInv
  <2> QED
    BY <2>1, DoneStep DEF Secured
<1>7. CASE UNCHANGED vars \/ Ready \/ Resume \/ Environment
  BY <1>1, <1>7 DEF vars, Ready, Resume, Environment, Send, ReadFetch, Edit, Delete,
                ReadEnd, Lose, Refuse
<1>8. CASE Start \/ TakeMessage \/ TakeAccount \/ TakeNoMessages \/ StartBackfill
  BY <1>0, <1>8 DEF Start, TakeMessage, TakeAccount, TakeNoMessages, StartBackfill
<1>9. CASE ListKept \/ NextKept \/ ListChannels \/ Fetch \/ Commit \/ EndBackfill
  BY <1>0, <1>9 DEF ListKept, NextKept, ListChannels, Fetch, Commit, EndBackfill, Handling
<1> QED
  BY <1>2, <1>3, <1>4, <1>5, <1>6, <1>7, <1>8, <1>9 DEF Next, Work

LEMMA SecuredInvStep == TInv /\ FloorInv /\ KeptInv /\ [Next]_vars => SecuredInv'
<1> SUFFICES ASSUME TInv, FloorInv, KeptInv, [Next]_vars, NEW m \in heard'
             PROVE  Secured(m)' \/ m \in InHand'
  BY DEF SecuredInv
<1> USE DEF discord, store, directory, config, backfill, environment, counters,
            history
<1>0. heard \subseteq Messages /\ SecuredInv /\ MarkerInv /\ UnkeepInv /\ Phases
  BY DEF TInv, FloorTypes, KeptInv, Channels, Messages
<1>1. CASE m \notin heard
  <2>1. TakeMessage
    <3>1. CASE UNCHANGED vars \/ Start \/ Crash \/ Panic \/ Ready \/ Resume
      BY <1>1, <3>1 DEF vars, Start, Crash, Panic, Ready, Resume
    <3>2. CASE Environment
      BY <1>1, <3>2 DEF Environment, Send, ReadFetch, Edit, Delete, ReadEnd, Lose, Refuse
    <3>3. CASE FindFloor \/ Observe \/ Keep \/ Unkeep \/ TakeAccount \/ TakeNoMessages
      BY <1>1, <3>3 DEF FindFloor, Observe, Keep, Unkeep, TakeAccount, TakeNoMessages
    <3>4. CASE StartBackfill \/ ListKept \/ NextKept \/ ListChannels \/ Fetch \/ Commit
               \/ EndBackfill
      BY <1>1, <3>4 DEF StartBackfill, ListKept, NextKept, ListChannels, Fetch, Commit,
                        EndBackfill
    <3> QED
      BY <3>1, <3>2, <3>3, <3>4 DEF Next, Work
  <2>2. m \in InHand'
    BY <1>1, <2>1 DEF TakeMessage, InHand
  <2> QED
    BY <2>2
<1>2. CASE m \in heard /\ m \in InHand
  BY <1>2, FinishedIsSecured
<1>3. CASE m \in heard /\ m \notin InHand
  <2>1. Secured(m) /\ m \in Messages
    BY <1>0, <1>3 DEF SecuredInv
  <2>2. CASE <<m[1], m[2], TRUE>> \in unstored' \/ <<m[1], m[2], TRUE>> \notin unstored
    BY <2>1, <2>2, SecuredStep
  <2>3. CASE <<m[1], m[2], TRUE>> \in unstored /\ <<m[1], m[2], TRUE>> \notin unstored'
    <3>1. Unkeep /\ unstored' = unstored \ {<<task.channel, task.id, new>> : new \in BOOLEAN}
      <4>1. unstored' # unstored /\ ~ (unstored \subseteq unstored')
        BY <2>3
      <4>2. CASE UNCHANGED vars \/ Start \/ Crash \/ Panic \/ Ready \/ Resume
        BY <4>1, <4>2 DEF vars, Start, Crash, Panic, Ready, Resume
      <4>3. CASE Environment
        BY <4>1, <4>3 DEF Environment, Send, ReadFetch, Edit, Delete, ReadEnd, Lose, Refuse
      <4>4. CASE FindFloor \/ Observe \/ Keep \/ TakeMessage \/ TakeAccount \/ TakeNoMessages
        BY <4>1, <4>4 DEF FindFloor, Observe, Keep, TakeMessage, TakeAccount, TakeNoMessages
      <4>5. CASE StartBackfill \/ ListKept \/ NextKept \/ ListChannels \/ Fetch \/ Commit
                 \/ EndBackfill
        BY <4>1, <4>5 DEF StartBackfill, ListKept, NextKept, ListChannels, Fetch, Commit,
                          EndBackfill
      <4>6. CASE Unkeep
        BY <4>1, <4>6 DEF Unkeep
      <4> QED
        BY <4>2, <4>3, <4>4, <4>5, <4>6 DEF Next, Work
    <3>2. m[1] = task.channel /\ m[2] = task.id /\ m = <<task.channel, task.id>>
      <4>1. <<m[1], m[2], TRUE>> \in {<<task.channel, task.id, new>> : new \in BOOLEAN}
        BY <2>3, <3>1
      <4>2. m[1] = task.channel /\ m[2] = task.id
        BY <4>1
      <4>3. m = <<m[1], m[2]>>
        BY <2>1 DEF Messages
      <4> QED
        BY <4>2, <4>3
    <3>3. pc = "unkeep" /\ pc \in Handling
      BY <3>1 DEF Unkeep, Handling
    <3>4. <<task.channel, task.id, TRUE>> \in unstored
      BY <2>3, <3>2
    <3>5. m \in stored \cup gone \cup excused
      BY <1>0, <3>2, <3>3, <3>4 DEF UnkeepInv
    <3> QED
      BY <3>5, DoneStep DEF Secured
  <2> QED
    BY <2>2, <2>3
<1> QED
  BY <1>1, <1>2, <1>3

LEMMA KeptInit == Init => KeptInv
BY DEF Init, KeptInv, MarkerInv, UnkeepInv, SecuredInv, Handling

LEMMA KeptStep == TInv /\ FloorInv /\ KeptInv /\ [Next]_vars => KeptInv'
BY MarkerStep, UnkeepStep, SecuredInvStep DEF KeptInv

(* A DM handled as new is stored, kept by id as new, or above where its    *)
(* channel begins, in whatever order messages come and fail, except what a *)
(* crash, a panic, a full disk, a changed configuration or a listing that   *)
(* left out the marker that says it is new let go.                         *)
THEOREM HeardStaysKept == Spec => []HeardIsKept
<1>1. KeptInv => HeardIsKept
  BY DEF KeptInv, SecuredInv, Secured, HeardIsKept
<1> QED
  BY <1>1, TypeInit, TypeStep, FloorInit, FloorStep, KeptInit, KeptStep, PTL DEF Spec

-----------------------------------------------------------------------------
(* What a pull brings. *)

(* The first n of a set that has n are n. *)
LEMMA SmallestIsFull ==
  ASSUME NEW N \in Nat, NEW S \in SUBSET (0 .. N), NEW n \in Nat, n <= Cardinality(S)
  PROVE  Cardinality(Smallest(S, n)) = n
<1> DEFINE Bad == {k \in Nat : k <= Cardinality(S) /\ Cardinality(Smallest(S, k)) # k}
<1>1. /\ IsFiniteSet(S) /\ Cardinality(S) \in Nat
      /\ \A T \in SUBSET S : IsFiniteSet(T) /\ Cardinality(T) \in Nat
      /\ \A y \in S : y \in Nat
  <2>1. IsFiniteSet(0 .. N)
    BY FS_Interval
  <2>2. \A T \in SUBSET (0 .. N) : IsFiniteSet(T) /\ Cardinality(T) \in Nat
    BY <2>1, FS_Subset, FS_CardinalityType
  <2> QED
    BY <2>2
<1>2. \A k : Smallest(S, k) \in SUBSET S
  BY DEF Smallest
<1>3. ASSUME Bad # {} PROVE FALSE
  <2>0. Bad \in SUBSET Nat
    OBVIOUS
  <2>1. PICK k \in Bad : \A x \in Bad : k <= x
    <3> HIDE DEF Bad
    <3> QED
      BY <1>3, <2>0, LeastNatural
  <2>2. k \in Nat /\ k <= Cardinality(S) /\ Cardinality(Smallest(S, k)) # k
    BY <2>1
  <2>3. k # 0
    <3>1. ASSUME k = 0 PROVE Smallest(S, k) = {}
      <4>1. \A i \in S : {j \in S : j < i} \in SUBSET S
        OBVIOUS
      <4> QED
        BY <1>1, <3>1, <4>1 DEF Smallest
    <3> QED
      BY <2>2, <3>1, FS_EmptySet
  <2>4. PICK q \in Nat : k = q + 1
    BY <2>2, <2>3
  <2> DEFINE Q == Smallest(S, q)
  <2>5. Cardinality(Q) = q /\ Q \in SUBSET S /\ q < Cardinality(S)
    <3>1. q \notin Bad
      BY <2>1, <2>4
    <3> QED
      BY <1>1, <1>2, <2>2, <2>4, <3>1
  <2> HIDE DEF Bad
  <2>6. PICK y \in S \ Q : \A x \in S \ Q : y <= x
    <3>1. S \ Q # {}
      BY <1>1, <2>5
    <3>2. S \ Q \in SUBSET Nat
      BY <1>1
    <3> QED
      BY <3>1, <3>2, LeastNatural
  <2>7. {j \in S : j < y} = Q
    <3>1. \A j \in S : j < y => j \in Q
      BY <1>1, <2>6
    <3>2. ASSUME NEW j \in Q, y <= j PROVE FALSE
      <4>1. y \in S /\ y \notin Q
        BY <2>6
      <4>2. y \in Smallest(S, q)
        BY <3>2, <4>1, SmallestIsClosed
      <4> QED
        BY <4>1, <4>2
    <3>3. \A j \in Q : j \in S /\ j \in Nat /\ y \in Nat /\ j < y
      <4> SUFFICES ASSUME NEW j \in Q PROVE j \in S /\ j \in Nat /\ y \in Nat /\ j < y
        OBVIOUS
      <4>1. j \in S /\ y \in S
        BY <2>5, <2>6
      <4>2. j \in Nat /\ y \in Nat
        BY <1>1, <4>1
      <4>3. ~ (y <= j)
        BY <3>2
      <4> QED
        BY <4>1, <4>2, <4>3
    <3> HIDE DEF Q
    <3> QED
      BY <3>1, <3>3
  <2>8. y \in Smallest(S, k)
    <3>1. y \in S /\ Cardinality({j \in S : j < y}) < k
      <4>1. Cardinality({j \in S : j < y}) = q
        BY <2>5, <2>7
      <4> QED
        BY <2>4, <2>6, <4>1
    <3> QED
      BY <3>1 DEF Smallest
  <2>9. ASSUME NEW z \in Smallest(S, k), z \notin Q PROVE z = y
    <3>1. z \in S /\ Cardinality({j \in S : j < z}) < q + 1
      BY <2>4, <2>9 DEF Smallest
    <3>2. ASSUME y < z PROVE FALSE
      <4>1. Q \cup {y} \in SUBSET {j \in S : j < z}
        <5>1. \A j \in Q : j \in S /\ j < y
          BY <2>7
        <5>2. \A j \in S : j \in Nat /\ y \in Nat /\ z \in Nat
          BY <1>1, <2>6, <3>1
        <5> HIDE DEF Q
        <5>3. ASSUME NEW j \in Q PROVE j \in S /\ j < z
          <6>1. j \in S /\ j < y
            BY <5>1
          <6>2. j \in Nat /\ y \in Nat /\ z \in Nat
            BY <5>2, <6>1
          <6> QED
            BY <3>2, <6>1, <6>2
        <5> QED
          BY <2>6, <3>2, <5>3
      <4>2. {j \in S : j < z} \in SUBSET S
        OBVIOUS
      <4>3. Cardinality(Q \cup {y}) <= Cardinality({j \in S : j < z})
        BY <1>1, <4>1, <4>2, FS_Subset
      <4>4. Cardinality(Q \cup {y}) = q + 1
        BY <1>1, <2>5, <2>6, FS_AddElement
      <4>5. Cardinality({j \in S : j < z}) \in Nat
        BY <1>1, <4>2
      <4> QED
        BY <3>1, <4>3, <4>4, <4>5
    <3>3. y <= z
      BY <2>6, <2>9, <3>1
    <3> QED
      BY <1>1, <2>6, <3>1, <3>2, <3>3
  <2>10. Q \subseteq Smallest(S, k)
    <3> SUFFICES ASSUME NEW i \in Q PROVE i \in Smallest(S, k)
      OBVIOUS
    <3>1. i \in S /\ Cardinality({j \in S : j < i}) < q
      BY DEF Smallest
    <3>2. {j \in S : j < i} \in SUBSET S
      OBVIOUS
    <3>3. Cardinality({j \in S : j < i}) \in Nat
      BY <1>1, <3>2
    <3> QED
      BY <2>4, <3>1, <3>3 DEF Smallest
  <2> HIDE DEF Q
  <2>11. Smallest(S, k) = Q \cup {y}
    BY <2>8, <2>9, <2>10
  <2>12. Cardinality(Smallest(S, k)) = q + 1
    BY <1>1, <2>5, <2>6, <2>11, FS_AddElement
  <2> QED
    BY <2>2, <2>4, <2>12
<1>4. n \notin Bad
  BY <1>3
<1> QED
  BY <1>4

(* What is not among the first n has n before it. *)
LEMMA SmallestOrFull ==
  ASSUME NEW N \in Nat, NEW S \in SUBSET (0 .. N), NEW n \in Nat, NEW i \in S
  PROVE  i \in Smallest(S, n) \/ Cardinality(Smallest(S, n)) = n
<1>1. IsFiniteSet(S) /\ {j \in S : j < i} \in SUBSET S
  <2>1. IsFiniteSet(0 .. N)
    BY FS_Interval
  <2> QED
    BY <2>1, FS_Subset
<1>2. /\ Cardinality({j \in S : j < i}) <= Cardinality(S)
      /\ Cardinality({j \in S : j < i}) \in Nat /\ Cardinality(S) \in Nat
  BY <1>1, FS_Subset, FS_CardinalityType
<1>3. CASE Cardinality({j \in S : j < i}) < n
  BY <1>3 DEF Smallest
<1>4. CASE ~ (Cardinality({j \in S : j < i}) < n)
  BY <1>2, <1>4, SmallestIsFull
<1> QED
  BY <1>3, <1>4

(* What coverage reaches past lies in one of its intervals. *)
LEMMA ReachIsCovered ==
  ASSUME NEW I \in SUBSET Intervals, NEW start \in 0 .. MaxId,
         NEW i \in Nat, start < i, i <= Reach(I, start)
  PROVE  \E v \in I : v[1] < i /\ i <= v[2]
<1> DEFINE X == {x \in start .. MaxId : \A v \in I : ~ (v[1] <= x /\ x < v[2])}
<1>1. Reach(I, start) \in start .. MaxId
  BY ReachBounds
<1>2. X \in SUBSET Nat
  BY MaxIdBounds
<1>3. Reach(I, start) = Min(X)
  BY DEF Reach
<1>4. ASSUME i - 1 \in X PROVE FALSE
  <2>1. Min(X) <= i - 1
    <3> HIDE DEF X
    <3> QED
      BY <1>2, <1>4, LeastNatural
  <2> QED
    BY <1>1, <1>3, <2>1, MaxIdBounds
<1>5. i - 1 \in start .. MaxId
  BY <1>1, MaxIdBounds
<1>6. PICK v \in I : v[1] <= i - 1 /\ i - 1 < v[2]
  BY <1>4, <1>5
<1>7. v[1] \in Nat /\ v[2] \in Nat
  BY DEF Intervals, Ids
<1> QED
  BY <1>6, <1>7

(* A pull brings what is missing above the floor, or says there is more. *)
LEMMA PullBrings ==
  ASSUME TInv, CoverInv, NEW c \in Channels, NEW floor \in 0 .. MaxId,
         NEW i \in Existing(c), floor < i, <<c, i>> \notin stored
  PROVE  <<c, i>> \in PullBatch(c, floor).messages \/ PullBatch(c, floor).more
<1> DEFINE reached == Reach(cover[c], floor)
           S == {j \in Existing(c) : j > reached}
           next == Smallest(S, PullSize)
<1>1. /\ Existing(c) \in SUBSET (0 .. MaxId) /\ i \in Nat /\ floor \in Nat
      /\ cover[c] \in SUBSET Intervals /\ reached \in floor .. MaxId
      /\ MaxId \in Nat /\ PullSize \in Nat
  <2>1. cover[c] \in SUBSET Intervals /\ sent \in [Channels -> 0 .. MaxId]
    BY DEF TInv, DiscordTypes, StoreTypes
  <2>2. Existing(c) \in SUBSET (0 .. MaxId) /\ i \in Nat
    BY <2>1, ExistingBounds
  <2>3. reached \in floor .. MaxId
    BY <2>1, ReachBounds
  <2> QED
    BY <2>1, <2>2, <2>3, MaxIdBounds, IntakeAssumption
<1>2. reached < i
  <2>1. ASSUME i <= reached PROVE FALSE
    <3>1. PICK v \in cover[c] : v[1] < i /\ i <= v[2]
      BY <1>1, <2>1, ReachIsCovered
    <3> QED
      BY <3>1 DEF CoverInv, CoveredIsStored
  <2> QED
    BY <1>1, <2>1
<1>3. i \in next \/ Cardinality(next) = PullSize
  BY <1>1, <1>2, SmallestOrFull
<1>4. PICK baseline, recent :
        PullBatch(c, floor) = Forward(c, reached, baseline, recent, floor)
  BY DEF PullBatch
<1> DEFINE page == IF recent THEN Largest(Existing(c), RecentSize) ELSE {}
<1>5. /\ PullBatch(c, floor).more = (Cardinality(next) = PullSize)
      /\ PullBatch(c, floor).messages = {c} \X {j \in next \cup page : j > floor}
  <2> HIDE DEF reached
  <2> QED
    BY <1>4 DEF Forward
<1> HIDE DEF page
<1> HIDE DEF next
<1> QED
  BY <1>1, <1>3, <1>5

-----------------------------------------------------------------------------
(* What is in the inbox. *)

HasBackfill == \E k \in DOMAIN inbox : inbox[k].kind = "Backfill"

Delivery(m) == [kind |-> "Message", channel |-> m[1], id |-> m[2]]
Queued(m) == \E k \in DOMAIN inbox : inbox[k] = Delivery(m)

(* A dispatch that reaches the inbox leaves the order of the rest. *)
LEMMA DispatchUp ==
  ASSUME DiscordTypes, NEW kind \in {"Message", "Update"}, NEW c \in Channels,
         NEW i \in Ids, Dispatch(kind, c, i), link = "up"
  PROVE  \E p \in 1 .. Len(inbox) + 1 :
            /\ DOMAIN inbox' = 1 .. Len(inbox) + 1
            /\ inbox'[p] = [kind |-> kind, channel |-> c, id |-> i]
            /\ \A k \in 1 .. Len(inbox) :
                  inbox'[IF k < p THEN k ELSE k + 1] = inbox[k]
<1> DEFINE work == [kind |-> kind, channel |-> c, id |-> i]
<1>1. work \in Works
  BY DEF Works
<1>2. PICK p \in 1 .. Len(inbox) + 1 : inbox' = InsertAt(inbox, p, work)
  BY DEF Dispatch
<1> HIDE DEF work
<1>3. Len(inbox) \in Nat /\ inbox \in Seq(Works) /\ inbox \in [1 .. Len(inbox) -> Works]
  BY LenProperties DEF DiscordTypes
<1> DEFINE s == SubSeq(inbox, 1, p - 1)
           t == SubSeq(inbox, p, Len(inbox))
           sw == s \o <<work>>
<1>4. /\ s \in Seq(Works) /\ Len(s) = p - 1
      /\ \A k \in 1 .. p - 1 : s[k] = inbox[k]
  BY <1>3, SubSeqProperties
<1>5. /\ t \in Seq(Works) /\ Len(t) = Len(inbox) - p + 1
      /\ \A k \in 1 .. Len(inbox) - p + 1 : t[k] = inbox[p + k - 1]
  BY <1>3, SubSeqProperties
<1>6. <<work>> \in Seq(Works) /\ Len(<<work>>) = 1 /\ <<work>>[1] = work
  BY <1>1
<1>7. inbox' = sw \o t
  BY <1>2 DEF InsertAt
<1> HIDE DEF s, t
<1>8. /\ sw \in Seq(Works) /\ Len(sw) = p /\ sw[p] = work
      /\ \A k \in 1 .. p - 1 : sw[k] = inbox[k]
  <2> DEFINE u == <<work>>
  <2>1. u \in Seq(Works) /\ Len(u) = 1 /\ u[1] = work
    BY <1>6
  <2> HIDE DEF u
  <2>2. /\ s \o u \in Seq(Works) /\ Len(s \o u) = Len(s) + Len(u)
        /\ \A k \in 1 .. Len(s) + Len(u) :
              (s \o u)[k] = IF k <= Len(s) THEN s[k] ELSE u[k - Len(s)]
    BY <1>4, <2>1, ConcatProperties
  <2>3. Len(s) + Len(u) = p /\ p - Len(s) = 1 /\ p \in 1 .. p /\ ~ (p <= Len(s))
    BY <1>3, <1>4, <2>1
  <2>4. (s \o u)[p] = work
    BY <2>1, <2>2, <2>3
  <2>5. \A k \in 1 .. p - 1 : (s \o u)[k] = inbox[k]
    BY <1>3, <1>4, <2>2, <2>3
  <2> QED
    BY <2>2, <2>3, <2>4, <2>5 DEF u
<1> HIDE DEF sw
<1>9. /\ inbox' \in Seq(Works) /\ Len(inbox') = Len(inbox) + 1
      /\ \A k \in 1 .. p : inbox'[k] = sw[k]
      /\ \A k \in 1 .. Len(inbox) - p + 1 : inbox'[p + k] = t[k]
  BY <1>3, <1>5, <1>7, <1>8, ConcatProperties
<1>10. DOMAIN inbox' = 1 .. Len(inbox) + 1
  BY <1>3, <1>9, LenProperties
<1>11. inbox'[p] = work
  BY <1>8, <1>9
<1>12. ASSUME NEW k \in 1 .. Len(inbox)
       PROVE  inbox'[IF k < p THEN k ELSE k + 1] = inbox[k]
  <2>1. CASE k < p
    BY <1>3, <1>8, <1>9, <2>1
  <2>2. CASE ~ (k < p)
    <3>1. PICK q \in 1 .. Len(inbox) - p + 1 : k = p + q - 1
      <4>1. k - p + 1 \in 1 .. Len(inbox) - p + 1 /\ k = p + (k - p + 1) - 1
        BY <1>3, <2>2
      <4> QED
        BY <4>1
    <3>2. inbox'[p + q] = t[q] /\ t[q] = inbox[p + q - 1]
      BY <1>5, <1>9
    <3>3. p + q = k + 1
      BY <1>3, <3>1
    <3> QED
      BY <2>2, <3>1, <3>2, <3>3
  <2> QED
    BY <2>1, <2>2
<1> QED
  BY <1>10, <1>11, <1>12 DEF work

(* What is posted joins the end. *)
LEMMA PostStep ==
  ASSUME DiscordTypes, NEW t \in Seq(Works), Post(t)
  PROVE  /\ DOMAIN inbox' = 1 .. Len(inbox) + Len(t)
         /\ \A k \in 1 .. Len(inbox) : inbox'[k] = inbox[k]
         /\ \A k \in 1 .. Len(t) : inbox'[Len(inbox) + k] = t[k]
<1>1. inbox \in Seq(Works) /\ inbox' = inbox \o t
  BY DEF DiscordTypes, Post
<1>2. inbox' \in Seq(Works) /\ Len(inbox') = Len(inbox) + Len(t)
  BY <1>1, ConcatProperties
<1> QED
  BY <1>1, <1>2, ConcatProperties, LenProperties

(* Work that is taken leaves the rest one place further on. *)
LEMMA TailStep ==
  ASSUME DiscordTypes, inbox # <<>>, inbox' = Tail(inbox)
  PROVE  /\ Len(inbox) \in Nat /\ DOMAIN inbox = 1 .. Len(inbox) /\ 1 \in DOMAIN inbox
         /\ DOMAIN inbox' = 1 .. Len(inbox) - 1
         /\ Head(inbox) = inbox[1]
         /\ \A k \in 1 .. Len(inbox) - 1 : inbox'[k] = inbox[k + 1]
<1>1. inbox \in Seq(Works)
  BY DEF DiscordTypes
<1>2. Len(inbox) \in Nat /\ DOMAIN inbox = 1 .. Len(inbox) /\ Len(inbox) # 0
  BY <1>1, EmptySeq, LenProperties
<1>3. inbox' \in Seq(Works) /\ Len(inbox') = Len(inbox) - 1
      /\ \A k \in 1 .. Len(inbox) - 1 : inbox'[k] = inbox[k + 1]
      /\ Head(inbox) = inbox[1]
  BY <1>1, HeadTailProperties
<1> QED
  BY <1>2, <1>3, LenProperties

(* What was sent after m in its channel is in the inbox, was heard, or was  *)
(* missed: then a backfill follows place k of the inbox.                   *)
After(m, k) ==
    \A j \in Ids :
        m[2] < j /\ j <= sent[m[1]]
          => \/ Queued(<<m[1], j>>) \/ <<m[1], j>> \in heard
             \/ \E l \in DOMAIN inbox : l > k /\ inbox[l].kind = "Backfill"

(* A message may begin its channel, or begin it earlier, only when          *)
(* whatever came after it is still to be handled.                          *)
OrderInv ==
    link = "up" /\ dms =>
        \A m \in Messages :
            m[1] \in Dms =>
              /\ \A k \in DOMAIN inbox : inbox[k] = Delivery(m) => After(m, k)
              /\ pc = "floor" /\ task.live /\ task.new
                   /\ m = <<task.channel, task.id>> => After(m, 0)

LEMMA AfterStep ==
  ASSUME NEW m, NEW k, NEW n, After(m, k), heard \subseteq heard',
         \A l \in DOMAIN inbox : l > k /\ inbox[l].kind = "Backfill"
           => \E x \in DOMAIN inbox' : x > n /\ inbox'[x].kind = "Backfill",
         \A j \in Ids : m[2] < j /\ Queued(<<m[1], j>>)
           => Queued(<<m[1], j>>)' \/ <<m[1], j>> \in heard',
         \A j \in Ids : m[2] < j /\ j <= sent'[m[1]]
           => j <= sent[m[1]] \/ Queued(<<m[1], j>>)'
  PROVE  After(m, n)'
<1> SUFFICES ASSUME NEW j \in Ids, m[2] < j, j <= sent'[m[1]]
             PROVE  \/ Queued(<<m[1], j>>)' \/ <<m[1], j>> \in heard'
                    \/ \E x \in DOMAIN inbox' : x > n /\ inbox'[x].kind = "Backfill"
  BY DEF After
<1>1. CASE j <= sent[m[1]]
  BY <1>1 DEF After
<1> QED
  BY <1>1

(* Steps that leave the inbox alone and take no message. *)
LEMMA OrderFrame ==
  ASSUME OrderInv, UNCHANGED <<inbox, sent>>, heard \subseteq heard',
         link' = "up" => link = "up", dms' => dms,
         pc' = "floor" /\ task'.live => pc = "floor" /\ task' = task
  PROVE  OrderInv'
<1> SUFFICES ASSUME link' = "up", dms', NEW m \in Messages, m[1] \in Dms
             PROVE  /\ \A k \in DOMAIN inbox' : inbox'[k] = Delivery(m) => After(m, k)'
                    /\ pc' = "floor" /\ task'.live /\ task'.new
                         /\ m = <<task'.channel, task'.id>> => After(m, 0)'
  BY DEF OrderInv, Delivery
<1>1. link = "up" /\ dms
  OBVIOUS
<1>2. ASSUME NEW k, After(m, k) PROVE After(m, k)'
  <2>1. \A j : Queued(<<m[1], j>>) => Queued(<<m[1], j>>)'
    BY DEF Queued, Delivery
  <2> QED
    BY <1>2, <2>1, AfterStep
<1>3. ASSUME NEW k \in DOMAIN inbox', inbox'[k] = Delivery(m) PROVE After(m, k)'
  BY <1>1, <1>2, <1>3 DEF OrderInv
<1>4. ASSUME pc' = "floor", task'.live, task'.new, m = <<task'.channel, task'.id>>
      PROVE  After(m, 0)'
  BY <1>1, <1>2, <1>4 DEF OrderInv
<1> QED
  BY <1>3, <1>4

(* A dispatch keeps the order: a message is the newest when it is sent. *)
LEMMA OrderDispatch ==
  ASSUME TInv, OrderInv, NEW kind \in {"Message", "Update"}, NEW c \in Channels,
         NEW i \in Ids, Dispatch(kind, c, i), UNCHANGED <<link, dms, heard, pc, task>>,
         kind = "Message" => sent'[c] = i,
         \A d \in Channels, j \in Ids :
            j <= sent'[d] => j <= sent[d] \/ (kind = "Message" /\ d = c /\ j = i)
  PROVE  OrderInv'
<1> SUFFICES ASSUME link' = "up", dms', NEW m \in Messages, m[1] \in Dms
             PROVE  /\ \A k \in DOMAIN inbox' : inbox'[k] = Delivery(m) => After(m, k)'
                    /\ pc' = "floor" /\ task'.live /\ task'.new
                         /\ m = <<task'.channel, task'.id>> => After(m, 0)'
  BY DEF OrderInv, Delivery
<1>1. link = "up" /\ dms /\ m[1] \in Channels /\ m[2] \in Ids /\ Len(inbox) \in Nat
      /\ DOMAIN inbox = 1 .. Len(inbox)
  BY LenProperties DEF Messages, TInv, DiscordTypes
<1>2. PICK p \in 1 .. Len(inbox) + 1 :
        /\ DOMAIN inbox' = 1 .. Len(inbox) + 1
        /\ inbox'[p] = [kind |-> kind, channel |-> c, id |-> i]
        /\ \A k \in 1 .. Len(inbox) :
              inbox'[IF k < p THEN k ELSE k + 1] = inbox[k]
  BY <1>1, DispatchUp DEF TInv
<1> DEFINE at(k) == IF k < p THEN k ELSE k + 1
<1>3. \A k \in 1 .. Len(inbox) : at(k) \in DOMAIN inbox' /\ inbox'[at(k)] = inbox[k]
  BY <1>1, <1>2
<1>4. \A k \in DOMAIN inbox' : k = p \/ \E x \in 1 .. Len(inbox) : k = at(x)
  <2> SUFFICES ASSUME NEW k \in DOMAIN inbox', k # p
               PROVE  \E x \in 1 .. Len(inbox) : k = at(x)
    OBVIOUS
  <2>1. CASE k < p
    <3>1. k \in 1 .. Len(inbox) /\ k = at(k)
      BY <1>1, <1>2, <2>1
    <3> QED
      BY <3>1
  <2>2. CASE ~ (k < p)
    <3>1. k - 1 \in 1 .. Len(inbox) /\ k = at(k - 1)
      BY <1>1, <1>2, <2>2
    <3> QED
      BY <3>1
  <2> QED
    BY <2>1, <2>2
<1>5. \A x, y \in Nat : x < y => at(x) < at(y)
  BY <1>1, <1>2
<1>6. \A x \in Nat : x > 0 => at(x) > 0
  BY <1>1, <1>2
<1> HIDE DEF at
<1>7. ASSUME NEW j, Queued(<<m[1], j>>) PROVE Queued(<<m[1], j>>)'
  <2>1. PICK k \in 1 .. Len(inbox) : inbox[k] = Delivery(<<m[1], j>>)
    BY <1>1, <1>7 DEF Queued
  <2>2. at(k) \in DOMAIN inbox' /\ inbox'[at(k)] = Delivery(<<m[1], j>>)
    BY <1>3, <2>1
  <2> QED
    BY <2>2 DEF Queued, Delivery
<1>8. ASSUME NEW j \in Ids, m[2] < j, j <= sent'[m[1]]
      PROVE  j <= sent[m[1]] \/ Queued(<<m[1], j>>)'
  <2>1. CASE kind = "Message" /\ m[1] = c /\ j = i
    <3>1. p \in DOMAIN inbox' /\ inbox'[p] = Delivery(<<m[1], j>>)
      BY <1>1, <1>2, <2>1 DEF Delivery
    <3> QED
      BY <3>1 DEF Queued, Delivery
  <2> QED
    BY <1>1, <1>8, <2>1
<1>9. ASSUME NEW k \in Nat, NEW n, After(m, k), n = at(k) \/ (k = 0 /\ n = 0)
      PROVE  After(m, n)'
  <2>1. ASSUME NEW l \in DOMAIN inbox, l > k, inbox[l].kind = "Backfill"
        PROVE  \E x \in DOMAIN inbox' : x > n /\ inbox'[x].kind = "Backfill"
    <3>1. l \in 1 .. Len(inbox) /\ l \in Nat /\ l > 0
      BY <1>1
    <3>2. at(l) \in DOMAIN inbox' /\ inbox'[at(l)].kind = "Backfill" /\ at(l) \in Nat
      BY <1>2, <1>3, <2>1, <3>1 DEF at
    <3>3. at(l) > n
      <4>1. CASE n = at(k)
        <5>1. at(k) < at(l) /\ at(k) \in Nat
          BY <1>5, <2>1, <3>1 DEF at
        <5> QED
          BY <3>2, <4>1, <5>1
      <4>2. CASE k = 0 /\ n = 0
        BY <1>6, <3>1, <4>2
      <4> QED
        BY <1>9, <4>1, <4>2
    <3> QED
      BY <3>2, <3>3
  <2> QED
    BY <1>7, <1>8, <1>9, <2>1, AfterStep
<1>10. ASSUME NEW k \in DOMAIN inbox', inbox'[k] = Delivery(m) PROVE After(m, k)'
  <2>1. CASE k = p
    <3>1. kind = "Message" /\ m[1] = c /\ m[2] = i
      BY <1>2, <1>10, <2>1 DEF Delivery
    <3>2. sent'[m[1]] = m[2] /\ m[2] \in Nat
      BY <1>1, <3>1 DEF Ids
    <3>3. \A j \in Ids : ~ (m[2] < j /\ j <= sent'[m[1]])
      BY <3>2 DEF Ids
    <3> QED
      BY <3>3 DEF After
  <2>2. CASE k # p
    <3>1. PICK x \in 1 .. Len(inbox) : k = at(x)
      BY <1>4, <2>2
    <3>2. inbox[x] = Delivery(m) /\ x \in DOMAIN inbox /\ x \in Nat
      BY <1>1, <1>3, <1>10, <3>1
    <3>3. After(m, x)
      BY <1>1, <3>2 DEF OrderInv
    <3> QED
      BY <1>9, <3>1, <3>2, <3>3
  <2> QED
    BY <2>1, <2>2
<1>11. ASSUME pc' = "floor", task'.live, task'.new, m = <<task'.channel, task'.id>>
       PROVE  After(m, 0)'
  <2>1. After(m, 0)
    BY <1>1, <1>11 DEF OrderInv
  <2> QED
    BY <1>9, <2>1
<1> QED
  BY <1>10, <1>11

(* Work that is taken, when a message of the channel is heard by that. *)
LEMMA AfterTail ==
  ASSUME DiscordTypes, inbox # <<>>, inbox' = Tail(inbox), sent' = sent,
         heard \subseteq heard', NEW m, NEW k \in Nat, NEW n, n = k + 1, After(m, n),
         \A j \in Ids : Head(inbox) = Delivery(<<m[1], j>>) => <<m[1], j>> \in heard'
  PROVE  After(m, k)'
<1>1. /\ Len(inbox) \in Nat /\ DOMAIN inbox = 1 .. Len(inbox)
      /\ DOMAIN inbox' = 1 .. Len(inbox) - 1
      /\ Head(inbox) = inbox[1]
      /\ \A l \in 1 .. Len(inbox) - 1 : inbox'[l] = inbox[l + 1]
  BY TailStep
<1>2. ASSUME NEW l \in DOMAIN inbox, l # 1
      PROVE  \E x \in DOMAIN inbox' : l = x + 1 /\ inbox'[x] = inbox[l]
  <2>1. l - 1 \in 1 .. Len(inbox) - 1 /\ l = (l - 1) + 1
    BY <1>1, <1>2
  <2> QED
    BY <1>1, <2>1
<1>3. ASSUME NEW l \in DOMAIN inbox, l > n, inbox[l].kind = "Backfill"
      PROVE  \E x \in DOMAIN inbox' : x > k /\ inbox'[x].kind = "Backfill"
  <2>1. l # 1 /\ l \in Nat
    BY <1>1, <1>3
  <2>2. PICK x \in DOMAIN inbox' : l = x + 1 /\ inbox'[x] = inbox[l]
    BY <1>2, <2>1
  <2>3. x \in Nat
    BY <1>1
  <2> QED
    BY <1>3, <2>2, <2>3
<1>4. ASSUME NEW j \in Ids, Queued(<<m[1], j>>)
      PROVE  Queued(<<m[1], j>>)' \/ <<m[1], j>> \in heard'
  <2>1. PICK l \in DOMAIN inbox : inbox[l] = Delivery(<<m[1], j>>)
    BY <1>4 DEF Queued
  <2>2. CASE l = 1
    BY <1>1, <2>1, <2>2
  <2>3. CASE l # 1
    <3>1. PICK x \in DOMAIN inbox' : l = x + 1 /\ inbox'[x] = inbox[l]
      BY <1>2, <2>3
    <3> QED
      BY <2>1, <3>1 DEF Queued, Delivery
  <2> QED
    BY <2>2, <2>3
<1> QED
  BY <1>3, <1>4, AfterStep

(* A backfill at the end of the inbox follows every message in it. *)
LEMMA OrderPost ==
  ASSUME NEW N \in Nat \ {0}, DOMAIN inbox' = 1 .. N, inbox'[N] = Backfill
  PROVE  OrderInv'
<1>1. ASSUME NEW m, NEW k, k < N PROVE After(m, k)'
  <2>1. N \in DOMAIN inbox' /\ N > k /\ inbox'[N].kind = "Backfill"
    BY <1>1 DEF Backfill
  <2> QED
    BY <2>1 DEF After
<1>2. ASSUME NEW m, NEW k \in DOMAIN inbox', inbox'[k] = Delivery(m) PROVE k < N
  <2>1. k # N
    BY <1>2 DEF Delivery, Backfill
  <2> QED
    BY <2>1
<1>3. 0 < N
  OBVIOUS
<1> QED
  BY <1>1, <1>2, <1>3 DEF OrderInv, Delivery

(* A stopped process has no connection, and a backfill that gave up is one *)
(* that has not caught up.                                                 *)
EndInv == (pc = "down" => link = "none") /\ (pc = "end" => behind)

LEMMA EndStep == TInv /\ EndInv /\ [Next]_vars => EndInv'
<1> SUFFICES ASSUME TInv, EndInv, [Next]_vars PROVE EndInv'
  OBVIOUS
<1> USE DEF discord, store, directory, config, backfill, environment, counters,
            history, EndInv
<1>1. CASE UNCHANGED vars \/ Start \/ Crash \/ Panic \/ Ready \/ Resume
  BY <1>1 DEF vars, Start, Crash, Panic, Ready, Resume, Up
<1>2. CASE Environment
  BY <1>2 DEF Environment, Send, ReadFetch, Edit, Delete, ReadEnd, Lose, Refuse
<1>3. CASE FindFloor
  BY <1>3, FindFloorStep DEF Finish
<1>4. CASE Observe \/ Keep \/ Unkeep \/ TakeMessage \/ TakeAccount \/ TakeNoMessages
  BY <1>4 DEF Observe, Keep, Unkeep, TakeMessage, TakeAccount, TakeNoMessages, Finish
<1>5. CASE StartBackfill \/ ListKept \/ NextKept \/ ListChannels
  BY <1>5 DEF StartBackfill, ListKept, NextKept, ListChannels
<1>6. CASE Fetch \/ Commit \/ EndBackfill
  BY <1>6 DEF Fetch, Commit, EndBackfill
<1> QED
  BY <1>1, <1>2, <1>3, <1>4, <1>5, <1>6 DEF Next, Work

LEMMA OrderStep == TInv /\ EndInv /\ OrderInv /\ [Next]_vars => OrderInv'
<1> SUFFICES ASSUME TInv, EndInv, OrderInv, [Next]_vars PROVE OrderInv'
  OBVIOUS
<1> USE DEF discord, store, directory, config, backfill, environment, counters,
            history
<1>0. DiscordTypes /\ Phases
  BY DEF TInv
<1>1. ASSUME link' # "up" \/ ~dms' PROVE OrderInv'
  BY <1>1 DEF OrderInv
<1>2. CASE UNCHANGED vars
  BY <1>2, OrderFrame DEF vars
<1>3. CASE Start
  BY <1>1, <1>3 DEF Start, EndInv
<1>4. CASE Crash
  BY <1>1, <1>4 DEF Crash
<1>5. CASE Panic
  BY <1>5, OrderFrame DEF Panic
<1>6. ASSUME NEW c \in Channels, Send(c) PROVE OrderInv'
  <2>1. sent \in [Channels -> 0 .. MaxId]
    BY <1>0 DEF DiscordTypes
  <2>2. sent[c] \in Nat /\ sent[c] + 1 \in Ids
    BY <1>6, <2>1, MaxIdBounds, IntakeAssumption, SMTT(30) DEF Send, Channels, Ids
  <2>3. PICK i \in Ids : i = sent[c] + 1
    BY <2>2
  <2>4. /\ sent' = [sent EXCEPT ![c] = i] /\ sent'[c] = i
        /\ UNCHANGED <<link, dms, heard, pc, task>>
    BY <1>6, <2>1, <2>3 DEF Send
  <2>5. Dispatch("Message", c, i)
    BY <1>6, <2>4 DEF Send
  <2>6. \A d \in Channels, j \in Ids : j <= sent'[d] => j <= sent[d] \/ (d = c /\ j = i)
    <3> SUFFICES ASSUME NEW d \in Channels, NEW j \in Ids, j <= sent'[d]
                 PROVE  j <= sent[d] \/ (d = c /\ j = i)
      OBVIOUS
    <3>1. CASE d = c
      BY <2>2, <2>3, <2>4, <3>1 DEF Ids
    <3>2. CASE d # c
      BY <2>1, <2>4, <3>2
    <3> QED
      BY <3>1, <3>2
  <2>7. PICK kind \in {"Message", "Update"} : kind = "Message"
    OBVIOUS
  <2> QED
    BY <2>4, <2>5, <2>6, <2>7, OrderDispatch
<1>7. ASSUME NEW c \in Channels, NEW i \in Ids, Edit(c, i) PROVE OrderInv'
  <2>1. PICK kind \in {"Message", "Update"} : kind = "Update"
    OBVIOUS
  <2>2. Dispatch(kind, c, i) /\ UNCHANGED <<link, dms, heard, pc, task, sent>>
    BY <1>7, <2>1 DEF Edit
  <2> QED
    BY <2>1, <2>2, OrderDispatch
<1>8. ASSUME NEW c \in Channels, NEW i \in Ids, Delete(c, i) PROVE OrderInv'
  BY <1>8, OrderFrame DEF Delete
<1>9. ASSUME NEW c \in Channels, ReadFetch(c) PROVE OrderInv'
  BY <1>9, OrderFrame DEF ReadFetch
<1>10. CASE ReadEnd
  BY <1>10, OrderFrame DEF ReadEnd
<1>11. CASE Lose \/ Refuse \/ TakeNoMessages
  BY <1>1, <1>11 DEF Lose, Refuse, TakeNoMessages
<1>12. Backfill \in Works /\ [kind |-> "Account"] \in Works
  BY DEF Works, Backfill
<1>13. ASSUME NEW s \in Seq(Works), inbox' = inbox \o s \o <<Backfill>> PROVE OrderInv'
  <2> DEFINE t == inbox \o s
  <2>1. t \in Seq(Works)
    BY <1>0 DEF DiscordTypes
  <2>2. inbox' = t \o <<Backfill>>
    BY <1>13
  <2> HIDE DEF t
  <2>3. inbox' = Append(t, Backfill)
    BY <1>12, <2>1, <2>2
  <2>4. /\ Len(t) \in Nat /\ Len(inbox') = Len(t) + 1 /\ inbox' \in Seq(Works)
        /\ inbox'[Len(t) + 1] = Backfill
    BY <1>12, <2>1, <2>3, AppendProperties, LenProperties
  <2>5. PICK N \in Nat \ {0} : N = Len(t) + 1
    BY <2>4
  <2>6. DOMAIN inbox' = 1 .. N /\ inbox'[N] = Backfill
    BY <2>4, <2>5, LenProperties
  <2> QED
    BY <2>6, OrderPost
<1>14. CASE Ready
  <2>1. <<[kind |-> "Account"]>> \in Seq(Works)
    BY <1>12
  <2>2. inbox' = inbox \o <<[kind |-> "Account"], Backfill>>
    BY <1>14 DEF Ready, Post
  <2>3. inbox' = inbox \o <<[kind |-> "Account"]>> \o <<Backfill>>
    BY <1>0, <1>12, <2>2 DEF DiscordTypes
  <2> QED
    BY <1>13, <2>1, <2>3
<1>15. CASE Resume
  <2>1. missed \in Seq(Works) /\ inbox' = inbox \o (missed \o <<Backfill>>)
    BY <1>0, <1>15 DEF Resume, Post, DiscordTypes
  <2>2. inbox' = inbox \o missed \o <<Backfill>>
    BY <1>0, <1>12, <2>1 DEF DiscordTypes
  <2> QED
    BY <1>13, <2>1, <2>2
<1>16. ASSUME inbox # <<>>, inbox' = Tail(inbox), sent' = sent, dms' = dms,
              link' = link, heard \subseteq heard',
              \A m \in Messages : dms /\ m[1] \in Dms /\ Head(inbox) = Delivery(m)
                => m \in heard',
              \A m \in Messages : pc' = "floor" /\ task'.live /\ task'.new
                   /\ m = <<task'.channel, task'.id>> => Head(inbox) = Delivery(m)
       PROVE  OrderInv'
  <2> SUFFICES ASSUME link' = "up", dms', NEW m \in Messages, m[1] \in Dms
               PROVE  /\ \A k \in DOMAIN inbox' : inbox'[k] = Delivery(m) => After(m, k)'
                      /\ pc' = "floor" /\ task'.live /\ task'.new
                           /\ m = <<task'.channel, task'.id>> => After(m, 0)'
    BY DEF OrderInv, Delivery
  <2>1. link = "up" /\ dms /\ m[1] \in Channels
    BY <1>16 DEF Messages
  <2>2. \A j \in Ids : Head(inbox) = Delivery(<<m[1], j>>) => <<m[1], j>> \in heard'
    <3> SUFFICES ASSUME NEW j \in Ids, Head(inbox) = Delivery(<<m[1], j>>)
                 PROVE  <<m[1], j>> \in heard'
      OBVIOUS
    <3>1. PICK x : x = <<m[1], j>>
      OBVIOUS
    <3>2. x \in Messages /\ x[1] \in Dms /\ Head(inbox) = Delivery(x)
      BY <2>1, <3>1 DEF Messages
    <3> QED
      BY <1>16, <2>1, <3>1, <3>2
  <2>3. ASSUME NEW k \in Nat, NEW n, n = k + 1, After(m, n) PROVE After(m, k)'
    BY <1>0, <1>16, <2>2, <2>3, AfterTail
  <2>4. /\ DOMAIN inbox = 1 .. Len(inbox) /\ Len(inbox) \in Nat /\ 1 \in DOMAIN inbox
        /\ DOMAIN inbox' = 1 .. Len(inbox) - 1 /\ Head(inbox) = inbox[1]
        /\ \A k \in 1 .. Len(inbox) - 1 : inbox'[k] = inbox[k + 1]
    BY <1>0, <1>16, TailStep
  <2>5. ASSUME NEW k \in DOMAIN inbox', inbox'[k] = Delivery(m) PROVE After(m, k)'
    <3>1. PICK n \in DOMAIN inbox : n = k + 1
      BY <2>4
    <3>2. k \in Nat /\ inbox[n] = Delivery(m)
      BY <2>4, <2>5, <3>1
    <3>3. After(m, n)
      BY <2>1, <3>2 DEF OrderInv
    <3> QED
      BY <2>3, <3>1, <3>2, <3>3
  <2>6. ASSUME pc' = "floor", task'.live, task'.new, m = <<task'.channel, task'.id>>
        PROVE  After(m, 0)'
    <3>1. inbox[1] = Delivery(m)
      BY <1>16, <2>4, <2>6
    <3>2. After(m, 1)
      BY <2>1, <2>4, <3>1 DEF OrderInv
    <3>3. 1 = 0 + 1 /\ 0 \in Nat
      OBVIOUS
    <3> QED
      BY <2>3, <3>2, <3>3
  <2> QED
    BY <2>5, <2>6
<1>17. CASE TakeMessage
  <2>1. Head(inbox) \in Works /\ IsMessage(Head(inbox)) /\ inbox # <<>>
    BY <1>0, <1>17 DEF TakeMessage, DiscordTypes
  <2>2. PICK w \in [kind : {"Message", "Update"}, channel : Channels, id : Ids] : w = Head(inbox)
    BY <2>1 DEF Works, IsMessage
  <2>3. /\ inbox' = Tail(inbox) /\ UNCHANGED <<sent, link, dms>>
        /\ task'.new => w.kind = "Message"
        /\ task'.channel = w.channel /\ task'.id = w.id
        /\ heard' = IF w.kind = "Message" /\ w.channel \in Dms /\ dms
                    THEN heard \cup {<<w.channel, w.id>>} ELSE heard
    BY <1>17, <2>2 DEF TakeMessage
  <2>4. ASSUME NEW m \in Messages, dms, m[1] \in Dms, Head(inbox) = Delivery(m)
        PROVE  m \in heard'
    <3>1. w.kind = "Message" /\ w.channel = m[1] /\ w.id = m[2]
      BY <2>2, <2>4 DEF Delivery
    <3>2. m = <<m[1], m[2]>>
      BY DEF Messages
    <3> QED
      BY <2>3, <2>4, <3>1, <3>2
  <2>5. ASSUME NEW m \in Messages, task'.new, m = <<task'.channel, task'.id>>
        PROVE  Head(inbox) = Delivery(m)
    <3>1. m[1] = w.channel /\ m[2] = w.id /\ w.kind = "Message"
      BY <2>3, <2>5
    <3> QED
      BY <2>2, <3>1 DEF Delivery
  <2> QED
    BY <1>16, <2>1, <2>3, <2>4, <2>5
<1>18. CASE TakeAccount
  <2>1. \A m : Head(inbox) # Delivery(m)
    BY <1>18 DEF TakeAccount, Delivery
  <2> QED
    BY <1>16, <1>18, <2>1 DEF TakeAccount
<1>19. CASE StartBackfill
  <2>1. CASE inbox # <<>> /\ Head(inbox).kind = "Backfill" /\ inbox' = Tail(inbox)
    <3>1. \A m : Head(inbox) # Delivery(m)
      BY <2>1 DEF Delivery
    <3> QED
      BY <1>16, <1>19, <2>1, <3>1 DEF StartBackfill
  <2>2. CASE inbox' = inbox
    BY <1>19, <2>2, OrderFrame DEF StartBackfill
  <2> QED
    BY <1>19, <2>1, <2>2 DEF StartBackfill
<1>20. CASE FindFloor
  <2>1. pc' # "floor"
    BY <1>20, FindFloorStep DEF Finish
  <2> QED
    BY <1>20, <2>1, FindFloorStep, OrderFrame
<1>21. CASE Observe \/ Keep \/ Unkeep
  <2>1. pc' # "floor" /\ UNCHANGED <<inbox, sent, heard, link, dms>>
    BY <1>21 DEF Observe, Keep, Unkeep, Finish
  <2> QED
    BY <2>1, OrderFrame
<1>22. CASE NextKept
  <2>1. task'.live = FALSE /\ UNCHANGED <<inbox, sent, heard, link, dms>>
    BY <1>22 DEF NextKept
  <2> QED
    BY <2>1, OrderFrame
<1>23. CASE ListKept \/ ListChannels \/ Fetch \/ Commit \/ EndBackfill
  <2>1. pc' # "floor" /\ UNCHANGED <<inbox, sent, heard, link, dms>>
    BY <1>23 DEF ListKept, ListChannels, Fetch, Commit, EndBackfill
  <2> QED
    BY <2>1, OrderFrame
<1> QED
  BY <1>2, <1>3, <1>4, <1>5, <1>6, <1>7, <1>8, <1>9, <1>10, <1>11, <1>14, <1>15,
     <1>17, <1>18, <1>19, <1>20, <1>21, <1>22, <1>23 DEF Next, Environment, Work

-----------------------------------------------------------------------------
(* What brings the messages that are owed. *)

(* Where a served channel begins, or will once a floor is kept for it. *)
StartsAt(c) == IF c \in configured THEN ConfiguredFloor(c) ELSE floors["dms"][c]

Above(m) == /\ StartsAt(m[1]) # None /\ StartsAt(m[1]) < m[2]
            /\ m[1] \in configured \/ dms

KeptFor(m) ==
    \/ <<m[1], m[2], TRUE>> \in unstored /\ dms
    \/ /\ <<m[1], m[2], FALSE>> \in unstored /\ m[1] \in configured
       /\ floors["channels"][m[1]] = None

(* As Owed, before a floor is kept for a channel that is configured too. *)
Wanted(m) == /\ m[2] <= sent[m[1]] /\ m \notin stored \cup gone \cup excused
             /\ Above(m) \/ KeptFor(m)

InBackfill == \/ pc \in {"kept", "retry", "pull", "commit", "end"}
              \/ pc \in Handling /\ ~task.live

(* Another backfill follows this moment. *)
Coming == link # "up" \/ behind \/ HasBackfill \/ (due /\ ~InBackfill)

(* The message is in hand, and not as one that was only edited. *)
Held(m) == /\ pc \in {"floor", "observe", "keep"} /\ m = <<task.channel, task.id>>
           /\ pc = "floor" => task.created \/ ~task.live

Retrying(m) == \E new \in BOOLEAN : <<m[1], m[2], new>> \in retrying

(* The backfill at work has still to fetch the message by id, to pull its  *)
(* channel, or to commit it.                                               *)
Ahead(m) ==
    \/ pc = "kept"
    \/ InBackfill /\ pc \in {"retry"} \cup Handling /\ (Above(m) \/ Retrying(m))
    \/ /\ pc \in {"pull", "commit"} /\ Above(m) /\ m[1] \in pulling
       /\ pc = "commit" /\ batch.channel = m[1]
            => m \in batch.messages \/ batch.more

Provided(m) == Coming \/ Queued(m) \/ Held(m) \/ Ahead(m)

(* A message the last listings left out is only sure to be fetched by the  *)
(* next backfill, if one comes.                                            *)
Sought(m) == Up /\ Wanted(m) => Provided(m)

OwedInv == \A m \in Messages : m \notin overlooked => Sought(m)

(* What a step has to show for a message that was provided for. *)
LEMMA ProvidedStep ==
  ASSUME NEW m, Provided(m), link' = "up" => link = "up",
         HasBackfill => HasBackfill', behind => Coming',
         due /\ ~InBackfill => Coming', Queued(m) => Provided(m)',
         Held(m) => Provided(m)', Ahead(m) => Provided(m)'
  PROVE  Provided(m)'
<1>1. CASE Coming
  BY <1>1 DEF Provided, Coming
<1> QED
  BY <1>1 DEF Provided

(* Where channels begin and what was kept is unchanged. *)
LEMMA WantedFrame ==
  ASSUME [Next]_vars, UNCHANGED <<floors, unstored, configured, dms, startFloor>>, NEW m
  PROVE  /\ Above(m)' <=> Above(m)
         /\ Wanted(m)' /\ m[2] <= sent[m[1]] => Wanted(m)
<1>1. StartsAt(m[1])' = StartsAt(m[1])
  BY DEF StartsAt, ConfiguredFloor
<1>2. Above(m)' <=> Above(m)
  BY <1>1 DEF Above
<1>3. KeptFor(m)' <=> KeptFor(m)
  BY DEF KeptFor
<1> QED
  BY <1>2, <1>3, DoneStep DEF Wanted

(* What is in the inbox is unchanged, or is taken and is something else. *)
LEMMA InboxFrame ==
  ASSUME inbox' = inbox, NEW m
  PROVE  (HasBackfill => HasBackfill') /\ (Queued(m) => Queued(m)')
BY DEF HasBackfill, Queued, Delivery

LEMMA InboxTail ==
  ASSUME DiscordTypes, inbox # <<>>, inbox' = Tail(inbox), NEW m
  PROVE  /\ HasBackfill /\ Head(inbox).kind # "Backfill" => HasBackfill'
         /\ Queued(m) /\ Head(inbox) # Delivery(m) => Queued(m)'
<1>1. /\ Len(inbox) \in Nat /\ DOMAIN inbox = 1 .. Len(inbox)
      /\ DOMAIN inbox' = 1 .. Len(inbox) - 1
      /\ Head(inbox) = inbox[1]
      /\ \A l \in 1 .. Len(inbox) - 1 : inbox'[l] = inbox[l + 1]
  BY TailStep
<1>2. ASSUME NEW l \in DOMAIN inbox, l # 1
      PROVE  \E x \in DOMAIN inbox' : inbox'[x] = inbox[l]
  <2>1. l - 1 \in 1 .. Len(inbox) - 1 /\ l = (l - 1) + 1
    BY <1>1, <1>2
  <2> QED
    BY <1>1, <2>1
<1>3. ASSUME HasBackfill, Head(inbox).kind # "Backfill" PROVE HasBackfill'
  <2>1. PICK l \in DOMAIN inbox : inbox[l].kind = "Backfill"
    BY <1>3 DEF HasBackfill
  <2>2. PICK x \in DOMAIN inbox' : inbox'[x] = inbox[l]
    BY <1>1, <1>2, <1>3, <2>1
  <2> QED
    BY <2>1, <2>2 DEF HasBackfill
<1>4. ASSUME Queued(m), Head(inbox) # Delivery(m) PROVE Queued(m)'
  <2>1. PICK l \in DOMAIN inbox : inbox[l] = Delivery(m)
    BY <1>4 DEF Queued
  <2>2. PICK x \in DOMAIN inbox' : inbox'[x] = inbox[l]
    BY <1>1, <1>2, <1>4, <2>1
  <2> QED
    BY <2>1, <2>2 DEF Queued, Delivery
<1> QED
  BY <1>3, <1>4

LEMMA InboxDispatch ==
  ASSUME DiscordTypes, NEW kind \in {"Message", "Update"}, NEW c \in Channels,
         NEW i \in Ids, Dispatch(kind, c, i), link = "up", NEW m
  PROVE  /\ HasBackfill => HasBackfill'
         /\ Queued(m) => Queued(m)'
         /\ kind = "Message" /\ m = <<c, i>> => Queued(m)'
<1>1. PICK p \in 1 .. Len(inbox) + 1 :
        /\ DOMAIN inbox' = 1 .. Len(inbox) + 1
        /\ inbox'[p] = [kind |-> kind, channel |-> c, id |-> i]
        /\ \A k \in 1 .. Len(inbox) :
              inbox'[IF k < p THEN k ELSE k + 1] = inbox[k]
  BY DispatchUp
<1>2. Len(inbox) \in Nat /\ DOMAIN inbox = 1 .. Len(inbox)
  BY LenProperties DEF DiscordTypes
<1>3. ASSUME NEW k \in DOMAIN inbox PROVE \E x \in DOMAIN inbox' : inbox'[x] = inbox[k]
  <2>1. (IF k < p THEN k ELSE k + 1) \in DOMAIN inbox'
    BY <1>1, <1>2
  <2> QED
    BY <1>1, <1>2, <2>1
<1>4. HasBackfill => HasBackfill'
  BY <1>3 DEF HasBackfill
<1>5. Queued(m) => Queued(m)'
  BY <1>3 DEF Queued, Delivery
<1>6. ASSUME kind = "Message", m = <<c, i>> PROVE Queued(m)'
  <2>1. p \in DOMAIN inbox' /\ inbox'[p] = Delivery(m)
    BY <1>1, <1>2, <1>6 DEF Delivery
  <2> QED
    BY <2>1 DEF Queued, Delivery
<1> QED
  BY <1>4, <1>5, <1>6

(* A new process has no connection yet; a panic makes a backfill due; a    *)
(* session that comes up brings one, and one that is gone will.            *)
LEMMA OwedSession ==
  ASSUME TInv, EndInv,
         Start \/ Panic \/ Ready \/ Resume \/ Lose \/ Refuse, NEW m
  PROVE  Provided(m)'
<1> USE DEF discord, store, directory, config, backfill, environment, counters,
            history
<1>0. inbox \in Seq(Works) /\ missed \in Seq(Works) /\ Backfill \in Works
      /\ [kind |-> "Account"] \in Works
  BY DEF TInv, DiscordTypes, Works, Backfill
<1>1. CASE Start \/ Lose \/ Refuse
  BY <1>1 DEF Start, Lose, Refuse, EndInv, Provided, Coming
<1>2. CASE Panic
  BY <1>2 DEF Panic, Provided, Coming, InBackfill, Handling
<1>3. ASSUME NEW s \in Seq(Works), inbox' = s \o <<Backfill>> PROVE Provided(m)'
  <2>1. inbox' = Append(s, Backfill)
    BY <1>0, <1>3
  <2>2. /\ Len(s) \in Nat /\ Len(inbox') = Len(s) + 1 /\ inbox' \in Seq(Works)
        /\ inbox'[Len(s) + 1] = Backfill
    BY <1>0, <2>1, AppendProperties, LenProperties
  <2>3. Len(s) + 1 \in DOMAIN inbox' /\ inbox'[Len(s) + 1].kind = "Backfill"
    BY <2>2, LenProperties DEF Backfill
  <2> QED
    BY <2>3 DEF Provided, Coming, HasBackfill
<1>4. CASE Ready
  <2>0. inbox \o <<[kind |-> "Account"]>> \in Seq(Works)
    BY <1>0
  <2>1. PICK s \in Seq(Works) : s = inbox \o <<[kind |-> "Account"]>>
    BY <2>0
  <2>2. inbox' = inbox \o <<[kind |-> "Account"], Backfill>>
    BY <1>4 DEF Ready, Post
  <2>3. inbox' = s \o <<Backfill>>
    BY <1>0, <2>1, <2>2
  <2> QED
    BY <1>3, <2>3
<1>5. CASE Resume
  <2>0. inbox \o missed \in Seq(Works)
    BY <1>0
  <2>1. PICK s \in Seq(Works) : s = inbox \o missed
    BY <2>0
  <2>2. inbox' = inbox \o (missed \o <<Backfill>>)
    BY <1>5 DEF Resume, Post
  <2>3. inbox' = s \o <<Backfill>>
    BY <1>0, <2>1, <2>2
  <2> QED
    BY <1>3, <2>3
<1> QED
  BY <1>1, <1>2, <1>4, <1>5

(* A dispatch reaches the inbox, or the connection is gone. *)
LEMMA OwedDispatch ==
  ASSUME TInv, Up, [Next]_vars, NEW kind \in {"Message", "Update"},
         NEW c \in Channels, NEW i \in Ids, Dispatch(kind, c, i),
         UNCHANGED <<link, store, directory, pc, config, due, task, backfill>>,
         NEW m \in Messages, Sought(m), Wanted(m)',
         m[2] <= sent[m[1]] \/ (kind = "Message" /\ m = <<c, i>>)
  PROVE  Provided(m)'
<1> USE DEF discord, store, directory, config, backfill, environment, counters,
            history
<1>1. CASE link # "up"
  BY <1>1 DEF Provided, Coming
<1>2. CASE link = "up"
  <2>1. /\ HasBackfill => HasBackfill'
        /\ Queued(m) => Queued(m)'
        /\ kind = "Message" /\ m = <<c, i>> => Queued(m)'
    BY <1>2, InboxDispatch DEF TInv
  <2>2. CASE kind = "Message" /\ m = <<c, i>>
    BY <2>1, <2>2 DEF Provided
  <2>3. CASE m[2] <= sent[m[1]]
    <3>1. (Above(m)' <=> Above(m)) /\ Wanted(m)
      BY <2>3, WantedFrame
    <3>2. Provided(m)
      BY <3>1 DEF Sought
    <3>3. (behind => Coming') /\ (due /\ ~InBackfill => Coming')
      BY DEF Coming, InBackfill
    <3>4. (Held(m) => Held(m)') /\ (Ahead(m) => Ahead(m)')
      BY <3>1 DEF Held, Ahead, Retrying, InBackfill
    <3>5. (Queued(m) \/ Held(m) \/ Ahead(m)) => Provided(m)'
      BY <2>1, <3>4 DEF Provided
    <3>6. link' = "up" => link = "up"
      BY <1>2
    <3> QED
      BY <2>1, <3>2, <3>3, <3>5, <3>6, ProvidedStep
  <2> QED
    BY <2>2, <2>3
<1> QED
  BY <1>1, <1>2

(* Steps of others, that leave the thread and its inbox alone. *)
LEMMA OwedFrame ==
  ASSUME Up, [Next]_vars,
         UNCHANGED <<link, sent, directory, pc, inbox, config, due, task, backfill>>,
         NEW m \in Messages, Sought(m), Wanted(m)'
  PROVE  Provided(m)'
<1> USE DEF directory, config, backfill
<1>1. m[2] <= sent[m[1]]
  BY DEF Wanted
<1>2. (Above(m)' <=> Above(m)) /\ Wanted(m)
  BY <1>1, WantedFrame
<1>3. Provided(m)
  BY <1>2 DEF Sought
<1>4. (HasBackfill => HasBackfill') /\ (Queued(m) => Queued(m)')
  BY InboxFrame
<1>5. Coming => Coming'
  BY <1>4 DEF Coming, InBackfill
<1>6. (Held(m) => Held(m)') /\ (Ahead(m) => Ahead(m)')
  BY <1>2 DEF Held, Ahead, Retrying, InBackfill
<1> QED
  BY <1>3, <1>4, <1>5, <1>6 DEF Provided

(* A step that leaves the markers, floors and the inbox alone. *)
LEMMA OwedWork ==
  ASSUME Up, [Next]_vars,
         UNCHANGED <<link, sent, directory, inbox, config>>,
         NEW m \in Messages, Sought(m), Wanted(m)',
         behind => Coming', due /\ ~InBackfill => Coming',
         Wanted(m) /\ Held(m) => Provided(m)', Wanted(m) /\ Ahead(m) => Provided(m)'
  PROVE  Provided(m)'
<1> USE DEF directory, config
<1>1. m[2] <= sent[m[1]]
  BY DEF Wanted
<1>2. (Above(m)' <=> Above(m)) /\ Wanted(m)
  BY <1>1, WantedFrame
<1>3. Provided(m)
  BY <1>2 DEF Sought
<1>4. (HasBackfill => HasBackfill') /\ (Queued(m) => Queued(m)')
  BY InboxFrame
<1>5. Queued(m) => Provided(m)'
  BY <1>4 DEF Provided
<1> QED
  BY <1>2, <1>3, <1>4, <1>5, ProvidedStep

(* A message that is taken is in hand, if it was new. *)
LEMMA OwedTaken ==
  ASSUME TInv, [Next]_vars, TakeMessage \/ TakeAccount \/ TakeNoMessages,
         NEW m \in Messages, Sought(m), Wanted(m)'
  PROVE  Provided(m)'
<1> USE DEF discord, store, directory, config, backfill, environment, counters,
            history
<1>0. DiscordTypes /\ pc = "idle" /\ Up /\ ~behind /\ inbox # <<>> /\ inbox' = Tail(inbox)
      /\ UNCHANGED <<link, sent>> /\ m[2] <= sent[m[1]]
  BY DEF TInv, Phases, TakeMessage, TakeAccount, TakeNoMessages, Up, Wanted
<1>1. CASE TakeNoMessages
  <2>1. ~dms' /\ configured' = {}
    BY <1>1 DEF TakeNoMessages
  <2> QED
    BY <2>1 DEF Wanted, Above, KeptFor
<1>2. ASSUME UNCHANGED <<directory, config>>, Head(inbox).kind # "Backfill",
             Head(inbox) = Delivery(m) => Held(m)',
             due => due' /\ ~InBackfill'
      PROVE  Provided(m)'
  <2>1. Wanted(m)
    BY <1>0, <1>2, WantedFrame
  <2>2. Provided(m)
    BY <1>0, <2>1 DEF Sought
  <2>3. /\ HasBackfill => HasBackfill'
        /\ Queued(m) => Queued(m)' \/ Held(m)'
    BY <1>0, <1>2, InboxTail
  <2>4. ~Held(m) /\ ~Ahead(m)
    BY <1>0 DEF Held, Ahead, InBackfill, Handling
  <2>5. due /\ ~InBackfill => Coming'
    BY <1>2 DEF Coming
  <2>6. Queued(m) => Provided(m)'
    BY <2>3 DEF Provided
  <2> QED
    BY <1>0, <2>2, <2>3, <2>4, <2>5, <2>6, ProvidedStep
<1>3. CASE TakeMessage
  <2>1. UNCHANGED <<directory, config, due>> /\ pc' = "floor" /\ task'.live
        /\ Head(inbox).kind # "Backfill"
    BY <1>3 DEF TakeMessage, IsMessage
  <2>2. ~InBackfill'
    BY <2>1 DEF InBackfill
  <2>3. ASSUME Head(inbox) = Delivery(m) PROVE Held(m)'
    <3>1. /\ task'.channel = Head(inbox).channel /\ task'.id = Head(inbox).id
          /\ Head(inbox).kind = "Message" => task'.created
      BY <1>3 DEF TakeMessage
    <3>4. /\ Head(inbox).channel = m[1] /\ Head(inbox).id = m[2]
          /\ Head(inbox).kind = "Message"
      BY <2>3 DEF Delivery
    <3>2. task'.channel = m[1] /\ task'.id = m[2] /\ task'.created
      BY <3>1, <3>4
    <3>3. m = <<m[1], m[2]>>
      BY DEF Messages
    <3> QED
      BY <2>1, <3>2, <3>3 DEF Held
  <2> QED
    BY <1>2, <2>1, <2>2, <2>3
<1>4. CASE TakeAccount
  <2>1. /\ Head(inbox).kind # "Backfill" /\ Head(inbox) # Delivery(m)
        /\ UNCHANGED <<directory, config, pc>> /\ (due => due')
    BY <1>4 DEF TakeAccount, Delivery
  <2>2. ~InBackfill'
    BY <1>0, <2>1 DEF InBackfill, Handling
  <2> QED
    BY <1>2, <2>1, <2>2
<1> QED
  BY <1>1, <1>3, <1>4

(* What the floor that is found changes: a DM channel may begin earlier,   *)
(* at the message in hand.                                                 *)
LEMMA FoundAbove ==
  ASSUME TInv, FloorInv, FindFloor, NEW m \in Messages
  PROVE  /\ Above(m) => Above(m)'
         /\ KeptFor(m)' => KeptFor(m)
         /\ Above(m)' /\ ~Above(m)
              => /\ m[1] = task.channel /\ m[1] \in Dms /\ m[1] \notin configured
                 /\ task.new /\ dms /\ task.id <= m[2]
                 /\ floors' = Found.floors /\ Found.floor = task.id - 1
         /\ floors' = Found.floors /\ m[1] = task.channel /\ m[1] \in configured
              => floors'["channels"][m[1]] # None /\ StartsAt(m[1])' = Found.floor
<1> DEFINE t == task.channel
           dm == ~task.live \/ t \in Dms
<1>0. /\ pc = "floor" /\ FloorTypes /\ m[1] \in Channels /\ m[2] \in Nat
      /\ UNCHANGED <<configured, dms, startFloor, unstored>>
      /\ floors' \in {floors, Found.floors}
  BY FindFloorStep DEF TInv, Messages, Ids, config, directory
<1>1. /\ t \in Channels /\ task.id \in Nat /\ First \in (0 .. MaxId) \cup {None}
      /\ floors \in [Kinds -> [Channels -> (0 .. MaxId) \cup {None}]]
      /\ "channels" \in Kinds /\ "dms" \in Kinds
  BY <1>0, FoundTypes DEF FloorTypes, Tasks, Ids, Kinds
<1>2. \A c \in Channels : ConfiguredFloor(c) \in 0 .. MaxId /\ ConfiguredFloor(c) # None
  BY <1>0, <1>1, MaxIdBounds, IntakeAssumption DEF ConfiguredFloor, FloorTypes
<1>3. ASSUME floors' = floors
      PROVE  (Above(m)' <=> Above(m)) /\ (KeptFor(m)' <=> KeptFor(m))
  <2>1. StartsAt(m[1])' = StartsAt(m[1])
    BY <1>0, <1>3 DEF StartsAt, ConfiguredFloor
  <2>2. Above(m)' <=> Above(m)
    BY <1>0, <2>1 DEF Above
  <2>3. KeptFor(m)' <=> KeptFor(m)
    BY <1>0, <1>3 DEF KeptFor
  <2> QED
    BY <2>2, <2>3
<1>4. CASE t \in configured /\ floors' = Found.floors
  <2>1. /\ Found.floor = ConfiguredFloor(t)
        /\ floors' = [floors EXCEPT !["channels"][t] = ConfiguredFloor(t)]
    BY <1>4 DEF Found, FloorFor
  <2>2. /\ floors'["dms"] = floors["dms"]
        /\ \A c \in Channels : floors'["channels"][c] =
              IF c = t THEN ConfiguredFloor(t) ELSE floors["channels"][c]
    BY <1>1, <2>1
  <2>3. \A c \in Channels : ConfiguredFloor(c)' = ConfiguredFloor(c)
    BY <1>0, <1>2, <2>2 DEF ConfiguredFloor
  <2>4. \A c \in Channels : StartsAt(c)' = StartsAt(c)
    <3> SUFFICES ASSUME NEW c \in Channels PROVE StartsAt(c)' = StartsAt(c)
      OBVIOUS
    <3>1. ConfiguredFloor(c)' = ConfiguredFloor(c)
      BY <2>3
    <3> QED
      BY <1>0, <2>2, <3>1 DEF StartsAt
  <2>5. StartsAt(m[1])' = StartsAt(m[1])
    BY <1>0, <2>4
  <2>6. Above(m)' <=> Above(m)
    BY <1>0, <2>5 DEF Above
  <2>7. KeptFor(m)' => KeptFor(m)
    BY <1>0, <1>1, <1>2, <2>2 DEF KeptFor
  <2>8. m[1] = t => floors'["channels"][m[1]] # None
    BY <1>1, <1>2, <2>2
  <2>9. m[1] = t => StartsAt(m[1])' = Found.floor
    BY <1>4, <2>1, <2>5 DEF StartsAt
  <2> QED
    BY <2>6, <2>7, <2>8, <2>9
<1>5. CASE t \notin configured /\ dms /\ dm /\ Lower(t, First) /\ floors' = Found.floors
  <2>1. /\ Found.floor = First
        /\ floors' = [floors EXCEPT !["dms"][t] = First]
    BY <1>5 DEF Found, FloorFor
  <2>2. /\ floors'["channels"] = floors["channels"]
        /\ \A c \in Channels : floors'["dms"][c] = IF c = t THEN First ELSE floors["dms"][c]
    BY <1>1, <2>1
  <2>3. task.new /\ t \in Dms /\ First = task.id - 1 /\ First \in Nat
    BY <1>0, <1>1, <1>5, LoweredIsHeard, MaxIdBounds DEF FloorInv, Lower
  <2>4. CASE m[1] = t
    <3>1. StartsAt(m[1])' = First /\ StartsAt(m[1]) = floors["dms"][t]
      BY <1>0, <1>1, <1>5, <2>2, <2>4 DEF StartsAt
    <3>2. First # None /\ (floors["dms"][t] = None \/ First < floors["dms"][t])
      BY <1>5 DEF Lower
    <3>3. floors["dms"][t] = None \/ floors["dms"][t] \in Nat
      BY <1>1, MaxIdBounds
    <3>4. Above(m) => Above(m)'
      BY <1>0, <2>3, <3>1, <3>2, <3>3 DEF Above
    <3>5. Above(m)' => task.id <= m[2]
      BY <1>0, <1>1, <2>3, <3>1 DEF Above
    <3>6. KeptFor(m)' <=> KeptFor(m)
      BY <1>0, <2>2 DEF KeptFor
    <3> QED
      BY <1>5, <2>1, <2>3, <2>4, <3>4, <3>5, <3>6
  <2>5. CASE m[1] # t
    <3>1. floors'["dms"][m[1]] = floors["dms"][m[1]]
      BY <1>0, <2>2, <2>5
    <3>2. StartsAt(m[1])' = StartsAt(m[1])
      BY <1>0, <2>2, <3>1 DEF StartsAt, ConfiguredFloor
    <3>3. Above(m)' <=> Above(m)
      BY <1>0, <3>2 DEF Above
    <3>4. KeptFor(m)' <=> KeptFor(m)
      BY <1>0, <2>2 DEF KeptFor
    <3> QED
      BY <1>5, <3>3, <3>4
  <2> QED
    BY <2>4, <2>5
<1>6. CASE ~ (t \in configured) /\ ~ (t \notin configured /\ dms /\ dm /\ Lower(t, First))
           /\ floors' = Found.floors
  <2>1. floors' = floors
    BY <1>6 DEF Found, FloorFor
  <2> QED
    BY <1>3, <1>6, <2>1
<1>7. CASE floors' # Found.floors
  <2>1. floors' = floors
    BY <1>0, <1>7
  <2> QED
    BY <1>3, <1>7, <2>1
<1> QED
  BY <1>4, <1>5, <1>6, <1>7

(* A message that is passed over lies below where its channel begins, or   *)
(* was only edited, or a pull brings it.                                   *)
LEMMA PassedOver ==
  ASSUME TInv, FloorInv, KeptInv, [Next]_vars, FindFloor, floors' = Found.floors,
         Found.floor = None \/ ~ (task.id > Found.floor),
         excused' = excused \cup Torn \cup (IF Found.floor = None THEN InHand ELSE {}),
         NEW m \in Messages, m = <<task.channel, task.id>>, Wanted(m)'
  PROVE  IF task.live THEN ~task.created ELSE Above(m)'
<1>0. /\ pc = "floor" /\ pc \in Handling /\ m[1] = task.channel /\ m[2] = task.id
      /\ m[1] \in Channels /\ m[2] \in Nat /\ task \in Tasks
      /\ UNCHANGED <<configured, dms, unstored>>
      /\ configured \subseteq Guilds /\ heard \subseteq Dms \X Ids
  BY FindFloorStep, FoundTypes
     DEF TInv, FloorTypes, Messages, Ids, Handling, config, directory
<1>1. m \notin excused' /\ (Above(m)' \/ KeptFor(m)')
  BY DEF Wanted
<1>2. ASSUME task.new PROVE FALSE
  <2>1. Found.floor = None
    BY <1>0, <1>2, NewIsAbove
  <2>2. m \in excused'
    BY <1>2, <2>1 DEF InHand
  <2> QED
    BY <1>1, <2>2
<1>3. <<m[1], m[2], TRUE>> \in unstored => m[1] \in Dms
  <2> SUFFICES ASSUME <<m[1], m[2], TRUE>> \in unstored PROVE m[1] \in Dms
    OBVIOUS
  <2>1. PICK k : k = <<m[1], m[2], TRUE>>
    OBVIOUS
  <2>2. k \in unstored \cup retrying /\ k[3] /\ k[1] = m[1] /\ k[2] = m[2]
    BY <2>1
  <2>3. <<k[1], k[2]>> \in heard
    BY <2>2 DEF FloorInv, NewInv
  <2> QED
    BY <1>0, <2>2, <2>3
<1>4. m[1] \in configured => floors'["channels"][m[1]] # None /\ StartsAt(m[1])' = Found.floor
  BY <1>0, FoundAbove
<1>5. ASSUME ~task.live PROVE Above(m)'
  <2>1. <<m[1], m[2], TRUE>> \notin unstored
    <3> SUFFICES ASSUME <<m[1], m[2], TRUE>> \in unstored PROVE FALSE
      OBVIOUS
    <3>1. m \in Torn
      BY <1>0, <1>2, <1>5 DEF Torn
    <3> QED
      BY <1>1, <3>1
  <2>2. ~KeptFor(m)'
    BY <1>0, <1>4, <2>1 DEF KeptFor
  <2> QED
    BY <1>1, <2>2
<1>6. ASSUME task.live, task.created PROVE FALSE
  <2>1. m[1] \notin Dms
    BY <1>0, <1>2, <1>6 DEF FloorInv, NewInv
  <2>2. ~KeptFor(m)'
    BY <1>0, <1>3, <1>4, <2>1 DEF KeptFor
  <2>3. m[1] \in Guilds /\ Above(m)'
    BY <1>0, <1>1, <2>1, <2>2 DEF Channels
  <2>4. CASE m[1] \in configured
    BY <1>0, <1>4, <2>3, <2>4 DEF Above
  <2>5. CASE m[1] \notin configured
    <3>1. floors'["dms"][m[1]] = None
      BY <2>3, FloorsStep DEF FloorsInv
    <3>2. StartsAt(m[1])' = None
      BY <1>0, <2>5, <3>1 DEF StartsAt
    <3> QED
      BY <2>3, <3>2 DEF Above
  <2> QED
    BY <2>4, <2>5
<1> QED
  BY <1>5, <1>6

(* Where a DM channel begins earlier, what came after that message was     *)
(* heard, is in the inbox, or was missed.                                  *)
LEMMA OwedLowered ==
  ASSUME TInv, FloorInv, KeptInv, OrderInv, [Next]_vars, FindFloor,
         NEW m \in Messages, Wanted(m)', ~Wanted(m)
  PROVE  Provided(m)'
<1> USE DEF discord, store, directory, config, backfill, environment, counters,
            history
<1>0. /\ pc = "floor" /\ task \in Tasks /\ m[2] \in Ids /\ m[2] <= sent[m[1]]
      /\ m \notin stored \cup gone \cup excused /\ m = <<m[1], m[2]>>
      /\ UNCHANGED <<configured, dms, unstored, link, inbox, heard, sent>>
  BY FindFloorStep, FoundTypes, DoneStep DEF Wanted, Messages
<1>1. ~Above(m) /\ ~KeptFor(m) /\ Above(m)'
  BY <1>0, FoundAbove DEF Wanted
<1>2. /\ m[1] = task.channel /\ m[1] \in Dms /\ m[1] \notin configured
      /\ task.new /\ dms /\ task.id <= m[2]
      /\ floors' = Found.floors /\ Found.floor = task.id - 1
  BY <1>1, FoundAbove
<1>3. task.id \in Ids /\ task.id \in Nat /\ m[2] \in Nat /\ Found.floor # None
  BY <1>0, <1>2, MaxIdBounds, IntakeAssumption DEF Tasks, Ids
<1>4. floors' # floors
  <2>1. ASSUME floors' = floors PROVE Above(m)' <=> Above(m)
    <3>1. StartsAt(m[1])' = StartsAt(m[1])
      BY <1>0, <1>2, <2>1 DEF StartsAt
    <3> QED
      BY <1>0, <3>1 DEF Above
  <2> QED
    BY <1>1, <2>1
<1>5. pc' = "observe" /\ task' = [task EXCEPT !.floor = Found.floor]
  BY <1>2, <1>3, <1>4, FindFloorStep
<1>6. task'.channel = task.channel /\ task'.id = task.id /\ task'.live = task.live
  BY <1>0, <1>5 DEF Tasks
<1>7. CASE m[2] = task.id
  BY <1>0, <1>2, <1>5, <1>6, <1>7 DEF Provided, Held
<1>8. CASE ~task.live
  BY <1>1, <1>5, <1>6, <1>8 DEF Provided, Ahead, InBackfill, Handling
<1>9. CASE link # "up"
  BY <1>0, <1>9 DEF Provided, Coming
<1>10. CASE m[2] # task.id /\ task.live /\ link = "up"
  <2>1. PICK x : x = <<task.channel, task.id>>
    OBVIOUS
  <2>2. x \in Messages /\ x[1] = m[1] /\ x[2] = task.id
    BY <1>0, <1>2, <2>1 DEF Messages, Tasks
  <2>3. After(x, 0)
    BY <1>0, <1>2, <1>10, <2>1, <2>2 DEF OrderInv
  <2>4. x[2] < m[2] /\ m[2] <= sent[x[1]]
    BY <1>0, <1>2, <1>3, <1>10, <2>2
  <2>5. Queued(m) \/ m \in heard \/ HasBackfill
    <3>1. Queued(<<x[1], m[2]>>) \/ <<x[1], m[2]>> \in heard \/ HasBackfill
      BY <1>0, <2>3, <2>4 DEF After, HasBackfill
    <3> QED
      BY <1>0, <2>2, <3>1
  <2>6. ASSUME m \in heard PROVE FALSE
    <3>1. m \notin InHand
      BY <1>10 DEF InHand
    <3>2. Secured(m)
      BY <2>6, <3>1 DEF KeptInv, SecuredInv
    <3>3. <<m[1], m[2], TRUE>> \notin unstored
      BY <1>1, <1>2 DEF KeptFor
    <3>4. ~ (floors["dms"][m[1]] # None /\ floors["dms"][m[1]] < m[2])
      BY <1>1, <1>2 DEF Above, StartsAt
    <3> QED
      BY <1>0, <3>2, <3>3, <3>4 DEF Secured
  <2>7. Queued(m)' \/ HasBackfill'
    BY <1>0, <2>5, <2>6, InboxFrame
  <2> QED
    BY <2>7 DEF Provided, Coming
<1> QED
  BY <1>7, <1>8, <1>9, <1>10

LEMMA OwedFound ==
  ASSUME TInv, FloorInv, KeptInv, OrderInv, [Next]_vars, FindFloor,
         NEW m \in Messages, Sought(m), Wanted(m)'
  PROVE  Provided(m)'
<1> USE DEF discord, store, directory, config, backfill, environment, counters,
            history
<1>0. /\ pc = "floor" /\ pc \in Handling /\ task \in Tasks /\ Up
      /\ task.live => ~behind
      /\ UNCHANGED <<link, inbox, retrying>>
  BY FindFloorStep, FoundTypes DEF TInv, Phases, Handling, Up
<1>1. /\ (HasBackfill => HasBackfill') /\ (Queued(m) => Queued(m)')
      /\ (link' = "up" => link = "up")
  BY <1>0, InboxFrame
<1>2. Queued(m) => Provided(m)'
  BY <1>1 DEF Provided
<1>3. (Above(m) => Above(m)') /\ (Retrying(m) => Retrying(m)')
  BY <1>0, FoundAbove DEF Retrying
<1>4. Ahead(m) => ~task.live /\ (Above(m) \/ Retrying(m))
  BY <1>0 DEF Ahead, InBackfill
<1>5. ASSUME Wanted(m),
             pc' \in {"observe", "keep", "unkeep"}, task'.live = task.live,
             UNCHANGED <<due, behind>>,
             Held(m) => Held(m)' \/ (~task.live /\ Above(m)')
      PROVE  Provided(m)'
  <2>1. InBackfill <=> InBackfill'
    BY <1>0, <1>5 DEF InBackfill, Handling
  <2>2. (behind => Coming') /\ (due /\ ~InBackfill => Coming')
    BY <1>5, <2>1 DEF Coming
  <2>3. ~task.live /\ (Above(m)' \/ Retrying(m)') => Ahead(m)'
    BY <1>5 DEF Ahead, InBackfill, Handling
  <2>4. Ahead(m) => Provided(m)'
    BY <1>3, <1>4, <2>3 DEF Provided
  <2>5. Held(m) => Provided(m)'
    BY <1>5, <2>3 DEF Provided
  <2>6. Provided(m)
    BY <1>0, <1>5 DEF Sought
  <2> QED
    BY <1>1, <1>2, <2>2, <2>4, <2>5, <2>6, ProvidedStep
<1>6. CASE ~Wanted(m)
  BY <1>6, OwedLowered
<1>7. CASE Wanted(m)
  <2>1. CASE /\ task' = [task EXCEPT !.floor = Found.floor]
             /\ pc' = "observe" /\ UNCHANGED <<due, behind>>
    <3>1. task'.live = task.live /\ task'.channel = task.channel /\ task'.id = task.id
      BY <1>0, <2>1 DEF Tasks
    <3>2. Held(m) => Held(m)'
      BY <2>1, <3>1 DEF Held
    <3> QED
      BY <1>5, <1>7, <2>1, <3>1, <3>2
  <2>2. CASE /\ floors' = Found.floors
             /\ Found.floor = None \/ ~ (task.id > Found.floor)
             /\ \/ task.live /\ Finish("ignored")
                \/ ~task.live /\ pc' = "unkeep" /\ UNCHANGED <<task, due, behind>>
             /\ excused' = excused \cup Torn
                             \cup (IF Found.floor = None THEN InHand ELSE {})
    <3>1. ASSUME Held(m) PROVE ~task.live /\ Above(m)'
      <4>1. m = <<task.channel, task.id>> /\ (task.created \/ ~task.live)
        BY <1>0, <3>1 DEF Held
      <4>2. IF task.live THEN ~task.created ELSE Above(m)'
        BY <2>2, <4>1, PassedOver
      <4> QED
        BY <4>1, <4>2
    <3>2. CASE task.live /\ Finish("ignored")
      <4>1. ~behind /\ (due => due') /\ pc' = "idle"
        BY <1>0, <3>2 DEF Finish
      <4>2. ~InBackfill'
        BY <4>1 DEF InBackfill, Handling
      <4>3. (behind => Coming') /\ (due /\ ~InBackfill => Coming')
        BY <4>1, <4>2 DEF Coming
      <4>4. Provided(m)
        BY <1>0, <1>7 DEF Sought
      <4>5. ~Held(m) /\ ~Ahead(m)
        BY <1>4, <3>1, <3>2
      <4> QED
        BY <1>1, <1>2, <4>3, <4>4, <4>5, ProvidedStep
    <3>3. CASE ~task.live /\ pc' = "unkeep" /\ UNCHANGED <<task, due, behind>>
      BY <1>5, <1>7, <3>1, <3>3
    <3> QED
      BY <2>2, <3>2, <3>3
  <2>3. CASE task.live /\ pc' = "keep" /\ UNCHANGED <<task, due, behind>>
    <3>1. Held(m) => Held(m)'
      BY <2>3 DEF Held
    <3> QED
      BY <1>5, <1>7, <2>3, <3>1
  <2>4. CASE ~task.live /\ Finish("failed")
    BY <2>4 DEF Finish, Provided, Coming
  <2> QED
    BY <2>1, <2>2, <2>3, <2>4, FindFloorStep
<1> QED
  BY <1>6, <1>7

(* A message in hand is stored or kept, or is fetched again. *)
LEMMA OwedHandled ==
  ASSUME TInv, [Next]_vars, Observe \/ Keep \/ Unkeep,
         NEW m \in Messages, Sought(m), Wanted(m)'
  PROVE  Provided(m)'
<1> USE DEF discord, store, directory, config, backfill, environment, counters,
            history
<1>0. /\ pc \in Handling /\ pc # "floor" /\ task \in Tasks /\ Up /\ (task.live => ~behind)
      /\ UNCHANGED <<link, inbox, retrying, config, floors, sent>>
  BY DEF TInv, Phases, Handling, Up, Observe, Keep, Unkeep
<1>1. m[2] <= sent[m[1]] /\ m \notin stored'
  BY <1>0 DEF Wanted
<1>2. ASSUME Finish("failed") PROVE Provided(m)'
  BY <1>0, <1>2 DEF Finish, Provided, Coming, InBackfill, Handling
<1>3. CASE Observe
  <2>0. UNCHANGED directory
    BY <1>3 DEF Observe
  <2>1. ASSUME pc' \in {"keep", "unkeep"}, UNCHANGED <<task, due, behind>>,
               Wanted(m) /\ Held(m) => Held(m)'
        PROVE  Provided(m)'
    <3>1. InBackfill <=> InBackfill'
      BY <1>0, <2>1 DEF InBackfill, Handling
    <3>2. (behind => Coming') /\ (due /\ ~InBackfill => Coming')
      BY <2>1, <3>1 DEF Coming
    <3>3. Above(m)' <=> Above(m)
      BY <1>0, <2>0, WantedFrame
    <3>4. Ahead(m) => Ahead(m)'
      BY <1>0, <2>1, <3>1, <3>3 DEF Ahead, Retrying, Handling
    <3>5. /\ Wanted(m) /\ Held(m) => Provided(m)'
          /\ Wanted(m) /\ Ahead(m) => Provided(m)'
      BY <2>1, <3>4 DEF Provided
    <3> QED
      BY <1>0, <2>0, <3>2, <3>5, OwedWork
  <2>2. CASE /\ stored' = stored \cup {<<task.channel, task.id>>} /\ pc' = "unkeep"
             /\ UNCHANGED <<task, due, behind>>
    <3>1. ~Held(m)
      BY <1>1, <2>2 DEF Held
    <3> QED
      BY <2>1, <2>2, <3>1
  <2>3. CASE /\ ~task.live /\ <<task.channel, task.id>> \in gone
             /\ pc' = "unkeep" /\ UNCHANGED <<task, due, behind>>
    <3>1. Wanted(m) => ~Held(m)
      BY <2>3 DEF Held, Wanted
    <3> QED
      BY <2>1, <2>3, <3>1
  <2>4. CASE pc' = "keep" /\ UNCHANGED <<task, due, behind>>
    <3>1. Held(m) => Held(m)'
      BY <2>4 DEF Held
    <3> QED
      BY <2>1, <2>4, <3>1
  <2> QED
    BY <1>2, <1>3, <2>2, <2>3, <2>4 DEF Observe
<1>4. CASE Keep
  BY <1>2, <1>4 DEF Keep
<1>5. CASE Unkeep
  <2>1. /\ pc = "unkeep" /\ unstored' \subseteq unstored
        /\ pc' = (IF task.live THEN "idle" ELSE "retry")
        /\ (due => due') /\ (behind => behind')
    BY <1>5 DEF Unkeep, Finish
  <2>2. StartsAt(m[1])' = StartsAt(m[1])
    BY <1>0 DEF StartsAt, ConfiguredFloor
  <2>3. Above(m)' <=> Above(m)
    BY <1>0, <2>2 DEF Above
  <2>4. KeptFor(m)' => KeptFor(m)
    BY <1>0, <2>1 DEF KeptFor
  <2>5. Wanted(m)
    BY <1>1, <2>3, <2>4, DoneStep DEF Wanted
  <2>6. Provided(m)
    BY <1>0, <2>5 DEF Sought
  <2>7. ~Held(m) /\ (behind => Coming')
    BY <2>1 DEF Held, Coming
  <2>8. due /\ ~InBackfill => Coming'
    BY <1>0, <2>1 DEF Coming, InBackfill, Handling
  <2>9. ASSUME Ahead(m) PROVE Provided(m)'
    <3>1. ~task.live /\ (Above(m) \/ Retrying(m))
      BY <2>1, <2>9 DEF Ahead, InBackfill
    <3>2. pc' = "retry" /\ (Above(m)' \/ Retrying(m)')
      BY <1>0, <2>1, <2>3, <3>1 DEF Retrying
    <3> QED
      BY <3>2 DEF Provided, Ahead, InBackfill
  <2>10. /\ (HasBackfill => HasBackfill') /\ (Queued(m) => Provided(m)')
         /\ (link' = "up" => link = "up")
    BY <1>0, InboxFrame DEF Provided
  <2> QED
    BY <2>6, <2>7, <2>8, <2>9, <2>10, ProvidedStep
<1> QED
  BY <1>3, <1>4, <1>5

(* A backfill fetches the markers, then pulls the channels; what it cannot *)
(* have leaves it behind.                                                  *)
LEMMA OwedBackfill ==
  ASSUME TInv, CoverInv, EndInv, [Next]_vars,
         ListKept \/ NextKept \/ ListChannels \/ Fetch \/ Commit \/ EndBackfill,
         NEW m \in Messages, m \notin overlooked', Sought(m), Wanted(m)'
  PROVE  Provided(m)'
<1> USE DEF discord, store, directory, config, backfill, environment, counters,
            history
<1>0. /\ Up /\ ~Held(m) /\ FloorTypes /\ m[1] \in Channels /\ m[2] \in Ids
      /\ m[2] <= sent[m[1]] /\ m \notin stored' \cup gone' \cup excused'
      /\ m = <<m[1], m[2]>> /\ sent' = sent
  BY DEF TInv, Messages, Up, Held, Wanted, ListKept, NextKept, ListChannels, Fetch,
         Commit, EndBackfill
<1>1. ASSUME behind' PROVE Provided(m)'
  BY <1>1 DEF Provided, Coming
<1>3. CASE ListKept
  <2>1. pc' = "retry" /\ UNCHANGED <<link, sent, directory, inbox, config>> /\ InBackfill
        /\ (behind => behind')
        /\ \/ retrying' = unstored
           \/ behind'
           \/ overlooked' = overlooked \cup ({<<k[1], k[2]>> : k \in unstored}
                                               \ {<<k[1], k[2]>> : k \in retrying'})
    BY <1>3 DEF ListKept, InBackfill
  <2>2. ASSUME Wanted(m), ~behind' PROVE Ahead(m)'
    <3>1. (Above(m)' <=> Above(m)) /\ (Above(m) \/ KeptFor(m))
      BY <2>1, <2>2, WantedFrame DEF Wanted
    <3>2. ASSUME KeptFor(m) PROVE Retrying(m)'
      <4>1. PICK new \in BOOLEAN : <<m[1], m[2], new>> \in unstored
        BY <3>2 DEF KeptFor
      <4>2. CASE retrying' = unstored
        BY <4>1, <4>2 DEF Retrying
      <4>3. CASE m \in {<<k[1], k[2]>> : k \in retrying'}
        <5>1. PICK k \in retrying' : m = <<k[1], k[2]>>
          BY <4>3
        <5>2. k \in Channels \X Ids \X BOOLEAN
          BY <5>1, TypeStep DEF TInv, Phases
        <5>3. k = <<m[1], m[2], k[3]>> /\ k[3] \in BOOLEAN
          BY <5>1, <5>2
        <5> QED
          BY <5>1, <5>3 DEF Retrying
      <4>4. m \in {<<k[1], k[2]>> : k \in unstored}
        <5>1. PICK k \in unstored : k = <<m[1], m[2], new>>
          BY <4>1
        <5>2. m = <<k[1], k[2]>>
          BY <1>0, <5>1
        <5> QED
          BY <5>1, <5>2
      <4> QED
        BY <2>1, <2>2, <4>2, <4>3, <4>4
    <3> QED
      BY <2>1, <3>1, <3>2 DEF Ahead, InBackfill
  <2>3. behind => Coming'
    BY <2>1 DEF Coming
  <2>4. Wanted(m) => Provided(m)'
    BY <1>1, <2>1, <2>2 DEF Provided
  <2> QED
    BY <1>0, <2>1, <2>3, <2>4, OwedWork
<1>4. CASE NextKept
  <2>1. /\ pc = "retry" /\ pc' = "floor" /\ task'.live = FALSE /\ behind' = behind
        /\ UNCHANGED <<link, sent, directory, inbox, config>>
    BY <1>4 DEF NextKept
  <2>2. PICK k \in retrying :
          /\ task' = [channel |-> k[1], id |-> k[2], created |-> FALSE,
                      new |-> \E x \in {x \in retrying : x[1] = k[1] /\ x[2] = k[2]} : x[3],
                      live |-> FALSE, floor |-> None]
          /\ retrying' = retrying \ {x \in retrying : x[1] = k[1] /\ x[2] = k[2]}
    BY <1>4 DEF NextKept
  <2>3. task'.channel = k[1] /\ task'.id = k[2]
    BY <2>2
  <2>4. InBackfill /\ InBackfill' /\ pc' \in Handling
    BY <2>1 DEF InBackfill, Handling
  <2>5. Above(m)' <=> Above(m)
    BY <2>1, WantedFrame
  <2>6. ASSUME Retrying(m) PROVE Retrying(m)' \/ Held(m)'
    <3>1. CASE m[1] = k[1] /\ m[2] = k[2]
      BY <1>0, <2>1, <2>3, <3>1 DEF Held
    <3>2. CASE ~ (m[1] = k[1] /\ m[2] = k[2])
      <4>1. PICK new \in BOOLEAN : <<m[1], m[2], new>> \in retrying
        BY <2>6 DEF Retrying
      <4>2. <<m[1], m[2], new>> \in retrying'
        BY <2>2, <3>2, <4>1
      <4> QED
        BY <4>2 DEF Retrying
    <3> QED
      BY <3>1, <3>2
  <2>7. Ahead(m) => Provided(m)'
    <3>1. Ahead(m) => Above(m) \/ Retrying(m)
      BY <2>1 DEF Ahead
    <3> QED
      BY <2>4, <2>5, <2>6, <3>1 DEF Provided, Ahead
  <2>8. behind => Coming'
    BY <2>1 DEF Coming
  <2> QED
    BY <1>0, <2>1, <2>4, <2>7, <2>8, OwedWork
<1>5. CASE ListChannels
  <2> DEFINE seen == IF dms THEN {c \in Channels : floors["dms"][c] # None} ELSE {}
  <2>1. /\ pc = "retry" /\ pc' = "pull" /\ retrying = {}
        /\ UNCHANGED <<link, sent, unstored, inbox, config, due>> /\ (behind => behind')
        /\ \/ pulling' = configured \cup seen /\ KeepFloors(configured)
           \/ /\ KeepFloors(configured)
              /\ \E out \in SUBSET (seen \ configured) :
                    /\ pulling' = (configured \cup seen) \ out
                    /\ overlooked' = overlooked \cup
                         {x \in Messages : x[1] \in out /\ x[2] <= sent[x[1]]}
           \/ behind'
    BY <1>5 DEF ListChannels
  <2>2. CASE /\ m[1] \in configured \cup seen => m[1] \in pulling'
             /\ KeepFloors(configured)
    <3>1. configured \in SUBSET Channels
      BY <1>0 DEF FloorTypes, Channels
    <3>2. /\ floors'["dms"] = floors["dms"]
          /\ \A c \in Channels :
                floors'["channels"][c] = IF c \in configured THEN ConfiguredFloor(c)
                                         ELSE floors["channels"][c]
      BY <1>0, <2>2, <3>1, KeptFloors
    <3>3. ConfiguredFloor(m[1]) # None
      BY <1>0, MaxIdBounds, IntakeAssumption DEF ConfiguredFloor, FloorTypes
    <3>4. m[1] \in configured => floors'["channels"][m[1]] = ConfiguredFloor(m[1])
      BY <1>0, <3>2
    <3>5. StartsAt(m[1])' = StartsAt(m[1])
      BY <2>1, <3>2, <3>3, <3>4 DEF StartsAt, ConfiguredFloor
    <3>6. Above(m)' <=> Above(m)
      BY <2>1, <3>5 DEF Above
    <3>7. KeptFor(m)' => KeptFor(m)
      BY <2>1, <3>3, <3>4 DEF KeptFor
    <3>8. Wanted(m)
      BY <1>0, <3>6, <3>7, DoneStep DEF Wanted
    <3>9. Provided(m)
      BY <1>0, <3>8 DEF Sought
    <3>10. Above(m) => Ahead(m)'
      <4>1. ASSUME Above(m) PROVE m[1] \in pulling'
        <5>1. CASE m[1] \in configured
          BY <2>2, <5>1
        <5>2. CASE m[1] \notin configured
          <6>1. dms /\ floors["dms"][m[1]] # None
            BY <4>1, <5>2 DEF Above, StartsAt
          <6> QED
            BY <1>0, <2>2, <6>1
        <5> QED
          BY <5>1, <5>2
      <4> QED
        BY <2>1, <3>6, <4>1 DEF Ahead
    <3>11. Ahead(m) => Above(m)
      BY <2>1 DEF Ahead, Retrying
    <3>12. /\ (HasBackfill => HasBackfill') /\ (Queued(m) => Queued(m)')
           /\ (link' = "up" => link = "up") /\ InBackfill
      BY <2>1, InboxFrame DEF InBackfill
    <3>13. /\ (behind => Coming') /\ (Queued(m) => Provided(m)')
           /\ (Ahead(m) => Provided(m)')
      BY <2>1, <3>10, <3>11, <3>12 DEF Coming, Provided
    <3> QED
      BY <1>0, <3>9, <3>12, <3>13, ProvidedStep
  <2>3. CASE /\ KeepFloors(configured)
             /\ \E out \in SUBSET (seen \ configured) :
                   /\ pulling' = (configured \cup seen) \ out
                   /\ overlooked' = overlooked \cup
                        {x \in Messages : x[1] \in out /\ x[2] <= sent[x[1]]}
    <3>1. PICK out \in SUBSET (seen \ configured) :
             /\ pulling' = (configured \cup seen) \ out
             /\ overlooked' = overlooked \cup
                  {x \in Messages : x[1] \in out /\ x[2] <= sent[x[1]]}
      BY <2>3
    <3>2. m[1] \notin out
      BY <1>0, <3>1
    <3> HIDE DEF seen
    <3> QED
      BY <2>2, <2>3, <3>1, <3>2
  <2> HIDE DEF seen
  <2> QED
    BY <1>1, <2>1, <2>2, <2>3
<1>6. CASE Fetch
  <2>1. /\ pc = "pull" /\ UNCHANGED <<link, sent, directory, inbox, config>> /\ InBackfill
        /\ (behind => behind')
        /\ \/ behind'
           \/ /\ pc' = "commit" /\ pulling' = pulling
              /\ \E c \in pulling : batch' = PullBatch(c, FloorOf(c))
    BY <1>6 DEF Fetch, InBackfill
  <2>2. CASE /\ pc' = "commit" /\ pulling' = pulling
             /\ \E c \in pulling : batch' = PullBatch(c, FloorOf(c))
    <3>1. PICK c \in pulling : batch' = PullBatch(c, FloorOf(c))
      BY <2>2
    <3>2. c \in Channels /\ FloorOf(c) \in 0 .. MaxId
      BY PulledFloor
    <3>3. ASSUME Wanted(m), Above(m), batch'.channel = m[1]
          PROVE  m \in batch'.messages \/ batch'.more
      <4>1. PICK floor \in 0 .. MaxId : floor = FloorOf(c)
        BY <3>2
      <4>2. PullBatch(c, floor).channel = c
        BY DEF PullBatch, Forward
      <4>3. c = m[1] /\ batch' = PullBatch(c, floor)
        BY <3>1, <3>3, <4>1, <4>2
      <4>4. floor # None
        BY <4>1, MaxIdBounds, IntakeAssumption
      <4>5. floor < m[2]
        BY <3>3, <4>1, <4>3, <4>4 DEF Above, StartsAt, FloorOf, ConfiguredFloor
      <4>6. m[2] \in Existing(c) /\ <<c, m[2]>> \notin stored
        BY <1>0, <3>3, <4>3 DEF Existing, Wanted, Ids
      <4>7. <<c, m[2]>> \in PullBatch(c, floor).messages \/ PullBatch(c, floor).more
        BY <3>2, <4>5, <4>6, PullBrings
      <4> QED
        BY <1>0, <4>3, <4>7
    <3>4. Above(m)' <=> Above(m)
      BY <2>1, WantedFrame
    <3>5. ASSUME Wanted(m), Ahead(m) PROVE Provided(m)'
      <4>1. Above(m) /\ m[1] \in pulling
        BY <2>1, <3>5 DEF Ahead, Handling
      <4>2. Ahead(m)'
        BY <2>2, <3>3, <3>4, <3>5, <4>1 DEF Ahead
      <4> QED
        BY <4>2 DEF Provided
    <3>6. behind => Coming'
      BY <2>1 DEF Coming
    <3> QED
      BY <1>0, <2>1, <3>5, <3>6, OwedWork
  <2> QED
    BY <1>1, <2>1, <2>2
<1>7. CASE Commit
  <2>1. /\ pc = "commit" /\ pc' = "pull" /\ InBackfill
        /\ UNCHANGED <<link, sent, directory, inbox, config>>
        /\ (behind => behind')
        /\ \/ behind'
           \/ /\ stored' = stored \cup batch.messages
              /\ pulling' = IF batch.more /\ pulls + 1 < Pulls THEN pulling
                            ELSE pulling \ {batch.channel}
              /\ batch.more => pulls + 1 < Pulls
    BY <1>7 DEF Commit, InBackfill
  <2>2. CASE /\ stored' = stored \cup batch.messages
             /\ pulling' = IF batch.more /\ pulls + 1 < Pulls THEN pulling
                           ELSE pulling \ {batch.channel}
             /\ batch.more => pulls + 1 < Pulls
    <3>1. m \notin batch.messages
      BY <1>0, <2>2
    <3>2. Above(m)' <=> Above(m)
      BY <2>1, WantedFrame
    <3>3. ASSUME Ahead(m) PROVE Provided(m)'
      <4>1. /\ Above(m) /\ m[1] \in pulling
            /\ batch.channel = m[1] => batch.more
        BY <2>1, <3>1, <3>3 DEF Ahead, Handling
      <4>2. m[1] \in pulling'
        BY <2>2, <4>1
      <4>3. Ahead(m)'
        BY <2>1, <3>2, <4>1, <4>2 DEF Ahead
      <4> QED
        BY <4>3 DEF Provided
    <3>4. behind => Coming'
      BY <2>1 DEF Coming
    <3> QED
      BY <1>0, <2>1, <3>3, <3>4, OwedWork
  <2> QED
    BY <1>1, <2>1, <2>2
<1>8. CASE EndBackfill
  <2>1. /\ pc = "end" \/ (pc = "pull" /\ pulling = {})
        /\ pc' = "idle" /\ due' = behind /\ InBackfill
        /\ UNCHANGED <<link, sent, directory, inbox, config>>
    BY <1>8 DEF EndBackfill, InBackfill
  <2>2. behind => Coming'
    BY <2>1 DEF Coming, InBackfill, Handling
  <2>3. Ahead(m) => Coming'
    BY <2>1, <2>2 DEF Ahead, EndInv, Handling
  <2>4. Ahead(m) => Provided(m)'
    BY <2>3 DEF Provided
  <2> QED
    BY <1>0, <2>1, <2>2, <2>4, OwedWork
<1> QED
  BY <1>3, <1>4, <1>5, <1>6, <1>7, <1>8

LEMMA OwedInit == Init => EndInv /\ OrderInv /\ OwedInv
BY DEF Init, EndInv, OrderInv, OwedInv, Sought, Up

(* Only a new backfill, a panic or the end of the process forgets what was  *)
(* left out.                                                               *)
LEMMA OverlookedStep ==
  [Next]_vars => overlooked \subseteq overlooked' \/ StartBackfill \/ Panic \/ Crash
<1> SUFFICES ASSUME [Next]_vars, ~ (StartBackfill \/ Panic \/ Crash)
             PROVE  overlooked \subseteq overlooked'
  OBVIOUS
<1> USE DEF discord, store, directory, config, backfill, environment, counters,
            history
<1>1. CASE UNCHANGED vars \/ Start \/ Ready \/ Resume
  BY <1>1 DEF vars, Start, Ready, Resume
<1>2. CASE Environment
  BY <1>2 DEF Environment, Send, ReadFetch, Edit, Delete, ReadEnd, Lose, Refuse
<1>3. CASE FindFloor \/ Observe \/ Keep \/ Unkeep \/ TakeMessage \/ TakeAccount
           \/ TakeNoMessages
  BY <1>3 DEF FindFloor, Observe, Keep, Unkeep, TakeMessage, TakeAccount, TakeNoMessages
<1>4. CASE ListKept \/ NextKept \/ ListChannels \/ Fetch \/ Commit \/ EndBackfill
  BY <1>4 DEF ListKept, NextKept, ListChannels, Fetch, Commit, EndBackfill
<1> QED
  BY <1>1, <1>2, <1>3, <1>4 DEF Next, Work

LEMMA OwedStep ==
  TInv /\ CoverInv /\ FloorInv /\ KeptInv /\ EndInv /\ OrderInv /\ OwedInv /\ [Next]_vars
    => OwedInv'
<1> SUFFICES ASSUME TInv, CoverInv, FloorInv, KeptInv, EndInv, OrderInv, OwedInv,
                    [Next]_vars, NEW m \in Messages, m \notin overlooked', Up',
                    Wanted(m)'
             PROVE  Provided(m)'
  BY DEF OwedInv, Sought
<1> USE DEF discord, store, directory, config, backfill, environment, counters,
            history
<1>a. CASE StartBackfill
  <2>1. pc' = "kept" \/ behind'
    BY <1>a DEF StartBackfill
  <2> QED
    BY <2>1 DEF Provided, Ahead, Coming
<1>b. Sought(m) \/ StartBackfill \/ Panic \/ Crash
  BY OverlookedStep DEF OwedInv
<1>1. CASE UNCHANGED vars
  <2>1. Up /\ overlooked' = overlooked
    BY <1>1 DEF vars, Up
  <2>2. Sought(m)
    BY <2>1 DEF OwedInv
  <2> QED
    BY <1>1, <2>1, <2>2, OwedFrame DEF vars
<1>2. CASE Start \/ Panic \/ Ready \/ Resume \/ Lose \/ Refuse
  BY <1>2, OwedSession
<1>3. CASE Crash
  BY <1>3 DEF Crash, Up
<1>4. ASSUME NEW c \in Channels, Sought(m), Send(c) PROVE Provided(m)'
  <2>1. sent \in [Channels -> 0 .. MaxId] /\ m[1] \in Channels /\ m[2] \in Ids
        /\ m = <<m[1], m[2]>>
    BY DEF TInv, DiscordTypes, Messages
  <2>2. sent[c] \in Nat /\ sent[c] + 1 \in Ids
    BY <1>4, <2>1, MaxIdBounds, IntakeAssumption, SMTT(30) DEF Send, Channels, Ids
  <2>3. PICK i \in Ids : i = sent[c] + 1
    BY <2>2
  <2>4. /\ sent' = [sent EXCEPT ![c] = i] /\ sent'[c] = i
        /\ UNCHANGED <<link, store, directory, pc, config, due, task, backfill>>
    BY <1>4, <2>1, <2>3 DEF Send
  <2>5. Dispatch("Message", c, i)
    BY <1>4, <2>4 DEF Send
  <2>6. m[2] <= sent[m[1]] \/ m = <<c, i>>
    <3>1. m[2] <= sent'[m[1]]
      BY DEF Wanted
    <3>2. CASE m[1] = c
      BY <2>1, <2>2, <2>3, <2>4, <3>1, <3>2 DEF Ids
    <3>3. CASE m[1] # c
      BY <2>1, <2>4, <3>1, <3>3
    <3> QED
      BY <3>2, <3>3
  <2>7. PICK kind \in {"Message", "Update"} : kind = "Message"
    OBVIOUS
  <2>8. Up
    BY <2>4 DEF Up
  <2> QED
    BY <1>4, <2>4, <2>5, <2>6, <2>7, <2>8, OwedDispatch
<1>5. ASSUME NEW c \in Channels, NEW i \in Ids, Sought(m), Edit(c, i) PROVE Provided(m)'
  <2>1. PICK kind \in {"Message", "Update"} : kind = "Update"
    OBVIOUS
  <2>2. /\ Dispatch(kind, c, i) /\ sent' = sent
        /\ UNCHANGED <<link, store, directory, pc, config, due, task, backfill>>
    BY <1>5, <2>1 DEF Edit
  <2>3. Up /\ m[2] <= sent[m[1]]
    BY <2>2 DEF Up, Wanted
  <2> QED
    BY <1>5, <2>1, <2>2, <2>3, OwedDispatch
<1>6. ASSUME NEW c \in Channels, NEW i \in Ids, Sought(m), Delete(c, i) PROVE Provided(m)'
  <2>1. Up
    BY <1>6 DEF Delete, Up
  <2> QED
    BY <1>6, <2>1, OwedFrame DEF Delete
<1>7. ASSUME NEW c \in Channels, Sought(m), ReadFetch(c) PROVE Provided(m)'
  <2>1. Up
    BY <1>7 DEF ReadFetch, Up
  <2> QED
    BY <1>7, <2>1, OwedFrame DEF ReadFetch
<1>8. CASE Sought(m) /\ ReadEnd
  <2>1. Up
    BY <1>8 DEF ReadEnd, Up
  <2> QED
    BY <1>8, <2>1, OwedFrame DEF ReadEnd
<1>9. CASE Sought(m) /\ (TakeMessage \/ TakeAccount \/ TakeNoMessages)
  BY <1>9, OwedTaken
<1>10. CASE Sought(m) /\ FindFloor
  BY <1>10, OwedFound
<1>11. CASE Sought(m) /\ (Observe \/ Keep \/ Unkeep)
  BY <1>11, OwedHandled
<1>12. CASE /\ Sought(m)
            /\ ListKept \/ NextKept \/ ListChannels \/ Fetch \/ Commit \/ EndBackfill
  BY <1>12, OwedBackfill
<1> QED
  BY <1>a, <1>b, <1>1, <1>2, <1>3, <1>4, <1>5, <1>6, <1>7, <1>8, <1>9, <1>10, <1>11,
     <1>12
     DEF Next, Environment, Work

(* While the gateway is connected, an intake that is idle, has an empty     *)
(* inbox and has no backfill due owes nothing but what the listings of its *)
(* last backfill left out, unnoticed: every other message it has to store  *)
(* is stored.  Whatever failed, came out of order or was missed, a message *)
(* that is still owed has a backfill to come, so nothing else waits for    *)
(* another message or session that may never come.                         *)
THEOREM IdleHasStoredAll ==
  Spec => [](pc = "idle" /\ inbox = <<>> /\ link = "up" /\ ~due
               => \A m \in Messages : Owed(m) => m \in overlooked)
<1> DEFINE Stored == pc = "idle" /\ inbox = <<>> /\ link = "up" /\ ~due
                       => \A m \in Messages : Owed(m) => m \in overlooked
<1>1. TInv /\ OwedInv => Stored
  <2> SUFFICES ASSUME TInv, OwedInv, pc = "idle", inbox = <<>>, link = "up", ~due,
                      NEW m \in Messages, Owed(m), m \notin overlooked
               PROVE  FALSE
    OBVIOUS
  <2>1. Wanted(m) /\ Up
    BY DEF Owed, Wanted, Above, KeptFor, StartsAt, ConfiguredFloor, FloorOf
  <2>2. Provided(m)
    BY <2>1 DEF OwedInv, Sought
  <2>3. ~HasBackfill /\ ~Queued(m) /\ ~behind
    BY DEF HasBackfill, Queued, TInv, Phases
  <2> QED
    BY <2>2, <2>3 DEF Provided, Coming, Held, Ahead, InBackfill, Handling
<1> HIDE DEF Stored
<1>2. Spec => []Stored
  BY <1>1, TypeInit, TypeStep, CoverInit, CoverStep, FloorInit, FloorStep, KeptInit,
     KeptStep, OwedInit, EndStep, OrderStep, OwedStep, PTL DEF Spec
<1> QED
  BY <1>2 DEF Stored
=============================================================================
