--------------------------- MODULE DiscordIntake ---------------------------
(***************************************************************************)
(* Message intake of `discord live` (src/discord/intake.rs, the pull in    *)
(* src/discord/operations.rs, coverage in src/discord.rs).  Messages come  *)
(* over the gateway or from a pull, and one thread stores them.  Where a   *)
(* channel begins (its floor) and which live writes failed is kept in a    *)
(* state directory; the store holds the messages and the coverage          *)
(* intervals a pull goes on from.  The process may stop between any two    *)
(* steps, any access to disk, store or Discord may fail, the gateway may   *)
(* lose its session, and `discord read` pulls from a process of its own.   *)
(*                                                                         *)
(* A message is <<channel, id>>; ids count up in each channel.             *)
(***************************************************************************)
EXTENDS Naturals, FiniteSets, Sequences, SequencesExt

CONSTANTS
    Guilds, Dms,    \* channels of a guild, DM channels to the bot
    None,
    MaxGuildId,     \* bound: messages sent in a guild channel
    MaxDmId,        \* bound: messages sent in a DM channel
    PullSize,       \* FORWARD_PAGES pages of fetch_limit messages
    Pulls,          \* PULLS
    RecentSize,     \* reconcile_limit, also the newest page of `read`
    MaxStarts,      \* bound: starts of the process
    MaxFailures,    \* bound: accesses that fail, and panics
    MaxLosses,      \* bound: gateway connections that are lost
    MaxEdits, MaxDeletes, MaxReads  \* bounds of the environment

Channels == Guilds \cup Dms
MaxId == Max({MaxGuildId, MaxDmId})
Ids == 1 .. MaxId
Messages == Channels \X Ids
Kinds == {"channels", "dms"}

ASSUME IntakeAssumption ==
    /\ Guilds \cap Dms = {}
    /\ None \notin Nat
    /\ {MaxGuildId, MaxDmId, PullSize, Pulls, RecentSize} \subseteq Nat \ {0}
    /\ {MaxStarts, MaxFailures, MaxLosses, MaxEdits, MaxDeletes, MaxReads}
         \subseteq Nat

VARIABLES
    \* Discord
    sent,       \* the newest id of each channel
    gone,       \* messages deleted
    link,       \* the gateway connection: "none", "up", "down"
    missed,     \* dispatches of a session whose connection is down
    \* the store
    stored,     \* messages observed
    cover,      \* coverage intervals <<after, through, baseline>> by channel
    known,      \* the bot account is recorded
    \* the state directory
    floors,     \* channels/<id> and dms/<id>
    unstored,   \* unstored/<channel>-<id>, and with -new: <<channel, id, new>>
    \* Intake and its thread
    pc, inbox, configured, dms,
    startFloor, \* Intake.floor: where a channel first met begins
    account,    \* Intake.account is Some
    due,        \* Retry.due is Some
    task,       \* the message in hand
    retrying,   \* kept messages this backfill has still to fetch
    pulling,    \* channels this backfill has still to pull
    pulls,      \* pulls of the channel in hand
    batch,      \* what a pull fetched and has not committed
    behind,     \* this backfill has not caught up
    \* `discord read`
    reader,     \* what it fetched and has not committed
    \* counters and history
    starts, failures, losses, edits, deletes, reads,
    base,       \* where each guild channel was first configured
    heard,      \* messages handled as new in a DM channel
    excused,    \* of those, the ones a crash, a panic, a full disk, a
                \* changed configuration or a torn listing let go
    taken,      \* messages intake stored
    overlooked  \* messages the last backfill's listings left out, unnoticed

discord == <<sent, gone, link, missed>>
store == <<stored, cover, known>>
directory == <<floors, unstored>>
config == <<configured, dms, startFloor>>
backfill == <<retrying, pulling, pulls, batch, behind>>
environment == <<reader, edits, deletes, reads>>
counters == <<starts, failures, losses>>
history == <<base, heard, excused, taken, overlooked>>
vars == <<discord, store, directory, pc, inbox, config, account, due, task,
          backfill, environment, counters, history>>

Up == pc # "down"
NoTask == [channel |-> None, id |-> None, created |-> FALSE, new |-> FALSE,
           live |-> FALSE, floor |-> None]
NoBatch == [channel |-> None, messages |-> {}, interval |-> {},
            more |-> FALSE]

Existing(c) == {i \in 1 .. sent[c] : <<c, i>> \notin gone}
Smallest(S, n) == {i \in S : Cardinality({j \in S : j < i}) < n}
Largest(S, n) == {i \in S : Cardinality({j \in S : j > i}) < n}

Fails == failures < MaxFailures /\ failures' = failures + 1

-----------------------------------------------------------------------------
(* Coverage, and what a pull fetches. *)

(* reach: through every interval that begins where the ones before ended. *)
Reach(intervals, start) ==
    Min({x \in start .. MaxId :
            \A v \in intervals : ~ (v[1] <= x /\ x < v[2])})

Baselines(intervals) == {v \in intervals : v[3]}

(* connected_frontier *)
Frontier(intervals) ==
    LET oldest == Min({v[1] : v \in Baselines(intervals)})
    IN  Reach(intervals,
              Max({v[2] : v \in {w \in Baselines(intervals) : w[1] = oldest}}))

(* fetch_complete_forward after `after`, with the recent page. *)
Forward(c, after, baseline, recent, above) ==
    LET next == Smallest({i \in Existing(c) : i > after}, PullSize)
        page == IF recent THEN Largest(Existing(c), RecentSize) ELSE {}
    IN  [channel |-> c,
         messages |-> {c} \X {i \in next \cup page : i > above},
         interval |-> IF next = {} THEN {}
                      ELSE {<<after, Max(next), baseline>>},
         more |-> Cardinality(next) = PullSize]

(* pull_channel with a floor: on from as far as coverage reaches from it. *)
PullBatch(c, floor) ==
    LET reached == Reach(cover[c], floor)
    IN  Forward(c, reached, reached = floor, reached > floor, floor)

(* Mutant: the bounded baseline is taken for everything up to the newest. *)
ReadBatchFromStart(c) ==
    LET newest == Largest(Existing(c), RecentSize)
    IN  [channel |-> c, messages |-> {c} \X newest,
         interval |-> IF newest = {} THEN {} ELSE {<<0, Max(newest), TRUE>>},
         more |-> FALSE]

(* pull_channel without one: on from the connected frontier, or the newest *)
(* page as a bounded baseline.                                             *)
ReadBatch(c) ==
    LET newest == Largest(Existing(c), RecentSize)
    IN  IF Baselines(cover[c]) # {}
        THEN Forward(c, Frontier(cover[c]), FALSE, TRUE, 0)
        ELSE [channel |-> c, messages |-> {c} \X newest,
              interval |-> IF newest = {} THEN {}
                           ELSE {<<Min(newest) - 1, Max(newest), TRUE>>},
              more |-> FALSE]

-----------------------------------------------------------------------------
Init ==
    /\ sent = [c \in Channels |-> 0] /\ gone = {}
    /\ link = "none" /\ missed = <<>>
    /\ stored = {} /\ cover = [c \in Channels |-> {}] /\ known = FALSE
    /\ floors = [k \in Kinds |-> [c \in Channels |-> None]]
    /\ unstored = {}
    /\ pc = "down" /\ inbox = <<>> /\ configured = {} /\ dms = FALSE
    /\ startFloor = [c \in Channels |-> 0] /\ account = FALSE /\ due = FALSE
    /\ task = NoTask /\ retrying = {} /\ pulling = {} /\ pulls = 0
    /\ batch = NoBatch /\ behind = FALSE /\ reader = NoBatch
    /\ starts = 0 /\ failures = 0 /\ losses = 0
    /\ edits = 0 /\ deletes = 0 /\ reads = 0
    /\ base = [c \in Guilds |-> None] /\ heard = {} /\ excused = {}
    /\ taken = {} /\ overlooked = {}

-----------------------------------------------------------------------------
(* Discord and its users. *)

IsMessage(work) == work.kind \in {"Message", "Update"}

(* A dispatch reaches the inbox, or waits for the session to be resumed.   *)
(* It may come before messages sent earlier: intake does not rely on the   *)
(* gateway's order.                                                        *)
Dispatch(kind, c, i) ==
    LET work == [kind |-> kind, channel |-> c, id |-> i]
    IN  CASE link = "none" -> UNCHANGED <<inbox, missed>>
          [] link = "down" -> missed' = Append(missed, work) /\ UNCHANGED inbox
          [] link = "up" ->
               /\ UNCHANGED missed
               /\ \E k \in 1 .. Len(inbox) + 1 :
                     /\ \A j \in k .. Len(inbox) : IsMessage(inbox[j])
                     /\ inbox' = InsertAt(inbox, k, work)

Send(c) ==
    /\ sent[c] < IF c \in Guilds THEN MaxGuildId ELSE MaxDmId
    /\ sent' = [sent EXCEPT ![c] = @ + 1]
    /\ Dispatch("Message", c, sent'[c])
    /\ UNCHANGED <<gone, link, store, directory, pc, config, account, due,
                   task, backfill, environment, counters, history>>

Edit(c, i) ==
    /\ edits < MaxEdits /\ i \in Existing(c)
    /\ edits' = edits + 1
    /\ Dispatch("Update", c, i)
    /\ UNCHANGED <<sent, gone, link, store, directory, pc, config, account,
                   due, task, backfill, reader, deletes, reads, counters,
                   history>>

Delete(c, i) ==
    /\ deletes < MaxDeletes /\ i \in Existing(c)
    /\ deletes' = deletes + 1
    /\ gone' = gone \cup {<<c, i>>}
    /\ UNCHANGED <<sent, link, missed, store, directory, pc, inbox, config,
                   account, due, task, backfill, reader, edits, reads,
                   counters, history>>

(* `discord read` fetches from the coverage it sees, and commits later, if *)
(* it is not ended before.                                                 *)
ReadFetch(c) ==
    /\ reader = NoBatch /\ reads < MaxReads
    /\ reads' = reads + 1
    /\ reader' = ReadBatch(c)
    /\ UNCHANGED <<discord, store, directory, pc, inbox, config, account, due,
                   task, backfill, edits, deletes, counters, history>>

ReadEnd ==
    /\ reader # NoBatch
    /\ \/ /\ stored' = stored \cup reader.messages
          /\ cover' = [cover EXCEPT ![reader.channel] = @ \cup reader.interval]
       \/ UNCHANGED <<stored, cover>>
    /\ reader' = NoBatch
    /\ UNCHANGED <<discord, known, directory, pc, inbox, config, account, due,
                   task, backfill, edits, deletes, reads, counters, history>>

-----------------------------------------------------------------------------
(* The gateway session feeds the inbox (route in src/discord/live.rs). *)

Post(work) == inbox' = inbox \o work
Backfill == [kind |-> "Backfill"]

(* READY: a new session, which knows nothing of the one before. *)
Ready ==
    /\ Up /\ link # "up"
    /\ link' = "up" /\ missed' = <<>>
    /\ Post(<<[kind |-> "Account"], Backfill>>)
    /\ UNCHANGED <<sent, gone, store, directory, pc, config, account, due,
                   task, backfill, environment, counters, history>>

(* RESUMED, after what the session missed. *)
Resume ==
    /\ Up /\ link = "down"
    /\ link' = "up" /\ missed' = <<>>
    /\ Post(missed \o <<Backfill>>)
    /\ UNCHANGED <<sent, gone, store, directory, pc, config, account, due,
                   task, backfill, environment, counters, history>>

Lose ==
    /\ link = "up" /\ losses < MaxLosses
    /\ losses' = losses + 1
    /\ link' = "down"
    /\ UNCHANGED <<sent, gone, missed, store, directory, pc, inbox, config,
                   account, due, task, backfill, environment, starts, failures,
                   history>>

(* Discord refuses the message intents; hearing goes on without them. *)
Refuse ==
    /\ Up /\ link # "up"
    /\ configured # {} \/ dms
    /\ ~ \E k \in DOMAIN inbox : inbox[k].kind = "NoMessages"
    /\ Post(<<[kind |-> "NoMessages"]>>)
    /\ UNCHANGED <<discord, store, directory, pc, config, account, due, task,
                   backfill, environment, counters, history>>

-----------------------------------------------------------------------------
(* The process starts, with the channels it is given, and stops. *)

Start ==
    /\ pc = "down" /\ starts < MaxStarts
    /\ starts' = starts + 1
    /\ \E C \in SUBSET Guilds, d \in BOOLEAN :
          /\ C # {} \/ d
          /\ configured' = C /\ dms' = d
          /\ base' = [c \in Guilds |-> IF c \in C /\ base[c] = None
                                       THEN sent[c] ELSE base[c]]
    /\ startFloor' = sent
    /\ pc' = "idle"
    /\ UNCHANGED <<discord, store, directory, inbox, account, due, task,
                   backfill, environment, failures, losses, heard, excused,
                   taken, overlooked>>

(* What is in hand of the messages heard as new. *)
InHand == IF task.new THEN {<<task.channel, task.id>>} ELSE {}

(* At any step: the inbox, the retry and the backfill are gone.  An orderly *)
(* stop is this after the inbox was handled.                               *)
Crash ==
    /\ Up
    /\ pc' = "down" /\ inbox' = <<>> /\ configured' = {} /\ dms' = FALSE
    /\ startFloor' = [c \in Channels |-> 0]
    /\ account' = FALSE /\ due' = FALSE
    /\ task' = NoTask /\ retrying' = {} /\ pulling' = {} /\ pulls' = 0
    /\ batch' = NoBatch /\ behind' = FALSE
    /\ link' = "none" /\ missed' = <<>>
    /\ excused' = excused \cup InHand
    /\ UNCHANGED <<sent, gone, store, directory, environment, counters, base,
                   heard, taken>>
    /\ overlooked' = {}

(* A panic is caught: the work is over, and another backfill is due. *)
Panic ==
    /\ pc \notin {"down", "idle"} /\ Fails
    /\ pc' = "idle" /\ due' = TRUE
    /\ task' = NoTask /\ retrying' = {} /\ pulling' = {} /\ pulls' = 0
    /\ batch' = NoBatch /\ behind' = FALSE
    /\ excused' = excused \cup InHand
    /\ UNCHANGED <<discord, store, directory, inbox, config, account,
                   environment, starts, losses, base, heard, taken>>
    /\ overlooked' = {}

-----------------------------------------------------------------------------
(* Where a channel begins. *)

(* keep_floor("channels", ..) *)
ConfiguredFloor(c) == IF floors["channels"][c] = None THEN startFloor[c]
                      ELSE floors["channels"][c]

(* Mutant: a floor that is there is never lowered. *)
LowerOnce(c, first) == first # None /\ floors["dms"][c] = None

Lower(c, first) == first # None
                   /\ (floors["dms"][c] = None \/ first < floors["dms"][c])

(* floor_for: the floor it finds, and how it leaves the directory. *)
FloorFor(c, dm, first) ==
    CASE c \in configured ->
           [floor |-> ConfiguredFloor(c),
            floors |-> [floors EXCEPT !["channels"][c] = ConfiguredFloor(c)]]
      [] c \notin configured /\ dms /\ dm /\ Lower(c, first) ->
           [floor |-> first, floors |-> [floors EXCEPT !["dms"][c] = first]]
      [] OTHER ->
           [floor |-> IF dms /\ dm THEN floors["dms"][c] ELSE None,
            floors |-> floors]

-----------------------------------------------------------------------------
(* One message: delivered, or kept and fetched again. *)

(* The message is done with, as `result`; a failed live write is due again *)
(* soon, a failed fetch leaves the backfill behind.                        *)
Finish(result) ==
    /\ pc' = (IF task.live THEN "idle" ELSE "retry") /\ task' = NoTask
    /\ due' = (due \/ (task.live /\ result = "failed"))
    /\ behind' = (behind \/ (~task.live /\ result = "failed"))

(* Mutant: any new message that is kept may begin its channel again. *)
TakeMessageNew ==
    /\ pc = "idle" /\ inbox # <<>> /\ IsMessage(Head(inbox))
    /\ LET m == Head(inbox)
           created == m.kind = "Message"
       IN  /\ task' = [channel |-> m.channel, id |-> m.id,
                       created |-> created, new |-> created, live |-> TRUE,
                       floor |-> None]
           /\ heard' = IF created /\ m.channel \in Dms /\ dms
                       THEN heard \cup {<<m.channel, m.id>>} ELSE heard
    /\ inbox' = Tail(inbox)
    /\ pc' = "floor"
    /\ UNCHANGED <<discord, store, directory, config, account, due, backfill,
                   environment, counters, base, excused, taken,
                   overlooked>>

TakeMessage ==
    /\ pc = "idle" /\ inbox # <<>> /\ IsMessage(Head(inbox))
    /\ LET m == Head(inbox)
           created == m.kind = "Message"
           new == created /\ m.channel \in Dms
       IN  /\ task' = [channel |-> m.channel, id |-> m.id,
                       created |-> created, new |-> new, live |-> TRUE,
                       floor |-> None]
           /\ heard' = IF new /\ dms THEN heard \cup {<<m.channel, m.id>>}
                       ELSE heard
    /\ inbox' = Tail(inbox)
    /\ pc' = "floor"
    /\ UNCHANGED <<discord, store, directory, config, account, due, backfill,
                   environment, counters, base, excused, taken,
                   overlooked>>

(* A kept message that is fetched again as one not new, since the listing  *)
(* left out the marker that says it was.                                   *)
Torn == IF ~task.live /\ ~task.new
             /\ <<task.channel, task.id, TRUE>> \in unstored
        THEN {<<task.channel, task.id>>} ELSE {}

(* floor_for; only a DM's marker says it was new, and a channel that is    *)
(* not configured is taken for a DM's when its message is fetched again.   *)
FindFloor ==
    LET first == IF task.created \/ task.new THEN task.id - 1 ELSE None
        dm == ~task.live \/ task.channel \in Dms
        found == FloorFor(task.channel, dm, first)
        above == found.floor # None /\ task.id > found.floor
    IN  /\ pc = "floor"
        /\ \/ /\ floors' = found.floors
              /\ IF above
                 THEN /\ task' = [task EXCEPT !.floor = found.floor]
                      /\ pc' = "observe" /\ UNCHANGED <<due, behind>>
                 ELSE IF task.live THEN Finish("ignored")
                 ELSE pc' = "unkeep" /\ UNCHANGED <<task, due, behind>>
              /\ excused' = excused \cup (IF above THEN {} ELSE Torn)
                              \cup (IF found.floor = None THEN InHand ELSE {})
              /\ UNCHANGED failures
           \/ /\ task.channel \in configured \/ (dms /\ dm)
              /\ Fails /\ UNCHANGED <<floors, excused>>
              /\ IF task.live THEN /\ pc' = "keep"
                                   /\ UNCHANGED <<task, due, behind>>
                              ELSE Finish("failed")
        /\ UNCHANGED <<discord, store, unstored, inbox, config, account,
                       retrying, pulling, pulls, batch, environment, starts,
                       losses, base, heard, taken, overlooked>>

(* store, and for a kept message Source::message before it: one that is    *)
(* deleted is let go, one that cannot be had or written stays kept.        *)
Observe ==
    /\ pc = "observe"
    /\ \/ /\ task.live \/ <<task.channel, task.id>> \notin gone
          /\ stored' = stored \cup {<<task.channel, task.id>>}
          /\ taken' = taken \cup {<<task.channel, task.id>>}
          /\ pc' = "unkeep"
          /\ UNCHANGED <<task, due, behind, failures>>
       \/ /\ ~task.live /\ <<task.channel, task.id>> \in gone
          /\ pc' = "unkeep"
          /\ UNCHANGED <<stored, taken, task, due, behind, failures>>
       \/ /\ Fails /\ pc' = "keep"
          /\ UNCHANGED <<stored, taken, task, due, behind>>
       \/ /\ ~task.live /\ Fails /\ Finish("failed")
          /\ UNCHANGED <<stored, taken>>
    /\ UNCHANGED <<discord, cover, known, directory, inbox, config, account,
                   retrying, pulling, pulls, batch, environment, starts,
                   losses, base, heard, excused, overlooked>>

(* keep: an empty file by name.  A disk that fails loses the marker. *)
Keep ==
    /\ pc = "keep"
    /\ \/ /\ unstored' = unstored
                           \cup {<<task.channel, task.id, task.new>>}
          /\ UNCHANGED <<failures, excused>>
       \/ /\ Fails /\ excused' = excused \cup InHand
          /\ UNCHANGED unstored
    /\ Finish("failed")
    /\ UNCHANGED <<discord, store, floors, inbox, config, account, retrying,
                   pulling, pulls, batch, environment, starts, losses, base,
                   heard, taken, overlooked>>

(* unkeep: both markers; one that cannot be removed stays. *)
Unkeep ==
    /\ pc = "unkeep"
    /\ \/ /\ unstored' = unstored
                 \ {<<task.channel, task.id, new>> : new \in BOOLEAN}
          /\ UNCHANGED failures
       \/ Fails /\ UNCHANGED unstored
    /\ Finish("done")
    /\ UNCHANGED <<discord, store, floors, inbox, config, account, retrying,
                   pulling, pulls, batch, environment, starts, losses, history>>

-----------------------------------------------------------------------------
(* The other work. *)

TakeAccount ==
    /\ pc = "idle" /\ inbox # <<>> /\ Head(inbox).kind = "Account"
    /\ inbox' = Tail(inbox)
    /\ \/ known' = TRUE /\ account' = FALSE /\ UNCHANGED <<due, failures>>
       \/ Fails /\ account' = TRUE /\ due' = TRUE /\ UNCHANGED known
    /\ UNCHANGED <<discord, stored, cover, directory, pc, config, task,
                   backfill, environment, starts, losses, history>>

TakeNoMessages ==
    /\ pc = "idle" /\ inbox # <<>> /\ Head(inbox).kind = "NoMessages"
    /\ inbox' = Tail(inbox)
    /\ configured' = {} /\ dms' = FALSE
    /\ UNCHANGED <<discord, store, directory, pc, startFloor, account, due,
                   task, backfill, environment, counters, history>>

-----------------------------------------------------------------------------
(* backfill *)

(* Whether or not floors could be kept for all the channels configured. *)
KeepFloors(C) ==
    floors' = [floors EXCEPT !["channels"] =
                 [c \in Channels |-> IF c \in C THEN ConfiguredFloor(c)
                                     ELSE floors["channels"][c]]]

(* Without the bot account nothing is fetched or pulled. *)
StartBackfill ==
    /\ pc = "idle"
    /\ \/ /\ inbox # <<>> /\ Head(inbox).kind = "Backfill"
          /\ inbox' = Tail(inbox) /\ due' = due
       \/ inbox = <<>> /\ due /\ due' = FALSE /\ UNCHANGED inbox
    /\ \/ /\ known' = (known \/ account) /\ account' = FALSE
          /\ pc' = "kept"
          /\ UNCHANGED <<floors, behind, failures>>
       \/ /\ account /\ Fails
          /\ pc' = "end" /\ behind' = TRUE
          /\ KeepFloors(configured)
          /\ UNCHANGED <<known, account>>
    /\ UNCHANGED <<discord, stored, cover, unstored, config, task, retrying,
                   pulling, pulls, batch, environment, starts, losses, base,
                   heard, excused, taken>>
    /\ overlooked' = {}

(* kept: the markers, or the directory cannot be opened.  Where it cannot  *)
(* be read on (flatten), the markers left out are as if they were not.     *)
ListKept ==
    /\ pc = "kept"
    /\ \/ /\ retrying' = unstored
          /\ UNCHANGED <<behind, failures, overlooked>>
       \/ /\ Fails /\ behind' = TRUE
          /\ UNCHANGED <<retrying, overlooked>>
       \/ /\ Fails /\ UNCHANGED behind
          /\ \E kept \in SUBSET unstored :
                /\ kept # unstored
                /\ retrying' = kept
                /\ overlooked' = overlooked \cup
                     ({<<k[1], k[2]>> : k \in unstored}
                        \ {<<k[1], k[2]>> : k \in kept})
    /\ pc' = "retry"
    /\ UNCHANGED <<discord, store, directory, inbox, config, account, due,
                   task, pulling, pulls, batch, environment, starts, losses,
                   base, heard, excused, taken>>

(* The oldest of a channel next, new when either of its markers says so. *)
NextKept ==
    /\ pc = "retry"
    /\ \E k \in retrying :
          LET markers == {m \in retrying : m[1] = k[1] /\ m[2] = k[2]}
          IN  /\ \A m \in retrying : m[1] = k[1] => k[2] <= m[2]
              /\ task' = [channel |-> k[1], id |-> k[2], created |-> FALSE,
                          new |-> \E m \in markers : m[3], live |-> FALSE,
                          floor |-> None]
              /\ retrying' = retrying \ markers
    /\ pc' = "floor"
    /\ UNCHANGED <<discord, store, directory, inbox, config, account, due,
                   pulling, pulls, batch, behind, environment, counters,
                   history>>

(* backfill_channels: a floor or the listing of the DM channels may fail,  *)
(* and what failed is passed over.  Where the listing cannot be read on,   *)
(* the DM channels left out are as if never seen.                          *)
ListChannels ==
    LET seen == IF dms THEN {c \in Channels : floors["dms"][c] # None}
                       ELSE {}
        all == configured \cup seen
    IN  /\ pc = "retry" /\ retrying = {}
        /\ \/ /\ pulling' = all /\ KeepFloors(configured)
              /\ UNCHANGED <<behind, failures, overlooked>>
           \/ /\ Fails /\ behind' = TRUE /\ UNCHANGED overlooked
              /\ \E over \in {{c} : c \in all} \cup {seen \ configured} :
                    pulling' = all \ over /\ KeepFloors(configured \ over)
           \/ /\ Fails /\ KeepFloors(configured) /\ UNCHANGED behind
              /\ \E out \in SUBSET (seen \ configured) :
                    /\ out # {}
                    /\ pulling' = all \ out
                    /\ overlooked' = overlooked \cup
                         {m \in Messages : m[1] \in out /\ m[2] <= sent[m[1]]}
        /\ pc' = "pull"
        /\ UNCHANGED <<discord, store, unstored, inbox, config, account, due,
                       task, retrying, pulls, batch, environment, starts,
                       losses, base, heard, excused, taken>>

FloorOf(c) == IF c \in configured THEN floors["channels"][c]
              ELSE floors["dms"][c]

(* pull_channel: the pages are fetched from the coverage the store has. *)
Fetch ==
    /\ pc = "pull"
    /\ \E c \in pulling :
          /\ pulls > 0 => c = batch.channel
          /\ \/ batch' = PullBatch(c, FloorOf(c)) /\ pc' = "commit"
                /\ UNCHANGED <<pulling, pulls, behind, failures>>
             \/ /\ Fails /\ behind' = TRUE
                /\ pulling' = pulling \ {c} /\ pulls' = 0
                /\ batch' = NoBatch /\ pc' = pc
    /\ UNCHANGED <<discord, store, directory, inbox, config, account, due,
                   task, retrying, environment, starts, losses, history>>

(* What it fetched and the interval are committed together. *)
Commit ==
    LET again == batch.more /\ pulls + 1 < Pulls
    IN  /\ pc = "commit"
        /\ pc' = "pull"
        /\ \/ /\ stored' = stored \cup batch.messages
              /\ taken' = taken \cup batch.messages
              /\ cover' = [cover EXCEPT ![batch.channel] =
                                                @ \cup batch.interval]
              /\ pulls' = IF again THEN pulls + 1 ELSE 0
              /\ pulling' = IF again THEN pulling
                            ELSE pulling \ {batch.channel}
              /\ batch' = IF again THEN [NoBatch EXCEPT !.channel =
                                                      batch.channel]
                          ELSE NoBatch
              /\ behind' = (behind \/ (batch.more /\ ~again))
              /\ UNCHANGED failures
           \/ /\ Fails /\ behind' = TRUE
              /\ pulling' = pulling \ {batch.channel} /\ pulls' = 0
              /\ batch' = NoBatch
              /\ UNCHANGED <<stored, taken, cover>>
        /\ UNCHANGED <<discord, known, directory, inbox, config, account, due,
                       task, retrying, environment, starts, losses, base,
                       heard, excused, overlooked>>

(* Mutant: a backfill that failed counts as caught up. *)
EndBackfillDone ==
    /\ pc = "end" \/ (pc = "pull" /\ pulling = {})
    /\ pc' = "idle" /\ due' = FALSE /\ behind' = FALSE
    /\ UNCHANGED <<discord, store, directory, inbox, config, account, task,
                   retrying, pulling, pulls, batch, environment, counters,
                   history>>

(* Due again unless it caught up. *)
EndBackfill ==
    /\ pc = "end" \/ (pc = "pull" /\ pulling = {})
    /\ pc' = "idle" /\ due' = behind /\ behind' = FALSE
    /\ UNCHANGED <<discord, store, directory, inbox, config, account, task,
                   retrying, pulling, pulls, batch, environment, counters,
                   history>>

-----------------------------------------------------------------------------
Work == \/ TakeMessage \/ FindFloor \/ Observe \/ Keep \/ Unkeep
        \/ TakeAccount \/ TakeNoMessages
        \/ StartBackfill \/ ListKept \/ NextKept \/ ListChannels
        \/ Fetch \/ Commit \/ EndBackfill

Environment ==
    \/ \E c \in Channels : Send(c) \/ ReadFetch(c)
                             \/ \E i \in Ids : Edit(c, i) \/ Delete(c, i)
    \/ ReadEnd \/ Lose \/ Refuse

Next == Start \/ Crash \/ Panic \/ Environment \/ Ready \/ Resume \/ Work

(* The thread works while the process runs, and the gateway client gets a  *)
(* session (CaughtUp of DiscordGateway).                                   *)
Spec == /\ Init /\ [][Next]_vars
        /\ WF_vars(Work) /\ WF_vars(Ready \/ Resume)

-----------------------------------------------------------------------------
(* Properties. *)

TypeOK ==
    /\ sent \in [Channels -> 0 .. MaxId] /\ gone \subseteq Messages
    /\ link \in {"none", "up", "down"} /\ link # "down" => missed = <<>>
    /\ stored \subseteq Messages /\ known \in BOOLEAN
    /\ \A c \in Channels : \A v \in cover[c] : v[1] < v[2]
    /\ floors \in [Kinds -> [Channels -> 0 .. MaxId \cup {None}]]
    /\ unstored \subseteq Channels \X Ids \X BOOLEAN
    /\ pc \in {"down", "idle", "floor", "observe", "keep", "unkeep",
               "kept", "retry", "pull", "commit", "end"}
    /\ (task = NoTask) = (pc \notin {"floor", "observe", "keep",
                                    "unkeep"})
    /\ behind => pc \notin {"down", "idle"}
    /\ \A c \in pulling : FloorOf(c) # None
    /\ configured \subseteq Guilds /\ {dms, account, due} \subseteq BOOLEAN
    /\ batch.messages \cup reader.messages \cup heard \cup taken
          \cup overlooked \subseteq Messages

(* What a coverage interval says was read is there: every message in it    *)
(* that Discord still has is stored, whoever pulled it, whatever was lost  *)
(* in between (fetch_complete_forward, pull_channel).                      *)
CoveredIsStored ==
    \A c \in Channels : \A v \in cover[c] :
        \A i \in Existing(c) : v[1] < i /\ i <= v[2] => <<c, i>> \in stored

(* "Nothing at or below it is stored": intake never takes the history of a *)
(* channel, that is a guild's messages from before it was first configured *)
(* or a DM's from before the first one heard as new; and a guild channel   *)
(* that is no longer configured never begins as a DM channel (keep).       *)
HistoryStaysOut ==
    /\ \A m \in taken :
          \/ m[1] \in Guilds /\ base[m[1]] # None /\ m[2] > base[m[1]]
          \/ \E h \in heard : h[1] = m[1] /\ h[2] <= m[2]
    /\ \A c \in Guilds : floors["dms"][c] = None

(* "Every message heard as new is stored whatever the order" (floor_for):  *)
(* a DM handled as new is stored, kept by id as new, or above where its    *)
(* channel begins, so that a pull brings it.                               *)
HeardIsKept ==
    \A m \in heard \ excused :
        LET floor == floors["dms"][m[1]]
        IN  \/ m \in stored \cup gone \cup InHand
            \/ <<m[1], m[2], TRUE>> \in unstored
            \/ floor # None /\ floor < m[2]

(* A message intake has to store: above where a channel it serves begins,  *)
(* or kept by id, as new, or before it is known where its channel begins.  *)
(* A marker that could not be removed, of a message below that, owes none. *)
Owed(m) ==
    LET c == m[1]
        floor == FloorOf(c)
        kept(new) == <<c, m[2], new>> \in unstored
    IN  /\ Up /\ m[2] <= sent[c]
        /\ m \notin stored \cup gone \cup excused
        /\ \/ floor # None /\ floor < m[2] /\ (c \in configured \/ dms)
           \/ kept(TRUE) /\ dms
           \/ kept(FALSE) /\ c \in configured /\ floor = None

(* While the process runs and serves the channel, the message is stored,   *)
(* though no further message or session ever comes: a failure makes        *)
(* another backfill due until one has caught up.  A message that a listing *)
(* of the backfill left out unnoticed may wait for another backfill: the   *)
(* code goes on without the directory entries it cannot read (flatten in   *)
(* kept and backfill_channels).                                            *)
OwedIsStored == \A m \in Messages : Owed(m) ~> ~Owed(m) \/ m \in overlooked
=============================================================================
