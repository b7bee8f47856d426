# Verification of faculties

TLA+ modules, TLC configurations and TLAPS proofs kept beside the `faculties`
code. `faculties` is a Rust office suite for AI agents: about thirty faculties,
each usable from the command line and through MCP, whose state is a set of
immutable facts in an append-only store with set-union merge (the external
`triblespace` library). Most of a faculty is a pure projection of those facts.
What is hard sits at the edges, where a faculty meets clients, sockets,
providers and crashes; that is what is modelled here.

All paths below are relative to `src/`.

## 1. Inventory

| Part | State it keeps | Operations | What is hard | Properties that make it correct |
|---|---|---|---|---|
| MCP HTTP frontend (`src/mcp/http.rs`) | connection and request semaphores, channel of work, session table | accept, admit, read body, send, dispatch, reply, write, shut down | clients vanish at any await; permits travel between tasks and a thread; idle expiry; graceful shutdown | permits conserved, channel never full, work run once, sessions isolated, shutdown drains |
| MCP stdio frontend (`src/mcp.rs`) | running calls by id, slots, first failure | read a frame, answer, run a call on a thread, cancel | cancellation racing completion; threads finishing while the reader is blocked; EOF | a cancelled call is silent, every other call is answered once, slots conserved, EOF drains |
| Discord gateway (`src/discord/gateway.rs`) | session id, sequence, resume url, intents, failures, backoff | connect, identify, resume, heartbeat, dispatch, forget | lost sockets in every phase, RESUME that is never answered, invalid sessions, budget of IDENTIFY | events of a session are resumed where they stopped, outages never end it, only terminal closes do |
| Discord voice link (`src/discord/voice.rs`) | wanted channel, driver link, rejoin timer, interruption count | connect, lost, left, invalid, reallocated, join result | events on separate channels arrive in either order | a wanted channel is rejoined, a superseded join changes nothing |
| Discord speech (`src/discord/say.rs`, `src/discord/voice.rs`) | requests and outcomes in the store, what the speaker has seen | look, start, play, record | crash between an effect and its record; record failures | what was begun and recorded is not begun again after a restart, a settled request stays settled, every request is settled |
| Discord intake (`src/discord/intake.rs`, `src/discord/operations.rs`, `route` of `src/discord/live.rs`) | floors per channel, kept messages, coverage intervals | observe, keep, pull, backfill, retry | messages in any order; failures of disk, store and Discord; crashes; `discord read` pulling beside it | history stays out, what is heard as new is kept or stored, covered means stored, what is owed is stored |
| Mail (`src/mail.rs`, `src/mail/operations.rs`, `src/mail_pop.rs`) | drafts, attempts, acceptances, observations | draft, send, fetch | crash or lost answer between attempt and acceptance; replicas that know different facts; deletion after archiving | no draft is sent twice, the outbox is true, nothing is deleted before it is archived |
| Decide (`src/decide.rs`) | DAG of resolutions | resolve, reconcile | concurrent forks | only an agreed "send" lets a draft out |
| Orient (`src/orient/`) | presentation receipts, the ready and the pending frame, habits as last seen | poll health, prepare a frame, sweep habits, deliver, record | views frozen while the store grows, bodies that never come, attempts cut short, callbacks that may have accepted | a receipt only for what was accepted, nothing told twice, neither news nor habits starve |
| Habits (`src/habits.rs`) | DAG of records with heads | pause, resume | concurrent forks | a fork stays visible until it is resolved |
| Duplex and local voice (`src/duplex/`, `src/voice/`) | session controls, audio queues | speak, hear, stop | turn taking | no self-hearing |
| Everything else | facts in the store | append, project | data | deterministic projections; see PROJECT.json |

How the parts meet. A faculty operation reads a snapshot of the store and
publishes facts; publications are unions, so two processes never overwrite each
other. The two MCP frontends turn frames and HTTP requests into calls of such
operations. `discord live` is one resident process with four loops: the gateway
task hands Discord's events to the intake thread and to the voice task through
channels; the voice task sends voice state updates back through the gateway's
outbox and drives the external voice library; the speaker looks for say requests
in the store, plays them over the connection the voice task keeps, and records
outcomes in the store, where `discord say`, another process, waits for them.
`orient daemon` is resident too: it reads a snapshot, tells its persona, and records
receipts in the store. Mail and the rest are one-shot processes that use the store as their
journal: an attempt is recorded before an effect, an acceptance after it.

## 2. Modules

Conventions. Variables and actions keep the names of the code where they can.
A comment beginning "Mutant:" marks an operator that is not used by the model: it
is a plausible bug, an alternative to the definition after it, and each property
below fails when one of them takes that definition's place. Constants called
`Max...` that are commented as bounds only limit what the environment does; the
others are limits the code itself has. History variables are read by properties
only, never by a guard of the code modelled.

| Module | Role | Configurations |
|---|---|---|
| `McpHttp`, `MCMcpHttp` | `src/mcp/http.rs` | `McpHttp.cfg` |
| `McpHttpProofs` | its theorems | |
| `McpStdio`, `MCMcpStdio` | `serve` of `src/mcp.rs` | `McpStdio.cfg` |
| `CancellableCalls` | what a client of the stdio frontend is promised, implemented by `McpStdio` | as a property of `McpStdio.cfg` |
| `McpStdioProofs` | its theorems, the refinement among them | |
| `DiscordGateway`, `MCDiscordGateway` | `src/discord/gateway.rs` | `DiscordGateway{Safety,Liveness,Replay}.cfg` |
| `EventStream` | what the tasks behind the gateway client are promised, implemented by `DiscordGateway` | as a property of `DiscordGatewaySafety.cfg` |
| `DiscordGatewayProofs` | its theorems, the refinement among them | |
| `DiscordSay` | `src/discord/say.rs`, `speak_queue` of `src/discord/voice.rs`, `say_turn` of `src/discord.rs` | `DiscordSay.cfg`, `DiscordSayFailedLook.cfg` |
| `DiscordSayProofs` | its theorems | |
| `DiscordVoiceLink` | `run`, `Link`, `Rejoin`, `VoiceJoin` of `src/discord/voice.rs` | `DiscordVoiceLink.cfg` |
| `DiscordVoiceLinkProofs` | its theorems | |
| `DiscordIntake` | `src/discord/intake.rs`, the pull of `src/discord/operations.rs`, coverage of `src/discord.rs`, `route` of `src/discord/live.rs` | `DiscordIntake{Floors,Coverage}.cfg` |
| `DiscordIntakeProofs` | its theorems | |
| `Mail` | sending and fetching of `src/mail.rs`, `src/mail/operations.rs`, `src/mail_pop.rs`; resolutions of `src/decide.rs` | `Mail.cfg` |
| `AtMostOnce` | what an effect with a journal promises, implemented by `Mail` | as a property of `Mail.cfg` |
| `MailProofs` | its theorems, the refinement among them | |
| `OrientWatch` | `observe_wait` and what it calls in `src/orient/operations.rs`, `health.rs`, `delivery.rs`, `callback.rs`, `cli.rs`, `next.rs` | `OrientWatch.cfg` |
| `OrientWatchProofs` | its theorems | |

### McpHttp

Three parties share the state: the acceptor, the request handlers (futures of one
I/O thread) and the worker thread.

- `stage[r]` follows a request from its head to the last byte of its response;
  `on[c]` says which request the client's stream waits for. A hang-up clears `on`
  and leaves the stage where the work is, which is exactly what dropping a hyper
  connection does to work already sent.
- `free` and `connFree` are the two semaphores, `queue` the bounded channel,
  `current` the worker's work, `rpc` and `touched` its session table.
- `Arrive*` is `handle_request` up to its first wait, `BodyArrives` and
  `BodyFails` the end of the upload, `Take`/`Dispatch` the worker loop,
  `Written` the last byte of a response, `HangUp` a peer that goes away in any
  stage, `Shutdown`, `CloseIdle` and `Stop` the graceful shutdown.
- Host, token, path and header checks are the one disjunct `ArriveRejected`; JSON
  is a class of body. A "call" stands for any tool call.

### McpStdio and CancellableCalls

The reader is a program counter (`reader`), each `tools/call` a thread with its own
(`stage`), so every interleaving of the reader's lock, the flag it found under it,
and the thread's removal, look at the flag, write and release is explored.

- The error a call thread's `run` could return is not a branch: the response
  reserve makes the encoding that would raise it impossible, so a thread fails
  only where it writes.
- The client is the environment. It uses a request id again only after that call
  was answered (`Idle`), as JSON-RPC asks; without that, which of two calls a
  cancellation names would be the client's own ambiguity.
- While the reader waits for a slot for a ninth call it reads nothing, so
  cancellations wait behind it: this is in the model (`Admit` blocks).
- `CancellableCalls` has calls only: a call begins (`Admit`), the client asks to cancel
  it (`Ask`), it is answered or falls silent in one indivisible step (`Answer`,
  `Silence`, `Drop`), it ends, and serve returns. `Atomic` maps it to threads and flags:
  `Running` are the calls that hold a slot, `Ended` those past it, `Asked` those whose
  cancellation was read, `Failed` is the failure that will be returned. `Silent` is the
  argument: a call falls silent at the first moment no response can follow, which is
  when the reader is done with a cancellation while the handler runs, or when
  the thread finds the flag set, whichever comes first, or when the response cannot be written.

### DiscordGateway and EventStream

One session task against a gateway that numbers events, replays them after a
RESUME, and may end a connection or session in every phase.

- A connection is `phase` with `tried`, `reached` and `owed` (the heartbeat), the
  session is `resumable` and `sequence`, `Retry` is `failures`, `unanswered`,
  `identified`. `After` is `Retry::after`, `Closed` the table of close codes.
- Time is the age of a heartbeat and the wait before a connection in units of the
  configured backoff.
- RESUMED does not advance the sequence here: it is the last thing a replay
  sends, and an event number of its own would only add states.
- `failures` is capped above the value where decisions depend on it, and
  alternates there, because `Retry::url` uses its parity.
- `calm` is the usual device for stating liveness of a retry loop: from some
  moment nothing fails any more. A resume host that is gone stays gone.
- `issued`, `written` and `dropped` follow voice state updates through the outbox.
  Commands are numbered as they are asked for, so the channel is a set: the numbers
  are its order, and a send that fails leaves a first part of the batch sent.
- `EventStream` is what is left when connections are forgotten: `Begin`, `Publish`,
  `Deliver`. `Stream` maps its variables to `epoch`, `served` and `handed`, so every
  step but a READY, a dispatch and a new event is a stutter. It says more than
  `EventsInOrder`: nothing is handed on that the gateway has not numbered, and nothing
  of an older session once a newer one began.

### DiscordSay

The store is `asked`, `askedAt`, `beganAt` and `outcome`; the speaker is `pc` with
its look (`pending`), its line, and the task that records Started beside it. The
process may crash at any step, every access to the store may fail. A look is
split where the code can be overtaken: sample and compare (`Look`), read (`Read`),
then each judgement (`FailPending`, `TakeLine`).

- Speakers only compare times with their own start, so the clock moves when one
  starts, by a unit or past `SAY_STALE`.
- `heardBy` and `landed` are history: the speakers that made a sound of a
  request and those whose Started outcome reached the store.
- Left out: the buffer between synthesis and playback, splitting a text, the
  greeting at start-up, and the process that waits for its answer.

### DiscordVoiceLink

The select loop of the voice task between a Discord that keeps the bot's voice
state and allocates servers, and a driver that dials them. Both are modelled from
what the code says of them and are marked external in the map.

- Dispatches, answers and losses are separate channels, so they reach the task in
  any order relative to each other.
- An attempt number is only ever compared with the newest, so attempts carry that
  comparison as a flag (`newest`, `Outdates`). Instants are "later" or "ripe", a
  connection is "fresh" or has "lasted".
- `Send` lets a leave and the join after it become the join alone: that is what
  the outbox of the gateway does while there is no connection. `LoseCommands` loses the
  rest of a batch that the gateway took and failed to send.
- In calm times what is in flight arrives before the next tick (`Settled`): the
  ticks are a second apart and the backoffs longer. Without it TLC finds a
  livelock that is about speed only: each rejoin's late "session gone" outdates
  the connection that replaced it, for as long as messages always take longer
  than a backoff.

### DiscordIntake

One thread takes work from an inbox; what it knows across starts is a state
directory and the store. Four parties share the state: Discord and its users, the
gateway session that feeds the inbox, the thread, and `discord read`, which pulls
from a process of its own.

- `task` is the message in hand, and `pc` where the thread is with it: finding
  where its channel begins (`FindFloor`), storing it (`Observe`), keeping it by id
  (`Keep`) or no longer (`Unkeep`). The same steps serve a message the gateway
  delivered (`live`) and one fetched again. A backfill is `ListKept`, `NextKept`
  for each kept message, `ListChannels`, then `Fetch` and `Commit` for each pull.
- Every access to the directory, the store or Discord may fail, any step may
  panic, and the process may stop between any two; `Start` chooses other channels
  than the last time.
- `floors` and `unstored` are the files of the directory, `cover` the intervals.
  `Reach` and `Frontier` are defined by what they compute, not by the sort.
- Messages of one session are put in the inbox in any order: `floor_for` says that
  it does not rely on the gateway's order, so the model does not either.
- A pull reads the coverage and the pages in one step and commits in another; a
  message deleted in between is of no interest to the properties. What an edit
  says, attachments and the items of hearing are left out.
- `Owed` is what the intake has to store: what lies above where its channel begins, and
  what is kept by id, as new or before that is known. A marker that could not be removed,
  of a message that turned out to lie below, owes none: the next
  backfill fetches it, finds it is not to be stored, and lets it go (`retry_unstored`).
- `excused` holds what is not kept: a message in hand when the process stops or panics,
  one whose marker a full disk lost ("only a backfill's pages may bring it"), one whose
  channel is no longer served, and one of whose two markers a listing read only the
  one that does not say it was new (`Torn`, see the findings).
- A listing of a directory fails as a whole, or silently leaves entries out: `kept` and
  `backfill_channels` flatten what `read_dir` yields, and an entry whose reading fails is
  passed over. `overlooked` is history: the messages of the markers and DM channels that
  the last backfill's listings left out. `OwedIsStored` and `IdleHasStoredAll` except
  them, and nothing else.

### Mail and AtMostOnce

Each replica holds the collections Decide, Mail and Files; each collection reaches
another replica on its own (`SyncDecide`, `SyncMail`, `SyncFiles`).

- `mail send` is `Prepare` (the views, an attempt that exists, the decision),
  `PublishAttempt`, `Submit`, `PublishAcceptance`. It may stop before each; a
  publication may fail, or be committed and still return an error; the server may
  accept a message and its answer be lost.
- `Heads`, `Agree` and `Authorized` are `dag_heads`, `resolution_result` and
  `authorized_send`. What a resolution cites is on the replica that has it, since
  the collection comes as a whole.
- Attempts are content-addressed: two with the same draft and heads are the same.
- `prepare_send` asks deployments to serialize sending. `authority` is that: one
  replica at a time may send. `HandOver` adds that it passes only to a replica that
  has the attempts of the last one. The code cannot check either. Serialization
  alone would not be enough: a replica that has not heard of an attempt would make
  another.
- `TriedAsDecided` is the gate: what an attempt cites are resolutions of its own draft, all
  for sending, and none that another of them overrules. Facts that arrive later never
  change that, since resolutions are content-addressed and immutable.
- `mail fetch` is `Connect`, `Retrieve`, `PublishFiles`, `PublishMail`, `MarkDelete`,
  `Quit`; dropping the session without QUIT deletes nothing.
- `AtMostOnce` has three steps: `Begin`, `Effect`, `Confirm`. `Once` maps `begun` to
  the drafts some replica has an attempt of, `confirmed` to those with an acceptance,
  `effects` to what the server accepted. Everything else, replication included, is a
  stutter. `DiscordSay` does not implement it: a line that was interrupted is played
  again by design, and a start that cannot be recorded does not stop the line.

### OrientWatch

One watcher of one persona, beside writers of the store that may append at any
moment. `kind` is what drives it: a daemon with a callback, one that retries what
the callback did not submit, a one-shot wait, or a call that another thread owns
(`next.rs`). A run is `pc`: the health poll (`PollHealth`), an attempt at a frame
(`Select`, `Observe`, `ResolvePersona`, `Ready`), the habits when there is none
(`Adopt`, `Sweep`, `Rest`), and a delivery (`HandOver` to `CommitDue`).

- A view is what a snapshot freezes: messages, habits, receipts. `sel` is the one
  selected in the background, `pend` the pending frame with the habits evaluated in
  it, `cur` the ready frame, `seen` the habits last observed. `Current` is
  `is_current`, `Cut` a boundary that ends an attempt and leaves `sel` and `pend`.
- An attempt may end pending for want of a dependency of upkeep or of the selection
  (`Unprepared`; the pending frame then has no view), of the persona (`PersonaUnread`), of an
  intention's own payload (`HabitMissing`), or of a body (`BodyMissing`). The first two stop
  the clocks of the ready frame (`Invalidate`).
- News is a message, whose body may be missing, or an alert of health, which needs
  none; a habit is due or cooling in numbered occurrences. Every other source of
  news (mail, teams, Discord, compass) is like a message.
- `Accept`, `KnownNotSubmitted` and `Fail` are what a callback, a writer or an owner
  may answer. `Fail` may have been accepted all the same (a callback that times out
  after its work), and so may an attempt whose process dies (`Cease`).
- `accepted`, `known` and `reached` are history: what was accepted, the receipts there
  were when the run began, and what this run's reports said that may have arrived.
- Left out: warnings of habits that need attention, habits that run scripts, the
  check before a delivery that this key may write receipts, the beats and ledger of
  the news path in `health.rs`, the length of delays, the one-time cap on the first
  read, and a membership of receipts that cannot be refreshed ("a recent event may
  repeat", the code says then).

## 3. Hazards and what covers them

`PROJECT.json` lists every hazard with its line. In short: permits and slots that
travel between tasks (McpHttp, McpStdio); a cancellation racing a completion
(McpStdio); the order of effect, record and crash (DiscordSay); a look that
overlaps publications (DiscordSay); retry counters fed by connections that end in
different phases (DiscordGateway); answers and losses on different channels
(DiscordVoiceLink); messages out of order, failures one after another and a
changed configuration (DiscordIntake); answers lost and facts not yet replicated
(Mail); views that were frozen before what they should show, and reports that may or
may not have arrived (OrientWatch). Every listed hazard has a property. One thing is
left out of the list as out of reach: the failure counter of the gateway saturates at
`u32::MAX` and then keeps one parity, after four billion failed connections.

## 4. Runs

| Run | Instance | What it shows |
|---|---|---|
| `http` | 2 clients for 1 connection slot, 3 requests for 2 permits, 2 sessions, timeout 1; one request initializes, one initializes or goes on with that, the third is anything | permits conserved, the channel is never full, a tool runs at most once per request, a session ends only by its own requests or by idling, queued work is dispatched though its client is gone, shutdown drains and ends |
| `stdio` | 3 calls, two sharing an id, 2 slots | slots conserved, the map is exact, a cancelled call is silent, serve returns complete and returns at all, and to the client each call is answered or falls silent in one step (`CancellableCalls`) |
| `gateway_safety` | 2 sessions of 3 events (of 2 where voice states are asked for), 2 voice states for 2 guilds, one close code of each class | events in order without gaps, as a stream without connections (`EventStream`), a session is given up only for a reason the gateway gave, the newest voice state of a guild is the last one out |
| `gateway_liveness` | 1 session of 2 events, up to 8 IDENTIFYs in a row, resume host gone or not | IDENTIFYs spaced as documented; once calm, every event is handed on |
| `gateway_replay` | 1 session | violated, see below |
| `say` | 2 requests, 3 speakers, 1 store failure, 1 interruption | nothing recorded as begun is begun again, settled is for good, played is true, whatever is asked for is settled |
| `say_failed_look` | as `say`, 2 store failures | violated, see below |
| `voice_link` | 1 trouble, 2 messages per channel, 3 names | no dead connection taken for a working one, the goal is always pursued, and reached |
| `intake_floors` | a guild channel with 1 message, a DM channel with 2, two starts, an edit, a deletion, a failure | no history is taken, what is heard as new is kept, stored or above where its channel begins |
| `intake_coverage` | 3 messages pulled one at a time, one `discord read`, a failure, a lost connection | covered is stored; what intake owes is stored, but for what a listing silently left out |
| `mail` | 2 replicas, 1 draft, 3 resolutions, 1 message with an attachment | a draft goes out at most once (`AtMostOnce`) and is tried only as decided, the outbox is true, what the POP server deleted is archived |
| `orient` | 1 message, 1 alert, 1 habit with 2 occurrences, 2 runs of a retrying daemon or a wait, 1 trouble | receipts only for what was accepted, nothing told twice, habits do not wait for bodies, news is told whatever is appended meanwhile |

Why the bounds are enough. Three requests for two permits is the least instance
with a permit held, one contended and one waiting; the same for slots in `stdio`,
where the third call reuses an id so that a stale entry would be hit. Two
sessions in a table of two let one idle out while the other goes on, and a third
initialize meet a full table; `Roles` (in `MCMcpHttp`) keeps the product of all
commands small, in any order of arrival. In the gateway
two sessions let events of one be confused with the other, two voice states for two
guilds let one replace another or pass it (`MCDiscordGateway` bounds the events to two
in those behaviours, which commands do not touch, and leaves out calm states, which
only take steps away), and the failure cap lies above
`RESUME_ATTEMPTS`. Three speakers allow a crash of a speaker that itself
followed a crash; the one store failure can hit every access, and the safety of
`DiscordSay` is proved for any number. In the voice link one trouble lets every
action of the model happen, at any moment; three names are needed because the old,
the standing and the next connection are told apart (with two, Discord would run
out of names and stand still). In `intake_floors` two messages of a DM channel are the
least that can be handled out of order, two starts let a guild's message be kept
under one configuration and fetched again under another. In `intake_coverage` three
messages pulled one at a time, two pulls to a backfill, leave one for the retry, and
let the bounded baseline of `discord read` lie above a gap. In `mail` three
resolutions are a fork and its reconciliation; drafts do not share state, so one is
enough, and `MailProofs` proves all four properties for any number of each. In
`orient` one of each kind of news is enough for them to share a report or not; two
runs let the second find what the first left behind; the trouble (a cut, a missing
dependency, an unresolved persona or a retry) may hit every step, and the safety is proved
for any number of everything. Two kinds are not instantiated: an owned
call (`"next"`) begins no delivery past its deadline, as a daemon, and ends with its first
report, as a wait; a `"daemon"` behaves like a `"retrying"` one whose callback never asks for
a retry.

`CHECK_DEADLOCK FALSE` is used where the system really may stop: in `voice_link` a link
that is connected in a calm world with nothing under way has nothing left to do; in
the intake runs the process may have ended for the last time the bound allows; in
`mail` everything may have been sent, fetched and replicated; in `orient` the last run
the bound allows may have ended.

Symmetry is used where values are interchangeable and only safety is checked
(`gateway_safety`).

Fairness. `McpHttp`: the worker, the timeout of an upload, and the closing of idle
streams go on; nothing is assumed of clients, so `DrainEnds` says itself that no
peer leaves a response unread for ever. `McpStdio`: handlers are finite, threads
are scheduled, writes complete; nothing makes a client send. `DiscordGateway`: the
task's timers and reads run, and a gateway that is reached answers; `CaughtUp` is
claimed from calm on. `DiscordSay`: the speaker goes on and the service manager
restarts the process (the bound on restarts excuses a request only when they are used
up, and one whose look or record a store failure hit is the finding below); that the
store changes again is not assumed.
`DiscordVoiceLink`: the task takes what arrives, the driver answers, Discord
answers joins and leaves and allocates another server when one goes away.
`DiscordIntake`: the thread works, and the gateway client gets a session while the
process runs, which is `CaughtUp` of `DiscordGateway`; nothing is assumed of who sends
messages, and the retry timer is part of the thread's work. `Mail` claims no liveness:
nobody retries an uncertain attempt, by design.
`OrientWatch`: a run keeps taking steps, and looks at its habits at least once a minute
(`last_habit_sweep`), whatever boundary comes first: that is `SF_vars(Sweep)`. What an
attempt selected stays when a boundary cuts it, and boundaries are minutes apart, so an
attempt is cut only so often (`MaxTrouble`), unless a cooldown is over: that cuts every
attempt until somebody sweeps it, and nobody may (`Overdue`, see below). A dependency of the
preparation, or an intention's payload, is missing only so often too; bodies may be missing
for good. That a run goes on at all is not assumed (`pc = "off"`
excuses it).

### Findings

- `gateway_replay`: `src/discord/gateway.rs:15` documents that a network that is gone
  never gives a session up; three replays the network cuts before RESUMED do,
  although each moved the sequence on, and the rest of the missed events is lost.
- `say_failed_look`: `src/discord/say.rs:63` says that a failed look is looked at again;
  the snapshot to compare with is set before the looked-at requests are recorded, so
  a failed record leaves the rest unlooked at until something else changes.

Seven more divergences have no run of their own. `src/discord/gateway.rs:49` documents that
RESUMEs answered with op 9 are not counted; `Retry::after` (line 411) counts those with `d =
true`, and three in a row give the session up. `src/discord/say.rs:12` says a line is played
at most once across restarts, but a Started outcome that cannot be recorded is only logged
(`src/discord/voice.rs:905`). If the outcome cannot be recorded either, the process ends and
the next one plays the line again. `NotReplayedOnceRecorded` is therefore stated of starts
that were recorded.

The listing of kept messages may read one of two markers of a message and miss the one
that says it was new; `src/discord/intake.rs:600` says a message is "new when either of its
markers says so". A DM message may then be let go as one of a channel that never began
(`Torn`). That takes three failures in a row, beyond `MaxFailures` of the runs, so it is
only the proof of `HeardIsKept` that meets it.

`src/discord/intake.rs:38` says that a backfill that caught up has pulled everything its
floors let in, and line 32 that every backfill fetches a kept message again. The listings of
lines 570 and 612 pass over a directory entry that cannot be read (`flatten`), without a
failure, so a backfill that missed a DM channel or a marker counts as caught up, and nothing
fetches those messages before the next session or failure. TLC finds it in the instance of
`intake_coverage` when `OwedIsStored` is stated without `m \in overlooked`.

The other three are in the watch loop of `src/orient/operations.rs`; TLC shows each of
them in `OrientWatch` when the property that excuses it is stated without the excuse.

- A daemon may repeat an occurrence within one run. Sweeps decide what is due by the
  receipts frozen in the ready frame (line 5664), so one that follows the report of that
  same frame, before the next frame is ready, tells it again. The comment at line 5423
  says "an occurrence already presented is not repeated here", and the test
  `a_due_occurrence_is_reported_until_its_receipt_exists_then_never_again` asserts it of
  the rendering function alone. `ToldOnce` therefore speaks of news within a run, and of
  occurrences across runs. The trace: `Ready`, `Accept`, `CommitDue`, `PollHealth`,
  `Cut`, `Sweep`.
- After a moment in which the persona could not be resolved,
  `current_habit_context_valid` (line 5615) stays false until the next ready frame. A
  missing body then stops habits from being told, against the comment at line 5651;
  hence `~valid` in `HabitsDoNotWait`.
- While it is false, a cooldown that is over remains a boundary for every attempt (lines
  5518 to 5530), that of `habit_seen` as well as that of the pending frame, and nothing
  sweeps it away (line 5631): each read is cut at once, and news may starve. TLC finds it
  with the pending frame's cooldown alone: the persona was unresolved once, a newer view
  waits for a body, its habit's cooldown ends, and the body comes too
  late. The first loop avoids this ("an older baseline's deadline must not keep cutting its
  reads", line 5256); hence `Overdue` in `NewsIsTold`.

## 5. Proofs

All theorems are checked by TLAPS for every value of the constants, under the named
assumption of each module only (`McpHttpAssumption`, `StdioAssumption`,
`GatewayAssumption`, `SayAssumption`, `VoiceAssumption`, `IntakeAssumption`,
`MailAssumption`, `OrientAssumption`: limits and bounds are naturals, positive where the
code needs one, sets that are counted are finite, the "no ..." values lie outside their
sets). Every safety property that a passing run checks, invariant or action property,
is a theorem, and so are the three refinements. Liveness is out of reach, but what it rests on
short of fairness is not: that every step leads forwards (`CallsAdvance`, `RequestsAdvance`),
that a wait has something to wait for (`NeverWaitsAlone`, `DrainIsHeldUp`), and that a
component which is at rest has nothing left to do (`IdleHasSettledAll`, `IdleHasStoredAll`,
`AtRestIsConnected`) are theorems too.

- `McpHttpProofs`: `TypeOK`, `PermitsConserved`, `ChannelNeverFull`, `ConnectionsConserved`,
  `RanAtMostOnce`, `SessionIsolation`, `StoppedIsDrained`. Conservation of permits is not
  inductive: a dispatch whose request already gave its permit back would give it back twice.
  `IInv` adds that everything in the channel is queued there once (`QueueInv`) and that the
  worker's request is running (`CurrentInv`). The channel is then never full since distinct
  queued requests all hold permits, by counting; so the 503 after `try_send` does not occur.
  `RanAtMostOnce` needs that a request which waits has not run (`WorkDone`).
  `StoppedIsDrained` needs that whatever holds a permit is either attached to a client or
  with the worker (`Placed`), and that the signal alone closes the listener and nothing
  opens it again (`Closing`). `RequestsAdvance` says that no step takes a request back to an
  earlier stage, and `DrainIsHeldUp` that a drain which is not over has work for the worker,
  an upload that will time out, an idle stream to close, or a response its client leaves
  unread: nothing in it waits for a new client. Both need `Served`: a stream waits for a
  request under way, and no two streams for the same one.
- `McpStdioProofs`: `TypeOK`, `SlotsConserved`, `MapNamesRunning`, `CancelledIsSilent`,
  `ReturnIsComplete`. `IInv` ties the two halves of a cancellation together: between finding
  a flag and setting it no other call of the id can take its place (`StoresFound`), a flag
  is set only after its cancellation was read (`CancelSeen`), a call bound by one has its
  flag set before it looks (`BindingHolds`), and every call that ended silently has a reason
  (`EndsExplained`). The refinement of `CancellableCalls` goes through the steps of one call
  (`ImplementsCancellableCalls`): the flag taken under the lock, set without it and looked
  at by another thread never shows as half a cancellation. `OneWaits` is needed there: of
  the calls of one id at most one is taken and unanswered. `EveryCallHasOneFate` is proved
  of the abstract specification and carried over. `CallsAdvance`: a call only moves
  forwards, every step of its thread moves it, and none begins after the end of input;
  `NeverWaitsAlone`: while no slot is free some call holds one.
- `DiscordGatewayProofs`: `TypeOK`, `EventsInOrder`, `KeptUnlessTold`,
  `NewestCommandWritten`, `IdentifiesSpaced`, and that `DiscordGateway` implements
  `EventStream`. `StepKinds` first says that every way a connection ends is one
  `Ending`, so each argument about a lost connection is made once. `EventsInOrder` does
  not say what a RESUME carries; `EventInv` does: a session to resume is the newest, its
  number is how much of it was handed on, and a connection that goes on with it stands
  exactly there; `ResumesWhereItStopped` states that of every RESUME under way.
  The refinement follows from `EventInv` step by step. `TallyInv` relates the
  client's counter to what the gateway really did: what the client takes for accepted
  was accepted, and while a session is kept `unanswered` is the gateway's own count of
  RESUMEs it answered and did not accept. `SpacingInv` does the same for IDENTIFYs that did not
  last; `SpacingDoubles` shows that stopping the shift at 7 loses nothing under the cap
  of 600. `CommandInv` says that while any command for a guild is held the newest is;
  otherwise an older voice state could go out after it.
- `DiscordVoiceLinkProofs`: `TypeOK`, `ConnectedIsTrue`, `GoalIsPursued`,
  `OnlyStandingConnections`. None of them speaks of answers and losses that are still on
  their way, and those decide. `AttemptInv` says that at most one attempt counts, that it is
  the last request and for what the link means; that no request is left while an answer
  waits; and that an answer "ok" means a connection that is up on the link's own info, or
  the news of its loss. `Sound` says of the link that it hands the driver only what stands,
  and that while rejoining or reallocating there is nothing to dial and a join is due.
  `AtRestIsConnected` joins the first two properties: with nothing on its way and no join
  due the driver holds the connection the last dispatches gave, and the link knows.
- `DiscordIntakeProofs`: `TypeOK`, `CoveredIsStored`, `HistoryStaysOut`, `HeardIsKept`.
  Coverage (`CoverInv`) needs that what is stored stays and that an interval is committed
  with its messages, whichever of the two processes pulls. `FloorInv` ties the floor of a
  channel to where it began: the base of a guild channel or the first message heard in a DM,
  for the floors on disk, the one in hand, and what was taken already. `KeptInv` follows one
  message through the failures: a message heard as new has its marker (`MarkerInv`), a
  marker is removed only for what is stored, deleted, excused or was not new (`UnkeepInv`),
  and what a step has secured stays secured while the thread goes on (`SecuredInv`).
  `IdleHasStoredAll` is the longest proof: connected, idle, with an empty inbox and no
  backfill due, the intake owes no message but those its last listings left out. `OwedInv`
  says of every message still
  owed that another backfill is to come, or it is queued, in hand, or ahead of the backfill
  at work: its marker not yet tried, its channel not yet pulled, or the page being committed
  holds it or leaves more to pull. The last needs what a pull brings: `PullBrings` shows it
  from `ReachIsCovered` (what coverage lets a pull skip lies in an interval, hence is
  stored) and `SmallestOrFull` (a page that leaves a message out is full, so the pull goes
  on). When the first message heard in a DM channel begins it, messages above become owed
  that no backfill knew of; `OrderInv` says that whatever came after a message handled as
  new was heard too, is queued, or was missed by a session that ended, which makes a
  backfill due.
- `DiscordSayProofs`: `TypeOK`, `NotReplayedOnceRecorded`, `SettledForGood`,
  `PlayedIsTrue`. That nothing recorded is replayed rests on the judgement of a look
  still being true when the line sounds: `CurrentInv` says that the line in hand was
  begun by no other speaker and is unsettled, which holds since only the one
  speaker records starts and outcomes; `ClockInv` and `OneStart` relate what was
  heard and recorded to the starts of speakers. `IdleHasSettledAll`: while no access to the
  store failed, a speaker that waits for a change has settled every request; by `LooksInv` a
  look that saw the newest store has every unsettled request in what it judges. Its
  hypothesis is exact: after one failed record it is false, which is the finding of
  `say_failed_look`.

- `MailProofs`: `TypeOK`, `OutboxIsTrue`, `RemovedIsArchived`, `TriedAsDecided`, and that
  `Mail` implements `AtMostOnce`. `SentInv` is the argument: every replica's attempts are
  the authority's (`AttemptsInv`, which a hand-over keeps only because it asks for the
  attempts), so "no attempt here" at the authority means none anywhere, and a draft has at
  most one (`OneAttempt`); a sender beyond its attempt is the only one that may submit it,
  and has not (`SendingInv`); an acceptance is of an attempt whose message went out
  (`AcceptedInv`). The refinement then needs one step per action: only the first attempt, a
  submission and an acceptance show. `FetchedInv` says that what is marked for deletion, or
  about to be, is on the fetching replica. `DecidedInv` carries the decision from `Prepare`
  to the attempt, across anything resolved or replicated between; it needs that a name
  stands for one resolution on every replica (`NamesInv`).
- `OrientWatchProofs`: `TypeOK`, `ReceiptsAreAccepted`, `ToldOnce`. That news is told once is
  about views frozen at different moments. `ViewsInv` says that whatever a run holds
  frozen has the receipts the run began with, and the selected and the pending view
  those of every message told since; `ReachedInv` that news told has its receipt once
  its report is settled, and that a report with messages is told only while nothing
  else is selected or pending, so no view from before its receipts is left.
  `AcceptedInv` carries acceptance to the commits, `Phases` says which frame a step
  finds, and that none outlives its run; `SeenInView` that habits are only seen in a view.

Only model-checked: liveness (`QueuedIsDispatched`, `DrainEnds`, `CallsAreAdmitted`,
`ServeReturns`, `CaughtUp`, `AskedIsSettled`, `EndsConnected`, `OwedIsStored`,
`HabitsDoNotWait`, `NewsIsTold`), whose fairness and ENABLED are outside the prover, and
the two expected violations. The type invariants and
`ConnectionsConserved` are left to the proofs, where they are part of the inductive
invariant. So are the statements about rest and progress above, whose TLC counterparts are the
liveness properties. No module uses RECURSIVE. The commands
of the gateway are a set ordered by their numbers, where a filtered sequence would need
induction over data, which the prover does not have.

## 6. Not modelled

`PROJECT.json` gives the reason for each component. Rendering, argument decoding, importers
and the projections of facts are pure data. The store itself is an external library; the
modules that use it take a publication as an atomic union that may fail, and replication as
a union of one collection at a time. Account configurations of Mail fork and are reconciled
like decisions; sending only asks for a unique head, which is left out with the credentials.
Audio (synthesis, segmentation, devices) is signal processing.

## 7. Plan

Done: the two MCP frontends and the calls one of them promises, the gateway and the stream
it implements, the voice link, speech, the intake, mail with its gate in Decide, the
abstract effect and its refinement, the watcher of Orient. Every safety property of these is
proved, and for both MCP frontends, speech, the intake and the voice link what their
liveness rests on. Left, in this order:

1. The same for the gateway and the watcher: a measure that every step of a calm resume
   decreases, and that a watcher at rest has told what its view shows.
2. What `OrientWatch` leaves out: the news-path ledger of `src/orient/health.rs` (beats,
   deferrals and exits that peers read) and attention warnings, as modules of their own.
3. `Heads`: pauses and resumptions of Habits as a DAG with forks; a fork stays
   visible until it is resolved.
4. Candidates after that: the framed streams of `framed-stream`, duplex turn
   taking, the import of secrets, the installation of a release cohort.
