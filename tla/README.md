# Variatio, specified

TLA+ models of Variatio, the server that builds a subject's artifacts (syllabus graph, types of
exercise, bank of exercises) with language models, generates variants of the exercises and runs a
class's conversations, and of the parts of its browser application that follow the server's state.
The models follow the code under `src/`; `PROJECT.json` maps every definition to the lines it
translates.

Check with `tlc -config <Run>.cfg <Module>.tla` and `tlapm <Module>_proofs.tla`; the list of runs is
in `PROJECT.json`.

## 1. Inventory

One process serves everything: FastAPI routes run on a thread pool (sync routes) or the asyncio loop
(the socket), jobs run on one worker thread each, builds in a child process. State lives in memory
(queue, event bus, warm contexts), in JSON files of a workspace (artifacts, approvals,
conversations), in a file shared by processes (the provider's ledger), in a database (accounts,
memberships, counters) and in the browser tabs.

| Part | State | Operations | What is hard | What makes it correct | Module |
|---|---|---|---|---|---|
| Job queue (`server/jobs/runner.py`, `priority.py`, `lanes.py`) | jobs and their status, holders of the two lanes, order of arrival, wake event | submit, cancel, dispatch, run, settle, release, chain, shutdown | three kinds of thread, a room changed from the panel, a job that needs both lanes, aging | books of the lanes exact, no lane overfull, no wake lost, nobody starved | `JobQueue`, `JobService` |
| Live stream (`server/jobs/bus.py`, `server/core/routes/stream.py`, `web/src/state/runStore.ts`) | sequence number, ring buffer, a queue per socket, the tab's `lastSeq` | publish, fan out, replay, go live, reconnect, reload | publishers on many threads, hand-over to the loop, overlap of replay and live queue, slow tabs, restarts | no event applied twice or out of order, no hole without a reason | `EventStream` |
| Run store and the tab's moves (`web/src/state/`, `server/auth/deps.py`, `server/classroom/members.py`) | the runs on screen, sockets, reconnect timer, workspace shown | apply, adopt a snapshot, prune, connect, switch, leave, log in and out | answers and ends of sockets that come after a move, announcements numbered late | the screen is the queue, one subject's runs, a tab that stays gets back on air | `RunStore` |
| Warm contexts (`server/core/contexts.py`) | registry, generation per workspace, one build lock per workspace; the context object that jobs share | get, reload, invalidate, invalidate all, evict, put a tagged bank in | an invalidation landing during a build, writers that invalidate nothing | nothing stale stays registered but behind a silent write | `Contexts` |
| Exemplars bank and its builds (`server/bank/edit.py`, `server/jobs/build_process.py`, `build_worker.py`, `server/pipeline/jobs.py`) | the bank, the file being written, the child process and its cancel flag | extract, stop, escalate, promote, file, edit, tag | cancel before attach, after promotion, edits meanwhile, a crash | a failure keeps the old bank, nothing a person added is lost but in named ways | `Bank` |
| Construction (`server/pipeline/approvals.py`, `chain.py`, `gates.py`, `server/kg/edit.py`, `web/src/features/bank`, `components/StageGate.tsx`) | artifacts, drafts, approvals with hashes, build records, what the screens offer | build, edit, approve, reopen, collect, review, tag, close a chain | edits during jobs, read-modify-write of one file, a tagging that writes after every exercise, gates read before the work, a gesture of several requests | approval only of what was approved, stale is told, some way on is always open | `Construction` |
| Conversations (`server/conversations/`, `consumers/tutor`, `web/src/consumers/tutor`) | one file per conversation, pending mark, daily counter, the tab's copy | open, send, retry, stop, delete, answer, heal, poll | admission reads two lists, a lock per conversation, a counter read then written, restarts | replies fit their messages, no turn lost, nobody waits for ever | `Conversations` |
| Provider budget (`variatio/core/cerebras_budget.py`, `cerebras.py`) | ledger shared by threads and processes, claims | announce, compute, book, hold, record, release, prune | callers that wake together, deaths, late answers | the ceilings of a minute and of a day are hard | `CerebrasBudget` |
| Idle unloading (`server/jobs/idle.py`) | last activity, released flag | tick, unload | a job ending or arriving during a tick | models of a running job stay loaded | – |
| Commissions (`consumers/generation/api`) | batches, weekly counters | admit, generate, cancel | admission races | one live batch per account and subject | – |
| Evaluation (`consumers/evaluation/api`) | comparisons, stages, ratings in files | create, rate, close a stage | read-modify-write | no rating lost | – |
| Accounts (`server/auth`) | sessions, one-use links, attempt counters | login, logout, redeem, expire | a link redeemed twice | a link works once, a closed session stays closed | – |
| Classroom (`server/classroom`) | memberships, groups | join, pause, remove | sockets outliving a membership | a removed member's socket closes | the closing: `EventStream`, `RunStore` |
| Raw documents (`server/raw`, `variatio/documents`) | uploads, page cache | upload, delete, transcribe | documents arriving during a build | a build records what it read | the record: `Construction` |
| Administration (`server/admin`, `server/core/maintenance.py`) | maintenance mode, settings, tunnel, pulls | switch, drain | requests under way while it switches | nothing starts in maintenance | a lane's room: `JobQueue` |
| Library (`variatio/`), database, migrations, command line, screens | artifacts' data, words, drawing | sequential | model output | – | – |

## 2. Plan and order

What is written is the part whose mistakes no test would reach: threads, processes, requests and
tabs that share memory or files. In the order it was written:

| Module | Models | Abstract specification | State |
|---|---|---|---|
| `JobQueue` over `JobService` | the queue | `JobService`, implemented by it | checked; all safety and the refinement proved |
| `EventStream` | the bus, the socket's handler, one tab | – | checked; types, order, holes and the newest proved |
| `Contexts` | the registry of contexts and its callers | – | checked; types, freshness and the order of the registry proved |
| `Bank` | a re-extraction of the bank, its process, edits and tagging | – | checked; types, the build's own safety and known losses proved |
| `Construction` | approvals, gates, chain, builds, collection, review, and the gestures of the screens | – | checked; types, staleness told, closed stays closed, nothing closes itself and the next move proved |
| `Conversations` | requests, jobs and the tab of the tutor and the chat | – | checked; types and its three safety properties proved |
| `RunStore` | the tab's store, its sockets and its moves between subjects and accounts | – | checked; types, nothing foreign on screen and the screen is the queue proved |
| `CerebrasBudget` | the ledger of the provider's calls | – | checked; types, the cap and room for what goes out proved |

Not modelled: the idle unloading, sessions and links, the page cache, evaluation, commissions and
maintenance; see 8. `EventStream` and `RunStore` meet at the socket: the first has the hand-over
between bus and handler and treats what the tab makes of an event as nothing, the second takes the
hand-over as done and has the reducer. `Bank` and `Construction` meet at the bank's file: the first
has its exercises and no approvals, the second has the approvals and takes a content as one value.

## 3. The modules and the code

### JobQueue and JobService

A job is a slot of a fixed kind (class, lanes, links it may chain). A slot may be used again, so
that submissions never stop and the state stays finite. One action is one section under the runner's
lock, or one step of a thread between two such sections:

- `Submit`, `Announce`: `submit()` in the lock, then the event and the wake after it.
- `CancelQueued`, `CancelRunning`, `CancelRaise`: `cancel()` drops a queued job under the lock and
  asks a running one after it.
- `DispatchWake`, `DispatchRead`, `DispatchLaunch`, `DispatchRest`, `DispatchLeave`: the dispatcher
  reads the capacities before the lock (`seen`, which keeps what was last read), picks by
  `NextReady`, launches one job and reads again. `IsBlockedSet` states the pass of `_next_ready` as
  a set: the jobs with no lane, each holding a slot of its lanes against the ones behind it.
- `HandlerReturns`, `HandlerStopped`, `HandlerFails`, `ChainLink`, `ChainNothing`, `Settle`,
  `Release`, `WorkerWakes`: the worker thread. `Settle` writes the status without the lock.
- `ChangeSetting`, `Tick`, `ShutdownBegin` to `ShutdownJoin`: the panel, the clock, `shutdown()`.

`JobService` is what clients see: a status per job, a request to stop, the room of each lane. The
mapping takes `status` as it is, `asked` from the cancel event and the limit of a lane from its
largest configured room.

Left out: `_last_activity`, which only the idle unloading reads, the order of the published events
(that is in `RunStore`), the usage log, the history kept of finished jobs.

### EventStream

One tab of one account. `Number` is the part of `_publish` under the lock, `FanOut` the call of the
loop after it, `Offer` the callback that puts an event on the tab's queue and drops the oldest of a
full one. `Connect`, `Replay`, `Take`, `TakeClosed` are the handler of the socket: it subscribes,
reads the replay, trims a cold one and goes live, dropping what is not newer than `delivered`.
`Disconnect`, `Reload` and `Restart` are the network, the page and the server. The tab keeps
`lastSeq` over all of them but a reload. An event has a class: seen by the account (durable or a
token), hidden from it, or the closing of its membership. History variables say what the tab is owed
and why it may lack something: `late` (handed over after a newer one), `dropped` (by a full queue),
`spared` (trimmed from a cold replay), `stale` (numbers the tab carried over a restart).

Left out: redaction, the snapshot sent when the stream is ready; what the reducer makes of each
event is in `RunStore`.

### RunStore

One tab against the queue that announces its jobs and the handler of `/ws`. `Submit` and
`SubmitHere` queue a job (the second from this tab, whose answer, `Answer`, sets the current job
when it comes); `Announce` publishes `job.queued` whenever the request's thread gets to it; `Start`,
`Step`, `Settle`, `End`, `CancelQueued` are the job's own events. `Apply`, `AdoptJobs`, `PruneRuns`
and `SetCurrentJob` are the store's transitions; `Handshake`, `Ready` and `Take` the socket's, with
a replay of what the ring still holds and, behind it, the snapshot of the `SnapshotLimit` newest
jobs of the subject (`Newest`, `Snapshot`: `runner.all` with the limit of `stream.py:45`, finished
jobs counting like the others). A socket the tab drops is heard to close later (`Close`), whatever
has happened since. `Reconnect` is the timer; `Switch`, `LeaveLost`, `Me`, `Logout`,
`LogoutSettled`, `Login` are the moves; `CloseMembership` and `Break` come from outside. `stray`
marks a store that was fed by a socket the tab no longer holds in `this.socket`, and `missed` the
jobs whose last word left the ring before the tab heard it while the snapshot told of newer ones
only; the code lets both happen (see 6).

Abstractions: the authentication of a handshake and the subscription are one step, the frame that
says ready is taken when it is sent, the age of a run is the order of its submission, `me` is always
answered, a switch's request and its answer are one step, and so are the commit and the announcement
of a lost membership. Reloads of the page, a deleted subject, the gap flag and the demonstration are
left out; what a run carries besides its status (phases, tokens, figures) is too.

### Contexts

The registry of warm contexts, one build lock per subject, a generation per subject. `Ask` and
`Reload` start a job's `get_context`; `GetContext` takes it through the fast path (`LookWarm`), the
queue for the lock, the second look (`LockedCold`), the build (`Start`, `Load`, `Register` with
eviction by `Fitting`), and `Fail` ends a build that raises. `Edit` then `Invalidate`,
`ChangeSettings` then `InvalidateAll` are the writers that tell the registry: the write and the
invalidation are two steps, as they are in the code. Two kinds of writer do not tell it. `TagSave`
is one save of the tagging of the whole bank, which comes after every exercise; `TagApply` is
`apply_bank`, at its end or its stop, which puts the tagged bank into the context object the job was
given, and so into the registry if that is the registered one (`shared`: the jobs that hold it).
`WriteUntold` is a write with nothing behind it: the editor of the subject's context
(`context_edit.py:30`), or a job that raises or is stopped between its write and its invalidation. A
context is the version of the files it was made from. `untold` is history: the newest version of a
subject that the registry was not told of.

### Bank

The re-extraction of the exercises of one subject with everybody who writes its file. The job's
thread (`Begin`, `Spawn`, `Attach`, `Raise`, `Return`, `File`) reads the seed, starts the process,
attaches it, waits, raises what its exit code says, and puts aside what no longer fits. The process
(`Clear`, `Checkpoint`, `Extract`, `Skip`, `Quit`, `Fail`, `Promote`, `Leave`) writes the working
file document by document and replaces the bank at one step. `Stop` and `Kill` are the request to
stop and the kill after the grace; a process may hang. An edit (`Add`, `Touch`, `Delete`, then
`Refuse` or `Check`, then `Write`) reads the working file if there is one and the bank otherwise,
checks later that no build is writing, and writes last. `TagRead`, `TagSave`, `TagEnd` are the
tagging of the whole bank, which writes back what it read. `CorrectTypes` changes what fits; `Crash`
is the end of the machine, process included.

`excused` collects what is lost in the ways the code is known to lose it; `since` says what was
added after a reader read. `LossExplained` says that there is no other way.

Left out: texts, tags and marks of an exercise, the ways back of an exercise put aside, a child
process that outlives its server; approvals are in `Construction`.

### Construction

One subject: for each artifact the file edits go to (`curated`), what a build left (`draft`), the
documents the last build recorded (`built`) and its entry in the file of approvals (`review`). A
content is a record of what it was made from, as far as anything tells two contents apart. A
transition of the approvals is two steps, `Load` and `SaveReview`, for the code reads the whole file
and writes it back without a lock; `SaveTypes`, `ReadEdit`, `WriteEdit`, `Reseal`, `Reopen`,
`ApproveRequest` are the requests that use it. A save of types carries the text the editor held at
the gesture and takes the approval away after it; a corrected exercise of a closed bank, a tagging
that reaches its end and the review of labels give back the approval their own write took. The jobs
are `RecordDocs`, `ReadDocs`, `PutBuilt`, `RecordBuilt`, `Retire` (a build), `Skip`, `Judge`,
`LookSealed`, `ReadGraph`, `Relabel`, `RecordReview` (the collection's review of the labels),
`Advance`, `Index`, `Close` (the chain), `BeginTag`, `SaveTags`, `EndTags` (a tagging: the whole
bank is written after each exercise and once more at the end, and only then is its approval given
back). `Fail` ends any job where it is, a tagging after some of its saves too. The tab is what its
types' editor holds (`SeeTypes`, `Type`, `Leave`) and its gestures (`Build`, `Continue`, `Collect`,
`Finish`, `ToBank`, `Correct`, `Retag`), each of which sends its requests one after the other.

`closed` collects the contents a person closed, and gives up that of a bank whose tagging was cut
short after a save, for the code leaves it open (`StageGate.tsx:532` says so); `crossed` the
artifacts on which two processes were at work at once, a read of the one held over a write of the
other, which the code does not guard (see 6). The properties speak of the artifacts that are not in
it, but for `NextMoveIsOpen`, which speaks of all.

Left out: emptying a stage, its history, the separate route that reopens, the workspace's context
file, jobs forced past the gates, and who may do what.

### Conversations

One account in one workspace: conversations in files, each with the lock of its file, requests in
three slots (the tab's mutation, the tab's read, and any request of another tab), and turns in the
queue. A request goes `Enter` (takes the lock), `Admit` (looks for a live reply and at the day's
count), `Submit`, `Count`, `Clash` (the insertion of the day's first row fails), `Commit`; a read
goes `Read`, and, where the reply it waits for is gone, `Heal` and `Free`; `CancelTurn` is the stop;
a removal ends with the file. A worker goes `Start`, `ReadTurn` (waits for the lock), `Compute`,
`AppendReply` or `ReleaseTurn`, `EndTurn`, which closes the job as one of its `Closings` (a handler
that answered though it was asked to stop is closed as stopped). `Restart` loses requests, locks and
jobs and keeps the files. The tab shows one conversation (`Select`), polls it while it waits
(`Poll`), and takes answers as they come (`Arrives`).

`marred` names four accidents after which a conversation is not what the properties say: the process
died, or the count clashed, between a message and its pending mark; a message was sent to a
conversation still being opened; a request wrote a conversation back after it was deleted.

Left out: the text of turns, the criteria of the tutor, the syllabus, the administrator's reading of
a conversation, the change of day.

### CerebrasBudget

The ledger of one model's calls. An action that touches the file is one `_transaction`, exclusive
among threads and processes. `Announce`, then `Attempt`, which is `_compute` with `Book`, `Hold` or
`Refuse`; `Wake` and `Cancel` end a hold; `Answer` is `record`, and `Break` a connection that fails
or a stream stopped at a token; `Release` gives back what is still held; `Die` is a process that
goes, its booking left to `Prune`. `Waits` is the waits `_compute` finds, of which the code takes
the longest, and `Relief` what `_relief` returns, with nothing for "now". Time is kept as ages,
which `Tick` makes older; they stop at a day. `sent` and `forgiven` are history: the requests that
went out in the last day, and those of them whose room was given back.

Left out: the flight list and the panel's meters (`begin`, `finish`, `delay`, `snapshot`), a ledger
that is missing, corrupt or cannot be locked or saved (the code goes on with an empty one, and says
that it miscounts), the buckets of other models, ceilings changed while calls wait.

## 4. The runs

| Run | Instance | Shows |
|---|---|---|
| `JobQueue` | two jobs of the remote lane and a build on both lanes, local room 1, remote setting 0 or 2 (a room of 1 or 2) changed at any time, a chain, shutdown | types, no lane overfull while its room changes, no lost wake, current positions |
| `JobQueueLive` | two interactive jobs that keep coming back and a build that needs both lanes, which may be cancelled, aging | `JobService` implemented, no slot taken from a job overtaken or aged, the build starts |
| `EventStream` | 2 publishers, 4 events, buffer 2, queue 2, one break or reload, one restart | types, every hole has a named reason, the newest event arrives, order |
| `Contexts` | 2 subjects, registry of 1, 3 jobs of which two share a subject, a tagging, an indexing that reloads, one editor, 2 writes of the one subject and 1 of the other, one reload, failures | types, freshness but for silent writes, no double build, nothing older than what was settled, every request for a context ends |
| `Bank` | 2 people, one addition, a build, a tagging, a stop | types, additions lost only in the named ways |
| `BankCrash` | one person, two builds, a stop, corrected types, a crash | the working file goes with its build, a failed build leaves the bank alone, a stop is heard |
| `Conversations` | one conversation, 2 turns, 2 gestures, the day's limit of 2, one restart | types, replies fit, a message without reply is explained, nothing is overwritten, waiting ends |
| `ConversationsOne` | two conversations, no restart | a disagreement between the code and its words; see 6 |
| `Construction` | one tab with every gesture, 4 gestures, one upload, a tagging of one save and its last, from an empty subject and from a closed one | types, staleness is told, what is closed stays closed and nothing closes itself, the next move is open |
| `RunStore` | 2 subjects, 2 jobs, 4 events, ring of 2, a snapshot of one job, 2 sockets, a store of one finished run, one break | types, the screen is the queue |
| `RunStoreMoves` | 2 subjects, one job, 2 moves, one break, 2 sockets | nothing of another subject on screen, the tab gets back on air |
| `CerebrasBudget` | 2 callers, 3 calls, one death, ceilings of 1 and 2 requests, prompts of 1 and 4 tokens against 3 and 4, a reading that lowers the day | types, the ceilings hold, a call that goes out has room, every call ends |

Every property has a mutant in `PROJECT.json`: a slip of the code, written beside the definition it
replaces ("Slip of ..."), under which the run finds the property violated.

Bounds. Every bound is a constant marked as one where it is declared. They are enough because of
what they let happen. In the queue, overtaking takes three jobs: one that holds a lane, one that
waits for it and one behind. A registry of one evicts as soon as the other subject is asked for, and
a second job of a subject waits for the first one's lock. Two writes of a subject are two saves of a
tagging with a build between them, or a save and an edit beside it; the invariants are proved for
every size. In the stream four events overflow a buffer and a queue of two, and a replay, a live
event and a late one coexist. One document already gives a build a moment before it, within it and
after it, and two builds let the second find what the first left behind. Two turns are a message and
what a second request does while it waits; two conversations are what the admission confuses. Four
gestures of one tab reach a build, an approval, a collection and an edit in its middle, and the jobs
act at any time among them; one save of a tagging and its last writing have a moment between them at
which it may be cut short, and the theorems hold for any number of saves. A snapshot of one job
leaves the older of two out, as 20 leave out the twenty-first. Two sockets are the one the tab has
and the one it has left; a move back and forth is two moves. Two calls of one minute and a third of
the same day meet both ceilings, and the third number is what a late answer is booked under. The
widths, two ticks and four, keep a call alive past its minute and within its day, and past the
moment it is given up for dead.

`People` in `MCBank` and `Subjects` in `MCRunStore` are symmetries of the teachers and exercises and
of the subjects, which no definition tells apart; they are used where no liveness is checked. The
local lane has room 1, as in the code (`LOCAL_CAPACITY`). With that room the cap on background jobs
never decides by itself, in the code as in the runs: it is at least one, and one background job on
the lane fills it already. In `JobQueue` the remote lane decides instead: three jobs want it, so
that its room binds at 2 and at 1, and it shrinks while two hold it. The theorems of the queue hold
for any rooms, caps and settings.

Deadlock is not checked in `EventStream`, `Bank`, `Construction` and `RunStore`: their requests,
breaks, builds and moves are bounded and everything may come to rest. It is checked in `JobQueue`, a
shutdown included, `Contexts`, `Conversations` and `CerebrasBudget`.

`NoLostWakeup` and `PositionsCurrent` are stated for the order of arrival: with aging a job's place
moves with the clock alone, and the half-second tick of the dispatcher is what restamps it.
`NoLostWakeup` speaks of the room the dispatcher last read, whatever it was: a setting raised since
has no event of its own and waits for the tick too, and `OnlyRaisesWaitForTheTick` (7) says that
nothing else does.

## 5. Fairness

- `JobQueue`: weak fairness of the dispatcher, the clock, every worker thread, and the second half
  of a submission or cancellation under way. Threads are scheduled, and handlers end because their
  model calls have timeouts. Nobody has to submit, cancel, change a setting or shut down.
- `Contexts`: weak fairness of each job's step, and strong fairness of taking a subject's lock: each
  release wakes a waiter, and whoever barges in must go through a whole build between two releases,
  so a waiter does not lose for ever.
- `Bank`: weak fairness of the job's thread and of the kill after the grace. The process itself has
  none: it may hang.
- `Conversations`: weak fairness of each request's handler, of the queue with its workers, and of
  the poll, which is a timer of the view. Restarts, stops and messages have none.
- `RunStore`: weak fairness of announcements and answers, of each socket's handler and its end, and
  of the tab's own reactions (the reconnect's timer, leaving a lost subject, `me`, the end of a
  logout). Jobs, moves and breaks have none.
- `CerebrasBudget`: weak fairness of the clock and, for each caller, of its turn at the ledger, its
  wake and its release. No answer ever has to come: a call that waits ends although those before it
  hang, for bookings age out.
- `EventStream` and `Construction` have no liveness property: whether a tab reconnects is in
  `RunStore`, and nobody has to make a move; that one is open is `NextMoveIsOpen`.

## 6. Where the code and its words part

`ConversationsOne` shows one, quoted in `PROJECT.json`: two requests of two conversations are both
admitted before either has queued its turn, and two replies of one account are on their way
(`conversations/routes.py:62`), where `routes.py:8` promises one.

The other models have the code as it is; the history variables named in their properties stand for
what follows, and a property that dropped its exception would be violated.

Live stream and run store:

- Events are numbered under the lock and handed over outside it (`bus.py:124`); one that is
  overtaken is taken for a duplicate and never sent, though `bus.py:1` speaks of an ordered stream
  (`late`).
- A restarted server numbers from 1 (`bus.py:46`), and a tab that kept its `lastSeq` drops every
  event up to it without a gap being reported (`stale`), although `bus.py:3` promises exactly what
  it missed.
- `job.queued` is published after the lock is left (`runner.py:179`), so it may be numbered after
  the job's own start or end, and the screen shows the job waiting until the next snapshot (`Late`).
- The refusal (4401, 4403) of a socket the tab has left clears `this.socket` whoever it is
  (`runStore.ts:303`, against the check of 252): the listening socket is then one that the next
  switch does not close (`stray`).
- The snapshot of a connection tells of the 20 newest jobs of the subject the account may see,
  finished ones among them (`stream.py:45`, `runner.py:209`). A job that runs for long behind 20
  newer ones, and whose events have left the ring, is not shown to a tab that connects, and one that
  ended so stays shown as running (`missed`), though `stream.py:40` calls that snapshot "what
  guarantees the runs still carry their job when `job.queued`/`job.started` have left the ring".
- A database that fails at the handshake answers 4401 (`auth/deps.py:446`), after which the tab does
  not try again (`AppShell.tsx:440`); the end of a socket heard after a logout schedules a reconnect
  all the same (`runStore.ts:313`, `workspaces.ts:51`); the answer of a submission that comes after
  a switch sets the current job of the subject left (`queries/jobs.ts:127`).

Warm contexts:

- "Any write to an artifact invalidates that workspace's context" (`contexts.py:5`). The tagging of
  the whole bank writes it after every exercise (`tag.py:38-41`) and never invalidates: it puts the
  bank into the context it was given, at its end or its stop. A context registered meanwhile by
  another job, or one whose tagging dies, is older than the files with no edit under way, until the
  next invalidation; so it is after a save of the subject's context (`context_edit.py:30-36`) and
  after a job that is cut short between its write and its invalidation (`untold` of
  `RegistryFresh`).

Bank:

- An exercise added after the seed was read and before the first document is written is in neither
  bank (`bank/edit.py:522`, `608`).
- A stop that lands after the promotion is reported as a cancelled build although the bank was
  replaced, and what should follow a build does not (`exemplars_bank_builder.py:136` against
  `build_process.py:92`).
- An edit that read the bank being made, and is checked after that build has failed, puts half a
  build in place of the artifact (`bank/edit.py:628`).
- The tagging of the whole bank writes back what it read minutes before.
- After a crash the working file stays, and edits are refused, until the next build (`crashes > 0`
  of `BuildingEndsWithBuild`).

Construction:

- The file of approvals is read and rewritten whole without a lock (`approvals.py:355`): a withdrawn
  approval may come back (`crossed`).
- A tagging of a closed bank that fails or is cancelled after its first save leaves the bank changed
  and without its approval (`tag.py:38-41`, `pipeline/jobs.py:194-200`); here the code and its words
  agree (`StageGate.tsx:532-537`), and `ClosedStaysClosed` has it as its exception.
- The end of the chain asks whether the steps before are approved now (`chain.py:153-175`): with the
  extraction skipped because a gate was closed, it approves the bank of an earlier collection.
- The review of the labels writes down the fingerprint of what is there after it, not of what it
  judged (`pipeline/jobs.py:262`): a syllabus corrected meanwhile is never judged again.
- Whether a stage needs closing is read when the button is drawn (`StageGate.tsx:248`, `262`), and
  the request before it in the same gesture changes it (`BankStep.tsx:249-254`): with a draft of the
  types and a closed bank, the bank is left open.
- The types' editor takes the text once (`ProfileEditor.tsx:457`): types saved or rebuilt elsewhere
  afterwards are written over by its next save.

Provider budget:

- A stream that is stopped at a token, or breaks, gives its room back (`cerebras.py:233`), though
  the provider has counted the request; its docstring says that the room only comes back when the
  call never happened (199-200). `forgiven` names those requests, and `CeilingHolds` does not count
  them.
- The booking of a process that died is dropped by the next booking or answer only
  (`cerebras_budget.py:637`): `_compute` counts it until then, so a caller who finds the day full
  because of it is refused, and dropping it takes somebody who is let through. The module says that
  it "ages out with the inflight entries" (32), and its test
  (`tests/core/test_cerebras_budget.py:436`) fills the minute only, which frees itself.
- An answer that comes after its booking was given up for dead is charged at the time it comes
  (`record`), a second place in the window for a request that went out before.

Queue: the dispatcher's last pass may start a job after `shutdown()` has asked the running ones to
stop (`runner.py:135`).

## 7. What is proved

Each `*_proofs` module extends its component and proves for every value of the constants, from the
assumptions the component names. Every invariant and every action property of the runs, but for the
one that is meant to fail, is a theorem.

The assumptions say that widths, ceilings, counts and terms are numbers of the kind the settings
allow, that sets of jobs are finite, and that the values standing for nothing or for an actor
(`None`, `"none"`, `Seed`, `Tagger`) are none of the things they stand beside: `JobAssumption`,
`NoneAssumption` of `RunStore` and `BankAssumption` name these. The code has them by its types:
`None` is no job, no workspace and no exercise.

- `JobQueue_proofs`. `Invariant` is types, exact books, agreement of threads and statuses, and room.
  The room of a lane is read before the lock, so a launch needs that `NextReady` implies a free slot
  of the room as seen (`NextReadyHasRoom`), and the room as seen is at most the largest one
  configured; exact books then keep the count. Agreement is inductive with the types alone.
  `ImplementsService` takes a step of the queue to a step of `JobService` or a stutter, and needs
  the books to know that what runs is within the lane's room. `LaneBooks` and `ThreadsAgree` are
  theorems only: no run checks them by themselves. What is said of the order needs more (`QInv`):
  that being ahead is a strict order of the waiting jobs (`Arrival`). A position is then a count
  that a submission or a departure changes by one where `_restamp` says so
  (`OnlyTimeMovesPositions`). The pass of `_next_ready` is a set defined by what holds of it; that
  there is such a set goes by a smallest beginning of the queue for which there would be none
  (`PassHasAnAnswer`), and a pass that starts none under some room starts none under less
  (`LessRoomStartsNone`). A dispatcher that looked in vain and was not woken has nothing to start in
  the rooms it last read, whatever the settings are by then (`NothingLeft`): that is
  `NoWakeupIsLost`. By the lemma on less room it has nothing to start in the present rooms either,
  unless the setting was raised since it read (`OnlyRaisesWaitForTheTick`). All of these are proved
  of the behaviours in which the clock does not tick, for a tick ages jobs and the code leaves what
  follows to the half-second look of the dispatcher; `WithoutAging` is the case the run checks,
  aging terms of zero, where a tick changes nothing. `OvertakersKeepRoom` and
  `AgedJobsAreNotDelayed` hold with any aging: whoever starts before another left it a slot in every
  lane they share.
- `EventStream_proofs`. `InOrder` needs that what was applied is behind `lastSeq` (`Behind`), in
  every state, a restart included: the tab takes only what is newer than that. That holes are
  explained is the account of every event the tab is owed (`Whereabouts`): it is with the tab, given
  up by a full queue, late, known from before a restart, or still to come: in the ring, on the loop,
  on the queue, or in the hands of a thread. Queue and loop are sorted but for what is late
  (`Lined`), so a full queue gives up what is older than the last (`Older`), and the newest event
  arrives.
- `Contexts_proofs`. Freshness needs the builder's view: who is building holds the lock and is known
  (`Held`), began with a generation not newer than the present one (`Begun`), and, if the generation
  has not moved, has read the files as they are but for an edit under way or a write nobody told of
  since (`Loaded`). Of the silent writes it needs that none is of a version yet to come (`Told`),
  and that who shares the registered context was given it as it is and that what a tagging is about
  to put into it is as good as the files, but for what the registry may miss anyway (`Shares`).
  `NothingOlder` adds what was settled (`Settled`, `Floors`). `RegistryInOrder`, a theorem only,
  says that the order of use names exactly the warm contexts, each once, and no more than
  `MaxContexts` of them: so one eviction at a registration is enough. The order is a sequence from
  which a key is removed with `RemoveFirst`, which is all there is to remove because a key stands in
  it once (`Once`).
- `Bank_proofs`. The stages of the thread and its process (`Stages`), what the exit code tells
  (`Promotion`), who was told to stop (`Stopping`), and where the working file is (`Working`, while
  nothing crashed). Edits and tagging leave all of it alone, which is one lemma. `AsideComesAfter`,
  that no build puts an exercise aside before it has replaced the bank, is a theorem only. The types
  need that a build is at one of its documents as long as it makes anything (`TInv`).
  `LossExplained` is inductive only with the trace of every reader that may still write back what it
  read (`LInv`): an edit, the tagging and the build's seed each hold every exercise that was added
  and not deleted, or it came in since they read, or it is put aside or excused.
- `Conversations_proofs`. Whoever holds a lock holds it alone and has the record as it is in hand
  (`Locked`, `Copies`): that is what makes the rewriting of a whole file harmless, and why the
  accidents in `marred`, which write without the lock or without the rest of the request, are the
  exceptions. `Owners` says whose turn a queued job is, `Lone` that a conversation being opened is
  nobody else's, `Working` which step of which worker may write to which conversation, and `Files`
  what a file may look like: alternating turns, with a pending mark exactly on a message without
  reply whose job or request is still there. Each action has its lemma; the requests that end share
  `RequestsEnd`, the ones that only move `RequestMoves`. The types need two countings. A
  conversation is no longer than the turns it began with, those asked for and those answered
  (`Lengths`), and it does take all three: a message written by a request that dies before its turn
  is queued adds one without a job. The day's count never passes the turns queued less those whose
  request has still to count (`Counted`).
- `Construction_proofs`. An artifact is followed by who holds it: the processes that have read
  something about it and are still to write it back (`Held`). Of one that no two held at once
  (`Sound`), the documents written down are no more than the content was made from, and those no
  more than there are, unless a build is between putting the one and writing down the other
  (`Dated`), and it reads closed exactly if what it holds was closed, unless its holder has an
  approval to give back or to take away (`Agreed`). That needs what each holder knows (`Sure`): that
  the file is still the one it read, that the copy of the approvals it writes back says of the other
  artifacts what the file says, that what a build retires is followed by a draft nobody closed, that
  between two saves of a tagging the bank is the one it last wrote. The step that writes is alone
  with the artifact or marks it as crossed (`Touched`, `WriteStep`); all others leave what the rest
  knows alone (`StillStep`). `NobodyIsStuck` speaks of the crossed artifacts too, and needs of all
  this only the types and what a subject at rest has built (`QuietBuildsNothing`): the rest is the
  cases of the gates, each with the gesture it leaves open.
- `RunStore_proofs`. What is on screen is the workspace's own (`Ours`) because the tab's socket asks
  for where the tab is and is served what it asks (`Asked`), and because what is published of a job
  says how the job is (`LogSays`) and nothing is said of one that is not there yet (`Unborn`). The
  replay is a recursive function over the ring; that it exists is shown by the least length at which
  it would not. That the screen is the queue needs `Follows`: the last thing published of a job that
  is not in the middle of publishing says how it is (`Recounts`), a run the store has seen end has
  ended (`OverSays`), nothing is heard twice or early and a socket goes on from where the store is
  (`Heard`), and what has been heard to its last word is shown right (`Shown`, of the store by
  itself and with what is on its way), over the replay (`ReplayTells`), the snapshot and what the
  store lets go of. A job the snapshot does not tell of is right if its last word, which every job
  has (`LastOne`), is among what was heard (`RightUpTo`); otherwise it is in `missed`.
- `CerebrasBudget_proofs`. What went out and was not forgiven stands in the ledger at its own age
  (`Charged`), so what counts in a window is among what the ledger counts in it, and a booking adds
  one. That there was room for it is `Room`, of requests and of tokens: the gate asks for how long
  to wait and not for room, and where there is none `_relief` has a time, because the reading that
  binds will end, or because a window that is full holds at least as much as is missing (the least
  of the times is there by the well-foundedness of the numbers, `Least`). `Leaving` says why a
  release gives back nothing that counts, `Waiting` why a number is booked once, `Numbered` that
  claims are told apart. For `RoomAtTheGate` a booking must take from a window, and from what a
  reading leaves, no more than it was let through for (`BookedCounts`). The tokens are added by a
  fold that takes the elements as they are chosen: `SumsExist` shows a sum of all parts of a finite
  set that any element may be taken from first, by a smallest part that had none, `SumIs` that the
  fold is that sum, and `OneMore` that a part, with one element more, comes to no more than the
  whole and that element.

Only model-checked: liveness (`EveryJobStarts`, `EveryAskEnds`, `StopIsHeard`, `WaitingEnds`,
`EventuallyOnAir`, `EveryCallEnds`), which is out of the prover's reach.

## 8. Not modelled

- Idle unloading: when a job arrives between the reading of the last activity and the unloading, the
  models go under it (`idle.py:76`); what a job then meets is the engine's behaviour, which is not
  in this code.
- Commissions: their two-step admission has the form of a conversation's, whose outcome
  `Conversations` shows; the rest is counting.
- Evaluation, accounts, classroom, administration, raw documents: each is a part of its own that
  shares with the ones modelled only the queue, the membership or a setting, and those are in the
  models. Sessions and links rest on cryptography and on the database's isolation.
- The library's builders, prompts and parsers, the schema of the database, the command line and the
  screens hold no control that several actors share, but for what the models take from them.

Hazards of the code that the list of `PROJECT.json` does not carry, for they lie in parts left out
or repeat one that is there: a job that goes from waiting to running between the two readings of the
queue is missed by a screen (`pipeline/readings.py:28`); the eviction from the registry of contexts
goes by the order of use (`core/contexts.py:138`); what was put aside is read and rewritten whole
without a lock (`bank/edit.py:562`); the ledger goes on without its lock when the file system
refuses it (`cerebras_budget.py:455`).
