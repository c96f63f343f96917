# Staffroom in TLA+

Staffroom is a server in which *staff members*, agents driven by language
models, work for an operator: they talk in chats, open jobs for each other, and
ask before they do anything that is gated. The agents' turns run in Flue, a
durable runtime; everything the server itself decides is in the *coordinator*,
a set of stores over one SQLite database, and in the timers, observers and
routes around it. This directory specifies the parts of the server in which
order, time and failure matter, and the two programs that keep a protocol with
it, the desktop app and the browser's live view. It checks them with TLC on
small instances, and proves most of them for every instance with TLAPS.

All paths below are relative to `src/packages/server/src/` unless they begin
with `packages/` or `docs/`.

## 1. Inventory

### How the program runs

One Node process. The SQLite driver is synchronous, so a coordinator method
runs to its end before any other JavaScript does, unless it awaits. That makes
almost every operation one atomic step against the other operations. It does
not make it one commit: a method that is not wrapped in `db.transaction` commits
each statement by itself, and a process that dies between two statements leaves
the first ones. What is concurrent:

- **turns**. Every session (chat, job, thread of a pair of agents) has turns of
  its own, run by Flue; the tools a turn calls run in the server process;
- **awaits**: `stop()` awaits the abort of a turn, a token refresh awaits the
  provider, the sandbox pool awaits docker, `job_await` and `ask_agent` block;
- **dispatches**. A message to a session is posted and not awaited; Flue admits
  or refuses it later, and starts a turn for it later still;
- **timers**: the backoff of a retry, the schedules, the sweep every 30 s;
- **the operator**, whose requests come at any time;
- **crashes**. Rows survive, and messages admitted by Flue. Timers, pending
  dispatches and promises do not.

### Components

| Component | State | Operations | Talks to | What is hard | What makes it correct |
|---|---|---|---|---|---|
| **Jobs coordinator** `coordinator/jobs.ts` | jobs table (state, assignee, parent, depth, awaited, deadline, attempts), timeline | create, markWorking, handoff, close, fail, restart, recover, pause, resume, steer, stop, cancel, recordStop, set/clearDeadline, sweepDeadlines, redispatchAssigned, waitForJobs | dispatches into sessions; terminal listener into the attention store; change pulse to listeners | parents waiting for children; `stop()` awaiting; statements that are separate commits; caps checked in some operations only | nobody waits on nobody; caps hold; ended jobs stay ended; a deadline is told once |
| **Job sessions, dispatch, recovery** `app.ts`, `coordinator/recovery.ts`, `agents/staff-agent.ts`, `tools/job-tools.ts`, `routes/job-routes.ts` | in memory: unanswered dispatches, backoff timers, whether this process swept; in Flue: admitted messages, live turns | dispatch and its refusal, render of a job session, settlement of a turn, retry, first sweep after a boot, abort | jobs coordinator, Flue | late answers, a session its job has left, lost timers, two retries at once | an assigned job always gets started; retries end; a transient failure does not lose the job |
| **Confirm-gate and attention board** `tools/confirm-gate.ts`, `coordinator/attention.ts`, `routes/attention-routes.ts`, `tools/attention-request.ts` | approvals, attention items | gated call, answer, raise and close a request, cancelForJob | jobs (end of a job), sessions (answers are new turns), push | re-issued calls, answers after the end of the job, a crash between two statements | one grant, one call; board and approvals agree |
| **Scheduler** `coordinator/scheduler.ts`, `schedules-store.ts`, `routes/schedule-routes.ts`, `tools/schedule-tools.ts` | timers; schedules table with `last_fired_at` and completion | start, reload, arm, fire, catch up, one-off, mark; create, patch, enable, delete | event bus | a death between a fire and its mark; a refused job; every edit restarts every timer; a row that fails the reload | a one-off fires once; a routine is not late once it has fired; the timers are those of the rows a reload reaches |
| **Event bus** `coordinator/event-bus.ts` | none; subscriptions derived from the schedules | publish, match, react | jobs.create | a refused reaction throws into the timer | a refusal is seen by who published |
| **Chats and their badges** `coordinator/chats.ts`, `routes/chat-routes.ts`, `chat-activity.ts`, `unread.ts`, `activity.ts` | chats table, unread counts, sessions at work | main, openSide, close, reopen, delete, clearMain; turn starts and ends | Flue's sessions, the browser | start over and delete are several commits; reopen of a live main; badges of deleted chats | one open main per agent; a deleted conversation stays out of reach; a badge can be cleared |
| **Integrations and token refresh** `core/refresh-lock.ts`, `core/integrations.ts`, `core/mcp-oauth.ts`, `coordinator/tool-credentials.ts`, `coordinator/oauth-state.ts`, routes | promise chains per credential; stored tokens and stale marks; pending OAuth flows | withRefreshLock, rotating, markStale, connect, callback, disconnect | providers that revoke on rotation | reads before an await and writes after; connects do not take the lock; a death between rotation and store | no revoked token presented; a reconnect is not overwritten; callers are served in order |
| **Docker sandbox pool** `tools/docker-sandbox.ts` | one entry per conversation, sandbox objects, containers outside | ensure, get, exec, recover, remove, reap, image build, boot sweep | docker | every docker command is an await and may fail; recovery against removal and reaping | one container per conversation, none lost but those Docker kept, no command hangs |
| **Agent memory** `coordinator/memory.ts`, `tools/memory-tools.ts`, `routes/memory-routes.ts` | versioned entries, search index | update by id or key with an expected version, forget, recall | search index | a writer that read long ago | an update replaces what was read, and nothing twice |
| **Agent-to-agent questions** `tools/ask-agent.ts` (`tools/delegate.ts`) | turns parked in a tool call | ask, answer, time out | Flue's thread sessions | agents that ask back; questions nobody waits for any more | every turn ends |
| **Desktop app** `packages/desktop/local-server.mjs`, `main.mjs`, `server/desktop/entry.mjs` | the child process, the start and the stops under way; account, windows, badge | open, retry, close, forget, restart, quit; start, stop, exit | OS | every request goes on after an await with what it knew before | one server serves; nothing outlives its account; a stop stops |
| **Browser's live view** `packages/ui/src/stores/AttentionStore.ts`, `RootStore.ts`, `packages/client`, `coordinator/operator-events.ts`, `routes/operator-routes.ts` | the items shown, the event stream, loads under way | load, answer, bell, reconnect | attention store, its routes | lost bells, answers out of order, changes that ring none | a wrong board is put right |
| **Files and search** `coordinator/files.ts`, `coordinator/search.ts` | bytes on disk, rows, index | create, share, delete | event bus | a death between bytes, row and index | every row has its bytes |
| **Audit, presence** | logs | observe, record | Flue events | nothing is decided here | |
| **Push** `coordinator/push.ts`, `apns.ts`, `web-push.ts` | device tokens | notify | Apple, browsers | I/O | best effort |
| **Roster, teams, skills, toolsets, dashboards, widgets, profile** | one table each | CRUD | routes, tools | little | |
| **Credentials and model providers** | keys, encrypted | resolve | session resolution | little | a session resolves or the job fails |
| **Database, HTTP, auth, boot** | | | | | plumbing |
| **Views and rendering of the UI, CLI, protocol and plugin packages, mobile, design, docs** | | | | | no protocol state |

`PROJECT.json` repeats the list with sources and status, and lists the
hazards, each at its line.

### What a tenant is here

Every row belongs to a tenant and every coordinator method takes one. Tenants
share nothing the modules model (the sweeps go over all tenants, a row at a
time), so each module models one tenant.

## 2. Modules

    Jobs ──────── MCJobs          the coordinator
      │  └─────── JobsProofs
      ├─ EXTENDS  JobJoins ────── MCJobJoins    turns that await jobs
      ▼ EXTENDS
    JobRuns ───── MCJobRuns       jobs driven through sessions
         └─────── JobRunsProofs

    OneShot                       what a gate promises
      ▲ INSTANCE, refinement
    ConfirmGate ─ MCConfirmGate   gate, approvals and board around one job
         └─────── ConfirmGateProofs

    Scheduler ─── SchedulerProofs     schedules, timers, the event and its job
    Chats                         chats, sessions, badges
    TokenQueue                    what a lock promises
      ▲ INSTANCE, refinement
    Connections ─ ConnectionsProofs   refresh lock, tokens, consents
    SandboxPool ─ SandboxPoolProofs   one conversation's containers
    LocalServer                   the desktop app's server process
      ▼ EXTENDS
    DesktopShell ─ LocalServerProofs  accounts, windows and errands around it
    LiveView                      the board in the browser
    Memory                        the archive of an agent
    Questions                     agents that ask each other

    MCServices                    all of the third group, one at a time
         └─────── ServicesProofs  the composition; chats, board, archive, questions

### Jobs

`coordinator/jobs.ts` as a state machine over the columns of the jobs table,
each a function of the job's id. One action per method:

| Action | Code |
|---|---|
| `Create` (with `CanCreate`, `Insert`, `DepthUnder`) | `create` |
| `MarkWorking`, `Handoff`, `Restart`, `Pause`, `Resume` | the methods of these names |
| `Close`, `Fail`, `Cancel`, `RecordStop` over `Settle` | `close`, `fail`, `cancel`, `recordStop` over the update, `#resumeParentIfReady` and `#markCancelled` |
| `StopBegin`, `StopFinish` | `stop`, before and after its await |
| `SetDeadline`, `ClearDeadline`, `DeadlinePasses` | `setDeadline`, `clearDeadline`, the clock against `deadline_at` |
| `SweepDeadlines` over `Escalate` | `sweepDeadlines`, `#escalate` |
| `Crash`, `CrashInCreate`, `CrashInSettle`, `CrashInSweep` | the process dies between two commits of `stop`, `create`, a settling method, the sweep |

The methods that change no row that `Jobs` keeps (`recover`, `resetAttempts`,
`steer`, `redispatchAssigned`) are in `JobRuns`. The timeline, the digest, the
summary and the report mode are data no property is about (whether a closing is
reported is a free choice in `JobRuns`). A deadline is `none`, `ahead` or
`past`, which is all the code asks of it.

Three history variables, read by no guard: `silent` has the children that
settled without their parent being checked, `revived` the ended jobs a late
spawn opened again, `told` counts the messages sent for a deadline. The
properties use them to say exactly which exceptions the code has instead of
excluding crashes or operations.

`setDeadline`, `clearDeadline`, `recordStop` and the policy `fail` have no
caller outside the tests at this commit; they are the coordinator's interface
and the module takes them as such.

### JobRuns

The same jobs with what drives them. A job runs in one session per agent that
held it, `<<job, agent>>`. `posting` are dispatches Flue has not answered,
`inbox` admitted messages no turn has taken up, `running` the live turns,
`aborting` aborts that have not landed, `timers` the backoff timers of a job
(two places of the code start one: the observer and the dispatcher's `catch`).
Every action conjoins an action of `Jobs`, or leaves its variables alone, with
what the code around does: `CloseJob` posts to the originator and to the parent
it woke, `TurnStarts` is the render's `useAgentStart`, `TurnRefused` its early
return, `RetryOrGiveUp` the decision of `handleEvent` and of the dispatcher,
`FirstSweep` the `assignedRecovered` block, `Dies` and `DiesIn...` crashes that
lose the process's memory and make Flue take its turns up again.

`posting` and `inbox` are sets: two messages on their way to the same session
are one. That loses no behaviour the properties tell apart, since a turn takes
up what has been admitted, and a second message is another dispatch later.
A turn may call its tools in any order and number, also after it closed its job
or handed it off. Flue itself is external: what is modelled is the use the code
makes of it and the guarantees its comments rely on (admission is durable, an
abort ends the live turn and what was queued, submissions under way are
reclaimed at boot, a submission settles within an hour).

### OneShot and ConfirmGate

`OneShot` is the contract: per call, *idle*, *asked*, *granted*; a call is made
only when granted, which uses the grant up; a crash may lose a grant.
`ConfirmGate` is the code: approvals and attention items as rows, `Raise` and
`CallThrough` for `invokeGated`, `Answer` for the route and the store,
`RaiseRequest` and `CloseRequest` for an agent's own requests, and the job
reduced to what its end does to them (`CancelForJob`, run by close, stop,
cancel and the sweep, and not by `fail()`). A call is a (session, tool,
arguments hash); what the hash is made of does not matter, only that the same
call gives the same one.

### JobJoins

`waitForJobs` (`coordinator/jobs.ts:201`) on top of `Jobs`. `joins` are the sets
of jobs that turns wait for. `Pulsing` names the operations of `Jobs` that end
in `#publish`, after which every join looks again (`Pulse`); `Unannounced` those that
do not and the clock. The listeners run inside `#publish`, before the operation
returns, so a join is never seen between the two. `AwaitTimesOut` is the timer;
a crash takes the joins.

### Scheduler

A row is its timing and what the store keeps; time is relative (how far a
one-off is ahead, how long ago a row fired, how long a timer has to run), so a
behaviour may go on for ever on finitely many states. `Rearmed` and `Schedule`
are `reload()` and `#schedule` as functions from rows to timers and catch-ups,
since a reload is one turn of the event loop. `Fire` is `#fire`: the event, the
job it opens or the refusal, and the mark; a death between job and mark is
`cut`. What the schedules publish has at most one subscription that matches, so
the bus appears as that reaction. A fire whose reaction throws for another reason
than a cap looks the same to the scheduler as a refused one. The library that
computes cron times is external: what it says of the previous and the next run
is taken from the position of the clock.

The operator's routes take any cron expression, and one that does not parse
throws out of the loop over the rows (`Throws`): the timers are already cleared
(`Cleared`), the rows listed before it are armed, it and those after it are not
(`Reached`), and the edit stays in the table although its caller is told of an
error. The list is that of all tenants, so the row may be another tenant's; one
of the agent's own does the same to the rows after it. At a boot the same throw
fails the evaluation of `app.ts`: the built server dies of it, and the one for
development evaluates the module again, finds the scheduler started, and serves
without the deadline sweep. `Start` has both.

### Chats

Rows with kind, closing and session. `SessionFor` is who gets the bare session;
`StartOver` is `clearMain`, with a death between close and insert;
`Delete` the route, with a death before the badge is cleared (`torn`). `buried`
holds the sessions of deleted chats and `mainless` whether the agent ever lost
its main; both are history, and say exactly where the code's promise ends.

### TokenQueue and Connections

`TokenQueue` is a queue of members of which the first is served. `Connections`
is `refresh-lock.ts` link by link (`prior` is the promise a caller waits for,
`tail` what the map remembers, cleared only by who set it), the work under the
lock in `rotating` (read the credential, present the refresh token, store the
answer), the call with the bearer and the stale mark after a 401, and the
consents of the user, which do not take the lock. Faults: an exchange that
fails or whose answer is lost, a bearer that expires, a provider that revokes
the old token on rotation, a death at any point. `Lock == INSTANCE TokenQueue
WITH line <- line, serving <- InWork` is the refinement mapping; `line` is the
only history it needs. `lost`, `raced` and `wish` are histories of the two
token properties.

### SandboxPool

Every docker command is a step of its own: `removals` are `docker rm -f` at
work, `ensure` a provision under way, `box[b].recovery` the two halves of a
recovery. A turn holds the sandbox it was given and runs commands side by side,
so a command meets a container that another recovered, that the sweep removed
or that a change of repositories replaced. Faults: a container Docker loses,
a command that fails, a `docker run` that fails, a `docker rm -f` that fails,
deaths, the sweep of an image build. Nobody looks how a removal ended: the entry
is dropped and whoever awaits it goes on, so a container that stays is in `left`,
which also has those the sweep of a boot did not list or could not remove. A
command whose own output reads like Docker's complaint of a lost container is
recovered as well (`Unavailable` asks nothing of the container). A boot or the
probe after an image build may find Docker unusable, which disables the sandbox.
One provision per conversation at a time is what Flue gives the code:
a session runs one turn at a time.

### LocalServer and DesktopShell

`LocalServer` is `local-server.mjs`: children, the start that callers share,
stops that wait for it, drain and kill. Reactions to a settled promise run
before the next event, which is what `Quiet` says in the guards of events.
The log is opened after the fork and before any handler is set: when that throws
(`ForksUnlogged`) the start fails and its child goes on, `unlogged`, boots,
serves and exits, and the module never hears of it.
`DesktopShell` is `main.mjs` around it for the local account: windows and the
registry that finds them, `errand` for what each stop is followed by (forget,
restart, quit), `Idle` for callers that have nothing under way. A new window or
stop takes a free name (`NewFrame`, `NewStop`; which one does not matter). `late`
and `disowned` are histories of the exceptions in `NothingIsOrphaned`.

### LiveView

The board (`board`, `version`), the stream and its `bells`, the `requests` and
`answers` of loads in any order, and what the browser shows. `Rung` is
`#announce`; `CancelForJob` does not have it. `best`, `overtook`, `unheard`,
`unrung` are histories: the newest version ever shown, and the reasons for which
a board can be wrong.

### Memory

`archive` holds entries that are superseded or retracted, never changed;
`recall` is what a writer last read, used later as the expected version of
`UpdateById` or `UpdateByKey`. `claimed` records what an update said it read,
`vacated` the keys that lost their entry and so count versions from one again.

### Questions

A question is a turn in the thread `<<agent asked, agent asking>>`, in order
behind those already there; `waited` are the questions whose tool call has not
returned. The answer and the 60 s timer race; a timer that fires leaves the
question where it is. A death takes the waits and Flue takes the turns up again.
A turn may ask several agents side by side. Only thread sessions matter to the
waiting, so an agent's other sessions are one.

### MCServices

The modules of the second group share no state with the jobs and with each
other at this level, so `MCServices` lets one of them move (`focus`) and the rest
stand still: one run has the sum of their states, not the product. `FairSpec`
gives each its fairness while it is the one that moves.

## 3. Runs

All runs finish; the larger ones take up to three minutes with two workers.
`CHECK_DEADLOCK FALSE` is set everywhere because the models are bounded: when
the rows are used up and every job has ended nothing more happens.

| Run | Instance | What it shows |
|---|---|---|
| `jobs_tree` | 3 jobs, or 1 with deadlines (the constraint `DeadlinesOfOne`); 2 agents, cap of 2 open jobs, depth 2 (350 468 states) | types; tree and depth; the open-job cap; a waiting parent has a reason; no circular wait; ended jobs come back in two ways only |
| `jobs_deadlines` | 2 jobs, 2 agents, cap of 1, both policies, joins of any jobs (425 232 states) | a miss is told once although sweeps fail children and die half way; a turn that awaits jobs waits only while one of them is open |
| `runs_tree` | 2 jobs, 1 agent, no retries, 2 interventions or crashes (295 582 states) | an assigned job has something that will start it; a paused job is taken up only by the operator, or by a turn of its own that goes on and hands it off or awaits a child |
| `runs_live` | 1 job, 2 agents, 1 retry, 1 timer, 2 interventions or crashes | an assigned job leaves assigned; retries run out when the provider is out |
| `gate` | 2 calls of the job, 1 of a chat, 3 approvals, 2 requests | one live approval per call; board and approvals agree; requests are not stacked; the gate implements `OneShot` |
| `services` | below (800 883 states) | the safety of each service |
| `services_live` | below (49 417 states) | the refresh lock is a queue; a routine fires on and a one-off settles, unless some row fails the reload; callers, commands, starts and turns end |
| `jobs_stop_race`, `jobs_late_spawn`, `runs_lost_retry`, `gate_dead_job`, `services_unrung` | as small as the counterexample | disagreements of code and documentation, section 6 |

The instances of `services`, and of `services_live` where smaller:

| Part | Instance | What it reaches |
|---|---|---|
| scheduler | 2 rows, interval of 1, cron period of 2, 1 open job, 2 edits, 1 death (live: 1 row, interval of 2) | a refused one-off beside a routine; a row that does not parse before and after one that does; a death before the mark and the catch-up after it; an edit between two fires |
| chats | 3 chats, 1 unread, 1 death | a main, the next one and a side chat that was a main |
| connections | 2 callers, 2 grants, 1 rotation, 1 death (live: 3 callers, 1 grant) | a reconnect in the middle of a refresh; live, a queue of three, so that a link settles behind one and before another |
| pool | 2 commands, 2 sets of repositories, 3 sandboxes, 3 containers, 2 losses (live: 1 set, 2 sandboxes, 2 containers, 1 loss) | two commands that lose one container; a replacement during a recovery; a removal that fails, and a death after it |
| desktop | background and 2 windows, 2 stops, 2 children, 2 accounts, 2 errands (live: 1 account, 1 errand) | forget against restart, quit against both, a second account while the first drains; a stray child beside the next one |
| view | 2 items, 1 of a job, 2 bells, 1 load unread, 1 break | a load started by each of two bells, answered in the other order |
| memory | 2 writers, 2 keys, 3 entries | a key given up and taken again between a read and the write |
| questions | 2 agents, 4 turns, 1 death | the shortest circle: a asks b, b asks a, a asks b behind the turn it comes from |

**Why the bounds are enough.** Three jobs are the least with which a parent has
two awaited children (a settling child must not wake it) and with which a
grandchild exists (waits of depth two); the cap of two makes create, handoff
and restart hit it. Deadlines need a job and its parent, which is `jobs_deadlines` (three jobs with
deadlines are too many states), and a sweep that
handles one row and dies in the next. The runs need a second agent only for
handoffs, so the tree has one agent and the single job has two. Three approvals
allow a call's approval to be spent, refused or cancelled and raised again
while another call has one. The constants of the code (`MAX_DEPTH` 5,
`MAX_OPEN_PER_AGENT` 10, `MAX_RECOVERY_ATTEMPTS` 3) are parameters: the
properties do not depend on their values, and small ones make the limits
reachable. `MaxJobs`, `MaxApprovals`, `MaxRequests`, `MaxTimers` and `MaxUpsets`
are bounds of the model and in guards only. Agents are symmetric in `jobs_tree`
and `jobs_deadlines`; the liveness runs use no symmetry. In `gate` the calls of the job are
symmetric; `KeepsContract` is invariant under that permutation and has no
liveness part. Memory was also checked once with 4 entries (1.1 million states) and
questions with 5 turns (139 418), and the safety run with 3 callers and with 4
containers: nothing new.

**Fairness** (used by the liveness properties only). `RunsFairness`: Flue
answers every dispatch, starts a turn for what it admitted, and settles every
turn (it limits a submission to an hour); timers fire; an abort resolves; the
first sweep comes (an interval). Nothing is assumed of agents, who need never
close a job, of the operator, nor of the provider, which may be out for good.
In the services: the process comes up again unless a row fails its start, the clock
goes on and the timers that are due run (`SchedFairness`); settled promises run what waits for them, and
an exchange or a call ends because the runtime's fetch gives up
(`ConnFairness`); a docker command ends, those of a turn by their timeout
(`PoolFairness`); probing, starting and draining the local server have
timeouts, and what follows an await follows it (`ShellFairness`); Flue runs what
it admitted, settles a turn within an hour once its tools have returned, and the
timers of `ask_agent` fire (`QuestionFairness`). `docker run`, and the `git fetch`
of a mirror before it, have no timeout in the code: that they end is an assumption
about Docker and git. That the first sweep comes (`RunsFairness`) assumes that the
scheduler's start got through, as above.
Weak fairness is enough because each of these stays possible until it happens.
Deaths are bounded everywhere: a server that dies for ever gets nothing done.

**Mutants.** Beside the definitions there are mutated forms, marked *Mutant*:
a dropped guard, an off-by-one, a misspelt state, a missing re-dispatch. Each
property of a passing run fails under one of them (`PROJECT.json`, `mutants`),
so each says something about the code.

## 4. Proofs

TLC decides small instances; the theorems hold for all values of the constants
that satisfy the named assumptions.

Proved is every invariant, action property and refinement that a passing run
checks, with the exceptions the property states: a theorem says no more than that. Of the liveness properties the part that is no liveness is proved too: that
what waits has something to wait for, and that some step can always be taken.

`JobsProofs`, on the coordinator, one step per action in each lemma:

- `TypeCorrect`: `TypeOK` is inductive by itself.
- `TreeAlways`: `TreeInv` is inductive with `TypeOK` and `StoppingExist` (a stop
  under way is of a row that exists; `StopFinish` does not look at the row
  again, so nothing in its guard says so).
- `WaitersHaveReason`: `WaitingHasReason` is inductive with those. When a job is
  settled (`SettleReason`) its parent is resumed or has another open awaited
  child, and whoever else waits does not wait for this job; an insert
  (`InsertReason`) takes no child away because, by the tree, a row not inserted
  is nobody's child. Together they are the invariant `IInv`.
- `SomebodyWorks`: `IInv => NoWaitDeadlock`. Of the waiting jobs take the one with
  the greatest id (`Greatest`, from the well-foundedness of strict inclusion on
  finite sets): what it waits for has a greater id still, so does not wait.
- `CapHolds`: `OpenCap` is inductive with `TypeOK`; every step either counts no
  more jobs for anyone (`CapKept`) or gives one job to an agent that has room
  (`CapGiven`), by the cardinalities of finite sets.
- `JoinsKeepOpen`: `JoinsHaveOpen`, which is inductive. That a step of `JobJoins` is
  one of `Jobs` or a stutter is the lemma `JoinsImplementJobs`; it follows from how
  the module is written and only carries the theorems over.
- `ToldOnce` and `EndedStayEnded`, from `TypeOK`: a sweep takes only rows not
  marked, and settling opens nothing (`SettleOpensNone`).

`JobRunsProofs`, on the jobs in their sessions:

- `RunsTypeCorrect`: `RunsTypeOK` (a turn's session names a job) needs `HolderKnown`
  (a row has an agent), which rests on `StoppingExist`; together they are `RunsIInv`.
  The lemma `RunsImplementJobs` (`RunsSpec => Spec`, by the way the actions conjoin
  those of `Jobs`) carries the theorems of `JobsProofs` over to `RunsSpec`.
- `PausesHold` is the action property `PauseHolds`. `SettlePaused` and `FailPaused`
  say that what ends a job wakes only a parent in `waiting_children`, `ToolPaused`
  that of the tools only a handoff and an awaited spawn reopen, and `UntouchedPaused`
  covers the steps that leave the table alone.
- `AssignedAlwaysHasKick`: `AssignedHasKick` is inductive with `RunsIInv` and
  `AbortIsStop`, without which the abort of one stop could drop the message of a
  job that nobody stops. `FailDrive` and `RetryDrive` are what refused dispatches
  and broken turns have in common.
- `RetriesAreBounded`: `attempts + timers` of a job stays below `MaxAttempts +
  MaxTimers` (`RetriesInv`), because a timer starts only while an attempt is left
  and firing turns one into the other. `MaxTimers` is how many timers of a job run
  at once: with one, the attempts never pass `MAX_RECOVERY_ATTEMPTS`; with two
  they can, by one. `CountsStep` says what each action does to the two counts.
- `OutageUsesUp` is the action property `OutageIsPaid`: while the provider is out
  attempts fall only by an operator's step or a death, and a timer that goes
  costs an open job one. With the bound, this is the variant on which
  `RetriesRunOut` rests; that it is used up needs fairness and stays with TLC.

`ConfirmGateProofs`: the invariant `IInv` adds to `TypeOK`, `OneLive`,
`CardMatchesVerdict` and `OneOpenRequest` only `RowsInv`: the call of a raised
approval is a real one, and an approval whose item a crash left on the board was
cancelled. The first keeps blank rows from matching a call; the second keeps
such an item from coming to stand for an approval that can be answered. From it:

- `GateTypeCorrect`, `OneLiveAlways`, `BoardMatches`, `RequestsDoNotStack`: the
  invariants, for every number of calls, topics and rows;
- `GateKeepsContract`: `Spec => Contract!Spec`. `InitRefines` and `StepRefines`
  show that `phase` maps initial states to initial states and steps to steps or
  stutters; `PhaseOfLive` says that the phase of a call is that of its only live
  approval, which is where `OneLive` is used.

`SchedulerProofs`: `SchedInv` says of each row what its timer and its count of
fires may be.

- `TimerOK`: only an active row that reloads reach has a timer, and it has one unless
  it is a one-off whose job was refused; a cron timer ends with the period; the age of an interval
  and the time its timer has to run add up to two intervals at most. The sum is
  what makes `RoutineIsNotLate` inductive: a reload starts every timer again, so
  neither of the two alone says how late the row can get. It is about rows that
  have fired: a row that never has is given no catch-up, and nothing bounds its
  first run.
- `FiredOK`: a one-off that has fired is completed, unless a death cut its mark off.
- A reload (`#scheduleAll`) goes over the rows in order, and is a recursive
  function in the model, which the prover knows only as a CHOOSE. `UpTo` is the
  induction over the rows, as a lemma about the sets that hold 0 and with a number
  the next one; it follows from the well-foundedness of strict inclusion.
  `ScheduledRec` proves with it that the function exists and satisfies its
  equation.
- From the invariant: `SchedIsTyped`, `TimersAreTheRows`, `OneOffsFireOnce`,
  `RoutinesAreNotLate`; and `CompletedStaysOver`, the action property that a
  completed row stays completed until it is removed and opens no further job,
  whatever reloads and edits come (`CompletedIsFinal`).

`ConnectionsProofs`: `LineInv` ties the promises to the line (each waits for the
one before it, the first for nobody, `tail` is the last); from it only one caller
works (`OneWorks`), and `LockImplementsQueue` is `ConnSpec => LockIsAQueue`.
`TokensInv` follows what a refresh holds: good at the provider (`HeldIsLive`)
and what the user wished (`HeldIsWished`); that nobody else refreshes meanwhile
is where `OneWorks` comes in. `ConnIsTyped`, `RefreshTokensAreLive`,
`ConsentIsKept`. `ChainNeverJams`: while anybody waits, the first in line works or
can enter.

`SandboxPoolProofs`: `BoxInv` is the heart: a sandbox that was not removed is the
entry's, and the container of a recovery is gone or going. `PoolIsTyped`,
`NoContainerLeaks` (but for what a failed removal left), `PooledStaysUsable`. `NoCommandIsForgotten`: a command that
waits for a recovery has its turn's sandbox in one; it needs that the pool is asked
for a sandbox before the turn has one (`EnsureIsFirst`), as a new sandbox is in no
recovery.

`LocalServerProofs`: for the server, `KnownInv` (server and start in flight are
never both) and `StopsInv` (what a stop has to end is known or not forked yet)
give `LocalIsTyped`, `NoServerIsStray` and the action property `StopsDoStop`, the
children in `unlogged` excepted. For
the app, `ShellIsLocal` maps every step to one of `LocalServer` or a stutter, so
the three hold there too; `CalmInv` (nobody asks for the server while an errand
drains it, unless that is in `late`) and `WindowsInv` give `NothingStaysBehind`.
`NoWindowIsForgotten`: a window that waits has a start in flight to wait for.

`ServicesProofs` has the chats, the board, the archive and the questions, and the
composition of all services.

- Chats: `ChatsInv` says that a session is held by one row and is the bare one or
  the row's own (`SessionsInv`), that an agent that never lost its main has one or
  never had any (`MainKept`), and that a badge is held or torn. Without the second
  `BuriedStaysBuried` is not inductive: a buried bare session would be free for the
  next main. `ChatsAreTyped`, `AtMostOneMain`, `MainOpens`, `DeletedStaysDeleted`,
  `BadgesCanBeCleared`.
- The board: `BoardInv` (a board of the last version is right unless an older
  answer overtook it; one of an older version has something ahead or an excuse)
  gives `StaleHasExcuse`.
- The archive: `EntriesInv`, `KeysInv` and `ClaimsInv` (the versions of a key form
  a line with one active end) give `UpdatesReplaceTheRead`.
- The questions: `WaitsInv` says that turns are admitted in order and that a
  question that is waited for was put by an earlier turn, still running, in the
  thread of the two agents (`AskersWait`). From it `QuestionsMove`: while a turn is
  not over, some turn can start or settle, or some wait can be ended, since when
  nobody waits the first turn not over heads its session (`UpTo` again). Circles of
  questions exist, and only the timer of a wait opens them; that it does is
  `TurnsEnd`, with TLC.
- The composition: in `MCServices` each step is one of the part in `focus` and leaves
  the others alone (`PartsStep`), so a behaviour of it is one of every part (the lemma
  `PartsKeepTheirSpecs`, which is about the composition and not about the code).
  `ServicesAreTyped` follows; the other theorems carry over the same way.

Assumptions: the named ones of the modules (what is a member of what, and that
the bounds are natural numbers). Nothing is assumed of sizes or of fairness.

Model-checked only:

- liveness; the prover does not do `ENABLED` or liveness under fairness. The safety
  half of each is a theorem:

  | Model-checked | Proved of it |
  |---|---|
  | `AssignedIsDriven` | `AssignedAlwaysHasKick` |
  | `RetriesRunOut` | `RetriesAreBounded`, `OutageUsesUp` |
  | `RoutineRuns`, `OneOffSettles` | `TimersAreTheRows` |
  | `CallersServed` | `LockImplementsQueue`, `ChainNeverJams` |
  | `CommandsReturn` | `NoCommandIsForgotten` |
  | `StartsEnd` | `NoWindowIsForgotten` |
  | `TurnsEnd` | `AskersWait`, `QuestionsMove` |

- the properties of the runs of section 6, which do not hold.

## 5. Plan

Done: the coordinator, its runs and joins; gate and board; scheduler with the
reaction of the bus; chats; connections; sandbox pool; desktop app; live view;
memory; questions; proofs of all safety properties. Left, in the order of importance:

1. two timers of one job in the liveness run, and deadlines in `JobRuns`;
2. files: bytes, row and index written one after the other (section 7);
3. the other stores of the browser, which load and ring like the attention board.

## 6. Where the code and its documentation disagree

Each is a run that TLC must find violated.

- `jobs_stop_race`. `stop()` checks that the job is open, awaits the abort and
  writes `cancelled` over what the job has become: a job whose turn closes it
  during the await goes from done to cancelled, summary and all
  (`coordinator/jobs.ts:511`, against its comment at 506-507 and
  `tests/coordinator/jobs.test.ts:263`).
- `jobs_late_spawn`. An awaited spawn makes the parent wait whatever its state
  is: a turn that closed its job can still take it back into the working set
  (`coordinator/jobs.ts:286`, against `tests/coordinator/jobs.test.ts:131`).
- `runs_lost_retry`. The backoff is a timer in memory; a process that dies
  before it fires leaves the job in `working` for ever
  (`coordinator/recovery.ts:162`, against its header, lines 16-25).
- `gate_dead_job`. `fail()` does not call the terminal listener, so approvals
  of a failed job can still be answered, which delivers a turn into its session
  (`coordinator/jobs.ts:388`, against `app.ts:102-103` and
  `docs/primers/confirm-gates.md:119-132`).

- `services_unrung`. `cancelForJob` dismisses the items of a job that ended and
  rings no bell, unlike every other write of the board; the bells the job itself
  rings reload other slices. An open browser goes on showing items whose answer
  would be refused (`coordinator/attention.ts:334`, against
  `coordinator/operator-events.ts:4` and `packages/ui/src/stores/RootStore.ts:25`).

Smaller ones, most of them visible as exceptions in the properties:

- *Jobs.* A paused job may well have a live turn (`coordinator/jobs.ts:525`), whose
  handoff or awaited spawn takes the job up again (`PauseHolds`); a
  child failed by the policy `fail` leaves its parent waiting (`silent` in
  `WaitingHasReason`); attempts can pass their maximum when two timers of a job are
  pending (`jobs.ts:45-50`). A job can `job_await` itself, and two jobs each
  other; only the timeout ends that.
- *Scheduler.* A cron expression that does not parse, which the operator's routes
  accept, ends every reload at its row: the rows listed after it, of any tenant, have
  no timers, a boot fails or goes on without the deadline sweep
  (`coordinator/scheduler.ts:61-66`, `75`, against 162, "A bad schedule must not kill
  the timer for everything else", and `tools/schedule-tools.ts:228-230`). A
  routine that has never fired is not caught up (`scheduler.ts:87`, `132`), so edits of
  any schedule that come faster than an interval put its first run off for ever. A completed one-off that is patched to an interval stays completed
  (`packages/protocol/src/schedules.ts:53-57`). A one-off whose job was refused
  waits for the next reload, or is completed by it without a job. A death
  between the job and the mark fires a one-off twice (`cut`). An interval longer
  than 2^31-1 ms overflows `setInterval` (`coordinator/scheduler.ts:84`).
- *Chats.* A reopen of the live main (`coordinator/chats.ts:170`) or a death in
  `clearMain` can leave `main()` unable to insert, though
  `packages/protocol/src/chats.ts:7` says that there is exactly one open main
  (`mainless`). `coordinator/activity.ts:6` names an event that is not handled.
- *Connections.* A connect or disconnect does not take the refresh lock: a refresh
  that was under way puts its own credential over the new one, or over the
  removal (`raced`). A refused refresh token never marks the credential stale. A
  late 401 marks a newly connected credential stale
  (`coordinator/tool-credentials.ts:77`, against 60-62). Deleting an integration
  keeps its users' tokens (`routes/integration-routes.ts:107-111`).
- *Sandboxes.* The outcome of `docker rm -f` is ignored after the entry was dropped
  (`tools/docker-sandbox.ts:302`, 344, 526-527): a container that stays is known to
  nobody until the next boot (`left`). A command that writes "is not running" to its
  own stderr has its container taken for lost, replaced, and is run a second time
  (`tools/docker-sandbox.ts:440`). The sweep of an image build removes containers that are in use
  (`tools/docker-sandbox.ts:519-523`). A replacement that fails leaves the removed
  sandbox in the pool (`stuck`). A turn that computes for longer than the idle limit
  loses its sandbox; `get` during a replacement hands out the removed one.
- *Desktop.* `openLog()` comes after the fork and before the handlers
  (`packages/desktop/local-server.mjs:160`): when it throws, the child serves on with
  nobody to stop it, and the next start forks a second one (`unlogged`). Forgetting the local account waits for a stop while the account is
  still listed, so a window, a retry or a restart can bring window and server
  back without an account (`late`). A late `closed` event takes the registry entry
  of the window opened meanwhile, whose badge and retry are then ignored
  (`disowned`). A quit during a drain, or with a start asked for meanwhile, kills
  the child undrained, though `packages/desktop/main.mjs:615` says that it drains.
  A restart while a child drains runs two processes on one data directory for a
  moment (`NoStrayServer` allows the one on its way out).
- *Live view.* `routes/operator-routes.ts:21-22` has the client load after `ready`;
  the client loads before it opens the stream, ignores `ready`, and does not load
  again when it reconnects (`unheard`). Loads that overtake each other leave the
  older board (`overtook`).
- *Memory.* After a key lost its entry, versions start again, so an expected
  version can match an entry the writer never read
  (`docs/primers/memory.md:53-57`, `vacated`).
- *Questions.* `tools/ask-agent.ts:23-24` and `docs/primers/agent-to-agent.md` say
  that blocking bounds a ping-pong to a call stack under the timeout. A timer
  that fires ends the wait and not the question: its turn goes on, with nobody
  waiting for it, and can ask further. `TurnsEnd` holds because each wait ends.

## 7. Not modelled

- **Files and search.** `create` writes the bytes, the row and the index entry in
  this order, `remove` deletes the row, the bytes and the entry, without a
  transaction around them. A death or a failing `rm` in between leaves bytes
  without a row, or an entry that a search still shows. There is nothing to
  interleave, so there is no module.
- **Of the modelled parts**: the timeline of jobs and all texts; report modes beyond
  told or not; chat titles, previews and the inbox; organisation secrets and the
  catalog of integrations; the launcher's remote accounts, menus, port, log and
  clipboard; `delegate`, a sub-agent inside its turn. A `docker run` under way when
  the process dies, whose container appears after the boot sweep, is left out.
  The chain and depth guards of the event bus never act: no publisher passes them.
- **Storage of one synchronous statement** (roster, teams, skills, toolsets,
  dashboards, widgets, profile, credentials), where nothing interleaves; observers
  that only record; the migrations beyond the tables they make.
- **Libraries and I/O**: HTTP, authentication, encryption, push, and Flue, of which
  only the use the code makes is modelled. The order of messages within a job's
  session is Flue's; model outputs are free choices.
- **Views.** Most lines of the repository render or format: screens, components,
  the other stores (which load as `LiveView` does), the command line, the client's
  wrappers, schemas. They hold no protocol state. The share of the repository that
  the modules map is small for that reason.
- **Tenants** beyond one, section 1.
