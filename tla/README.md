# OpenAlpaca: a TLA+ verification project

OpenAlpaca is a local assistant daemon (`apps/openalpacad`) with a CLI and a
GUI in front of it.  A chat turn may start a *workflow*: a lead agent that runs
in the background for minutes under a task id, spawns subagents, can be steered
by the user while it runs, survives a daemon restart as an `interrupted` row and
can be resumed from its session log.  The interesting state of such a workflow
lives in three places that no common lock covers: SQLite rows, maps in process
memory, and an append-only session log.  This project models those parts, the
order in which the code touches them, and what may happen in between.

## 1. Inventory

| Component | State it keeps | Operations | Interacts with |
|---|---|---|---|
| Task lifecycle (`core/context/shared`, `core/orchestrator/task_launch.rs`, `task_ops.rs`, `dispatcher/`, `storage/repository/task`) | task row (status, result, outcome), `TaskRegistry`, `cancellation_tokens`, `active_workflows_by_lane` | create, start, resume, rerun, dispatch, cancel, pause, un-pause, finalise, boot sweep | every other component below; HTTP routes and chat |
| Steering rail (`core/runner/steering.rs`, `agentic_loop`) | `SteeringInbox` (queue, closed), the loop's pending batch and round budget | push, drain at a round, completion guard, return on failure, close and drain | session log, follow-up table, task lifecycle |
| Session log (`core/session_log`) | handles and channels, writer tasks, segments, images and spilled results on disk, index rows | open, emit, snapshot, flush, write, rotate, trim, forget, boot sweep, recovery scan, replay | steering, tools, session deletion, resume |
| Follow-up table (`storage/repository/followup`, `openalpacad/followup.rs`) | `lane_followups` rows | queue, guarded insert, claim, consume, cancel, mark done | steering, lane sessions |
| Lane sessions and working state (`storage/repository/conversation`, `core/orchestrator/working_state.rs`) | one active session per lane, working state with an optimistic version | create, activate, archive, clear, write with one retry | gateway turns, follow-ups, learning queue |
| Subagents (`core/runner/lead_agent`) | `SubagentTracker`, child tokens | spawn, batch, wait, stop | agentic loop, task lifecycle |
| Tool gate (`core/security`: `sandbox`, `confirmation.rs`, `approval`, `circuit_breaker`) | pending cards and their channels, approvals, a breaker per tool | execute, ask, answer, time out, drop, record an outcome | tools, connectors, clients |
| Model router (`openalpaca_llm`: `routing`, `keys`, `rate_limit`) | key pools with cooldowns, limiters and permits, one breaker | complete, stream, rotate, retry, substitute, fall back to a CLI, switch and re-key a provider | agentic loop |
| Chat streams (`core/chat`) | open streams | open, send, cancel, clean up | gateway |
| Learning queue (`core/memory/learning`) | cursor, pending windows | enqueue, extract, close a conversation | lane sessions, memory files |
| Memory files and index, artifacts, uploads (`openalpaca_storage`) | files, SQLite indexes | file I/O, search | learning, tools |
| MCP servers (`core/tools/extensions`, `openalpacad/managers/mcp.rs`, `openalpaca_mcp`) | the ledger's rows, loads and handles, clients and processes, `config/mcp.toml` | enable, disable, reload, remove, reconcile, refresh, reap, call, reconnect | tool registry, file watcher |
| Plugins (`openalpaca_plugins`) | runtimes, approvals | the same ledger's transitions | tools |
| Daemon lifecycle, wake scheduler, connectors, routes, CLI, GUI | locks, timers, sockets | I/O | everything |

What is hard here: request handlers, a workflow's background task, the log's
writer and a turn interleave at every await and between every two lock
acquisitions; the process may be killed at any of those points and has to
rebuild an honest picture at boot; and several decisions are made on a value
read before the step that acts on it.  `PROJECT.json` lists the hazards the
properties are for, line by line; section 6 has those the code does not master.

The properties that make each part correct: *task lifecycle* - one run per id,
the slot held exactly while a run may write, results that stay with their run, no
live row without a worker after a restart; *steering rail* - nothing the user was
told is accepted disappears, order is kept, what was shown to the model is not
filed as undelivered; *session log* - it reads to its end after any crash or
failed write, its numbers name one record each, an image answered Ok is there;
*follow-up table* - a row is acted on once, where it was promised, and a cancel
the user saw stands; *conversations* - the working state never claims a row it was
not written from, a turn reads everything once and answers where it was asked;
*subagents* - a wait returns, a stop leaves nobody behind; *tool gate* - nothing
that needs a yes runs without one, a card ends once and with its wait; *router* -
a request ends, for the reason it is told, and the breaker lets somebody try again;
*MCP servers* - off means off, what serves is one whole load, what crashed is
cleared away; *streams* - every stream ends once.

## 2. Plan

1. `TaskLifecycle` with `TaskLifecycleProofs` (done).
2. `SteeringRail` with `SteeringProofs`: inbox, loop, log, recovery (done).
3. `ConversationState` with `ConversationProofs`: lane sessions,
   turns, the optimistic write and its retry, the close, the user's clear (done).
4. `FollowupQueue` with `FollowupProofs`: the autostarted rows, the claim's session
   re-homing, cancel, shutdown and crash (done).
5. `Subagents` with `SubagentProofs`: tracker, wait loop and stop, implementing the
   abstract `SubagentWait` (done; its steps are proved, its fairness is checked).
6. `ToolGate` with the second part of `LogAndGateProofs`, `McpExtension` with
   `McpProofs` (done).
7. `LlmRouter` with `LlmProofs` (done).
8. `SessionLog` with `SessionLogInvariant` and the first part of `LogAndGateProofs`:
   writers, rotation, trim, snapshots, deletion, crash (done).  Left: its refinement to the two-part log that
   `SteeringRail` assumes, and the readers.
9. Left to model: chat streams, the learning queue's cursor, plugins, the order of
   the shutdown, the memory files' crash ordering.
10. Left to prove: no invariant a run checks.  What stays with TLC is listed at the end
    of section 5, with the reason.

## 3. The modules and the code

Paths below are relative to `src/`, and `PROJECT.json`'s `map` gives the lines of
every definition.  One action is one step between two points where another
thread may run: one SQLite call (`with_connection` releases the lock when it
returns), one acquisition of a map's lock, one `await`.  Steps of one thread that
nothing can observe apart are one action; where that grouping needs an argument
the comment over the action gives it.

### `TaskLifecycle`

| Variable | Code |
|---|---|
| `row` | `task` rows: `status`, and the launch whose `result_summary` and `outcome` they hold |
| `reg` | `TaskRegistry` entries |
| `tok`, `fired` | `cancellation_tokens`, the id's token doubling as its run slot; cancelled tokens |
| `activeWf` | `active_workflows_by_lane` for one lane |
| `run` | the `tokio::spawn`ed lead agent of each launch, by the step its background task is at |
| `call` | request handlers in flight |
| `router`, `up` | the LLM router of this incarnation; past the boot sweep |
| `owner`, `stopped` | history variables for the properties |

Requests (`create`, `start_task`, `resume`, `apply_task_action`) enter with the
check the code makes and then take their own steps: `ClaimRunSlot`, the
dispatcher's steps (row, token, spawn, or failure), the control verbs' three
writes (token, row, registry).  A run marks itself running, works, leaves its
loop by any of its exits, detaches from the lane and finalises in the code's
order: outcome, registry, row, result, release.  `Crash` drops all memory;
`Boot` is the sweep of `mark_interrupted`.

`AddressesInDispatch` says whether a client may name an id whose first dispatch
has not returned.  The row is listed by then, so the code allows it
(`TaskEarlyStart.cfg` shows what follows); with FALSE the model is of clients that
name only ids they were handed.

### `SteeringRail`

One workflow over its life.  `Push` / `PushRefused` and the producer's later steps
are `push_steering`; `Workflow` is the background task: opening the log, the
loop's round drain, record, model call (ok, retried, abandoned), completion
guard, the exits, `close_and_drain`, filing and finalisation.  `WriterStep` is
the session log's writer thread; `Crash` keeps the written prefix of the log and
the table; `Boot` is the scan, the guarded insert and the flip.  `ListRows`,
`ClaimRow` and `CancelRow` are the lane's next turn and the user's DELETE.

### `ConversationState`

| Variable | Code |
|---|---|
| `msg`, `last` | `conversation_messages` (conversation, turn, role, and whether the row has a text) and its autoincrement id |
| `sess` | `session` rows: `working_state_version`, `working_state_through`, `working_state` (as the set of rows it was written from) |
| `active` | the lane's active session |
| `clearing` | a clear between its two updates |
| `turn` | a turn from `turn_started` to `turn_finished`, with what `build_context` has read so far |
| `writer` | `working_state::write`, for a turn's background job or a close |
| `close` | `LearningQueue::refresh` |
| `mark` | `compacted_states` |
| `unread` | history variable: rows that a failed query, or the limit of one, left out of a turn |

`ReadSession`, `ReadRecent` and `ReadOlder` are the three queries of
`build_context`, between which everything else may run.  A question of attachments
alone has no text: the window keeps such a row, the query behind it and the close
filter it out (`Worded`).  The query behind the window may fail, which the code takes
for an empty answer (`ReadOlder`); when one of the first two fails the turn goes on
with no conversation to write to (`LoopWithoutSession`).  `LoopCompacts` stands
for the loop's compactions and the `Cursor`: the assembly trim drops a prefix of
the window, the compaction reads up to any boundary, and `through` moves only
when `Trusted`.  `LoopLags` is the lag rule.  `WriteLands`, `WriteMisses`,
`Reread` and `WriteDiscarded` are the compare-and-set with its blind retry.
`CloseStart` to `CloseDecide` are the refresh of a close, with its two samples of
the requests in flight around the read.

### `FollowupQueue`

`row` is `lane_followups`, `sess` the lane's conversations, `turn` a run of
`Gateway::handle_event` (a follow-up's is named by its row), `flow` a workflow's
background task.  A workflow that has released its slot looks, claims the oldest
row together with re-activating its conversation (`ClaimNext`, one hold of the
connection) and spawns it (`SpawnFollowup`); the turn then resolves the lane's
conversation in several queries of its own (`TurnStep`).  Clients open, activate,
archive and delete conversations and cancel rows in between; `Shutdown`, `Die` and
`Boot` are the daemon's.  Two history variables name the turns whose place somebody
else took: `strayed` those whose lane was moved, `outbid` those that had chosen an
unbound conversation which a turn of another project bound first.

### `Subagents` and `SubagentWait`

`Subagents` is one lead run: `spawn_subagent` (one step: it has no await), each
subagent's task from its place in the queue to the closing of its lane, the wait
with its `Notified`, deadline and interjections (`WaitStep`), the two halves of
`check_subagent_status`, the stop with its grace and abort, the report, crash and
resume.  `SubagentWait` says what a wait promises, in five variables; the property
`WaitPromise` is its specification under the mapping given at the end of
`Subagents`, fairness included.  `RunId` gives each spawn its run id; spawns of a
singleton template share one.

### `LlmRouter`

`complete` and `complete_streaming` with their two levels of permits, `acquire` over
a key pool by each strategy, the limiter, the retry loop, the breaker all providers
share, the ladder of substitutes and the CLI stand-in.  `ReloadKeys`,
`RegisterProvider` and `DeregisterProvider` are the owner; `Cancel` drops a request
at any await.  Time is three steps: the breaker's recovery, a probe's ageing, a
cooldown's end.  Of a token bucket only the clamp to its capacity is kept.  `Only` and
`SentBack` are the filter and the rotation of a key pool, `Rungs` the ladder without
repetitions.

### `ToolGate`

`execute_tool` from the capability check to the recorded outcome, one value of `at`
per await, and `Drop` may take a call at any of them.  `Respond` is a client's
answer, free to arrive in the instant between a waiter's timeout and the withdrawal
of its card; `Elapse` is a breaker's timeout.

### `McpExtension`

One server.  Everything that changes the row runs under the extension's mutex, so
`op` says where the one operation stands: the verbs, reconcile, the teardown's
steps T1 to T4, the bring-up's steps, reap and refresh.  What does not take the
mutex interleaves: calls (also on a handle kept from an earlier load), reconnects,
exits of the process, fetches of the tool list, edits of the file and its reading.
A reconnect takes the old service out (`Reconnect`), closes it for up to two seconds
and then writes the client's state (`Closed`), so a seal may come in between.

### `SessionLog`

One conversation's directory.  Names are kept apart from files, because a writer
holds a file: `disk` has the live segment's name and the archived ones, `lines` the
contents, `log[w]` what a writer has open, `beside` the files under `snapshots/` and
`results/`, `rows` the `result_ref` column of `tool_execution_log`.  A line is one
record, cut short (`Cut`), or unreadable (`Bad`), and sizes are counted in lines.

`Open`, `Collect`, `Send`, `Tracked` and `Reopen` are `open`, `flush_all`, `emit`,
`snapshot` and `flush` with the one retry on a reopened handle, whose two halves
are two steps.  `Take` to `FinalSync` are `run`; `EndBatch` to `Notice` are
`process`, `ensure_log`, `take_snapshot` and `write_record`, step by step because a
deletion and a crash may come between any two.  `DeleteRows` to `RemoveDir` are
the session route's deletion.  `Crash` loses what was not written and may leave a
torn line (with `PowerLoss` also what was not synced), and it may come between a
rotation's rename and its creation of the next segment (`CutRotation`), which leaves
archived segments only; elsewhere in `AfterWrite` it leaves what a crash before or
after the step does.  `Sweep` is the boot's eviction.  The session cap and the eviction
pass over a file they cannot remove.  `hurt` remembers that a realign, the opening of a
fresh segment or the removal of an old one failed: the code only logs those or goes on,
and what the log is worth afterwards is not claimed.  `lost` remembers that an eviction
removed the last archived segment of a log whose live one has no record or is missing:
only the live segment's removal clears the index rows, so they stay while the numbers
start over (section 6).

## 4. What the runs check

| Run | Instance | What it shows |
|---|---|---|
| `task_lifecycle` | 1 id, 2 handlers, 3 launches, crashes, fair | the run slot is exclusive and covers finalisation (`OneRunPerId`, `SlotHeld`); results and lane index belong to the right run (`ResultIsOwn`, `LaneIndexExact`); the boot sweep leaves no live row (`NoOrphanRow`); every claimed slot is given back (`SlotFreed`) |
| `steering_rail` | 2 messages and the note, 1 crash, a log that may refuse | the order is kept (`FifoOrder`), nothing accepted is lost, filed though shown, or filed though nobody said it (`OnePlace`), the boot pass recovers (`CrashRecovered`), a cancel stands (`CancelStands`) |
| `steering_liveness` | 2 messages, inbox of 1, fair | an acknowledged message reaches a model or a row (`Settles`) |
| `conversation_state` | 2 conversations, 1 turn, 1 close, 2 moves of the user | `through` passes no row with a text that its writer did not read (`Coverage`), none falls between the three queries (`NothingFallsBetween`), but for what a failed or limited query left out; `TurnInOneConversation` |
| `followups` | 2 rows, 2 workflows, 1 user's turn, 1 crash, fair | a row starts once, in turn, not after its cancel, and is in somebody's hand while `running` (`ClaimDiscipline`), in the conversation and project promised (`RightPlace`); a claim is closed out (`ClaimSettles`) |
| `subagents` | 2 spawns on 1 slot, 1 crash, fair | the tracker says what is so, after a resume too (`TrackerTrue`); the run ends with nobody behind it and names whom it stopped (`EndIsClean`); `AllMeansShown`, `LaneCloses`, and the refinement `WaitPromise` |
| `llm_router` | 2 requests, a provider with 2 keys and a local one | the breaker's probe slot (`ProbeSlot`), who is blamed (`KeysAreBlamed`), when all keys count as refused (`RefusedByAll`) |
| `llm_liveness` | as above with 3 requests, 1 key, 2 global permits, fair | `EveryCallEnds`, with one of the three waiting for a permit another keeps over its retries; `BreakerReopens` |
| `tool_gate` | every pair of calls under every policy, one triple, fair | a card ends once and with its wait (`CardsEnd`); `NeverWithoutYes`, `CallComesBack` |
| `mcp_extension` | 2 loads, 2 calls, process and http | off means off and drained means quiet (`SwitchIsClean`); row, handle, registry and client are of one load (`OneLoad`) |
| `mcp_liveness` | 1 load, 1 call, 1 edit, fair | `MutexReleased`; a sealed client's child ends and a crash is reaped (`ClearedAway`) |
| `session_log` | 1 result (inline or spilled), 1 snapshot, 1 flush, 2 writers at a time; 2 crashes (also inside a rotation) or faults (also a removal), or 1 deletion | records are numbered without a gap and name files that are there (`LogReadsWhole`); `RowNamesItsRecord`, `WaitsForSomebody`, `ImageKept` |

`OnePlace`, `ClaimDiscipline`, `RightPlace`, `TrackerTrue`, `EndIsClean`, `CardsEnd`,
`SwitchIsClean`, `OneLoad`, `ClearedAway` and `LogReadsWhole` are conjunctions of
parts that are defined and explained one by one above them; where a component's
types are not a run's own invariant they are the first conjunct of one of these (of
`ProbeSlot` in the router), and those of `ConversationState` are proved
(`ConversationTypes`).  `RelaunchNeedsIdle` is proved as well (`TakeoverNeedsIdle`).

The other `.cfg` files are the counterexamples of section 6, and
`SessionLogInvariant.cfg` (section 5).

**Bounds.**  Nothing in the lifecycle couples two task ids except the lane index
(a set) and the launch counter, so one id with two handlers has every race; three
launches allow a run, its relaunch, and a late launch that meets both.  Two
interjections are the least that can be reordered; an inbox of one is full after
one push; one crash followed by a resume exercises recovery, the resume note and a
second incarnation of the inbox; two rounds with a bonus of five reach the ceiling
of twice `max_rounds`.  A history of two rows and a window of two leave a row behind
the window once the question is stored; a turn's background job and a repeated
close are two writers, so each can be stale when it lands, and the proofs of
section 5 cover any number of them; a limit of 9 never binds, `ConversationLag.cfg`
lowers it to 1 to see it bind, and the proofs are for any limit.  Two follow-ups can be claimed
out of order, and two workflows can claim at once.  Two subagents on one slot have
one queued behind the other.  Two requests are a probe and a bystander; two keys
are the least a rotation can miss one of; with both, the graph is too large for the
liveness check, which needs one key to run into a cooldown; there three requests on
two global permits have one wait for a permit that another holds over a retry, a
cooldown or the wait for the key.  A breaker that opens at
two failures has a count to keep.  Two loads of a server are a dying one and its
successor.  In the session log a segment rotates at two records, so with three or
more in a behaviour there is a rotation, and a cap of six makes a second one trim
without a segment and its files exceeding the cap on their own (below that, see
section 6); MaxFiles is never reached; flushes belong to the first boot, and a
deletion comes without other mishaps.  `MaxMoves`, `MaxAsks`, `MaxEdits`, `MaxCrashes`
and `MaxMishaps` bound users and faults.  Symmetry is over interchangeable messages
and calls, in runs without liveness properties only.

**Abstractions.**  A message is its id; texts, formats, token counts and costs are
left out, and a decision that depends on them is a free choice (the loop's exits,
whether it compacts, where the boundary lies).  A failed SQLite write is not
modelled except where the code branches on it.  Messages of the steering rail are
told apart by their text because the table's guard is on (task, text).

**Fairness.**  Everywhere: tokio polls a task that was woken and timers fire, and
nothing is assumed of users, clients, crashes and boots.

- `TaskLifecycle`: weak fairness of every handler's and every run's steps.  No step
  waits for another component while holding a lock, and a model call ends by
  answer, error or timeout.
- `SteeringRail`: the workflow's background task and an accepted push.  Nothing is
  assumed of the log's writer.
- `FollowupQueue`: a turn in progress and the tail of a workflow; not when a
  workflow's loop ends.
- `Subagents`: the tasks, unless stuck in a synchronous call, the wait, the stop, and
  a cancelled lead; not the clock, so no wait is assumed to reach its cap.
- `LlmRouter`: a call's own steps, the breaker's recovery time, and strong fairness
  of both semaphores, the global one and a key's, which serve their waiters in turn.
  With more permits per key than one, starvation by a bucket's level is not covered.
- `ToolGate`: a started call's own steps; none for answers and for a tool's return.
- `McpExtension`: the holder of the mutex (all its waits are bounded), calls (by
  their deadline), the end of a killed process, and strong fairness of the reaper's
  turn at the mutex, which is first come, first served.

`CHECK_DEADLOCK FALSE` is set where bounded users may simply stop.

## 5. What is proved

`TaskLifecycleProofs` proves, for every set of ids and handlers and every number of
launches, under `~AddressesInDispatch`: `TypeCorrect`,
`RunIsExclusive`, `SlotIsHeld`, `ResultsStayWithTheirRun`, `LaneIsExact`,
`NoOrphans`, `TakeoverNeedsIdle`.  `OneRunPerId` is not inductive: a second run
appears when a *launch* spawns, so the invariant has to say what launches in
flight may rely on.

    IInv == TypeOK /\ CallShape /\ LaunchNumbers /\ RunsHold /\ ClaimsHold
                  /\ FreshAlone /\ RowKnown

`RunsHold` and `ClaimsHold` say that a live run's token, and a claimed launch's,
is the one in the map; since the map has one entry per id, two holders are one.
`LaunchNumbers` keeps tokens distinct, and `FreshAlone` covers the one launch that
holds no claim, that of a fresh id: nobody else works on that id until it returns.
That is where the assumption enters, and without it TLC finds two runs
(`TaskEarlyStart.cfg`).  `RowInv` adds on top of `IInv` who owns a row (`OwnerKnown`)
and that whoever may still write a row live has a registry entry (`RegKnown`).

`ConversationProofs` proves `ConversationCoverage` and `ConversationReads` for every
number of conversations, turns and closes, every window size and every limit.  The
argument: `Knows(s, state, through)` ("the state holds every row of s up to `through`
that it owes, and `through` is an id given out") is *stable*, because a step only adds
rows past the last id, removes rows, or lets a query leave some out (`OnlyNewRows`,
`StillKnows`).  So it is enough that whoever hands a state to `write` knows its
conversation at that moment; how stale the version is, and whether the blind retry lands
it, no longer matters.  What a state owes (`Owed`) are the rows with a text, but for
those in `unread`.  That exemption is the code's: a query that failed counts as one
that found nothing, one that reached its limit as one that found everything, and
`through` passes the rest (`PassedIsRead`, `ConversationLag.cfg`).  For a compaction
the argument needs the window to be `Gapless` past the context's `through` and the rows
read behind it to be all that were to be read (`OlderFull`), for a close that its rows
are a prefix; both rest on lemmas about `ORDER BY id LIMIT n` (`LastNUp`,
`FirstNDown`).  `ConversationTypes` and `TurnInOneConversationAlways` need less; the
latter adds to the types that a turn with a row has begun and its rows are where the
turn still is (`AskedIn`).

`LogAndGateProofs` has the proofs of two components that share no state, one after the
other.  Its first part is the session log's, for any number of writers,
files, records, snapshots, flushes, faults and crashes, a deletion included.  What it
rests on is stated in `SessionLogInvariant`, and TLC has every part of it on the run's
instance (`SessionLogInvariant.cfg`) but `Numbered`, which ranges over all numbers.

- `WaitsForSomebodyAlways`, from `Waiters`: who waits is in the channel or the batch
  of a writer whose task still runs, since a writer that leaves drops its channel and
  with it everybody in it.  What a channel, a batch and a writer's step have to do with
  each other is part of the types (`LogTyped`, `ModesAgree`).
- `LogReadsWholeAlways`.  That the numbers have no gap is not inductive, because the
  next number is what a *writer* remembers, and a reopened one works it out anew from
  what it reads on disk.

      WholeLog == LogTyped /\ Dir /\ Solo /\ Numbered /\ Sent /\ Once /\ Refs

  `Dir` says that no file has two names and what has no name is empty, `Solo` that one
  channel takes messages until the conversation is deleted, `Numbered` that each
  archived segment starts where another ends (`Chained`), the live one goes on after the
  highest of them, and who has it open knows its length and the next number (`Ready`).
  The trim takes segments off the front only, which keeps a chain a chain.  A record's
  files are there because each is named by one record (`Refs`), so the trim of another
  segment cannot take them, and for that a record has to be written once: what is in a
  channel or a batch was accepted, and is in no line yet (`Sent`, `Once`).
- `ImageKeptAlways` and `RowNamesItsRecordAlways`, from

      ImageLog == LogTyped /\ Dir /\ Solo /\ Numbered
                           /\ RefNames /\ CopiedBeside /\ Latest /\ Imaged

  and `RowsHold`.  An image is followed from the copy (`CopiedBeside`) through the
  record, which is the last line of the log until the answer (`Latest`), to the cap's
  trim and beyond (`Imaged`); an image bears its record's number, so the trim
  of another record leaves it (`RefNames`).  `RowsHold` says that a row's number has been
  given to its record alone and is never past the end of the log, so that it is not
  given again, whatever was evicted and wherever a rotation was cut off; hence no row is
  left once no segment is.  It says so as long as the log is `Sound` and not `lost`.

Both theorems of the last item are about the behaviours with `[]CapLeavesSome`: what the
session cap trims is never the whole log.  That is a relation between sizes which the
code does not enforce: the cap may be configured down to 1 MiB
(`daemon_config/validation.rs:161`) under segments that rotate at 64 MB, and then the
rotation after a snapshot leaves one archived segment above the cap, which takes it and
the image with it (`SessionLogOwnImage.cfg`).  Files nobody names any more count towards
the cap as well, so no bound on one segment implies it.  `RowNamesItsRecordAlways`
assumes `~PowerLoss` besides (`SessionLogPowerLoss.cfg`).  `CapLeavesSome` is an invariant of the
run's instance, so there the theorems say what the run checks.
`Sound`, which the properties themselves presuppose, is a log that nobody deleted and
whose realigns, fresh segments and removals succeeded (`hurt`, section 3).

The second part of `LogAndGateProofs`, the tool gate's, proves `CardsEndAlways` and
`NeverWithoutYesAlways` for any calls, policies and thresholds.  A yes is good for later calls through the cache, so the
invariant has to trace what the cache holds back to a person's yes of that scope,
never for a tool that is asked about every time (`CacheFounded`).

`FollowupProofs` proves `ClaimDisciplineAlways` and `RightPlaceAlways`.  The claims
rest on `Holders` (a workflow about to spawn has a `running` row whose turn has not
begun, and no two have the same), `Spawned` and `InTurn`; the places on what a turn
knows of the lane at each of its awaits while nobody overtook it (`Fits`, `Promised`,
`Pins`).  `RightPlace` is claimed of turns that were neither `strayed` nor `outbid`;
`FollowupRaces.cfg` shows the others.

`SteeringProofs` proves `FifoOrderAlways`, `OnePlaceAlways`, `CrashRecoveredAlways` and
the action property `CancelStandsAlways`, all from `RailInvariant`:

    RailInv == Queues /\ Scalars /\ LogTyped /\ Stages /\ FifoOrder /\ Hands /\ LogInv

`Stages` says which queue may hold something at each step of the workflow, `Hands`
that no message is in two of them, and `LogInv` that whatever the log names was
typed and is remembered somewhere, which is what survives a crash.

`SubagentProofs` proves `TrackerTrueAlways` and `EndIsCleanAlways` for every way of
giving out run ids, from what each task's place says of its lane (`Lane`), its entry
(`Entries`) and the reason for a cancel (`Reasons`), with the permits counted
(`Permits`).  `AllMeansShownAlways` and `WaitPromiseSafe`, the refinement of
`SubagentWait`'s initial states and steps, assume `OwnRunIds`, that no two spawns share
a run id; a singleton template spawned twice breaks what they rest on
(`SubagentSingleton.cfg`), and as shipped the lead's own template is the only
singleton, which a lead cannot spawn.

`McpProofs` proves `SwitchIsCleanAlways` for any number of loads, calls, records and
edits, and `OneLoadAlways` for the behaviours in which the ledger makes one record for
the server (`[]OneRecord`).  The proof separates the holder of the mutex from
everybody else: a step that does not take it is `Aside`, it can only mark the row of
its own generation and touch a client that is still open (`BystanderAside`), so the
holder may rely on the row (`OpRow`), on who has a handle (`Handles`) and on every
client being sealed that is neither the handle's nor the one being built (`Seals`).
`OneLoad` needs in addition that generations within a record name one client each
and none is ahead of the row (`Generations`), and that the registry's names are the
handle's (`Registry`).  `OneRecord` is where it can go wrong: a server that is removed
and added again starts over at generation one, and a tool list fetched from the old
load is then published under the new one (section 6).

`LlmProofs` proves, for any requests, keys, providers and limits, `ProbeSlotAlways` (with
`ProbeFollowsState` and `PermitsComeBackOnce`, its parts), `KeysAreBlamedAlways` and
`RefusedByAllAlways`.  That neither kind of semaphore goes below zero or above its size is
not inductive; the invariant counts: the global permits left and the requests between
their first rung and their end add up to `GlobalConcurrency` (`PermitBalance`), and so for
every slot's limiter and the calls that are out on it or in the backoff after it
(`KeyBalance`).  Every step of a request is then a `Move`, in which what the request holds
changes with where it is (`RequestMoves`, `AnswerMoves`), and replacing a pool moves
nobody.

    RouterInv == CallsTyped /\ PoolInv /\ Rotates

That "every key was refused" is true is a matter of the rotation: the keys a round has
drawn so far are at the back of its pool's order, in the order drawn (`Rotates`), so the
next one drawn is new and after as many draws as keys it had them all.  It holds only
while the round is `smooth`, which is what `RefusedByAll` presupposes: another request
that rotates the same pool jolts it (`LlmRaces.cfg`).  And it needs round robin or least
recently used; under `primary_fallback` a refused primary stays in front of its
fallbacks, the order says nothing, and the theorem assumes `Strategy #
"primary_fallback"`.  What the types need of a pool and a ladder is how many there are
and which; the lemmas about the filter and the first occurrences (`OnlyIs` and its
neighbours) argue from the least counterexample, since the prover has no induction.

The inductive invariants were checked with TLC before they were proved (`Numbered` with
its numbers bounded), that of the conversations also with two concurrent turns, and that of the MCP server also
with three loads.

Only model-checked: the liveness properties and the fairness part of `WaitPromise`,
which are out of the prover's reach together with anything about ENABLED.  Every
other property of a run is stated by a theorem, under the assumptions named above; where
one is assumed (`~AddressesInDispatch`, `OwnRunIds`, `[]OneRecord`,
`[]CapLeavesSome`, `~PowerLoss`, the strategy), a configuration of section 6 or a sentence
above shows what happens without it.  RECURSIVE operators are also beyond the prover; the
modules use none.

## 6. Where the code and its own words differ

Each row is a sentence of the repository stated as a definition, and a
configuration under which TLC refutes it for the code as modelled
(`tlc -config <cfg> <MC module>`).  Where a configuration names several
definitions TLC stops at the first it refutes; leave one of them to see its trace.

| Definition, configuration | What the code does, against which words |
|---|---|
| `StartKeepsResult`, `TaskRaces.cfg` | a start whose check preceded a run's end relaunches over its result ("a finished run is not startable", `task_launch/tests.rs:319`) |
| `ReleasedRowIsTerminal`, `TaskRaces.cfg` | a pause checked before finalisation writes `paused` after it ("the row is terminal", `dispatcher/lead_agent.rs:1063`) |
| `OneRunPerId`, `TaskEarlyStart.cfg` | a listed row can be started before its own dispatch owns the slot |
| `CancelHonoured`, `TaskRaces.cfg` | a cancel that finds no token is answered Ok and stops nothing ("On success this fires the task's CancellationToken", `task_ops.rs:58`) |
| `NothingEaten`, `SteeringKillLoss.cfg` | a kill between the drain's record and the model's answer loses the message ("no longer silently eats what the user typed", `bootstrap/interrupted.rs:8`) |
| `EveryPushRecorded`, `SteeringKillLoss.cfg` | a push before the session log opens has no record ("written on every accepted push", `recovery.rs:18`) |
| `DrainFollowsPush`, `SteeringKillLoss.cfg` | a drain's record can precede its push's ("a drain can only follow its own push", `recovery.rs:24`); the scan tests membership and is not hurt |
| `NotProcessedIsTrue`, `SteeringKillLoss.cfg` with `LogMayDrop = TRUE` | a push with a refused record is filed and still delivered ("They were NOT processed", `unprocessed_steering.rs:92`) |
| `ClearForgets`, `ConversationRaces.cfg` | a writer that started before a clear writes the cleared content back |
| `StateOfOwnConversation`, `ConversationRaces.cfg` | a switch between persist and `build_context` puts the question into the other conversation's state |
| `PassedIsRead`, `ConversationLag.cfg` | when the query behind the window fails, or there are more rows than it takes, a compaction passes rows nobody read ("The state may pass the rows only when every row before them is read", `working_state.rs:343`) |
| `AttachmentsRead`, `ConversationRaces.cfg` | a question of attachments alone that is behind the window is filtered out (`context_builder.rs:182`) and passed all the same (same words) |
| `FlushStopsAtOpenTurn`, `ConversationRaces.cfg` | a turn that begins and ends around a close's read has its question read alone ("stops before the row", `queue.rs:722`) |
| `NeverInTheWrongPlace`, `FollowupRaces.cfg` | a client that moves the lane between claim and resolution has the follow-up run elsewhere ("a claimed row whose session was not re-activated runs in the wrong place", `followup/mod.rs:316`) |
| `NeverInAnotherProject`, `FollowupRaces.cfg` | two first turns of different projects choose the same unbound conversation, and the one that binds second runs in the other's project ("answers a project change with a new session, never a re-pointed one", `gateway/persistence.rs:104`) |
| `ReportedWasShown`, `SubagentCheckRace.cfg` | a subagent that finishes between a check's read and its mark is marked with an answer nobody was shown ("whose answer has reached the lead", `tracker.rs:67`) |
| `ReportedWasShown`, `SubagentSingleton.cfg` | `register` does not take the id out of `reported`, so a second spawn under one run id counts as reported before it has answered (`tracker.rs:139`, same words) |
| `SingleProbe`, `LlmRaces.cfg` | the router matches `Err(Open)` alone, so everybody passes while a probe is out (`retry.rs:18`) |
| `ReachedEveryKey`, `LlmRaces.cfg` | streams share the rotation, so one may try the same key twice and is told that every key was refused ("the attempts reached every key", `completion.rs:62`) |
| `ProbeInFlight`, `ToolProbes.cfg` | a probe that is dropped, refused or fails for a reason that is not counted leaves the tool's breaker half-open with nobody probing, and every later call is blocked ("a probe call is already in-flight", `circuit_breaker/mod.rs:114`) |
| `SingleProbe`, `ToolProbes.cfg` | a call admitted while closed that fails late re-opens the breaker under a probe, and a second probe follows ("a single probe call is allowed", `circuit_breaker/mod.rs:6`) |
| `AnswerStands`, `ToolAnswer.cfg` | an answer given in the instant of the timeout is acknowledged and the call refused ("Tool execution will proceed", `connectors/common/tests.rs:244`) |
| `FileAndRowAgree`, `McpReborn.cfg` | a reconcile reads the file before it has the mutex, and undoes a disable made in between ("the file order and the transition order can never cross", `managers/mcp.rs:20`) |
| `AdmittedIsCurrent`, `McpReborn.cfg` | generations restart when a server is removed and added, so an old handle passes for the new one ("refused as stale", `docs/tools/DESIGN.md:173`) |
| `OneLoad`, `McpReborn.cfg` | for the same reason a tool list that was fetched from the old load passes the re-check and is published under the new one |
| `OnlyCrashedHolds`, `McpHandshake.cfg` | a refused credential marks the row failed with its client still held (`managers/mcp.rs:1093`) |
| `AwaitingMeansDown`, `McpHandshake.cfg` | the exit of a process killed in a handshake is reported after the next one succeeded (`ledger.rs:276`) |
| `AcceptedIsKept`, `SessionLogRaces.cfg` | a record sent between the idle timer and `drop(rx)` is accepted and dropped ("Returns whether it was accepted", `session_log/mod.rs:530`) |
| `NotReopened`, `SessionLogRaces.cfg` | a reopen that found the session tracked spawns a writer after `forget` ("none of them can reopen the session", `session_log/mod.rs:258`) |
| `OneWriter`, `SessionLogRaces.cfg` | `forget` frees the slot first, so a turn that opens the conversation while the old writer winds down has a second writer on the same file ("the single writer task is the only thing that assigns it", `session_log/mod.rs:13`) |
| `ImageKept`, `SessionLogOwnImage.cfg` | when one segment and its files exceed the session's cap, the rotation that follows a snapshot trims it before the Ok ("the old bytes are saved", `writer.rs:526`) |
| `RowsOfThisGeneration`, `SessionLogRaces.cfg` | an eviction that takes the archived segments and stops before an empty live one leaves rows whose numbers start over ("no window exists in which a row describes a record that is not there", `sweep.rs:147`) |
| `NoRowWithoutLog`, `SessionLogRaces.cfg` | after a crash between a rotation's rename and the creation of the next segment (`writer.rs:1004`), an eviction takes the archived segments, no live one is there to have the rows cleared, and they outlive the whole log (same words) |
| `RowNamesItsRecord`, `SessionLogPowerLoss.cfg` | when the machine dies, a row that reached the disk can outlive its unsynced record, whose number is given out again ("it can never point at a record that does not exist", `writer.rs:740`) |

## 7. What is not modelled

Of the modelled parts: a task's progress, events and `state_json`; tool execution,
streaming and cost inside the loop; conversation rows other than a question's and an
answer's; carry-over between sessions, titles, and rows a
memory forget took back (every writer passes those on purpose); the learning
queue's extraction and cursor; a subagent's own loop; the capability match and the
sanitiser (a refusal that may meet any call); token estimates and catalogue
discovery; name collisions between MCP servers, tombstones, `shutdown_all` and the
http transport's details; the session log's readers and replay, its drop counters,
its 64 KB envelope, the window of `repair_tail` (every tail fits it) and the order of
eviction between conversations.

Not modelled at all, with the reason in `PROJECT.json`: chat streams, plugins and the
shutdown order (planned); memory files, artifacts, connectors, the scheduler,
prompts, routes, CLI and GUI (I/O, parsing, formatting, wall-clock arithmetic).
