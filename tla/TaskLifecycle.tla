--------------------------- MODULE TaskLifecycle ---------------------------
(***************************************************************************)
(* The life of a task id in the OpenAlpaca daemon: the `task` row in       *)
(* SQLite, the in-memory TaskRegistry entry, the cancellation token that   *)
(* doubles as the id's run slot, the lead-agent run that a launch starts,  *)
(* and the client requests that launch, pause, resume and cancel it.       *)
(*                                                                         *)
(* Every action is one step of one thread: a request handler or a run      *)
(* yields to the others between two touches of shared state, because no    *)
(* lock spans the row, the registry and the token map.  Rows survive a     *)
(* crash; everything else is process memory.                               *)
(***************************************************************************)
EXTENDS Integers

CONSTANTS
    Tasks,               \* the pool of task ids
    NoTask,              \* a non-id
    Callers,             \* request handlers that may be in flight at once
    MaxRuns,             \* bound: launches in a behaviour
    AddressesInDispatch  \* may a client name an id whose first dispatch has
                         \* not returned (its row is already listed)?

ASSUME TaskAssumption == NoTask \notin Tasks
ASSUME BoundAssumption == MaxRuns \in Nat
ASSUME AddressAssumption == AddressesInDispatch \in BOOLEAN

VARIABLES
    row,       \* task rows: status, and whose result and outcome they hold
    reg,       \* TaskRegistry: each entry's status
    tok,       \* cancellation_tokens: the id's token, 0 when the slot is free
    fired,     \* the tokens that have been cancelled
    activeWf,  \* active_workflows_by_lane, for the one lane modelled
    run,       \* the background task of each launch
    call,      \* the request handlers in flight
    router,    \* does this incarnation have an LLM router?
    up,        \* is the daemon past its boot sweep?
    nextRun,   \* launch numbers; a launch mints at most one token, named after it
    owner,     \* history: the launch that last wrote the row live
    stopped    \* history: the ids a cancel was answered Ok for

memory == <<reg, tok, activeWf, run, call>>
vars == <<row, memory, fired, router, up, nextRun, owner, stopped>>

Runs == 1..MaxRuns

NoResult  == 0    \* the column IS NULL
SweepNote == -1   \* the boot sweep's "interrupted -- the daemon restarted"

Live     == {"queued", "running", "paused"}
Terminal == {"completed", "failed", "cancelled", "interrupted"}
Status   == Live \cup Terminal

LoopPhases == {"spawned", "marking", "entering", "looping"}
TailPhases == {"setOutcome", "setReg", "setRow", "setResult", "release"}
Phases     == {"free", "done"} \cup LoopPhases \cup TailPhases
Dispatching == {"dispatch", "persist", "spawn"}
Launching   == {"claim"} \cup Dispatching
Controlling == {"fire", "writeRow", "writeReg"}
Modes       == {"create", "relaunch", "resume"}
Controls    == {"cancelled", "paused", "running"}   \* the status a control writes

NoRun  == [phase |-> "free", task |-> NoTask, tok |-> 0, ok |-> FALSE]
DoneRun == [phase |-> "done", task |-> NoTask, tok |-> 0, ok |-> FALSE]
NoCall == [pc |-> "idle", task |-> NoTask, mode |-> "create", run |-> 0]

IsLive(r)     == run[r].phase \in LoopPhases \cup TailPhases
Attached(r)   == run[r].phase \in LoopPhases
HoldsClaim(c) == call[c].pc \in Dispatching /\ call[c].mode # "create"

\* The status a control verb sees: the registry's, else the row's.
Resolved(t) == IF reg[t] # "none" THEN reg[t] ELSE row[t].status

\* A uuid nobody has seen yet.
FreshId(t) == /\ row[t].status = "none"
              /\ reg[t] = "none"
              /\ \A c \in Callers : call[c].task # t

\* Whether clients can name t already.
Addressable(t) ==
    AddressesInDispatch \/ \A c \in Callers : call[c].task = t => call[c].mode # "create"

Idle(c)  == up /\ call[c].pc = "idle"
Return(c) == call' = [call EXCEPT ![c] = NoCall]
Goto(c, l) == call' = [call EXCEPT ![c].pc = l]

Init ==
    /\ row  = [t \in Tasks |-> [status |-> "none", result |-> NoResult,
                                outcome |-> NoResult]]
    /\ reg  = [t \in Tasks |-> "none"]
    /\ tok  = [t \in Tasks |-> 0]
    /\ fired = {}
    /\ activeWf = {}
    /\ run  = [r \in Runs |-> NoRun]
    /\ call = [c \in Callers |-> NoCall]
    /\ router \in BOOLEAN
    /\ up = TRUE
    /\ nextRun = 1
    /\ owner = [t \in Tasks |-> 0]
    /\ stopped = {}

----------------------------------------------------------------------------
(* Launch requests. *)

\* POST /v1/tasks parks a queued row and registers it; nothing runs.
CreateTask(c, t) ==
    /\ Idle(c)
    /\ FreshId(t)
    /\ row' = [row EXCEPT ![t].status = "queued"]
    /\ reg' = [reg EXCEPT ![t] = "queued"]
    /\ UNCHANGED <<tok, fired, activeWf, run, call, router, up, nextRun,
                   owner, stopped>>

\* Every launch that reaches the dispatcher gets a number of its own.
EnterDispatch(c, t, mode) ==
    /\ nextRun <= MaxRuns
    /\ call' = [call EXCEPT ![c] = [pc |-> "dispatch", task |-> t, mode |-> mode,
                                    run |-> nextRun]]
    /\ nextRun' = nextRun + 1

\* A chat turn, or the rerun of a finished run's goal, starts a workflow under
\* a fresh id, without a claim.  What rerun_task reads of its source, the goal
\* and that it has ended, decides nothing about the new id.
DispatchNew(c, t) ==
    /\ Idle(c)
    /\ FreshId(t)
    /\ EnterDispatch(c, t, "create")
    /\ UNCHANGED <<row, reg, tok, fired, activeWf, run, router, up,
                   owner, stopped>>

\* start, first half: the row is read and must not have finished (R43).
StartTask(c, t) ==
    /\ Idle(c)
    /\ Addressable(t)
    /\ row[t].status \in Live
    /\ call' = [call EXCEPT ![c] = [pc |-> "claim", task |-> t, mode |-> "relaunch",
                                    run |-> 0]]
    /\ UNCHANGED <<row, reg, tok, fired, activeWf, run, router, up, nextRun, owner, stopped>>

\* resume, first half: the word un-pauses a paused run; otherwise the row must
\* be interrupted, and the replay is rebuilt on a blocking thread before the
\* claim.
ResumeTask(c, t) ==
    /\ Idle(c)
    /\ Addressable(t)
    /\ Resolved(t) # "paused"
    /\ row[t].status = "interrupted"
    /\ call' = [call EXCEPT ![c] = [pc |-> "claim", task |-> t, mode |-> "resume",
                                    run |-> 0]]
    /\ UNCHANGED <<row, reg, tok, fired, activeWf, run, router, up, nextRun, owner, stopped>>

\* The rebuilt history holds no complete round: refused before the claim.
ResumeLogMissing(c) ==
    /\ call[c].pc = "claim"
    /\ call[c].mode = "resume"
    /\ Return(c)
    /\ UNCHANGED <<row, reg, tok, fired, activeWf, run, router, up, nextRun, owner, stopped>>

\* Mutant of ClaimRunSlot: an insert where the compare-and-set was.
ClaimUnconditionally(c) ==
    LET t == call[c].task IN
    /\ call[c].pc = "claim"
    /\ tok' = [tok EXCEPT ![t] = nextRun]
    /\ EnterDispatch(c, t, call[c].mode)
    /\ UNCHANGED <<row, reg, fired, activeWf, run, router, up, owner, stopped>>

\* claim_run_slot: a compare-and-set on the token map.
ClaimRunSlot(c) ==
    LET t == call[c].task IN
    /\ call[c].pc = "claim"
    /\ tok[t] = 0
    /\ tok' = [tok EXCEPT ![t] = nextRun]
    /\ EnterDispatch(c, t, call[c].mode)
    /\ UNCHANGED <<row, reg, fired, activeWf, run, router, up, owner, stopped>>

AlreadyRunning(c) ==
    /\ call[c].pc = "claim"
    /\ tok[call[c].task] # 0
    /\ Return(c)
    /\ UNCHANGED <<row, reg, tok, fired, activeWf, run, router, up, nextRun, owner, stopped>>

\* remove_cancellation_token: takes whatever token the id has.
RemoveToken(t) == tok' = [tok EXCEPT ![t] = 0]

\* Mutant of DispatchFails: the early return keeps the claim.
DispatchFailsHolding(c) ==
    /\ call[c].pc = "dispatch"
    /\ Return(c)
    /\ UNCHANGED <<row, reg, tok, fired, activeWf, run, router, up, nextRun,
                   owner, stopped>>

\* No agent template was free to lead the run: a claim is given back.
DispatchFails(c) ==
    /\ call[c].pc = "dispatch"
    /\ IF HoldsClaim(c) THEN RemoveToken(call[c].task) ELSE UNCHANGED tok
    /\ Return(c)
    /\ UNCHANGED <<row, reg, fired, activeWf, run, router, up, nextRun,
                   owner, stopped>>

\* TaskRegistry::register leaves an entry that is already there alone.
DispatchRegister(c) ==
    LET t == call[c].task IN
    /\ call[c].pc = "dispatch"
    /\ reg' = [reg EXCEPT ![t] = IF @ = "none" THEN "queued" ELSE @]
    /\ Goto(c, "persist")
    /\ UNCHANGED <<row, tok, fired, activeWf, run, router, up, nextRun,
                   owner, stopped>>

\* create inserts; a start resets the row it finds (RELAUNCH_ON_CONFLICT); a
\* resume keeps what the last attempt accumulated (RESUME_ON_CONFLICT).
QueuedRow(old, mode) ==
    [status |-> "queued", result |-> NoResult,
     outcome |-> IF mode = "resume" THEN old.outcome ELSE NoResult]

DispatchPersist(c) ==
    LET t == call[c].task IN
    /\ call[c].pc = "persist"
    /\ row' = [row EXCEPT ![t] = QueuedRow(@, call[c].mode)]
    /\ owner' = [owner EXCEPT ![t] = call[c].run]
    /\ Goto(c, "spawn")
    /\ UNCHANGED <<reg, tok, fired, activeWf, run, router, up, nextRun,
                   stopped>>

\* run_cancellation_token: the token a claim installed, or a fresh one.
RunToken(c) ==
    IF tok[call[c].task] # 0 THEN tok[call[c].task] ELSE call[c].run

\* One step for the token, the lane entry and the spawn: nothing blocks between
\* them, and a cancel that lands there fires the token the run is about to get.
SpawnRun(c) ==
    LET t == call[c].task IN
    /\ call[c].pc = "spawn"
    /\ router
    /\ tok' = [tok EXCEPT ![t] = RunToken(c)]
    /\ activeWf' = activeWf \cup {t}
    /\ run' = [run EXCEPT ![call[c].run] =
                  [phase |-> "spawned", task |-> t, tok |-> RunToken(c), ok |-> FALSE]]
    /\ Return(c)
    /\ UNCHANGED <<row, reg, fired, router, up, nextRun, owner, stopped>>

\* require_router: without one the launch fails on the spot and frees the slot.
\* Its writes are one step: a control call writes the row before the registry,
\* the opposite order, so each of its writes falls before or after the pair.
SpawnWithoutRouter(c) ==
    LET t == call[c].task IN
    /\ call[c].pc = "spawn"
    /\ ~router
    /\ reg' = [reg EXCEPT ![t] = IF @ = "none" THEN @ ELSE "failed"]
    /\ row' = [row EXCEPT ![t].status = "failed"]
    /\ RemoveToken(t)
    /\ Return(c)
    /\ UNCHANGED <<fired, activeWf, run, router, up, nextRun, owner, stopped>>

----------------------------------------------------------------------------
(* The background task of a launch. *)

\* TaskRegistry::update_status, a no-op without an entry.
RegUpdate(t, s) == reg' = [reg EXCEPT ![t] = IF @ = "none" THEN @ ELSE s]

\* TaskRepository::update_status: unconditional, a no-op without a row.
RowUpdate(t, s) ==
    row' = [row EXCEPT ![t].status = IF @ = "none" THEN @ ELSE s]

RunGoto(r, p) == run' = [run EXCEPT ![r].phase = p]

MarkRegistryRunning(r) ==
    /\ run[r].phase = "spawned"
    /\ RegUpdate(run[r].task, "running")
    /\ RunGoto(r, "marking")
    /\ UNCHANGED <<row, tok, fired, activeWf, call, router, up, nextRun,
                   owner, stopped>>

MarkRowRunning(r) ==
    /\ run[r].phase = "marking"
    /\ RowUpdate(run[r].task, "running")
    /\ RunGoto(r, "entering")
    /\ UNCHANGED <<reg, tok, fired, activeWf, call, router, up, nextRun,
                   owner, stopped>>

\* The loop's first cancellation check.
EnterLoop(r) ==
    /\ run[r].phase = "entering"
    /\ run[r].tok \notin fired
    /\ RunGoto(r, "looping")
    /\ UNCHANGED <<row, reg, tok, fired, activeWf, call, router, up, nextRun, owner, stopped>>

\* Mutant of Detach: the token goes as soon as the loop returns.
DetachReleasing(r, ok) ==
    /\ run' = [run EXCEPT ![r] = [@ EXCEPT !.phase = "setOutcome", !.ok = ok]]
    /\ activeWf' = activeWf \ {run[r].task}
    /\ RemoveToken(run[r].task)
    /\ UNCHANGED <<row, reg, fired, call, router, up, nextRun, owner, stopped>>

\* Mutant of Detach: the lane's index keeps a run that has returned.
DetachListed(r, ok) ==
    /\ run' = [run EXCEPT ![r] = [@ EXCEPT !.phase = "setOutcome", !.ok = ok]]
    /\ UNCHANGED <<row, reg, tok, fired, activeWf, call, router, up, nextRun,
                   owner, stopped>>

\* run_lead_agent returns; the run leaves the lane before anything is written.
Detach(r, ok) ==
    /\ run' = [run EXCEPT ![r] = [@ EXCEPT !.phase = "setOutcome", !.ok = ok]]
    /\ activeWf' = activeWf \ {run[r].task}
    /\ UNCHANGED <<row, reg, tok, fired, call, router, up, nextRun,
                   owner, stopped>>

LoopCancelled(r) ==
    /\ run[r].phase \in {"entering", "looping"}
    /\ run[r].tok \in fired
    /\ Detach(r, FALSE)

LoopReturns(r) ==
    /\ run[r].phase = "looping"
    /\ \E ok \in BOOLEAN : Detach(r, ok)

\* Mutant of Verdict: a follow-up's status word on a task row.
VerdictDone(r) == IF run[r].ok THEN "done" ELSE "failed"

\* finalize_task_with_outcome: outcome, registry, status, summary, one by one.
Verdict(r) == IF run[r].ok THEN "completed" ELSE "failed"

SetOutcome(r) ==
    /\ run[r].phase = "setOutcome"
    /\ row' = [row EXCEPT ![run[r].task].outcome = r]
    /\ RunGoto(r, "setReg")
    /\ UNCHANGED <<reg, tok, fired, activeWf, call, router, up, nextRun,
                   owner, stopped>>

FinalizeRegistry(r) ==
    /\ run[r].phase = "setReg"
    /\ RegUpdate(run[r].task, Verdict(r))
    /\ RunGoto(r, "setRow")
    /\ UNCHANGED <<row, tok, fired, activeWf, call, router, up, nextRun,
                   owner, stopped>>

FinalizeRow(r) ==
    /\ run[r].phase = "setRow"
    /\ RowUpdate(run[r].task, Verdict(r))
    /\ RunGoto(r, "setResult")
    /\ UNCHANGED <<reg, tok, fired, activeWf, call, router, up, nextRun,
                   owner, stopped>>

SetResult(r) ==
    /\ run[r].phase = "setResult"
    /\ row' = [row EXCEPT ![run[r].task].result = r]
    /\ RunGoto(r, "release")
    /\ UNCHANGED <<reg, tok, fired, activeWf, call, router, up, nextRun,
                   owner, stopped>>

\* The slot is freed only after finalisation (R45).
Release(r) ==
    /\ run[r].phase = "release"
    /\ RemoveToken(run[r].task)
    /\ run' = [run EXCEPT ![r] = DoneRun]
    /\ UNCHANGED <<row, reg, fired, activeWf, call, router, up, nextRun,
                   owner, stopped>>

----------------------------------------------------------------------------
(* cancel, pause and resume: apply_task_action checks once, then writes. *)

ControlFrom(new) == CASE new = "cancelled" -> Live
                      [] new = "paused"    -> {"running"}
                      [] new = "running"   -> {"paused"}

ApplyTaskAction(c, t, new) ==
    /\ Idle(c)
    /\ Addressable(t)
    /\ Resolved(t) \in ControlFrom(new)
    /\ call' = [call EXCEPT ![c] =
                   [pc |-> IF new = "cancelled" THEN "fire" ELSE "writeRow",
                    task |-> t, mode |-> new, run |-> 0]]
    /\ UNCHANGED <<row, reg, tok, fired, activeWf, run, router, up, nextRun, owner, stopped>>

\* cancel_task: fires the id's token if there is one.
FireToken(c) ==
    /\ call[c].pc = "fire"
    /\ fired' = fired \cup ({tok[call[c].task]} \ {0})
    /\ Goto(c, "writeRow")
    /\ UNCHANGED <<row, reg, tok, activeWf, run, router, up, nextRun,
                   owner, stopped>>

ControlWriteRow(c) ==
    /\ call[c].pc = "writeRow"
    /\ RowUpdate(call[c].task, call[c].mode)
    /\ Goto(c, "writeReg")
    /\ UNCHANGED <<reg, tok, fired, activeWf, run, router, up, nextRun,
                   owner, stopped>>

ControlWriteRegistry(c) ==
    /\ call[c].pc = "writeReg"
    /\ RegUpdate(call[c].task, call[c].mode)
    /\ Return(c)
    /\ stopped' = IF call[c].mode = "cancelled" THEN stopped \cup {call[c].task}
                                                ELSE stopped
    /\ UNCHANGED <<row, tok, fired, activeWf, run, router, up, nextRun,
                   owner>>

----------------------------------------------------------------------------
(* The process. *)

\* kill -9: what is in memory is gone, mid-step.
Crash ==
    /\ up
    /\ up' = FALSE
    /\ reg' = [t \in Tasks |-> "none"]
    /\ tok' = [t \in Tasks |-> 0]
    /\ activeWf' = {}
    /\ run' = [r \in Runs |-> IF run[r].phase = "free" THEN NoRun ELSE DoneRun]
    /\ call' = [c \in Callers |-> NoCall]
    /\ UNCHANGED <<row, fired, router, nextRun, owner, stopped>>

\* Mutant of Interrupt: a status list that forgot `paused`.
InterruptUnpaused(old) ==
    IF old.status \in Live \ {"paused"}
    THEN [old EXCEPT !.status = "interrupted",
                     !.result = IF @ = NoResult THEN SweepNote ELSE @]
    ELSE old

\* interrupt_all_non_terminal, before any ingress is open.
Interrupt(old) ==
    IF old.status \in Live
    THEN [old EXCEPT !.status = "interrupted",
                     !.result = IF @ = NoResult THEN SweepNote ELSE @]
    ELSE old

BootSweep ==
    /\ ~up
    /\ up' = TRUE
    /\ router' \in BOOLEAN
    /\ row' = [t \in Tasks |-> Interrupt(row[t])]
    /\ UNCHANGED <<memory, fired, nextRun, owner, stopped>>

----------------------------------------------------------------------------

Request(c) ==
    \E t \in Tasks :
        \/ CreateTask(c, t)
        \/ DispatchNew(c, t)
        \/ StartTask(c, t)
        \/ ResumeTask(c, t)
        \/ \E new \in Controls : ApplyTaskAction(c, t, new)

HandlerStep(c) ==
    \/ ResumeLogMissing(c)
    \/ ClaimRunSlot(c)
    \/ AlreadyRunning(c)
    \/ DispatchFails(c)
    \/ DispatchRegister(c)
    \/ DispatchPersist(c)
    \/ SpawnRun(c)
    \/ SpawnWithoutRouter(c)
    \/ FireToken(c)
    \/ ControlWriteRow(c)
    \/ ControlWriteRegistry(c)

RunStep(r) ==
    \/ MarkRegistryRunning(r)
    \/ MarkRowRunning(r)
    \/ EnterLoop(r)
    \/ LoopCancelled(r)
    \/ LoopReturns(r)
    \/ SetOutcome(r)
    \/ FinalizeRegistry(r)
    \/ FinalizeRow(r)
    \/ SetResult(r)
    \/ Release(r)

Next ==
    \/ \E c \in Callers : Request(c) \/ HandlerStep(c)
    \/ \E r \in Runs : RunStep(r)
    \/ Crash
    \/ BootSweep

Spec == Init /\ [][Next]_vars

\* The runtime keeps polling a spawned task and an accepted request, and the
\* loop returns: rounds, cost and every provider call are bounded.
Fairness ==
    /\ \A c \in Callers : WF_vars(HandlerStep(c))
    /\ \A r \in Runs : WF_vars(RunStep(r))

FairSpec == Spec /\ Fairness

----------------------------------------------------------------------------
(* Properties. *)

RowType == [status : Status \cup {"none"}, result : -1..MaxRuns, outcome : 0..MaxRuns]
RunType == [phase : Phases, task : Tasks \cup {NoTask}, tok : 0..MaxRuns, ok : BOOLEAN]
CallType == [pc : {"idle"} \cup Launching \cup Controlling, task : Tasks \cup {NoTask},
             mode : Modes \cup Controls, run : 0..MaxRuns]

\* Types of the whole state.
TypeOK ==
    /\ row \in [Tasks -> RowType]
    /\ reg \in [Tasks -> Status \cup {"none"}]
    /\ tok \in [Tasks -> 0..MaxRuns]
    /\ fired \subseteq Runs
    /\ activeWf \subseteq Tasks
    /\ run \in [Runs -> RunType]
    /\ call \in [Callers -> CallType]
    /\ router \in BOOLEAN
    /\ up \in BOOLEAN
    /\ nextRun \in 1..(MaxRuns + 1)
    /\ owner \in [Tasks -> 0..MaxRuns]
    /\ stopped \subseteq Tasks

\* Two lead agents never work on one task id at the same time: the token map
\* is the lock, from the claim through finalisation (claim_run_slot).
OneRunPerId ==
    \A r, s \in Runs :
        IsLive(r) /\ IsLive(s) /\ run[r].task = run[s].task => r = s

\* The token in the map is the one the id's run watches, and it stays there
\* until the run's last write: a cancel finds it, and a second launch is
\* refused by it.
SlotHeld ==
    /\ \A r \in Runs : IsLive(r) => tok[run[r].task] = run[r].tok
    /\ \A c \in Callers : HoldsClaim(c) => tok[call[c].task] = call[c].run

\* A finishing run's summary never lands on a row another launch now owns
\* (R45, finalize_task against upsert_queued).
ResultIsOwn == \A t \in Tasks : row[t].result > 0 => row[t].result = owner[t]

\* The lane lists an id exactly while a run of it is attached: an old run's
\* detach never removes what a newer run of the id registered.
LaneIndexExact ==
    \A t \in Tasks : t \in activeWf <=> \E r \in Runs : Attached(r) /\ run[r].task = t

\* Once the boot sweep is past, a row this incarnation did not register is
\* terminal: no `running` row is left behind by a crash at any step.
NoOrphanRow ==
    up => \A t \in Tasks : reg[t] = "none" => row[t].status \notin Live

\* A launch resets a row only when no run is live on it (upsert_queued's
\* "the caller in front of this refuses a live run").
RelaunchNeedsIdle ==
    [][\A t \in Tasks :
          owner'[t] # owner[t] => \A r \in Runs : IsLive(r) => run[r].task # t]_vars

\* Every claimed slot is given back, whichever way the launch ends: refused
\* dispatch, missing router, cancelled, failed or finished run, crash.
SlotFreed == \A t \in Tasks : tok[t] # 0 ~> tok[t] = 0

\* `start` re-launches only a row that never finished (R43): it never resets a
\* row that holds a run's result.
StartKeepsResult ==
    [][\A c \in Callers :
          call[c].pc = "persist" /\ call'[c].pc = "spawn" /\ call[c].mode = "relaunch"
             => row[call[c].task].result = NoResult]_vars

\* When a run gives its slot back the row is terminal, so that the next start
\* is refused (R45's reason for releasing last).
ReleasedRowIsTerminal ==
    [][\A r \in Runs :
          run[r].phase = "release" /\ run'[r].phase = "done" /\ up'
             => row[run[r].task].status \in Terminal]_vars

\* Once a cancel was answered Ok, no run of that id works in its loop under a
\* token that was never fired (apply_task_action's contract).
CancelHonoured ==
    \A r \in Runs :
        run[r].phase = "looping" /\ run[r].task \in stopped => run[r].tok \in fired
============================================================================
