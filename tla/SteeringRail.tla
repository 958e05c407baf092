---------------------------- MODULE SteeringRail ----------------------------
(***************************************************************************)
(* How a message the user sends to a running workflow reaches the model:   *)
(* the bounded, closable inbox, the agentic loop that drains it between    *)
(* rounds, the session log that remembers it across a crash, the follow-up *)
(* rows an undelivered message becomes, and the lane's next turn, which    *)
(* shows those rows to the model.                                          *)
(*                                                                         *)
(* One workflow (one task id) over its life: a first run, and a resume     *)
(* after each crash.  Messages are told apart by their text; the follow-up *)
(* table keeps at most one row per (task, text).                           *)
(***************************************************************************)
EXTENDS Integers, Sequences, FiniteSets, Functions

CONSTANTS
    Msgs,         \* what the user may type, each at most once
    Note,         \* the daemon's own resume note
    Cap,          \* steering_inbox_cap
    MaxRounds,    \* the loop's max_rounds
    Bonus,        \* STEERING_ROUNDS_BONUS
    Retries,      \* MAX_LLM_RETRIES
    MaxPerTurn,   \* MAX_ROWS_PER_TURN
    MaxCrashes,   \* bound: crashes in a behaviour
    LogMayDrop    \* may the session log's channel be full?

ASSUME NoteAssumption == Note \notin Msgs
ASSUME RailAssumption ==
    /\ Cap \in Nat \ {0} /\ MaxRounds \in Nat \ {0} /\ Bonus \in Nat
    /\ Retries \in Nat /\ MaxPerTurn \in Nat \ {0} /\ MaxCrashes \in Nat
    /\ LogMayDrop \in BOOLEAN

VARIABLES
    pc,         \* push_steering, per message
    inbox,      \* SteeringInbox.queue
    closed,     \* SteeringInbox.closed
    pending,    \* drained into the history, not yet answered by the model
    batch,      \* drained, record not yet emitted
    leftovers,  \* taken by close_and_drain, not yet filed
    phase,      \* where the workflow's background task is
    rounds, bonus, errors,   \* the loop's counters
    logOpen,    \* is the task's session log registered?
    log,        \* the session log: what was accepted by its channel
    onDisk,     \* how much of it the writer has put on disk
    table,      \* lane_followups(kind = 'unprocessed_steering'), in id order
    row,        \* their status, "none" where there is no row
    turn,       \* the rows the lane's turn has listed and not yet claimed
    up,         \* is the daemon past its boot pass?
    crashes,
    arrivals,   \* history: accepted by this incarnation's inbox, in order
    got,        \* history: shown to the model by this incarnation's loop
    delivered,  \* history: ever shown to the model by a loop
    dropped,    \* history: steering records the channel refused
    shown       \* history: rendered by a turn as "NOT processed"

loopVars == <<pending, batch, rounds, bonus, errors, got, delivered>>
logVars  == <<logOpen, log, onDisk>>
rowVars  == <<table, row>>
turnVars == <<turn, shown>>
procVars == <<up, crashes>>
vars == <<pc, inbox, closed, leftovers, phase, loopVars, logVars, rowVars, turnVars,
          procVars, arrivals, dropped>>

All == Msgs \cup {Note}

InLoop  == {"top", "logRound", "calling", "answered", "logGuard"}
Running == {"booting"} \cup InLoop \cup {"exited", "filing", "finalizing"}
Over    == {"none", "finished", "interrupted"}

Pushed(m)  == [kind |-> "steering", ids |-> {m}]
Drained(s) == [kind |-> "steering_drained", ids |-> s]

\* The ids that records of one kind name, in the first n records of the log.
Named(kind, n) == UNION {log[i].ids : i \in {j \in 1..n : log[j].kind = kind}}

\* undrained_steering: membership, not position, decides.
Undrained(n) == Named("steering", n) \ Named("steering_drained", n)

InMemory == Range(inbox) \cup Range(pending) \cup Range(batch) \cup Range(leftovers)

Init ==
    /\ pc = [m \in Msgs |-> "idle"]
    /\ inbox = <<>> /\ closed = TRUE
    /\ pending = <<>> /\ batch = <<>> /\ leftovers = <<>>
    /\ phase = "none"
    /\ rounds = 0 /\ bonus = 0 /\ errors = 0
    /\ logOpen = FALSE /\ log = <<>> /\ onDisk = 0
    /\ table = <<>> /\ row = [m \in All |-> "none"]
    /\ turn = {}
    /\ up = TRUE /\ crashes = 0
    /\ arrivals = <<>> /\ got = <<>> /\ delivered = {} /\ dropped = {} /\ shown = {}

----------------------------------------------------------------------------
(* Producers: push_steering, from the HTTP route, the tool and the prefix. *)

\* SteeringInbox::push under the queue lock.
Push(m) ==
    /\ up
    /\ pc[m] = "idle"
    /\ ~closed
    /\ Len(inbox) < Cap
    /\ inbox' = Append(inbox, m)
    /\ arrivals' = Append(arrivals, m)
    /\ pc' = [pc EXCEPT ![m] = "pushed"]
    /\ UNCHANGED <<closed, leftovers, phase, loopVars, logVars, rowVars, turnVars, procVars,
                   dropped>>

\* Err(Closed) or Err(Full): the client is told.
PushRefused(m) ==
    /\ up
    /\ pc[m] = "idle"
    /\ closed \/ Len(inbox) >= Cap
    /\ pc' = [pc EXCEPT ![m] = "refused"]
    /\ UNCHANGED <<inbox, closed, leftovers, phase, loopVars, logVars, rowVars, turnVars,
                   procVars, arrivals, dropped>>

\* The `steering` record, when a log is registered for the task.
EmitPushed(m) ==
    /\ pc[m] = "pushed"
    /\ pc' = [pc EXCEPT ![m] = "acked"]
    /\ log' = IF logOpen THEN Append(log, Pushed(m)) ELSE log
    /\ UNCHANGED <<inbox, closed, leftovers, phase, loopVars, logOpen, onDisk, rowVars,
                   turnVars, procVars, arrivals, dropped>>

\* A full channel refuses it.
EmitDropped(m) ==
    /\ pc[m] = "pushed"
    /\ LogMayDrop
    /\ logOpen
    /\ pc' = [pc EXCEPT ![m] = "filing"]
    /\ dropped' = dropped \cup {m}
    /\ UNCHANGED <<inbox, closed, leftovers, phase, loopVars, logVars, rowVars, turnVars,
                   procVars, arrivals>>

\* queue_unprocessed_steering_once: INSERT ... WHERE NOT EXISTS.
File(m) ==
    IF row[m] = "none"
    THEN row' = [row EXCEPT ![m] = "queued"] /\ table' = Append(table, m)
    ELSE UNCHANGED rowVars

FileDropped(m) ==
    /\ pc[m] = "filing"
    /\ File(m)
    /\ pc' = [pc EXCEPT ![m] = "acked"]
    /\ UNCHANGED <<inbox, closed, leftovers, phase, loopVars, logVars, turnVars, procVars,
                   arrivals, dropped>>

----------------------------------------------------------------------------
(* The workflow's background task. *)

At(p) == up /\ phase = p

\* A dispatch registers an open inbox; a resume puts the daemon's note in it.
Spawn ==
    /\ up
    /\ phase \in {"none", "interrupted"}
    /\ inbox' = IF phase = "interrupted" THEN <<Note>> ELSE <<>>
    /\ arrivals' = inbox'
    /\ closed' = FALSE
    /\ phase' = "booting"
    /\ rounds' = 0 /\ bonus' = 0 /\ errors' = 0
    /\ UNCHANGED <<pc, pending, batch, got, delivered, leftovers, logVars, rowVars, turnVars,
                   procVars, dropped>>

\* register_task_session_log, after the task was already addressable.
OpenLog ==
    /\ At("booting")
    /\ logOpen' = TRUE
    /\ phase' = "top"
    /\ UNCHANGED <<pc, inbox, closed, leftovers, loopVars, log, onDisk, rowVars, turnVars,
                   procVars, arrivals, dropped>>

EffectiveMaxRounds ==
    IF MaxRounds + bonus <= 2 * MaxRounds THEN MaxRounds + bonus ELSE 2 * MaxRounds

\* Mutant of ReturnPending: push_back where push_front_all was.
ReturnBehind(queue, msgs) == queue \o msgs

\* return_pending_steering, then a return: push_front_all keeps the order.
ReturnPending(queue, msgs) == msgs \o queue

ExitLoop ==
    /\ inbox' = ReturnPending(inbox, pending)
    /\ pending' = <<>>
    /\ phase' = "exited"

\* Cancelled, over cost (either may happen at any time), or out of rounds.
ExitAtTop ==
    /\ At("top")
    /\ ExitLoop
    /\ UNCHANGED <<pc, closed, leftovers, batch, rounds, bonus, errors, got, delivered,
                   logVars, rowVars, turnVars, procVars, arrivals, dropped>>

\* Steering drain at the round boundary.
DrainRound ==
    /\ At("top")
    /\ rounds < EffectiveMaxRounds
    /\ batch' = inbox
    /\ inbox' = <<>>
    /\ bonus' = IF inbox = <<>> THEN bonus ELSE bonus + Bonus
    /\ phase' = IF inbox = <<>> THEN "calling" ELSE "logRound"
    /\ UNCHANGED <<pc, closed, leftovers, pending, rounds, errors, got, delivered, logVars,
                   rowVars, turnVars, procVars, arrivals, dropped>>

\* The `steering_drained` record (log_event ignores a refusal), then the
\* messages enter the history.
LogDrained ==
    /\ At("logRound") \/ At("logGuard")
    /\ \/ log' = Append(log, Drained(Range(batch)))
       \/ LogMayDrop /\ log' = log
    /\ pending' = pending \o batch
    /\ batch' = <<>>
    /\ phase' = IF phase = "logRound" THEN "calling" ELSE "top"
    /\ UNCHANGED <<pc, inbox, closed, leftovers, rounds, bonus, errors, got, delivered,
                   logOpen, onDisk, rowVars, turnVars, procVars, arrivals, dropped>>

\* The model answered: it has seen every pending message.
CallOk ==
    /\ At("calling")
    /\ errors' = 0
    /\ rounds' = rounds + 1
    /\ got' = got \o pending
    /\ delivered' = delivered \cup Range(pending)
    /\ pending' = <<>>
    /\ phase' = "answered"
    /\ UNCHANGED <<pc, inbox, closed, leftovers, batch, bonus, logVars, rowVars, turnVars,
                   procVars, arrivals, dropped>>

\* Mutant of CallRetry: a retry costs neither an error nor a round.
CallRetryFree ==
    /\ At("calling")
    /\ phase' = "top"
    /\ UNCHANGED <<pc, inbox, closed, leftovers, loopVars, logVars, rowVars, turnVars,
                   procVars, arrivals, dropped>>

\* A transient error is retried after a backoff, on the round budget.
CallRetry ==
    /\ At("calling")
    /\ errors < Retries
    /\ rounds < MaxRounds
    /\ errors' = errors + 1
    /\ rounds' = rounds + 1
    /\ phase' = "top"
    /\ UNCHANGED <<pc, inbox, closed, leftovers, pending, batch, bonus, got, delivered,
                   logVars, rowVars, turnVars, procVars, arrivals, dropped>>

\* Cancelled mid-call or mid-backoff, a fatal error, or retries exhausted.
CallExit ==
    /\ At("calling")
    /\ ExitLoop
    /\ UNCHANGED <<pc, closed, leftovers, batch, rounds, bonus, errors, got, delivered,
                   logVars, rowVars, turnVars, procVars, arrivals, dropped>>

\* Tools ran, or a truncated answer is continued: another round.
AnotherRound ==
    /\ At("answered")
    /\ phase' = "top"
    /\ UNCHANGED <<pc, inbox, closed, leftovers, loopVars, logVars, rowVars, turnVars, procVars,
                   arrivals, dropped>>

\* Cancelled among the tools, or truncated once too often: no guard runs.
ExitAfterAnswer ==
    /\ At("answered")
    /\ phase' = "exited"
    /\ UNCHANGED <<pc, inbox, closed, leftovers, loopVars, logVars, rowVars, turnVars, procVars,
                   arrivals, dropped>>

\* The steering completion guard: a message that arrived during the final
\* round earns another one; with none the answer stands.
CompletionGuard ==
    /\ At("answered")
    /\ batch' = inbox
    /\ inbox' = <<>>
    /\ bonus' = IF inbox = <<>> THEN bonus ELSE bonus + Bonus
    /\ phase' = IF inbox = <<>> THEN "exited" ELSE "logGuard"
    /\ UNCHANGED <<pc, closed, leftovers, pending, rounds, errors, got, delivered, logVars,
                   rowVars, turnVars, procVars, arrivals, dropped>>

\* Mutant of CloseAndDrain: a drain that leaves the inbox open.
DrainOnly ==
    /\ At("exited")
    /\ leftovers' = inbox
    /\ inbox' = <<>>
    /\ phase' = "filing"
    /\ UNCHANGED <<pc, closed, loopVars, logVars, rowVars, turnVars, procVars, arrivals,
                   dropped>>

\* close_and_drain under the queue lock.
CloseAndDrain ==
    /\ At("exited")
    /\ closed' = TRUE
    /\ leftovers' = inbox
    /\ inbox' = <<>>
    /\ phase' = "filing"
    /\ UNCHANGED <<pc, loopVars, logVars, rowVars, turnVars, procVars, arrivals, dropped>>

\* The daemon's own note is only logged; what the user typed is filed.
FileLeftover ==
    /\ At("filing")
    /\ leftovers # <<>>
    /\ IF Head(leftovers) = Note THEN UNCHANGED rowVars ELSE File(Head(leftovers))
    /\ leftovers' = Tail(leftovers)
    /\ UNCHANGED <<pc, inbox, closed, phase, loopVars, logVars, turnVars, procVars,
                   arrivals, dropped>>

\* remove_task_session_log ...
CloseLog ==
    /\ At("filing")
    /\ leftovers = <<>>
    /\ logOpen' = FALSE
    /\ phase' = "finalizing"
    /\ UNCHANGED <<pc, inbox, closed, leftovers, loopVars, log, onDisk, rowVars, turnVars,
                   procVars, arrivals, dropped>>

\* ... then finalize_task_with_outcome: the task row is terminal.
Finalize ==
    /\ At("finalizing")
    /\ phase' = "finished"
    /\ UNCHANGED <<pc, inbox, closed, leftovers, loopVars, logVars, rowVars, turnVars, procVars,
                   arrivals, dropped>>

----------------------------------------------------------------------------
(* The session log's writer, the lane's next turn, and the user's DELETE. *)

WriterStep ==
    /\ up
    /\ onDisk < Len(log)
    /\ onDisk' = onDisk + 1
    /\ UNCHANGED <<pc, inbox, closed, leftovers, phase, loopVars, logOpen, log, rowVars,
                   turnVars, procVars, arrivals, dropped>>

\* take_unprocessed_steering_block lists the oldest queued rows ...
QueuedRows == {i \in DOMAIN table : row[table[i]] = "queued"}

Oldest(n) == {i \in QueuedRows : Cardinality({j \in QueuedRows : j < i}) < n}

ListRows ==
    /\ up
    /\ turn = {}
    /\ QueuedRows # {}
    /\ turn' = {table[i] : i \in Oldest(MaxPerTurn)}
    /\ UNCHANGED <<pc, inbox, closed, leftovers, phase, loopVars, logVars, rowVars, shown,
                   procVars, arrivals, dropped>>

\* Mutant of ClaimRow: render what was listed, then mark it done.
RenderListed(m) ==
    /\ m \in turn
    /\ turn' = turn \ {m}
    /\ row' = [row EXCEPT ![m] = "done"]
    /\ shown' = shown \cup {m}
    /\ UNCHANGED <<table, pc, inbox, closed, leftovers, phase, loopVars, logVars, procVars,
                   arrivals, dropped>>

\* ... and claim_and_render takes each with a compare-and-set first.
ClaimRow(m) ==
    /\ m \in turn
    /\ turn' = turn \ {m}
    /\ row' = [row EXCEPT ![m] = IF @ = "queued" THEN "done" ELSE @]
    /\ shown' = IF row[m] = "queued" THEN shown \cup {m} ELSE shown
    /\ UNCHANGED <<table, pc, inbox, closed, leftovers, phase, loopVars, logVars, procVars,
                   arrivals, dropped>>

\* DELETE /v1/lanes/{lane}/followups/{id}: cancel_if_queued.
CancelRow(m) ==
    /\ up
    /\ row[m] = "queued"
    /\ row' = [row EXCEPT ![m] = "cancelled"]
    /\ UNCHANGED <<table, pc, inbox, closed, leftovers, phase, loopVars, logVars, turnVars,
                   procVars, arrivals, dropped>>

----------------------------------------------------------------------------
(* The process. *)

\* kill -9: memory is gone, and so is what the writer had not written.
Crash ==
    /\ up
    /\ crashes < MaxCrashes
    /\ crashes' = crashes + 1
    /\ up' = FALSE
    /\ pc' = [m \in Msgs |-> IF pc[m] \in {"pushed", "filing"} THEN "cut" ELSE pc[m]]
    /\ inbox' = <<>> /\ closed' = TRUE
    /\ pending' = <<>> /\ batch' = <<>> /\ leftovers' = <<>>
    /\ logOpen' = FALSE
    /\ log' = SubSeq(log, 1, onDisk)
    /\ turn' = {}
    /\ arrivals' = <<>> /\ got' = <<>>
    /\ UNCHANGED <<phase, rounds, bonus, errors, onDisk, rowVars, delivered, dropped, shown>>

\* recover_one, row by row; a crash in between only repeats it.
RecoverOne(m) ==
    /\ ~up
    /\ phase \in Running
    /\ m \in Undrained(Len(log))
    /\ row[m] = "none"
    /\ File(m)
    /\ UNCHANGED <<pc, inbox, closed, leftovers, phase, loopVars, logVars, turnVars,
                   procVars, arrivals, dropped>>

\* Mutant of Flip: the rows are flipped without waiting for the recovery.
FlipFirst ==
    /\ ~up
    /\ up' = TRUE
    /\ phase' = IF phase \in Running THEN "interrupted" ELSE phase
    /\ UNCHANGED <<pc, inbox, closed, leftovers, loopVars, logVars, rowVars, turnVars, crashes,
                   arrivals, dropped>>

\* interrupt_all_non_terminal, after the recovery, before any ingress.
Flip ==
    /\ ~up
    /\ phase \in Running => \A m \in Undrained(Len(log)) : row[m] # "none"
    /\ up' = TRUE
    /\ phase' = IF phase \in Running THEN "interrupted" ELSE phase
    /\ UNCHANGED <<pc, inbox, closed, leftovers, loopVars, logVars, rowVars, turnVars, crashes,
                   arrivals, dropped>>

----------------------------------------------------------------------------

Producer(m) == EmitPushed(m) \/ EmitDropped(m) \/ FileDropped(m)

Workflow ==
    \/ OpenLog \/ ExitAtTop \/ DrainRound \/ LogDrained
    \/ CallOk \/ CallRetry \/ CallExit
    \/ AnotherRound \/ ExitAfterAnswer \/ CompletionGuard
    \/ CloseAndDrain \/ FileLeftover \/ CloseLog \/ Finalize

Boot == (\E m \in All : RecoverOne(m)) \/ Flip

Next ==
    \/ \E m \in Msgs : Push(m) \/ PushRefused(m) \/ Producer(m)
    \/ Spawn
    \/ Workflow
    \/ WriterStep
    \/ ListRows
    \/ \E m \in All : ClaimRow(m) \/ CancelRow(m)
    \/ Crash
    \/ Boot

Spec == Init /\ [][Next]_vars
\* The runtime polls the workflow and the accepted requests to their next
\* await; a provider call ends, one way or another.
FairSpec == Spec /\ WF_vars(Workflow) /\ \A m \in Msgs : WF_vars(Producer(m))

----------------------------------------------------------------------------
(* Properties. *)

\* Types of the whole state.
TypeOK ==
    /\ pc \in [Msgs -> {"idle", "pushed", "filing", "acked", "refused", "cut"}]
    /\ {Range(q) : q \in {inbox, pending, batch, leftovers, table, arrivals, got}}
          \subseteq SUBSET All
    /\ closed \in BOOLEAN /\ logOpen \in BOOLEAN /\ up \in BOOLEAN
    /\ phase \in Running \cup Over
    /\ rounds \in Nat /\ bonus \in Nat /\ errors \in 0..Retries
    /\ onDisk \in 0..Len(log) /\ crashes \in 0..MaxCrashes
    /\ \A i \in DOMAIN log : log[i].kind \in {"steering", "steering_drained"}
                             /\ log[i].ids \subseteq All
    /\ row \in [All -> {"none", "queued", "done", "cancelled"}]
    /\ turn \subseteq All /\ shown \subseteq All /\ delivered \subseteq All
    /\ dropped \subseteq Msgs

\* The model sees interjections in the order the inbox accepted them, also
\* when a failed call's batch went back to the front of the queue
\* (drain_all, push_front_all).
FifoOrder ==
    phase \in {"booting", "exited"} \cup InLoop /\ up
       => got \o pending \o batch \o inbox = arrivals

\* While the daemon lives no accepted interjection disappears: it is in the
\* hands of a workflow that is not over, shown to the model, or filed --
\* whatever way the loop ends and whenever the push landed (the inbox's
\* concurrency contract).
Accounted ==
    up => \A m \in Range(arrivals) \ {Note} :
              \/ phase \in Running /\ m \in InMemory
              \/ m \in Range(got)
              \/ row[m] # "none"

\* What the model was shown is not filed as undelivered by the same run,
\* except through the dropped-record fallback.
ConsumedNotFiled == \A m \in Range(got) \ {Note} : row[m] # "none" => m \in dropped

\* The daemon's own resume note never becomes something the user said.
NoteNeverFiled == row[Note] = "none"

\* The inbox's contract as a whole: an interjection is in exactly the place its
\* history says.  While the daemon lives it is not lost, the one the model saw
\* is not filed as unheard, and nothing is filed that no user said
\* (push, close_and_drain, file_unprocessed_steering).
OnePlace == TypeOK /\ Accounted /\ ConsumedNotFiled /\ NoteNeverFiled

\* A row the user was told is cancelled stays so and is never rendered
\* (claim_and_render against cancel_if_queued).
CancelStands ==
    [][\A m \in All : row[m] = "cancelled" =>
          row'[m] = "cancelled" /\ (m \in shown' => m \in shown)]_vars

\* Once the boot pass is over, an interjection that the crashed run's log
\* still names as undrained is filed, unless a model did see it.
CrashRecovered ==
    up => \A m \in Undrained(onDisk) :
              m \in InMemory \cup delivered \/ row[m] # "none"

\* An acknowledged interjection ends up in front of a model or in the
\* follow-up table.
Settles ==
    \A m \in Msgs : pc[m] = "acked" ~> (m \in delivered \/ row[m] # "none")

\* "Written on every accepted push": once the writer has caught up, a push that
\* was acknowledged has its `steering` record or, failing that, a filed row.
EveryPushRecorded ==
    up /\ onDisk = Len(log) /\ phase \in Running => \A m \in Msgs \cap Range(arrivals) :
        pc[m] = "acked" => m \in Named("steering", onDisk) \/ row[m] # "none"

\* "A kill -9 no longer silently eats what the user typed": an interjection
\* whose record was on disk survives a crash -- a model saw it, or it is filed.
NothingEaten ==
    up /\ phase \in Over => \A m \in Named("steering", onDisk) :
        m \in delivered \/ row[m] # "none"

\* "A drain can only follow its own push", in the order of the log.
DrainFollowsPush ==
    \A i, j \in DOMAIN log : \A m \in Msgs :
        log[i] = Pushed(m) /\ log[j].kind = "steering_drained" /\ m \in log[j].ids
            => i < j

\* "They were NOT processed": what a turn renders was never shown to a model.
NotProcessedIsTrue == shown \cap delivered = {}
============================================================================
