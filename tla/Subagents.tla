---------------------------- MODULE Subagents ----------------------------
(***************************************************************************)
(* The subagents of one lead run.  `spawn_subagent` opens a lane (a span   *)
(* row, a log record, a tracker entry) and hands the work to a task that   *)
(* waits for one of the run's slots, runs its loop, and closes the lane.   *)
(* The lead waits for its subagents, looks at one, is steered, cancelled   *)
(* or done; at its end it stops whoever is left and reports who that was.  *)
(* The daemon may stop or die, and a resumed run rebuilds the tracker from *)
(* the log.                                                                *)
(*                                                                         *)
(* One step is one hold of the tracker's, the registry's or SQLite's lock. *)
(* `spawn_subagent` has no await, and nothing sees its parts before the    *)
(* task exists, so it is one step.  Answers are named by their spawn.      *)
(***************************************************************************)
EXTENDS Integers, FiniteSets, Functions

CONSTANTS
    Spawns,              \* calls of spawn_subagent
    Ids,                 \* run ids; a singleton template's spawns share one
    RunId,               \* the run id a spawn gets
    Plugin,              \* spawns whose template is a plugin's
    Stuck,               \* spawns that may sit in a synchronous call
    Slots,               \* max_concurrent_subagents
    MaxAsks,             \* bound: interjections, calls of check_subagent_status
    MaxCrashes           \* bound: stops and deaths of the daemon

ASSUME SpawnsAssumption ==
    /\ RunId \in [Spawns -> Ids]
    /\ Plugin \subseteq Spawns /\ Stuck \subseteq Spawns
ASSUME BoundsAssumption ==
    /\ Slots \in Nat \ {0} /\ MaxAsks \in Nat /\ MaxCrashes \in Nat

VARIABLES
    pc,        \* each subagent's task
    out,       \* how its loop ended
    span,      \* subagent_span rows: state and detail
    log,       \* session log: each lane's subagent_open and subagent_close records
    entry,     \* SubagentTracker::statuses, and the spawn an entry speaks of
    reported,  \* SubagentTracker::reported
    lead,      \* the lead's loop, its tool call, its end
    woken,     \* the wait's Notified has fired since it was enabled
    late,      \* the wait's deadline has passed
    runTok,    \* the run's own token, which /cancel fires
    subsTok,   \* subagents_token
    inbox,     \* interjections not yet drained
    asks, crashes,
    shown,     \* history: spawns whose answer was in a tool's output
    raced,     \* history: ids marked by a check that did not show their answer
    left,      \* history: spawns unfinished when the lead's loop returned
    listed     \* the lanes the run's report names as stopped

vars == <<pc, out, span, log, entry, reported, lead, woken, late, runTok, subsTok,
          inbox, asks, crashes, shown, raced, left, listed>>

task == <<pc, out, span, log>>
hist == <<shown, raced, left, listed>>
ends == <<runTok, subsTok, crashes>>
user == <<inbox, asks>>

NoEntry == [st |-> "none", of |-> <<>>]
NoSpan  == [state |-> "none", detail |-> "none"]

Init ==
    /\ pc = [s \in Spawns |-> "none"]
    /\ out = [s \in Spawns |-> "none"]
    /\ span = [s \in Spawns |-> NoSpan]
    /\ log = [s \in Spawns |-> {}]
    /\ entry = [i \in Ids |-> NoEntry]
    /\ reported = {}
    /\ lead = [at |-> "round", id |-> "none", saw |-> <<>>]
    /\ woken = FALSE /\ late = FALSE
    /\ runTok = FALSE /\ subsTok = FALSE
    /\ inbox = 0 /\ asks = 0 /\ crashes = 0
    /\ shown = {} /\ raced = {} /\ left = {} /\ listed = {}

----------------------------------------------------------------------------
(* The tracker and the lane. *)

Finished(i)   == entry[i].st \in {"completed", "failed"}
Unfinished(i) == entry[i].st \in {"queued", "running"}
AllDone       == \A i \in Ids : ~Unfinished(i)

\* Every change of a status wakes a wait that listens (notify_waiters keeps no
\* permit for one that does not yet); `register` wakes nobody.
SetEntry(s, st) ==
    /\ entry' = [entry EXCEPT ![RunId[s]] = [st |-> st, of |-> <<s>>]]
    /\ woken' = (lead.at \in {"check", "select", "sleep"})

Cancelled == runTok \/ subsTok

\* SubagentLane::cancel_detail.
CancelDetail == IF runTok THEN "cancelled" ELSE IF subsTok THEN "run ended" ELSE "daemon stop"

\* SubagentSpanRepository::close: the first close wins.
ClosedSpan(s, state, detail) ==
    IF span[s].state = "running"
    THEN [span EXCEPT ![s] = [state |-> state, detail |-> detail]] ELSE span

\* plugin_span_state asks the token, span_state_for the finish reason.
SpanState(s) == IF s \in Plugin /\ out[s] = "failed" /\ Cancelled THEN "cancelled" ELSE out[s]
Detail(s)    == IF SpanState(s) = "cancelled" THEN CancelDetail ELSE "none"

\* A singleton's instance is busy until its guard is restored.
Busy(i) ==
    \E s \in Spawns :
        /\ RunId[s] = i
        /\ \/ pc[s] \in {"queued", "permit", "running", "unstarted"}
           \/ out[s] = "unstarted" /\ pc[s] \in {"close", "narrate"}

Holders ==
    {s \in Spawns : \/ pc[s] \in {"permit", "running", "settle"}
                    \/ pc[s] \in {"close", "narrate"} /\ out[s] # "unstarted"}

Tasks == {s \in Spawns : pc[s] \notin {"none", "gone"}}

LeadAt(w) == lead.at = w
Goto(w) == lead' = [lead EXCEPT !.at = w]

----------------------------------------------------------------------------
(* The lead's tools.  A batch's calls share the loop's task, so a spawn or a *)
(* sibling's answer may fall where a wait sleeps, and nowhere else in it.    *)

\* SpawnSubagentTool::execute, past its refusals.
Spawn(s) ==
    /\ lead.at \in {"round", "sleep"}
    /\ pc[s] = "none"
    /\ ~Busy(RunId[s])
    /\ pc' = [pc EXCEPT ![s] = "queued"]
    /\ span' = [span EXCEPT ![s] = [state |-> "running", detail |-> "none"]]
    /\ log' = [log EXCEPT ![s] = {"open"}]
    /\ entry' = [entry EXCEPT ![RunId[s]] = [st |-> "queued", of |-> <<s>>]]
    /\ UNCHANGED <<out, reported, lead, woken, late, ends, user, hist>>

\* CheckSubagentStatusTool: what it answers, ...
CheckReads(i) ==
    /\ LeadAt("round") /\ asks < MaxAsks
    /\ entry[i].st # "none"
    /\ asks' = asks + 1
    /\ lead' = [at |-> "mark", id |-> i, saw |-> <<entry[i]>>]
    /\ UNCHANGED <<task, entry, reported, woken, late, ends, inbox, hist>>

\* Mutant of CheckMarks: an answer that did not arrive whole is marked too.
CheckMarksCut ==
    LET saw == lead.saw[1]
        i   == lead.id
    IN  /\ LeadAt("mark")
        /\ \E whole \in BOOLEAN :
             shown' = IF whole /\ saw.st \in {"completed", "failed"}
                      THEN shown \cup Range(saw.of) ELSE shown
        /\ reported' = IF Finished(i) THEN reported \cup {i} ELSE reported
        /\ raced' = IF Finished(i) /\ saw.st \notin {"completed", "failed"}
                    THEN raced \cup {i} ELSE raced
        /\ lead' = [at |-> "round", id |-> "none", saw |-> <<>>]
        /\ UNCHANGED <<task, entry, woken, late, ends, user, left, listed>>

\* ... and what it marks, under a second lock.  A completed answer may be too
\* long to reach the lead whole; a failure and a "still running" never are.
CheckMarks ==
    LET saw == lead.saw[1]
        i   == lead.id
    IN  /\ LeadAt("mark")
        /\ \E whole \in IF saw.st = "completed" THEN BOOLEAN ELSE {TRUE} :
             IF whole
             THEN /\ reported' = IF Finished(i) THEN reported \cup {i} ELSE reported
                  /\ shown' = IF saw.st \in {"completed", "failed"}
                              THEN shown \cup Range(saw.of) ELSE shown
                  /\ raced' = IF Finished(i) /\ saw.st \notin {"completed", "failed"}
                              THEN raced \cup {i} ELSE raced
             ELSE UNCHANGED <<reported, shown, raced>>
        /\ lead' = [at |-> "round", id |-> "none", saw |-> <<>>]
        /\ UNCHANGED <<task, entry, woken, late, ends, user, left, listed>>

WaitCalled ==
    /\ LeadAt("round")
    /\ Goto("pre")
    /\ UNCHANGED <<task, entry, reported, woken, late, ends, user, hist>>

\* A pending interjection wins over everything.
WaitLooksAtInbox ==
    /\ LeadAt("pre")
    /\ Goto(IF inbox > 0 THEN "nudged" ELSE "listen")
    /\ UNCHANGED <<task, entry, reported, woken, late, ends, user, hist>>

\* Notified::enable, before the tracker is looked at.
WaitListens ==
    /\ LeadAt("listen")
    /\ Goto("check")
    /\ UNCHANGED <<task, entry, reported, woken, late, ends, user, hist>>

WaitChecks ==
    /\ LeadAt("check")
    /\ Goto(IF AllDone THEN "full" ELSE IF late THEN "late" ELSE "select")
    /\ woken' = (woken /\ ~AllDone /\ ~late)
    /\ UNCHANGED <<task, entry, reported, late, ends, user, hist>>

\* Mutant of WaitSelects: the wait listens only once it has looked.
WaitSelectsDeaf ==
    /\ LeadAt("select")
    /\ Goto("sleep")
    /\ woken' = FALSE
    /\ UNCHANGED <<task, entry, reported, late, ends, user, hist>>

\* What changed since the look is waiting for the select.
WaitSelects ==
    /\ LeadAt("select")
    /\ Goto("sleep")
    /\ UNCHANGED <<task, entry, reported, woken, late, ends, user, hist>>

WaitWakes ==
    /\ LeadAt("sleep")
    /\ woken \/ inbox > 0 \/ late
    /\ Goto("pre")
    /\ woken' = FALSE
    /\ UNCHANGED <<task, entry, reported, late, ends, user, hist>>

\* SubagentTracker::report: every finished entry not reported yet.
WaitReports ==
    LET fresh == {i \in Ids : Finished(i) /\ i \notin reported}
    IN  /\ lead.at \in {"nudged", "late", "full"}
        /\ reported' = reported \cup fresh
        /\ shown' = shown \cup UNION {Range(entry[i].of) : i \in fresh}
        /\ Goto("round")
        /\ late' = FALSE
        /\ UNCHANGED <<task, entry, woken, ends, user, raced, left, listed>>

\* The cap of ten minutes.
Clock ==
    /\ lead.at \in {"pre", "listen", "check", "select", "sleep"} /\ ~late
    /\ late' = TRUE
    /\ UNCHANGED <<task, entry, reported, lead, woken, ends, user, hist>>

\* The user steers; the loop drains the inbox when its next round begins.
Push ==
    /\ lead.at \notin {"stop", "grace", "abort", "report", "over", "down"}
    /\ asks < MaxAsks
    /\ asks' = asks + 1 /\ inbox' = inbox + 1
    /\ UNCHANGED <<task, entry, reported, lead, woken, late, ends, hist>>

Drain ==
    /\ LeadAt("round") /\ inbox > 0
    /\ inbox' = 0
    /\ UNCHANGED <<task, entry, reported, lead, woken, late, ends, asks, hist>>

----------------------------------------------------------------------------
(* A subagent's task. *)

At(s, w) == pc[s] = w
Step(s, w) == pc' = [pc EXCEPT ![s] = w]

\* run_until_cancelled(acquire): a cancelled subagent never starts.
Acquire(s) ==
    /\ At(s, "queued")
    /\ IF Cancelled
       THEN Step(s, "unstarted") /\ out' = [out EXCEPT ![s] = "unstarted"]
       ELSE Cardinality(Holders) < Slots /\ Step(s, "permit") /\ UNCHANGED out
    /\ UNCHANGED <<span, log, entry, reported, lead, woken, late, ends, user, hist>>

\* Mutant of Start: a subagent that never starts just returns.
StartOrReturn(s) ==
    /\ At(s, "permit")
    /\ IF Cancelled
       THEN Step(s, "gone") /\ SetEntry(s, "failed")
       ELSE Step(s, "running") /\ SetEntry(s, "running")
    /\ UNCHANGED <<out, span, log, reported, lead, late, ends, user, hist>>

\* A cancel that landed as the slot freed wins too.
Start(s) ==
    /\ At(s, "permit")
    /\ IF Cancelled
       THEN /\ Step(s, "unstarted") /\ out' = [out EXCEPT ![s] = "unstarted"]
            /\ UNCHANGED <<entry, woken>>
       ELSE Step(s, "running") /\ SetEntry(s, "running") /\ UNCHANGED out
    /\ UNCHANGED <<span, log, reported, lead, late, ends, user, hist>>

FailUnstarted(s) ==
    /\ At(s, "unstarted")
    /\ SetEntry(s, "failed")
    /\ Step(s, "close")
    /\ UNCHANGED <<out, span, log, reported, lead, late, ends, user, hist>>

\* The loop returns, and the guard gives the instance back.
LoopEnds(s) ==
    /\ At(s, "running")
    /\ \E o \in {"done", "failed"} \cup (IF Cancelled /\ s \notin Plugin THEN {"cancelled"} ELSE {}) :
           out' = [out EXCEPT ![s] = o]
    /\ Step(s, "close")
    /\ UNCHANGED <<span, log, entry, reported, lead, woken, late, ends, user, hist>>

StateOf(s)  == IF out[s] = "unstarted" THEN "cancelled" ELSE SpanState(s)
DetailOf(s) == IF out[s] = "unstarted" THEN CancelDetail ELSE Detail(s)

\* SubagentLane::close: the row, ...
CloseSpan(s) ==
    /\ At(s, "close")
    /\ span' = ClosedSpan(s, StateOf(s), DetailOf(s))
    /\ out' = [out EXCEPT ![s] = IF @ = "unstarted" THEN @ ELSE StateOf(s)]
    /\ Step(s, "narrate")
    /\ UNCHANGED <<log, entry, reported, lead, woken, late, ends, user, hist>>

\* ... then the record.
CloseLog(s) ==
    /\ At(s, "narrate")
    /\ log' = [log EXCEPT ![s] = @ \cup {IF out[s] = "unstarted" THEN "cancelled" ELSE out[s]}]
    /\ Step(s, IF out[s] = "unstarted" THEN "gone" ELSE "settle")
    /\ out' = [out EXCEPT ![s] = IF @ = "unstarted" THEN "none" ELSE @]
    /\ UNCHANGED <<span, entry, reported, lead, woken, late, ends, user, hist>>

\* tracker.complete or tracker.fail_with_output; the permit goes with the task.
Settle(s) ==
    /\ At(s, "settle")
    /\ SetEntry(s, IF out[s] = "done" THEN "completed" ELSE "failed")
    /\ Step(s, "gone")
    /\ out' = [out EXCEPT ![s] = "none"]
    /\ UNCHANGED <<span, log, reported, lead, late, ends, user, hist>>

\* SubagentLane::drop, with fail_unless_finished.
Dropped(s, state, detail) ==
    /\ span' = ClosedSpan(s, state, detail)
    /\ log' = [log EXCEPT ![s] = @ \cup {state}]
    /\ Step(s, "gone")
    /\ IF entry[RunId[s]].st \in {"completed", "failed"}
       THEN UNCHANGED <<entry, woken>> ELSE SetEntry(s, "failed")

Panics(s) ==
    /\ At(s, "running")
    /\ Dropped(s, "failed", "panicked")
    /\ UNCHANGED <<out, reported, lead, late, ends, user, hist>>

\* An aborted task is dropped where it awaits.
Aborted(s) ==
    /\ lead.at \in {"abort", "report", "over"}
    /\ pc[s] \in {"queued", "running"}
    /\ Dropped(s, "cancelled", CancelDetail)
    /\ UNCHANGED <<out, reported, lead, late, ends, user, hist>>

----------------------------------------------------------------------------
(* The run's end. *)

UserCancels ==
    /\ ~runTok
    /\ lead.at \notin {"over", "down"}
    /\ runTok' = TRUE
    /\ UNCHANGED <<task, entry, reported, lead, woken, late, subsTok, crashes, user, hist>>

\* The loop completes, hits a cap, or its tools are dropped by a cancel.
LeadEnds ==
    /\ LeadAt("round") \/ (runTok /\ LeadAt("sleep"))
    /\ Goto("stop")
    /\ woken' = FALSE /\ late' = FALSE
    /\ UNCHANGED <<task, entry, reported, ends, user, hist>>

\* The token fires first: R45's kill of a running command rides on it.
StopCancels ==
    /\ LeadAt("stop")
    /\ left' = {s \in Spawns : Unfinished(RunId[s]) /\ s \in Range(entry[RunId[s]].of)}
    /\ subsTok' = TRUE
    /\ Goto("grace")
    /\ UNCHANGED <<task, entry, reported, woken, late, runTok, crashes, user, shown, raced, listed>>

\* Mutant of GraceEnds: the abort's own wait is left out.
GraceEndsEarly ==
    /\ LeadAt("grace")
    /\ Goto("report")
    /\ UNCHANGED <<task, entry, reported, woken, late, ends, user, hist>>

\* Every task has ended, or the grace of five seconds ran out.
GraceEnds ==
    /\ LeadAt("grace")
    /\ \/ Tasks = {} /\ Goto("report")
       \/ Tasks # {} /\ Goto("abort")
    /\ UNCHANGED <<task, entry, reported, woken, late, ends, user, hist>>

\* A second is enough for a task that awaits to be dropped.
AbortEnds ==
    /\ LeadAt("abort")
    /\ Tasks \subseteq Stuck
    /\ Goto("report")
    /\ UNCHANGED <<task, entry, reported, woken, late, ends, user, hist>>

\* stopped_subagents: the lanes the run's end closed.
Report ==
    /\ LeadAt("report")
    /\ listed' = {s \in Spawns : span[s] = [state |-> "cancelled", detail |-> "run ended"]}
    /\ Goto("over")
    /\ UNCHANGED <<task, entry, reported, woken, late, ends, user, shown, raced, left>>

----------------------------------------------------------------------------
(* The daemon. *)

Forget ==
    /\ crashes < MaxCrashes /\ crashes' = crashes + 1
    /\ lead.at \notin {"over", "down"}
    /\ lead' = [at |-> "down", id |-> "none", saw |-> <<>>]
    /\ pc' = [s \in Spawns |-> IF pc[s] = "none" THEN "none" ELSE "gone"]
    /\ out' = [s \in Spawns |-> "none"]
    /\ entry' = [i \in Ids |-> NoEntry]
    /\ reported' = {} /\ woken' = FALSE /\ late' = FALSE
    /\ runTok' = FALSE /\ subsTok' = FALSE /\ inbox' = 0
    /\ shown' = {} /\ raced' = {} /\ left' = {}
    /\ UNCHANGED <<asks, listed>>

\* A log loses what its writer had not written, what a full channel refused
\* and what a trim took: any of a lane's records may be missing.
Kept(records) == {k \in [Spawns -> SUBSET UNION Range(records)] :
                    \A s \in Spawns : k[s] \subseteq records[s]}

Crash ==
    /\ Forget
    /\ log' \in Kept(log)
    /\ UNCHANGED span

\* The runtime drops its tasks where they await: each closes its lane.
RuntimeStops ==
    LET cut == {s \in Tasks : pc[s] \in {"queued", "running"}}
    IN  /\ Tasks = cut /\ cut # {}
        /\ Forget
        /\ span' = [s \in Spawns |-> IF s \in cut
                                     THEN [state |-> "cancelled", detail |-> CancelDetail]
                                     ELSE span[s]]
        /\ log' \in Kept([s \in Spawns |-> IF s \in cut THEN log[s] \cup {"cancelled"} ELSE log[s]])

\* Mutant of Restored: a lane without a close is taken for still running.
RestoredAsRunning(i) ==
    LET known == {s \in Spawns : RunId[s] = i /\ log[s] # {}}
    IN  IF known = {} THEN NoEntry
        ELSE LET s == CHOOSE s \in known : TRUE
             IN  [st |-> IF log[s] = {"open"} THEN "running"
                         ELSE IF "done" \in log[s] THEN "completed" ELSE "failed",
                  of |-> <<s>>]

\* replay and SubagentTracker::restore: the open or the close names the run, and
\* a lane without a close was interrupted.
Restored(i) ==
    LET known == {s \in Spawns : RunId[s] = i /\ log[s] # {}}
    IN  IF known = {} THEN NoEntry
        ELSE LET s == CHOOSE s \in known : TRUE
             IN  [st |-> IF "done" \in log[s] THEN "completed" ELSE "failed", of |-> <<s>>]

\* close_orphans at boot, then the run is resumed.
Resume ==
    /\ LeadAt("down")
    /\ span' = [s \in Spawns |-> IF span[s].state = "running"
                                 THEN [state |-> "cancelled", detail |-> "interrupted"]
                                 ELSE span[s]]
    /\ entry' = [i \in Ids |-> Restored(i)]
    /\ Goto("round")
    /\ UNCHANGED <<pc, out, log, reported, woken, late, ends, user, hist>>

----------------------------------------------------------------------------
TaskStep(s) ==
    \/ Acquire(s) \/ Start(s) \/ FailUnstarted(s) \/ LoopEnds(s)
    \/ CloseSpan(s) \/ CloseLog(s) \/ Settle(s)
WaitStep == WaitLooksAtInbox \/ WaitListens \/ WaitChecks \/ WaitSelects \/ WaitWakes \/ WaitReports
StopStep == StopCancels \/ GraceEnds \/ AbortEnds \/ Report

Next ==
    \/ \E s \in Spawns : Spawn(s) \/ TaskStep(s) \/ Panics(s) \/ Aborted(s)
    \/ \E i \in Ids : CheckReads(i)
    \/ CheckMarks \/ WaitCalled \/ WaitStep \/ Clock \/ Push \/ Drain
    \/ UserCancels \/ LeadEnds \/ StopStep
    \/ Crash \/ RuntimeStops \/ Resume

\* Tokio polls what is ready; a subagent's loop is bounded by its rounds and
\* its cost unless it sits in a synchronous call.  Neither the clock, the lead's
\* decisions, the user nor the daemon's end is fair.
Fairness ==
    /\ \A s \in Spawns \ Stuck : WF_vars(TaskStep(s)) /\ WF_vars(Aborted(s))
    /\ WF_vars(CheckMarks) /\ WF_vars(WaitStep) /\ WF_vars(StopStep)
    /\ WF_vars(runTok /\ LeadEnds)

Spec == Init /\ [][Next]_vars /\ Fairness

----------------------------------------------------------------------------
(* Properties. *)

TaskPc == {"none", "queued", "permit", "running", "unstarted", "close", "narrate", "settle", "gone"}
LeadPc == {"round", "mark", "pre", "listen", "check", "select", "sleep", "nudged", "late", "full",
           "stop", "grace", "abort", "report", "over", "down"}
SpanStates == {"done", "failed", "cancelled"}

\* Every variable has its type.
TypeOK ==
    /\ pc \in [Spawns -> TaskPc]
    /\ out \in [Spawns -> SpanStates \cup {"none", "unstarted"}]
    /\ \A s \in Spawns : /\ span[s].state \in SpanStates \cup {"none", "running"}
                         /\ span[s].detail \in {"none", "cancelled", "run ended", "daemon stop",
                                                "interrupted", "panicked"}
    /\ \A i \in Ids : /\ entry[i].st \in {"none", "queued", "running", "completed", "failed"}
                      /\ Range(entry[i].of) \subseteq Spawns
    /\ lead.at \in LeadPc
    /\ log \in [Spawns -> SUBSET (SpanStates \cup {"open"})]
    /\ reported \subseteq Ids /\ raced \subseteq Ids
    /\ shown \subseteq Spawns /\ left \subseteq Spawns /\ listed \subseteq Spawns
    /\ {woken, late, runTok, subsTok} \subseteq BOOLEAN
    /\ inbox \in 0..MaxAsks

\* N-LEAD-2: never more of the run's subagents at work than its slots, whatever
\* cancels, aborts and panics do to the permits.
SlotsRespected == Cardinality(Holders) <= Slots

\* An entry is unfinished only while a task is there to finish it, after a
\* resume too: nothing a wait waits for is already gone.
WaitedForIsAlive ==
    \A i \in Ids : Unfinished(i) => \E s \in Tasks : RunId[s] = i

\* The tracker never tells the lead that a subagent completed whose lane says
\* otherwise, not even from the log of a run that died between the two writes.
CompletedIsDone ==
    \A i \in Ids : entry[i].st = "completed" =>
        \A s \in Range(entry[i].of) : span[s].state = "done"

\* N-LEAD-1: when the run reports, every lane is closed and every task ended,
\* but for one stuck in a synchronous call.
NothingOutlives ==
    LeadAt("over") => \A s \in Spawns \ Stuck :
        pc[s] \in {"none", "gone"} /\ span[s].state # "running"

\* The report names whoever the run's end kept from finishing, unless the
\* person cancelled the run as well.
ReportNamesTheStopped ==
    LeadAt("over") /\ ~runTok =>
        \A s \in left \ Stuck : s \in listed \/ span[s].state \in {"done", "failed"}

\* What the lead reads in its tracker is so: as many at work as there are
\* slots, `running` has somebody running and `completed` has finished, after a
\* resume from the records of a dead run too (SubagentTracker).
TrackerTrue == TypeOK /\ SlotsRespected /\ WaitedForIsAlive /\ CompletedIsDone

\* The run's end is clean: nothing goes on behind its report, and the report
\* names all that was kept from finishing (stop_subagents, N-LEAD-1).
EndIsClean == NothingOutlives /\ ReportNamesTheStopped

\* A wait that says all have finished has put every answer before the lead,
\* but for one whose check was overtaken by its end.
AllMeansShown ==
    [][LeadAt("full") /\ lead'.at = "round" =>
          \A i \in Ids \ raced : entry[i].st # "none" => Range(entry[i].of) \subseteq shown']_vars

\* An open lane is closed by its subagent, its run's end or the next boot.
LaneCloses ==
    \A s \in Spawns \ Stuck :
        span[s].state = "running" ~> span[s].state # "running" \/ LeadAt("down")

\* The wait keeps its promise.
Wait == INSTANCE SubagentWait WITH
    live <- {i \in Ids : Unfinished(i)},
    done <- {i \in Ids : Finished(i)},
    told <- reported,
    waiting <- lead.at \in {"pre", "listen", "check", "select", "sleep", "nudged", "late", "full"},
    excused <- inbox > 0 \/ late

\* wait_for_subagents comes back only when nobody is left, an interjection is
\* pending or its cap has passed; it does come back when nobody is left (no
\* wake-up is lost); and it has reported whatever had finished.
WaitPromise == Wait!Spec

----------------------------------------------------------------------------
(* What the tracker says of itself (section 6). *)

\* "The finished entries whose answer has reached the lead": an entry is marked
\* reported only when the lead was shown its answer.  False of a check that its
\* subagent's end overtook, and of a singleton's second spawn.
ReportedWasShown ==
    \A i \in reported : Finished(i) => Range(entry[i].of) \subseteq shown

============================================================================
