--------------------------- MODULE SubagentProofs ---------------------------
(***************************************************************************)
(* Why a lead's tracker is true, its end clean, and its wait implements     *)
(* what SubagentWait promises - for any number of spawns, slots, checks and *)
(* crashes.  The tracker and the end are proved for every way of giving out *)
(* run ids, singletons that share one included; the wait's promise holds    *)
(* where every spawn has a run id of its own.                               *)
(***************************************************************************)
EXTENDS Subagents, FiniteSetTheorems, TLAPS

USE SpawnsAssumption, BoundsAssumption

Details   == {"none", "cancelled", "run ended", "daemon stop", "interrupted", "panicked"}
SpanType  == [state : SpanStates \cup {"none", "running"}, detail : Details]
EntryType == [st : {"none", "queued", "running", "completed", "failed"},
              of : {<<>>} \cup {<<s>> : s \in Spawns}]
LeadType  == [at : LeadPc, id : Ids \cup {"none"}, saw : {<<>>} \cup {<<e>> : e \in EntryType}]
Outs      == SpanStates \cup {"none", "unstarted"}

\* The types, of the tasks and their lanes, ...
TasksTyped ==
    /\ pc \in [Spawns -> TaskPc] /\ out \in [Spawns -> Outs]
    /\ span \in [Spawns -> SpanType]
    /\ log \in [Spawns -> SUBSET (SpanStates \cup {"open"})]

\* ... and of the lead.
LeadTyped ==
    /\ entry \in [Ids -> EntryType] /\ lead \in LeadType
    /\ lead.at = "mark" => lead.id \in Ids /\ lead.saw # <<>>
    /\ reported \subseteq Ids /\ raced \subseteq Ids
    /\ shown \subseteq Spawns /\ left \subseteq Spawns /\ listed \subseteq Spawns
    /\ woken \in BOOLEAN /\ late \in BOOLEAN /\ runTok \in BOOLEAN /\ subsTok \in BOOLEAN
    /\ asks \in 0..MaxAsks /\ inbox \in 0..asks

Early == {"queued", "permit", "running", "unstarted"}

\* How far a task has come says how its lane stands.
Lane(s) ==
    /\ pc[s] = "none" => span[s].state = "none" /\ log[s] = {}
    /\ pc[s] \in {"none", "queued", "permit", "running", "gone"} => out[s] = "none"
    /\ pc[s] = "unstarted" => out[s] = "unstarted"
    /\ pc[s] \in {"close", "narrate", "settle"} => out[s] # "none"
    /\ pc[s] = "settle" => out[s] # "unstarted"
    /\ pc[s] \in Early \cup {"close"} => span[s].state = "running"
    /\ pc[s] \in {"narrate", "settle"} =>
          span[s].state = IF out[s] = "unstarted" THEN "cancelled" ELSE out[s]
    /\ "done" \in log[s] => span[s].state = "done"
    /\ pc[s] = "gone" /\ lead.at # "down" => span[s].state # "running"
    /\ lead.at = "down" => pc[s] \in {"none", "gone"}

\* A task that the tracker still counts as queued or running.
Counted(s) == pc[s] \in Early \/ (pc[s] \in {"close", "narrate", "settle"} /\ out[s] # "unstarted")

\* An unfinished entry speaks of a task that will still finish it, a completed
\* one of a lane that closed as done.
Entries ==
    \A i \in Ids :
        /\ Unfinished(i) => \E s \in Spawns :
              entry[i].of = <<s>> /\ RunId[s] = i /\ Counted(s)
        /\ entry[i].st = "completed" => \A s \in Range(entry[i].of) : span[s].state = "done"

Permits == IsFiniteSet(Holders) /\ Cardinality(Holders) <= Slots

TrackInv == TasksTyped /\ LeadTyped /\ (\A s \in Spawns : Lane(s)) /\ Entries /\ Permits

Ending == {"grace", "abort", "report", "over"}

Stopped(s) == span[s].detail = "run ended" \/ runTok

\* Why a lane says "cancelled": a token of its own run's.
Reasons(s) ==
    /\ pc[s] \in {"unstarted", "close"} /\ out[s] \in {"unstarted", "cancelled"} => Cancelled
    /\ pc[s] \in {"narrate", "settle"} /\ span[s].state = "cancelled" => Stopped(s)
    /\ s \in left => /\ pc[s] # "none" /\ span[s].state # "none"
                     /\ span[s].state = "cancelled" => Stopped(s)

\* The run's end: its token first, then no task but a stuck one, then the report.
EndInv ==
    /\ \A s \in Spawns : Reasons(s)
    /\ lead.at \in Ending <=> subsTok
    /\ left # {} => subsTok
    /\ lead.at \in {"report", "over"} => Tasks \subseteq Stuck
    /\ LeadAt("over") /\ ~runTok =>
          \A s \in left \ Stuck : s \in listed \/ span[s].state \in {"done", "failed"}

CleanInv == TrackInv /\ EndInv

Waits == {"pre", "listen", "check", "select", "sleep", "nudged", "late", "full"}

\* Where the lead is in its wait says why it may leave it.
WaitInv ==
    /\ late => lead.at \in Waits
    /\ LeadAt("nudged") => inbox > 0
    /\ LeadAt("late") => late
    /\ LeadAt("full") => AllDone
    /\ LeadAt("down") => inbox = 0 /\ reported = {}

\* Every spawn has a run id of its own: no singleton template is spawned twice.
OwnRunIds == \A s, t \in Spawns : RunId[s] = RunId[t] => s = t

\* With run ids of their own, an entry is finished exactly when its task has
\* nothing left to say to the tracker.
OwnEntries ==
    /\ \A i \in Ids : entry[i].st # "none" =>
          \E s \in Spawns : entry[i].of = <<s>> /\ RunId[s] = i /\ pc[s] # "none"
    /\ \A s \in Spawns : Counted(s) => Unfinished(RunId[s])

\* What was marked as reported was shown, but where a check was overtaken.
ShownInv ==
    /\ \A i \in reported \ raced : Finished(i) /\ Range(entry[i].of) \subseteq shown
    /\ LeadAt("mark") => \E e \in EntryType :
          /\ lead.saw = <<e>> /\ e.of = entry[lead.id].of
          /\ e.st \in {"completed", "failed"} => Finished(lead.id)

OwnInv == TrackInv /\ WaitInv /\ OwnEntries /\ ShownInv

----------------------------------------------------------------------------
(* The parts of a step. *)

\* What the lead does of its own: no task, lane or entry changes.
LeadStep ==
    \/ \E i \in Ids : CheckReads(i)
    \/ CheckMarks \/ WaitCalled \/ WaitStep \/ Clock \/ Push \/ Drain
    \/ UserCancels \/ LeadEnds \/ StopStep

\* A tuple of one holds one.
LEMMA RangeOne == ASSUME NEW x PROVE Range(<<x>>) = {x} /\ Range(<<>>) = {}
BY DEF Range

\* An entry speaks of one spawn, or of none.
LEMMA OfType == ASSUME NEW e \in EntryType PROVE Range(e.of) \subseteq Spawns
<1>1. e.of = <<>> \/ \E s \in Spawns : e.of = <<s>>
  BY DEF EntryType
<1>2. CASE e.of = <<>>
  BY <1>2, RangeOne
<1>3. ASSUME NEW s \in Spawns, e.of = <<s>> PROVE Range(e.of) \subseteq Spawns
  BY <1>3, RangeOne
<1> QED BY <1>1, <1>2, <1>3

\* The lead's steps, by what they touch.
LEMMA LeadStepFrame ==
  ASSUME LeadTyped, LeadStep
  PROVE  /\ UNCHANGED <<pc, out, span, log, entry, crashes>>
         /\ lead.at # "down" /\ lead'.at # "down"
<1> USE DEF task, LeadAt, Goto, LeadTyped, LeadType
<1>1. ASSUME NEW i \in Ids, CheckReads(i)
      PROVE  UNCHANGED <<pc, out, span, log, entry, crashes>> /\ lead.at # "down" /\ lead'.at # "down"
  BY <1>1 DEF CheckReads, ends
<1>2. CASE CheckMarks
  BY <1>2 DEF CheckMarks, ends
<1>3. CASE WaitCalled \/ Clock \/ Push \/ Drain
  BY <1>3 DEF WaitCalled, Clock, Push, Drain, ends
<1>4. CASE WaitStep
  BY <1>4 DEF WaitStep, WaitLooksAtInbox, WaitListens, WaitChecks, WaitSelects, WaitWakes,
              WaitReports, ends
<1>5. CASE UserCancels \/ LeadEnds
  BY <1>5 DEF UserCancels, LeadEnds, ends
<1>6. CASE StopStep
  BY <1>6 DEF StopStep, StopCancels, GraceEnds, AbortEnds, Report, ends
<1> QED BY <1>1, <1>2, <1>3, <1>4, <1>5, <1>6 DEF LeadStep

\* The lead's steps keep the lead's types.
LEMMA LeadStepTyped ==
  ASSUME LeadTyped, LeadStep
  PROVE  LeadTyped'
<1> USE DEF LeadAt, Goto, hist, user, ends
<1>a. entry' = entry
  BY LeadStepFrame
<1>b. \A i \in Ids : Range(entry[i].of) \subseteq Spawns
  BY OfType DEF LeadTyped
<1>1. ASSUME NEW i \in Ids, CheckReads(i) PROVE LeadTyped'
  <2>1. lead' \in LeadType /\ (lead'.at = "mark" => lead'.id \in Ids /\ lead'.saw # <<>>)
    BY <1>1 DEF CheckReads, LeadTyped, LeadType, LeadPc
  <2> QED BY <1>1, <1>a, <2>1 DEF CheckReads, LeadTyped
<1>2. CASE CheckMarks
  <2>1. lead' \in LeadType /\ lead'.at # "mark"
    BY <1>2 DEF CheckMarks, LeadType, LeadPc
  <2>2. lead.id \in Ids /\ \E e \in EntryType : lead.saw = <<e>>
    BY <1>2 DEF CheckMarks, LeadTyped, LeadType
  <2>3. lead.saw[1] \in EntryType
    BY <2>2
  <2>4. shown' \subseteq Spawns
    BY <1>2, <2>3, OfType DEF CheckMarks, LeadTyped
  <2>5. reported' \subseteq Ids /\ raced' \subseteq Ids
    BY <1>2, <2>2 DEF CheckMarks, LeadTyped
  <2> QED BY <1>2, <1>a, <2>1, <2>4, <2>5 DEF CheckMarks, LeadTyped
<1>3. CASE WaitCalled \/ Clock
  BY <1>3, <1>a DEF WaitCalled, Clock, LeadTyped, LeadType, LeadPc
<1>8. CASE Push
  <2>1. asks' \in 0..MaxAsks /\ inbox' \in 0..asks'
    BY <1>8 DEF Push, LeadTyped
  <2> QED BY <1>8, <1>a, <2>1 DEF Push, LeadTyped
<1>9. CASE Drain
  <2>1. inbox' \in 0..asks
    BY <1>9 DEF Drain, LeadTyped
  <2> QED BY <1>9, <1>a, <2>1 DEF Drain, LeadTyped
<1>4. CASE WaitLooksAtInbox \/ WaitListens \/ WaitChecks \/ WaitSelects \/ WaitWakes
  BY ZenonT(60), <1>4, <1>a DEF WaitLooksAtInbox, WaitListens, WaitChecks, WaitSelects, WaitWakes, LeadTyped,
                    LeadType, LeadPc
<1>5. CASE WaitReports
  <2>1. shown' \subseteq Spawns /\ reported' \subseteq Ids
    BY <1>5, <1>b DEF WaitReports, LeadTyped
  <2>2. lead' \in LeadType /\ lead'.at # "mark"
    BY <1>5 DEF WaitReports, LeadTyped, LeadType, LeadPc
  <2> QED BY <1>5, <1>a, <2>1, <2>2 DEF WaitReports, LeadTyped
<1>6. CASE UserCancels \/ LeadEnds
  BY <1>6, <1>a DEF UserCancels, LeadEnds, LeadTyped, LeadType, LeadPc
<1>7. CASE StopStep
  BY <1>7, <1>a DEF StopStep, StopCancels, GraceEnds, AbortEnds, Report, LeadTyped, LeadType, LeadPc
<1> QED BY <1>1, <1>2, <1>3, <1>4, <1>5, <1>6, <1>7, <1>8, <1>9 DEF LeadStep, WaitStep

----------------------------------------------------------------------------
(* The tracker. *)

EntryStates == {"queued", "running", "completed", "failed"}

\* A status change rewrites one entry.
LEMMA SetEntryIs ==
  ASSUME LeadTyped, NEW s \in Spawns, NEW st \in EntryStates,
         entry' = [entry EXCEPT ![RunId[s]] = [st |-> st, of |-> <<s>>]]
  PROVE  /\ entry' \in [Ids -> EntryType] /\ RunId[s] \in Ids
         /\ entry'[RunId[s]].st = st /\ entry'[RunId[s]].of = <<s>>
         /\ \A i \in Ids : i # RunId[s] => entry'[i] = entry[i]
<1>1. RunId[s] \in Ids /\ entry \in [Ids -> EntryType]
  BY DEF LeadTyped
<1>2. [st |-> st, of |-> <<s>>] \in EntryType
  BY DEF EntryType, EntryStates
<1> QED BY <1>1, <1>2

\* A lane that no step touches stands as it stood.
LEMMA SameLane ==
  ASSUME NEW t \in Spawns, Lane(t),
         pc'[t] = pc[t], out'[t] = out[t], span'[t] = span[t], log'[t] = log[t],
         lead'.at = "down" <=> lead.at = "down"
  PROVE  Lane(t)'
BY DEF Lane

\* An entry that is left alone stays true while its task goes on and no lane
\* that is done is undone.
LEMMA EntriesFrame ==
  ASSUME Entries, NEW s \in Spawns, entry' = entry,
         \A t \in Spawns : t # s /\ Counted(t) => Counted(t)',
         Counted(s) /\ Unfinished(RunId[s]) => Counted(s)',
         \A t \in Spawns : span[t].state = "done" => span'[t].state = "done",
         LeadTyped
  PROVE  Entries'
<1> SUFFICES ASSUME NEW i \in Ids
             PROVE  /\ Unfinished(i)' => \E t \in Spawns :
                          entry[i].of = <<t>> /\ RunId[t] = i /\ Counted(t)'
                    /\ entry[i].st = "completed" =>
                          \A t \in Range(entry[i].of) : span'[t].state = "done"
  BY DEF Entries
<1>1. Unfinished(i)' => Unfinished(i)
  BY DEF Unfinished
<1>2. ASSUME Unfinished(i)
      PROVE  \E t \in Spawns : entry[i].of = <<t>> /\ RunId[t] = i /\ Counted(t)'
  <2>1. PICK t \in Spawns : entry[i].of = <<t>> /\ RunId[t] = i /\ Counted(t)
    BY <1>2 DEF Entries
  <2>2. Counted(t)'
    BY <2>1, <1>2
  <2> QED BY <2>1, <2>2
<1>3. Range(entry[i].of) \subseteq Spawns
  BY OfType DEF LeadTyped
<1> QED BY <1>1, <1>2, <1>3 DEF Entries

\* An entry that is written speaks of the task that wrote it.
LEMMA EntriesSet ==
  ASSUME Entries, LeadTyped, NEW s \in Spawns, NEW st \in EntryStates,
         entry' = [entry EXCEPT ![RunId[s]] = [st |-> st, of |-> <<s>>]],
         \A t \in Spawns : t # s /\ Counted(t) => Counted(t)',
         st \in {"queued", "running"} => Counted(s)',
         st = "completed" => span'[s].state = "done",
         \A t \in Spawns : span[t].state = "done" => span'[t].state = "done"
  PROVE  Entries'
<1>1. /\ RunId[s] \in Ids /\ entry'[RunId[s]].st = st /\ entry'[RunId[s]].of = <<s>>
      /\ \A i \in Ids : i # RunId[s] => entry'[i] = entry[i]
  BY SetEntryIs
<1>2. Range(<<s>>) = {s}
  BY RangeOne
<1> SUFFICES ASSUME NEW i \in Ids
             PROVE  /\ Unfinished(i)' => \E t \in Spawns :
                          entry'[i].of = <<t>> /\ RunId[t] = i /\ Counted(t)'
                    /\ entry'[i].st = "completed" =>
                          \A t \in Range(entry'[i].of) : span'[t].state = "done"
  BY DEF Entries
<1>3. CASE i = RunId[s]
  BY <1>1, <1>2, <1>3 DEF Unfinished
<1>4. CASE i # RunId[s]
  <2>1. entry'[i] = entry[i] /\ (Unfinished(i)' => Unfinished(i))
    BY <1>1, <1>4 DEF Unfinished
  <2>2. ASSUME Unfinished(i)
        PROVE  \E t \in Spawns : entry[i].of = <<t>> /\ RunId[t] = i /\ Counted(t)'
    <3>1. PICK t \in Spawns : entry[i].of = <<t>> /\ RunId[t] = i /\ Counted(t)
      BY <2>2 DEF Entries
    <3>2. Counted(t)'
      BY <3>1, <1>4
    <3> QED BY <3>1, <3>2
  <2>3. Range(entry[i].of) \subseteq Spawns
    BY OfType DEF LeadTyped
  <2> QED BY <2>1, <2>2, <2>3 DEF Entries
<1> QED BY <1>3, <1>4

\* A permit that is not taken is at most given back.
LEMMA PermitsDown ==
  ASSUME Permits, Holders' \subseteq Holders
  PROVE  Permits'
<1>1. IsFiniteSet(Holders') /\ Cardinality(Holders') <= Cardinality(Holders)
  BY FS_Subset DEF Permits
<1>2. Cardinality(Holders) \in Nat /\ Cardinality(Holders') \in Nat
  BY <1>1, FS_CardinalityType DEF Permits
<1> QED BY <1>1, <1>2 DEF Permits

\* What all steps of one task s share: the other tasks and lanes, and the lead.
OnlyTask(s) ==
    /\ \A t \in Spawns : t # s =>
          pc'[t] = pc[t] /\ out'[t] = out[t] /\ span'[t] = span[t] /\ log'[t] = log[t]
    /\ UNCHANGED <<lead, reported, late, runTok, subsTok, crashes, inbox, asks, shown, raced,
                   left, listed>>

\* One task's step keeps the others as they were.
LEMMA OthersKept ==
  ASSUME NEW s \in Spawns, OnlyTask(s), \A t \in Spawns : Lane(t)
  PROVE  \A t \in Spawns : t # s => Lane(t)' /\ (Counted(t)' <=> Counted(t))
                                    /\ (t \in Holders' <=> t \in Holders)
<1> SUFFICES ASSUME NEW t \in Spawns, t # s
             PROVE  Lane(t)' /\ (Counted(t)' <=> Counted(t)) /\ (t \in Holders' <=> t \in Holders)
  OBVIOUS
<1>1. /\ pc'[t] = pc[t] /\ out'[t] = out[t] /\ span'[t] = span[t] /\ log'[t] = log[t]
      /\ lead' = lead
  BY DEF OnlyTask
<1>2. Lane(t)'
  BY <1>1, SameLane
<1> QED BY <1>1, <1>2 DEF Counted, Holders

\* The lead's own types, when only the tracker changed.
LEMMA LeadKept ==
  ASSUME LeadTyped, NEW s \in Spawns, OnlyTask(s), entry' \in [Ids -> EntryType],
         woken' \in BOOLEAN
  PROVE  LeadTyped'
BY DEF LeadTyped, OnlyTask

\* A task's step, seen from its own lane.
LEMMA TaskTrack ==
  ASSUME TrackInv, NEW s \in Spawns, OnlyTask(s), TasksTyped', woken' \in BOOLEAN,
         Lane(s)', s \in Holders' => s \in Holders,
         span[s].state = "done" => span'[s].state = "done",
         \/ entry' = entry /\ (Counted(s) /\ Unfinished(RunId[s]) => Counted(s)')
         \/ \E st \in EntryStates :
               /\ entry' = [entry EXCEPT ![RunId[s]] = [st |-> st, of |-> <<s>>]]
               /\ st \in {"queued", "running"} => Counted(s)'
               /\ st = "completed" => span'[s].state = "done"
  PROVE  TrackInv'
<1>1. /\ \A t \in Spawns : t # s => Lane(t)' /\ (Counted(t)' <=> Counted(t))
                                    /\ (t \in Holders' <=> t \in Holders)
  BY OthersKept DEF TrackInv
<1>2. \A t \in Spawns : span[t].state = "done" => span'[t].state = "done"
  BY DEF OnlyTask
<1>3. Holders' \subseteq Spawns
  BY DEF Holders
<1>4. Permits'
  BY <1>1, <1>3, PermitsDown DEF TrackInv
<1>5. LeadTyped' /\ Entries'
  <2>1. CASE entry' = entry /\ (Counted(s) /\ Unfinished(RunId[s]) => Counted(s)')
    <3>1. LeadTyped'
      BY <2>1, LeadKept DEF TrackInv, LeadTyped
    <3>2. Entries'
      BY <2>1, <1>1, <1>2, EntriesFrame DEF TrackInv
    <3> QED BY <3>1, <3>2
  <2>2. ASSUME NEW st \in EntryStates,
               entry' = [entry EXCEPT ![RunId[s]] = [st |-> st, of |-> <<s>>]],
               st \in {"queued", "running"} => Counted(s)',
               st = "completed" => span'[s].state = "done"
        PROVE  LeadTyped' /\ Entries'
    <3>1. entry' \in [Ids -> EntryType]
      BY <2>2, SetEntryIs DEF TrackInv
    <3>2. LeadTyped'
      BY <3>1, LeadKept DEF TrackInv
    <3>3. Entries'
      BY <2>2, <1>1, <1>2, EntriesSet DEF TrackInv
    <3> QED BY <3>2, <3>3
  <2> QED BY <2>1, <2>2
<1> QED BY <1>1, <1>4, <1>5 DEF TrackInv

----------------------------------------------------------------------------
(* The steps of a task. *)

\* spawn_subagent opens a lane and registers it.
LEMMA SpawnTrack ==
  ASSUME TrackInv, NEW s \in Spawns, Spawn(s)
  PROVE  TrackInv'
<1> USE DEF Spawn, ends, user, hist
<1>1. OnlyTask(s) /\ UNCHANGED <<out, woken>>
  BY DEF OnlyTask, TrackInv, TasksTyped
<1>2. TasksTyped'
  BY DEF TrackInv, TasksTyped, TaskPc, SpanType, SpanStates, Details
<1>3. /\ pc[s] = "none" /\ pc'[s] = "queued" /\ span'[s].state = "running" /\ log'[s] = {"open"}
      /\ out'[s] = out[s] /\ lead.at # "down" /\ lead' = lead
  BY DEF TrackInv, TasksTyped
<1>4. Lane(s) /\ woken \in BOOLEAN
  BY DEF TrackInv, LeadTyped
<1>5. Lane(s)' /\ Counted(s)' /\ s \notin Holders' /\ span[s].state # "done"
  BY <1>3, <1>4 DEF Lane, Counted, Holders, Early
<1>6. entry' = [entry EXCEPT ![RunId[s]] = [st |-> "queued", of |-> <<s>>]]
  OBVIOUS
<1> QED BY <1>1, <1>2, <1>4, <1>5, <1>6, TaskTrack DEF EntryStates

\* A slot is taken, or the queue is left for a cancel.
LEMMA AcquireTrack ==
  ASSUME TrackInv, NEW s \in Spawns, Acquire(s)
  PROVE  TrackInv'
<1> USE DEF Acquire, At, Step, ends, user, hist
<1>1. OnlyTask(s) /\ UNCHANGED <<span, log, entry, woken, lead>>
  BY DEF OnlyTask, TrackInv, TasksTyped
<1>2. TasksTyped'
  BY DEF TrackInv, TasksTyped, TaskPc, Outs
<1>3. Lane(s) /\ woken \in BOOLEAN /\ pc[s] = "queued"
  BY DEF TrackInv, LeadTyped
<1>4. CASE Cancelled
  <2>1. pc'[s] = "unstarted" /\ out'[s] = "unstarted"
    BY <1>4 DEF TrackInv, TasksTyped
  <2>2. Lane(s)' /\ Counted(s)' /\ s \notin Holders'
    BY <1>1, <1>3, <2>1 DEF Lane, Counted, Holders, Early
  <2> QED BY <1>1, <1>2, <1>3, <2>2, TaskTrack
<1>5. CASE ~Cancelled
  <2>1. pc'[s] = "permit" /\ out' = out /\ Cardinality(Holders) < Slots
    BY <1>5 DEF TrackInv, TasksTyped
  <2>2. Lane(s)' /\ Counted(s)'
    BY <1>1, <1>3, <2>1 DEF Lane, Counted, Early
  <2>3. \A t \in Spawns : t # s => Lane(t)' /\ (Counted(t)' <=> Counted(t))
                                   /\ (t \in Holders' <=> t \in Holders)
    BY <1>1, OthersKept DEF TrackInv
  <2>4. Holders' \subseteq Holders \cup {s}
    BY <2>3 DEF Holders
  <2>5. /\ IsFiniteSet(Holders \cup {s})
        /\ Cardinality(Holders \cup {s}) <= Cardinality(Holders) + 1
    <3>1. IsFiniteSet(Holders) /\ Cardinality(Holders) \in Nat
      BY FS_CardinalityType DEF TrackInv, Permits
    <3>2. /\ IsFiniteSet(Holders \cup {s})
          /\ Cardinality(Holders \cup {s}) =
                IF s \in Holders THEN Cardinality(Holders) ELSE Cardinality(Holders) + 1
      BY <3>1, FS_AddElement
    <3> QED BY <3>1, <3>2
  <2>6. IsFiniteSet(Holders') /\ Cardinality(Holders') <= Cardinality(Holders \cup {s})
    BY <2>4, <2>5, FS_Subset
  <2>7. /\ Cardinality(Holders) \in Nat /\ Cardinality(Holders') \in Nat
        /\ Cardinality(Holders \cup {s}) \in Nat
    BY <2>5, <2>6, FS_CardinalityType DEF TrackInv, Permits
  <2>8. Permits'
    BY <2>1, <2>5, <2>6, <2>7 DEF Permits
  <2>9. Entries'
    BY <1>1, <2>2, <2>3, EntriesFrame DEF TrackInv
  <2>10. LeadTyped'
    BY <1>1, LeadKept DEF TrackInv, LeadTyped
  <2> QED BY <1>2, <2>2, <2>3, <2>8, <2>9, <2>10 DEF TrackInv
<1> QED BY <1>4, <1>5

\* A holder starts, or a cancel that landed meanwhile wins.
LEMMA StartTrack ==
  ASSUME TrackInv, NEW s \in Spawns, Start(s)
  PROVE  TrackInv'
<1> USE DEF Start, At, Step, SetEntry, ends, user, hist
<1>1. OnlyTask(s) /\ UNCHANGED <<span, log, lead>>
  BY DEF OnlyTask, TrackInv, TasksTyped
<1>2. TasksTyped'
  BY DEF TrackInv, TasksTyped, TaskPc, Outs
<1>3. Lane(s) /\ woken \in BOOLEAN /\ pc[s] = "permit" /\ s \in Holders
  BY DEF TrackInv, LeadTyped, Holders
<1>4. CASE Cancelled
  <2>1. pc'[s] = "unstarted" /\ out'[s] = "unstarted" /\ entry' = entry /\ woken' = woken
    BY <1>4 DEF TrackInv, TasksTyped
  <2>2. Lane(s)' /\ Counted(s)'
    BY <1>1, <1>3, <2>1 DEF Lane, Counted, Early
  <2> QED BY <1>1, <1>2, <1>3, <2>1, <2>2, TaskTrack
<1>5. CASE ~Cancelled
  <2>1. /\ pc'[s] = "running" /\ out' = out /\ woken' \in BOOLEAN
        /\ entry' = [entry EXCEPT ![RunId[s]] = [st |-> "running", of |-> <<s>>]]
    BY <1>5 DEF TrackInv, TasksTyped
  <2>2. Lane(s)' /\ Counted(s)'
    BY <1>1, <1>3, <2>1 DEF Lane, Counted, Early
  <2> QED BY <1>1, <1>2, <1>3, <2>1, <2>2, TaskTrack DEF EntryStates
<1> QED BY <1>4, <1>5

\* A subagent that never starts fails in the tracker first.
LEMMA FailTrack ==
  ASSUME TrackInv, NEW s \in Spawns, FailUnstarted(s)
  PROVE  TrackInv'
<1> USE DEF FailUnstarted, At, Step, SetEntry, ends, user, hist
<1>1. OnlyTask(s) /\ UNCHANGED <<out, span, log, lead>>
  BY DEF OnlyTask, TrackInv, TasksTyped
<1>2. TasksTyped'
  BY DEF TrackInv, TasksTyped, TaskPc
<1>3. Lane(s) /\ pc[s] = "unstarted" /\ pc'[s] = "close"
  BY DEF TrackInv, TasksTyped
<1>4. /\ woken' \in BOOLEAN
      /\ entry' = [entry EXCEPT ![RunId[s]] = [st |-> "failed", of |-> <<s>>]]
  OBVIOUS
<1>5. Lane(s)' /\ s \notin Holders'
  BY <1>1, <1>3 DEF Lane, Holders, Early
<1> QED BY <1>1, <1>2, <1>4, <1>5, TaskTrack DEF EntryStates

\* A loop ends with an outcome of its own.
LEMMA LoopEndsTrack ==
  ASSUME TrackInv, NEW s \in Spawns, LoopEnds(s)
  PROVE  TrackInv'
<1> USE DEF LoopEnds, At, Step, ends, user, hist
<1>1. OnlyTask(s) /\ UNCHANGED <<span, log, entry, woken, lead>>
  BY DEF OnlyTask, TrackInv, TasksTyped
<1>2. TasksTyped'
  BY DEF TrackInv, TasksTyped, TaskPc, Outs, SpanStates
<1>3. /\ Lane(s) /\ woken \in BOOLEAN /\ pc[s] = "running" /\ pc'[s] = "close"
      /\ out'[s] \in SpanStates
  BY DEF TrackInv, LeadTyped, TasksTyped, SpanStates
<1>4. Lane(s)' /\ Counted(s)' /\ s \in Holders
  BY <1>1, <1>3 DEF Lane, Counted, Holders, Early, SpanStates
<1> QED BY <1>1, <1>2, <1>3, <1>4, TaskTrack

\* A lane closes its row with what it says of its end.
LEMMA ClosedSpanIs ==
  ASSUME TasksTyped, NEW s \in Spawns, NEW state \in SpanStates, NEW detail \in Details,
         span' = ClosedSpan(s, state, detail)
  PROVE  /\ span' \in [Spawns -> SpanType]
         /\ \A t \in Spawns : t # s => span'[t] = span[t]
         /\ span[s].state = "running" => span'[s].state = state /\ span'[s].detail = detail
         /\ span[s].state # "running" => span'[s] = span[s]
<1>1. [state |-> state, detail |-> detail] \in SpanType
  BY DEF SpanType
<1>2. CASE span[s].state = "running"
  BY <1>1, <1>2 DEF ClosedSpan, TasksTyped
<1>3. CASE span[s].state # "running"
  BY <1>3 DEF ClosedSpan, TasksTyped
<1> QED BY <1>2, <1>3

\* What a lane may say of its end.
LEMMA StateOfType ==
  ASSUME TasksTyped, NEW s \in Spawns, out[s] # "none"
  PROVE  /\ StateOf(s) \in SpanStates /\ DetailOf(s) \in Details
         /\ CancelDetail \in {"cancelled", "run ended", "daemon stop"}
         /\ out[s] # "unstarted" /\ StateOf(s) = "done" => out[s] = "done"
BY DEF TasksTyped, Outs, StateOf, DetailOf, SpanState, Detail, CancelDetail, SpanStates, Details

\* SubagentLane::close writes the row ...
LEMMA CloseSpanTrack ==
  ASSUME TrackInv, NEW s \in Spawns, CloseSpan(s)
  PROVE  TrackInv'
<1> USE DEF CloseSpan, At, Step, ends, user, hist
<1>1. UNCHANGED <<log, entry, woken, lead>>
  OBVIOUS
<1>2. Lane(s) /\ woken \in BOOLEAN /\ pc[s] = "close" /\ pc'[s] = "narrate"
  BY DEF TrackInv, LeadTyped, TasksTyped
<1>3. StateOf(s) \in SpanStates /\ DetailOf(s) \in Details /\ span[s].state = "running"
  BY <1>2, StateOfType DEF Lane, TrackInv
<1>4. /\ span' \in [Spawns -> SpanType] /\ \A t \in Spawns : t # s => span'[t] = span[t]
      /\ span'[s].state = StateOf(s)
  BY <1>3, ClosedSpanIs DEF TrackInv
<1>5. OnlyTask(s)
  BY <1>4 DEF OnlyTask, TrackInv, TasksTyped
<1>6. TasksTyped'
  BY <1>3, <1>4 DEF TrackInv, TasksTyped, TaskPc, Outs
<1>7. /\ out[s] = "unstarted" => out'[s] = "unstarted" /\ StateOf(s) = "cancelled"
      /\ out[s] # "unstarted" => out'[s] = StateOf(s)
  BY DEF TrackInv, TasksTyped, StateOf
<1>8. Lane(s)' /\ (Counted(s) => Counted(s)') /\ (s \in Holders' => s \in Holders)
  BY <1>1, <1>2, <1>3, <1>4, <1>7 DEF Lane, Counted, Holders, Early, SpanStates
<1> QED BY <1>1, <1>2, <1>3, <1>5, <1>6, <1>8, TaskTrack

\* ... then the record.
LEMMA CloseLogTrack ==
  ASSUME TrackInv, NEW s \in Spawns, CloseLog(s)
  PROVE  TrackInv'
<1> USE DEF CloseLog, At, Step, ends, user, hist
<1>1. OnlyTask(s) /\ UNCHANGED <<span, entry, woken, lead>>
  BY DEF OnlyTask, TrackInv, TasksTyped
<1>2. Lane(s) /\ woken \in BOOLEAN /\ pc[s] = "narrate"
  BY DEF TrackInv, LeadTyped
<1>3. out[s] \in SpanStates \cup {"unstarted"}
  BY <1>2 DEF Lane, TrackInv, TasksTyped, Outs
<1>4. /\ pc'[s] = IF out[s] = "unstarted" THEN "gone" ELSE "settle"
      /\ out'[s] = IF out[s] = "unstarted" THEN "none" ELSE out[s]
      /\ log'[s] = log[s] \cup {IF out[s] = "unstarted" THEN "cancelled" ELSE out[s]}
  BY DEF TrackInv, TasksTyped
<1>5. TasksTyped'
  <2>1. pc' \in [Spawns -> TaskPc]
    BY DEF TrackInv, TasksTyped, TaskPc
  <2>2. out' \in [Spawns -> Outs]
    BY DEF TrackInv, TasksTyped, Outs
  <2>3. log' \in [Spawns -> SUBSET (SpanStates \cup {"open"})]
    BY <1>3 DEF TrackInv, TasksTyped, SpanStates
  <2> QED BY <1>1, <2>1, <2>2, <2>3 DEF TrackInv, TasksTyped
<1>6. Lane(s)' /\ (Counted(s) => Counted(s)') /\ (s \in Holders' => s \in Holders)
  BY <1>1, <1>2, <1>3, <1>4 DEF Lane, Counted, Holders, Early, SpanStates
<1> QED BY <1>1, <1>2, <1>5, <1>6, TaskTrack

\* The answer reaches the tracker last.
LEMMA SettleTrack ==
  ASSUME TrackInv, NEW s \in Spawns, Settle(s)
  PROVE  TrackInv'
<1> USE DEF Settle, At, Step, SetEntry, ends, user, hist
<1>1. OnlyTask(s) /\ UNCHANGED <<span, log, lead>>
  BY DEF OnlyTask, TrackInv, TasksTyped
<1>2. TasksTyped'
  BY DEF TrackInv, TasksTyped, TaskPc, Outs
<1>3. /\ Lane(s) /\ pc[s] = "settle" /\ pc'[s] = "gone" /\ out'[s] = "none"
      /\ out[s] \in Outs /\ lead.at # "down"
  BY DEF TrackInv, TasksTyped, Lane
<1>4. Lane(s)' /\ s \notin Holders'
  <2>1. span'[s].state \in SpanStates /\ span'[s] = span[s] /\ log'[s] = log[s]
    BY <1>1, <1>3 DEF Lane, Outs
  <2> QED BY <1>1, <1>3, <2>1 DEF Lane, Holders, Early, SpanStates
<1>5. PICK st \in {"completed", "failed"} :
         /\ st = IF out[s] = "done" THEN "completed" ELSE "failed"
         /\ entry' = [entry EXCEPT ![RunId[s]] = [st |-> st, of |-> <<s>>]]
  OBVIOUS
<1>6. st = "completed" => span'[s].state = "done"
  BY <1>1, <1>3, <1>5 DEF Lane
<1>7. woken' \in BOOLEAN
  OBVIOUS
<1> QED BY <1>1, <1>2, <1>4, <1>5, <1>6, <1>7, TaskTrack DEF EntryStates

\* A task that is dropped closes its lane, and its entry unless it finished.
LEMMA DroppedTrack ==
  ASSUME TrackInv, NEW s \in Spawns, NEW state \in {"failed", "cancelled"}, NEW detail \in Details,
         pc[s] \in {"queued", "running"}, Dropped(s, state, detail), lead.at # "down",
         UNCHANGED <<out, reported, lead, late, ends, user, hist>>
  PROVE  TrackInv'
<1> USE DEF Dropped, Step, SetEntry, ends, user, hist
<1>1. Lane(s) /\ woken \in BOOLEAN /\ pc'[s] = "gone" /\ span[s].state = "running"
  BY DEF TrackInv, LeadTyped, TasksTyped, Lane, Early
<1>2. /\ span' \in [Spawns -> SpanType] /\ \A t \in Spawns : t # s => span'[t] = span[t]
      /\ span'[s].state = state
  BY <1>1, ClosedSpanIs DEF TrackInv, SpanStates
<1>3. OnlyTask(s)
  BY <1>2 DEF OnlyTask, TrackInv, TasksTyped
<1>4. TasksTyped'
  BY <1>2 DEF TrackInv, TasksTyped, TaskPc, SpanStates
<1>5. log'[s] = log[s] \cup {state}
  BY DEF TrackInv, TasksTyped
<1>6. Lane(s)' /\ s \notin Holders'
  BY <1>1, <1>2, <1>5 DEF Lane, Holders, Early
<1>7. CASE entry[RunId[s]].st \in {"completed", "failed"}
  <2>1. entry' = entry /\ woken' = woken /\ ~Unfinished(RunId[s])
    BY <1>7 DEF Unfinished
  <2> QED BY <1>1, <1>3, <1>4, <1>6, <2>1, TaskTrack
<1>8. CASE entry[RunId[s]].st \notin {"completed", "failed"}
  <2>1. /\ woken' \in BOOLEAN
        /\ entry' = [entry EXCEPT ![RunId[s]] = [st |-> "failed", of |-> <<s>>]]
    BY <1>8
  <2> QED BY <1>1, <1>3, <1>4, <1>6, <2>1, TaskTrack DEF EntryStates
<1> QED BY <1>7, <1>8

----------------------------------------------------------------------------
(* The lead, the daemon, and the tracker's theorem. *)

\* The lead's steps leave lanes, entries and permits alone.
LEMMA LeadTrack ==
  ASSUME TrackInv, LeadStep
  PROVE  TrackInv'
<1>1. /\ pc' = pc /\ out' = out /\ span' = span /\ log' = log /\ entry' = entry
      /\ lead.at # "down" /\ lead'.at # "down"
  BY LeadStepFrame DEF TrackInv
<1>2. LeadTyped'
  BY LeadStepTyped DEF TrackInv
<1>3. \A t \in Spawns : Lane(t)'
  BY <1>1, SameLane DEF TrackInv
<1>4. Entries'
  BY <1>1 DEF TrackInv, Entries, Counted, Unfinished
<1>5. TasksTyped' /\ Permits'
  BY <1>1 DEF TrackInv, TasksTyped, Permits, Holders
<1> QED BY <1>2, <1>3, <1>4, <1>5 DEF TrackInv

\* Panics and aborts drop the task.
LEMMA EndedTrack ==
  ASSUME TrackInv, NEW s \in Spawns, Panics(s) \/ Aborted(s)
  PROVE  TrackInv'
<1>1. CASE Panics(s)
  <2>1. lead.at # "down"
    BY <1>1 DEF Panics, At, TrackInv, Lane
  <2>2. "panicked" \in Details
    BY DEF Details
  <2> QED BY <1>1, <2>1, <2>2, DroppedTrack DEF Panics, At
<1>2. CASE Aborted(s)
  <2>1. CancelDetail \in Details
    BY DEF CancelDetail, Details
  <2> QED BY <1>2, <2>1, DroppedTrack DEF Aborted
<1> QED BY <1>1, <1>2

\* A daemon that goes takes tasks and tracker with it.
LEMMA ForgetTrack ==
  ASSUME TrackInv, Forget,
         log' \in [Spawns -> SUBSET (SpanStates \cup {"open"})], span' \in [Spawns -> SpanType],
         \A s \in Spawns : pc[s] = "none" => span'[s] = span[s] /\ log'[s] = {},
         \A s \in Spawns : "done" \in log'[s] => span'[s].state = "done"
  PROVE  TrackInv'
<1>1. /\ pc' = [s \in Spawns |-> IF pc[s] = "none" THEN "none" ELSE "gone"]
      /\ out' = [s \in Spawns |-> "none"] /\ entry' = [i \in Ids |-> NoEntry]
      /\ lead' = [at |-> "down", id |-> "none", saw |-> <<>>]
  BY DEF Forget
<1>2. TasksTyped'
  BY <1>1 DEF TasksTyped, TaskPc, Outs
<1>3. NoEntry \in EntryType /\ lead' \in LeadType
  BY <1>1 DEF NoEntry, EntryType, LeadType, LeadPc
<1>4. LeadTyped'
  <2>1. entry' \in [Ids -> EntryType] /\ lead'.at # "mark"
    BY <1>1, <1>3
  <2>2. asks' \in 0..MaxAsks /\ inbox' \in 0..asks'
    BY DEF Forget, TrackInv, LeadTyped
  <2>3. /\ reported' = {} /\ raced' = {} /\ shown' = {} /\ left' = {} /\ listed' \subseteq Spawns
        /\ woken' = FALSE /\ late' = FALSE /\ runTok' = FALSE /\ subsTok' = FALSE
    BY DEF Forget, TrackInv, LeadTyped
  <2> QED BY <1>3, <2>1, <2>2, <2>3 DEF LeadTyped
<1>5. ASSUME NEW s \in Spawns PROVE Lane(s)' /\ s \notin Holders'
  <2>1. pc'[s] \in {"none", "gone"} /\ (pc'[s] = "none" => pc[s] = "none") /\ out'[s] = "none"
    BY <1>1
  <2>2. Lane(s)
    BY DEF TrackInv
  <2> QED BY <1>1, <2>1, <2>2 DEF Lane, Holders, Early
<1>6. Entries'
  BY <1>1 DEF Entries, Unfinished, NoEntry
<1>7. Permits'
  <2>1. Holders' \subseteq Holders
    BY <1>5 DEF Holders
  <2> QED BY <2>1, PermitsDown DEF TrackInv
<1> QED BY <1>2, <1>4, <1>5, <1>6, <1>7 DEF TrackInv

\* What is kept of a log was in it.
LEMMA KeptIs ==
  ASSUME NEW R, NEW records \in [Spawns -> SUBSET R], NEW k \in Kept(records)
  PROVE  k \in [Spawns -> SUBSET R] /\ \A s \in Spawns : k[s] \subseteq records[s]
BY DEF Kept

\* A daemon that dies.
LEMMA CrashTrack ==
  ASSUME TrackInv, Crash
  PROVE  TrackInv'
<1>1. /\ log' \in [Spawns -> SUBSET (SpanStates \cup {"open"})]
      /\ \A s \in Spawns : log'[s] \subseteq log[s]
  BY KeptIs DEF Crash, TrackInv, TasksTyped
<1>2. Forget /\ span' = span /\ span \in [Spawns -> SpanType]
  BY DEF Crash, TrackInv, TasksTyped
<1>3. \A s \in Spawns : /\ pc[s] = "none" => log[s] = {}
                        /\ "done" \in log[s] => span[s].state = "done"
  BY DEF TrackInv, Lane
<1> QED BY <1>1, <1>2, <1>3, ForgetTrack

\* A runtime that stops.
LEMMA RuntimeTrack ==
  ASSUME TrackInv, RuntimeStops
  PROVE  TrackInv'
<1> DEFINE cut == {s \in Tasks : pc[s] \in {"queued", "running"}}
           records == [s \in Spawns |-> IF s \in cut THEN log[s] \cup {"cancelled"} ELSE log[s]]
<1>1. /\ Forget /\ log' \in Kept(records)
      /\ span' = [s \in Spawns |-> IF s \in cut
                                   THEN [state |-> "cancelled", detail |-> CancelDetail]
                                   ELSE span[s]]
  BY DEF RuntimeStops
<1>2. records \in [Spawns -> SUBSET (SpanStates \cup {"open"})]
  BY DEF TrackInv, TasksTyped, SpanStates
<1>3. /\ log' \in [Spawns -> SUBSET (SpanStates \cup {"open"})]
      /\ \A s \in Spawns : log'[s] \subseteq records[s]
  <2> HIDE DEF records
  <2> QED BY <1>1, <1>2, KeptIs
<1>4. span' \in [Spawns -> SpanType]
  BY <1>1 DEF TrackInv, TasksTyped, SpanType, SpanStates, CancelDetail, Details
<1>5. ASSUME NEW s \in Spawns
      PROVE  /\ pc[s] = "none" => span'[s] = span[s] /\ log'[s] = {}
             /\ "done" \in log'[s] => span'[s].state = "done"
  <2>1. Lane(s) /\ log'[s] \subseteq records[s]
    BY <1>3 DEF TrackInv
  <2>2. CASE s \in cut
    <3>1. span[s].state = "running" /\ pc[s] # "none" /\ records[s] = log[s] \cup {"cancelled"}
      BY <2>1, <2>2 DEF Lane, Early
    <3> QED BY <2>1, <3>1 DEF Lane
  <2>3. CASE s \notin cut
    <3>1. span'[s] = span[s] /\ records[s] = log[s]
      BY <1>1, <2>3
    <3> QED BY <2>1, <3>1 DEF Lane
  <2> QED BY <2>2, <2>3
<1> QED BY <1>1, <1>3, <1>4, <1>5, ForgetTrack

\* What a log says of a run: nothing, or a lane of its that it finished.
LEMMA RestoredIs ==
  ASSUME TrackInv, NEW i \in Ids
  PROVE  /\ Restored(i) \in EntryType
         /\ Restored(i).st \in {"none", "completed", "failed"}
         /\ Restored(i) # NoEntry =>
              \E s \in Spawns :
                 /\ Restored(i).of = <<s>> /\ RunId[s] = i /\ log[s] # {}
                 /\ Restored(i).st = "completed" => "done" \in log[s]
<1> DEFINE known == {s \in Spawns : RunId[s] = i /\ log[s] # {}}
<1>1. CASE known = {}
  BY <1>1 DEF Restored, NoEntry, EntryType
<1>2. CASE known # {}
  <2>1. PICK s \in known : s = CHOOSE x \in known : TRUE
    BY <1>2
  <2>2. Restored(i) = [st |-> IF "done" \in log[s] THEN "completed" ELSE "failed", of |-> <<s>>]
    BY <1>2, <2>1 DEF Restored
  <2>3. s \in Spawns /\ RunId[s] = i /\ log[s] # {}
    OBVIOUS
  <2> QED BY <2>2, <2>3 DEF EntryType
<1> QED BY <1>1, <1>2

\* A run that is resumed.
LEMMA ResumeTrack ==
  ASSUME TrackInv, Resume
  PROVE  TrackInv'
<1> USE DEF LeadAt, Goto
<1>1. /\ lead.at = "down" /\ lead' = [lead EXCEPT !.at = "round"]
      /\ UNCHANGED <<pc, out, log, reported, woken, late, runTok, subsTok, inbox, asks, shown,
                     raced, left, listed>>
      /\ entry' = [i \in Ids |-> Restored(i)]
      /\ span' = [s \in Spawns |-> IF span[s].state = "running"
                                   THEN [state |-> "cancelled", detail |-> "interrupted"]
                                   ELSE span[s]]
  BY DEF Resume, ends, user, hist
<1>2. TasksTyped'
  BY <1>1 DEF TrackInv, TasksTyped, SpanType, SpanStates, Details
<1>3. entry' \in [Ids -> EntryType]
  BY <1>1, RestoredIs
<1>4. lead' \in LeadType /\ lead'.at = "round"
  BY <1>1 DEF TrackInv, LeadTyped, LeadType, LeadPc
<1>5. LeadTyped'
  BY <1>1, <1>3, <1>4 DEF TrackInv, LeadTyped
<1>6. ASSUME NEW s \in Spawns
      PROVE  Lane(s)' /\ (span[s].state = "done" => span'[s].state = "done")
  <2>1. Lane(s) /\ pc'[s] = pc[s] /\ out'[s] = out[s] /\ log'[s] = log[s]
    BY <1>1 DEF TrackInv
  <2>2. /\ pc[s] \in {"none", "gone"}
        /\ span[s].state # "running" => span'[s] = span[s]
        /\ span[s].state = "running" => span'[s].state = "cancelled"
    BY <1>1, <2>1 DEF Lane
  <2> QED BY <1>1, <1>4, <2>1, <2>2 DEF Lane, Early
<1>7. Entries'
  <2> SUFFICES ASSUME NEW i \in Ids
               PROVE  /\ entry'[i].st \notin {"queued", "running"}
                      /\ entry'[i].st = "completed" =>
                            \A s \in Range(entry'[i].of) : span'[s].state = "done"
    BY DEF Entries, Unfinished
  <2>1. entry'[i] = Restored(i) /\ Restored(i).st \in {"none", "completed", "failed"}
    BY <1>1, RestoredIs
  <2>2. ASSUME Restored(i).st = "completed"
        PROVE  \A s \in Range(Restored(i).of) : span'[s].state = "done"
    <3>1. Restored(i) # NoEntry
      BY <2>2 DEF NoEntry
    <3>2. PICK s \in Spawns : Restored(i).of = <<s>> /\ "done" \in log[s]
      BY <2>2, <3>1, RestoredIs
    <3>3. span'[s].state = "done"
      BY <1>6, <3>2 DEF TrackInv, Lane
    <3> QED BY <3>2, <3>3, RangeOne
  <2> QED BY <2>1, <2>2
<1>8. Permits'
  <2>1. Holders' \subseteq Holders
    BY <1>1 DEF Holders
  <2> QED BY <2>1, PermitsDown DEF TrackInv
<1> QED BY <1>2, <1>5, <1>6, <1>7, <1>8 DEF TrackInv

\* A run begins with nobody spawned.
LEMMA InitTrack ==
  ASSUME Init
  PROVE  TrackInv
<1> USE DEF Init, NoEntry, NoSpan
<1>1. TasksTyped
  BY DEF TasksTyped, TaskPc, Outs, SpanType, SpanStates, Details
<1>2. LeadTyped
  <2>1. entry \in [Ids -> EntryType]
    BY DEF EntryType
  <2>2. lead \in LeadType /\ lead.at # "mark"
    BY DEF LeadType, LeadPc
  <2>3. asks \in 0..MaxAsks /\ inbox \in 0..asks
    OBVIOUS
  <2> QED BY <2>1, <2>2, <2>3 DEF LeadTyped
<1>3. \A s \in Spawns : Lane(s)
  BY DEF Lane, Early
<1>4. Entries
  BY DEF Entries, Unfinished
<1>5. Holders = {}
  BY DEF Holders
<1>6. Permits
  BY <1>5, FS_EmptySet DEF Permits
<1> QED BY <1>1, <1>2, <1>3, <1>4, <1>6 DEF TrackInv

\* Every step keeps the tracker's invariant.
LEMMA NextTrack ==
  ASSUME TrackInv, [Next]_vars
  PROVE  TrackInv'
<1>1. ASSUME NEW s \in Spawns, Spawn(s) \/ TaskStep(s) \/ Panics(s) \/ Aborted(s)
      PROVE  TrackInv'
  BY <1>1, SpawnTrack, AcquireTrack, StartTrack, FailTrack, LoopEndsTrack, CloseSpanTrack,
     CloseLogTrack, SettleTrack, EndedTrack DEF TaskStep
<1>2. CASE LeadStep
  BY <1>2, LeadTrack
<1>3. CASE Crash \/ RuntimeStops \/ Resume
  BY <1>3, CrashTrack, RuntimeTrack, ResumeTrack
<1>4. CASE UNCHANGED vars
  BY <1>4 DEF vars, TrackInv, TasksTyped, LeadTyped, Lane, Entries, Counted, Unfinished, Permits,
              Holders
<1> QED BY <1>1, <1>2, <1>3, <1>4 DEF Next, LeadStep

\* The tracker's invariant says what TrackerTrue promises.
LEMMA TrackImplies ==
  ASSUME TrackInv
  PROVE  TrackerTrue
<1>1. TypeOK
  <2>1. \A s \in Spawns : span[s].state \in SpanStates \cup {"none", "running"}
                          /\ span[s].detail \in Details
    BY DEF TrackInv, TasksTyped, SpanType
  <2>2. \A i \in Ids : /\ entry[i].st \in {"none", "queued", "running", "completed", "failed"}
                       /\ Range(entry[i].of) \subseteq Spawns
    BY OfType DEF TrackInv, LeadTyped, EntryType
  <2>3. lead.at \in LeadPc /\ inbox \in 0..MaxAsks
    BY DEF TrackInv, LeadTyped, LeadType
  <2> QED BY <2>1, <2>2, <2>3 DEF TypeOK, TrackInv, TasksTyped, LeadTyped, Outs, Details
<1>2. WaitedForIsAlive
  <2> SUFFICES ASSUME NEW i \in Ids, Unfinished(i)
               PROVE  \E s \in Tasks : RunId[s] = i
    BY DEF WaitedForIsAlive
  <2>1. PICK s \in Spawns : RunId[s] = i /\ Counted(s)
    BY DEF TrackInv, Entries
  <2> QED BY <2>1 DEF Counted, Early, Tasks
<1> QED BY <1>1, <1>2 DEF TrackerTrue, SlotsRespected, CompletedIsDone, TrackInv, Permits, Entries

\* What the lead reads in its tracker is so, for every number of spawns, slots
\* and crashes, and however run ids are shared (SubagentTracker).
THEOREM TrackerTrueAlways == Spec => []TrackerTrue
<1>1. Init => TrackInv
  BY InitTrack
<1>2. TrackInv /\ [Next]_vars => TrackInv'
  BY NextTrack
<1>3. TrackInv => TrackerTrue
  BY TrackImplies
<1> QED BY <1>1, <1>2, <1>3, PTL DEF Spec

----------------------------------------------------------------------------
(* The run's end. *)

\* A reason stands while its lane does; tokens only ever fire.
LEMMA SameReasons ==
  ASSUME NEW t \in Spawns, Reasons(t), pc'[t] = pc[t], out'[t] = out[t], span'[t] = span[t],
         runTok => runTok', subsTok => subsTok', t \in left' => t \in left
  PROVE  Reasons(t)'
BY DEF Reasons, Cancelled, Stopped

\* A task's step keeps the run's end, when its own lane has its reason.
LEMMA TaskEnd ==
  ASSUME CleanInv, NEW s \in Tasks, OnlyTask(s), Reasons(s)'
  PROVE  EndInv'
<1>1. s \in Spawns /\ pc[s] \notin {"none", "gone"}
  BY DEF Tasks
<1>2. ASSUME NEW t \in Spawns, t # s PROVE Reasons(t)' /\ span'[t] = span[t] /\ pc'[t] = pc[t]
  BY <1>2, SameReasons DEF OnlyTask, CleanInv, EndInv
<1>3. UNCHANGED <<lead, runTok, subsTok, left, listed>>
  BY DEF OnlyTask
<1>4. Tasks' \subseteq Tasks
  BY <1>2 DEF Tasks
<1>5. lead'.at \in {"report", "over"} => Tasks' \subseteq Stuck /\ s \in Stuck
  BY <1>3, <1>4 DEF CleanInv, EndInv
<1>6. LeadAt("over")' /\ ~runTok' =>
         \A t \in left' \ Stuck : t \in listed' \/ span'[t].state \in {"done", "failed"}
  <2> SUFFICES ASSUME lead.at = "over", ~runTok, NEW t \in left \ Stuck
               PROVE  t \in listed \/ span'[t].state \in {"done", "failed"}
    BY <1>3 DEF LeadAt
  <2>1. t \in Spawns /\ t # s
    BY <1>3, <1>5 DEF CleanInv, TrackInv, LeadTyped
  <2> QED BY <1>2, <2>1 DEF CleanInv, EndInv, LeadAt
<1> QED BY <1>2, <1>3, <1>5, <1>6 DEF CleanInv, EndInv

\* The reason a row gives for being cancelled, when a token has fired.
LEMMA CancelReason ==
  ASSUME NEW s \in Spawns, Cancelled, span'[s].detail = CancelDetail, runTok' = runTok
  PROVE  Stopped(s)'
BY DEF Cancelled, CancelDetail, Stopped

\* A subagent is spawned only by a run that goes on.
LEMMA SpawnEnd ==
  ASSUME CleanInv, NEW s \in Spawns, Spawn(s)
  PROVE  EndInv'
<1>1. /\ UNCHANGED <<lead, runTok, subsTok, left, listed, out>> /\ lead.at \in {"round", "sleep"}
      /\ pc'[s] = "queued"
      /\ \A t \in Spawns : t # s => pc'[t] = pc[t] /\ span'[t] = span[t]
  BY DEF Spawn, ends, hist, CleanInv, TrackInv, TasksTyped
<1>2. ~subsTok /\ left = {}
  BY <1>1 DEF CleanInv, EndInv, Ending
<1>3. ASSUME NEW t \in Spawns PROVE Reasons(t)'
  <2>1. CASE t = s
    BY <1>1, <1>2, <2>1 DEF Reasons
  <2>2. CASE t # s
    BY <1>1, <2>2, SameReasons DEF CleanInv, EndInv
  <2> QED BY <2>1, <2>2
<1> QED BY <1>1, <1>2, <1>3 DEF EndInv, Ending, LeadAt

\* The steps of a task before its lane is closed.
LEMMA EarlyEnd ==
  ASSUME CleanInv, NEW s \in Spawns, Acquire(s) \/ Start(s) \/ FailUnstarted(s) \/ LoopEnds(s)
  PROVE  EndInv'
<1> USE DEF Acquire, Start, FailUnstarted, LoopEnds, At, Step, ends, user, hist
<1>1. OnlyTask(s) /\ span' = span
  BY DEF OnlyTask, CleanInv, TrackInv, TasksTyped
<1>2. s \in Tasks /\ Reasons(s) /\ pc[s] \in Early /\ span[s].state = "running" /\ pc[s] # "none"
  <2>1. pc[s] \in Early /\ s \in Tasks
    BY DEF Early, Tasks
  <2> QED BY <2>1 DEF CleanInv, EndInv, TrackInv, Lane, Early
<1>3. /\ pc'[s] \in {"unstarted", "permit", "running", "close"}
      /\ pc'[s] \in {"unstarted", "close"} /\ out'[s] \in {"unstarted", "cancelled"} => Cancelled
  <2>1. CASE Acquire(s) \/ Start(s)
    BY <2>1 DEF CleanInv, TrackInv, TasksTyped
  <2>2. CASE FailUnstarted(s)
    <3>1. pc'[s] = "close" /\ pc[s] = "unstarted" /\ out' = out
      BY <2>2 DEF CleanInv, TrackInv, TasksTyped
    <3> QED BY <1>2, <3>1 DEF Reasons
  <2>3. CASE LoopEnds(s)
    BY <2>3 DEF CleanInv, TrackInv, TasksTyped
  <2> QED BY <2>1, <2>2, <2>3
<1>4. UNCHANGED <<runTok, subsTok, left>>
  BY <1>1 DEF OnlyTask
<1>5. Reasons(s)'
  BY <1>1, <1>2, <1>3, <1>4 DEF Reasons, Cancelled
<1> QED BY <1>1, <1>2, <1>5, TaskEnd

\* The row is closed with the reason its token gives.
LEMMA CloseSpanEnd ==
  ASSUME CleanInv, NEW s \in Spawns, CloseSpan(s)
  PROVE  EndInv'
<1> USE DEF CloseSpan, At, Step, ends, user, hist
<1>1. pc[s] = "close" /\ pc'[s] = "narrate" /\ Lane(s) /\ Reasons(s) /\ s \in Tasks
  BY DEF CleanInv, TrackInv, TasksTyped, EndInv, Tasks
<1>2. StateOf(s) \in SpanStates /\ DetailOf(s) \in Details /\ span[s].state = "running"
  BY <1>1, StateOfType DEF Lane, CleanInv, TrackInv
<1>3. /\ \A t \in Spawns : t # s => span'[t] = span[t]
      /\ span'[s].state = StateOf(s) /\ span'[s].detail = DetailOf(s)
  BY <1>2, ClosedSpanIs DEF CleanInv, TrackInv
<1>4. OnlyTask(s)
  BY <1>3 DEF OnlyTask, CleanInv, TrackInv, TasksTyped
<1>5. UNCHANGED <<runTok, subsTok, left>>
  OBVIOUS
<1>6. StateOf(s) = "cancelled" => Cancelled /\ DetailOf(s) = CancelDetail
  BY <1>1 DEF StateOf, DetailOf, SpanState, Detail, Reasons
<1>7. StateOf(s) = "cancelled" => Stopped(s)'
  BY <1>3, <1>5, <1>6, CancelReason
<1>8. Reasons(s)'
  BY <1>1, <1>2, <1>3, <1>7 DEF Reasons, SpanStates
<1> QED BY <1>1, <1>4, <1>8, TaskEnd

\* The record and the answer change nothing of that.
LEMMA LateEnd ==
  ASSUME CleanInv, NEW s \in Spawns, CloseLog(s) \/ Settle(s)
  PROVE  EndInv'
<1> USE DEF CloseLog, Settle, At, Step, ends, user, hist
<1>1. OnlyTask(s) /\ span' = span
  BY DEF OnlyTask, CleanInv, TrackInv, TasksTyped
<1>2. /\ pc[s] \in {"narrate", "settle"} /\ pc'[s] \in {"settle", "gone"}
      /\ Reasons(s) /\ s \in Tasks
  BY DEF CleanInv, TrackInv, TasksTyped, EndInv, Tasks
<1>3. UNCHANGED <<runTok, subsTok, left>>
  BY <1>1 DEF OnlyTask
<1>4. Reasons(s)'
  BY <1>1, <1>2, <1>3 DEF Reasons, Stopped
<1> QED BY <1>1, <1>2, <1>4, TaskEnd

\* A task that panics closed as failed, one that is aborted says why.
LEMMA DropEnd ==
  ASSUME CleanInv, NEW s \in Spawns, Panics(s) \/ Aborted(s)
  PROVE  EndInv'
<1> USE DEF ends, user, hist
<1>1. PICK state \in {"failed", "cancelled"}, detail \in Details :
         /\ Dropped(s, state, detail) /\ UNCHANGED <<out, reported, lead, late, ends, user, hist>>
         /\ state = "cancelled" => Cancelled /\ detail = CancelDetail
  <2>1. CASE Panics(s)
    BY <2>1 DEF Panics, Details
  <2>2. CASE Aborted(s)
    <3>1. CancelDetail \in Details
      BY DEF CancelDetail, Details
    <3>2. Cancelled
      BY <2>2 DEF Aborted, CleanInv, EndInv, Ending, Cancelled
    <3> QED BY <2>2, <3>1, <3>2 DEF Aborted
  <2> QED BY <2>1, <2>2
<1>2. /\ pc[s] \in {"queued", "running"} /\ s \in Tasks /\ Lane(s) /\ Reasons(s)
  BY DEF Panics, Aborted, At, Tasks, CleanInv, TrackInv, EndInv
<1>3. span[s].state = "running"
  BY <1>2 DEF Lane, Early
<1>4. /\ \A t \in Spawns : t # s => span'[t] = span[t]
      /\ span'[s].state = state /\ span'[s].detail = detail
  BY <1>1, <1>3, ClosedSpanIs DEF Dropped, CleanInv, TrackInv, SpanStates
<1>5. OnlyTask(s) /\ pc'[s] = "gone"
  BY <1>1, <1>4 DEF OnlyTask, Dropped, Step, CleanInv, TrackInv, TasksTyped
<1>6. UNCHANGED <<runTok, subsTok, left>>
  BY <1>1
<1>7. state = "cancelled" => Stopped(s)'
  BY <1>1, <1>4, <1>6, CancelReason
<1>8. Reasons(s)'
  BY <1>4, <1>5, <1>7 DEF Reasons
<1> QED BY <1>2, <1>5, <1>8, TaskEnd

\* The lead works, waits, or is cancelled.
LEMMA WorkEnd ==
  ASSUME CleanInv, LeadStep, ~StopStep
  PROVE  EndInv'
<1>1. UNCHANGED <<pc, out, span>> /\ lead \in LeadType
  BY LeadStepFrame DEF CleanInv, TrackInv, LeadTyped
<1>2. /\ subsTok' = subsTok /\ left' = left /\ listed' = listed /\ (runTok => runTok')
      /\ \/ lead' = lead /\ (lead.at = "over" => runTok' = runTok)
         \/ lead.at \notin Ending /\ lead'.at \notin Ending
  <2> USE DEF LeadAt, Goto, LeadType, Ending, hist, ends
  <2>1. ASSUME NEW i \in Ids, CheckReads(i)
        PROVE  /\ subsTok' = subsTok /\ left' = left /\ listed' = listed /\ (runTok => runTok')
               /\ lead.at \notin Ending /\ lead'.at \notin Ending
    BY <2>1 DEF CheckReads
  <2>2. CASE CheckMarks
    BY <2>2 DEF CheckMarks
  <2>3. CASE WaitCalled \/ Clock \/ Push \/ Drain
    BY <2>3, <1>1 DEF WaitCalled, Clock, Push, Drain
  <2>4. CASE WaitStep
    BY <2>4, <1>1 DEF WaitStep, WaitLooksAtInbox, WaitListens, WaitChecks, WaitSelects, WaitWakes,
                      WaitReports
  <2>5. CASE UserCancels \/ LeadEnds
    BY <2>5, <1>1 DEF UserCancels, LeadEnds
  <2> QED BY <2>1, <2>2, <2>3, <2>4, <2>5 DEF LeadStep
<1>3. \A t \in Spawns : Reasons(t)'
  BY <1>1, <1>2, SameReasons DEF CleanInv, EndInv
<1>4. Tasks' = Tasks
  BY <1>1 DEF Tasks
<1> QED BY <1>1, <1>2, <1>3, <1>4 DEF CleanInv, EndInv, Ending, LeadAt

\* The token fires; who is unfinished then has a lane that is open, or says why not.
LEMMA StopCancelsEnd ==
  ASSUME CleanInv, StopCancels
  PROVE  EndInv'
<1>1. /\ UNCHANGED <<pc, out, span, runTok>> /\ subsTok' = TRUE /\ lead'.at = "grace"
      /\ left' = {s \in Spawns : Unfinished(RunId[s]) /\ s \in Range(entry[RunId[s]].of)}
  BY DEF StopCancels, task, Goto, CleanInv, TrackInv, LeadTyped, LeadType
<1>2. ASSUME NEW s \in Spawns PROVE Reasons(s)'
  <2>1. Reasons(s) /\ Lane(s) /\ out[s] \in Outs
    BY DEF CleanInv, EndInv, TrackInv, TasksTyped
  <2>2. s \in left' => Counted(s)
    <3> SUFFICES ASSUME s \in left' PROVE Counted(s)
      OBVIOUS
    <3>1. Unfinished(RunId[s]) /\ s \in Range(entry[RunId[s]].of) /\ RunId[s] \in Ids
      BY <1>1
    <3>2. PICK t \in Spawns : entry[RunId[s]].of = <<t>> /\ Counted(t)
      BY <3>1 DEF CleanInv, TrackInv, Entries
    <3> QED BY <3>1, <3>2, RangeOne
  <2>3. Counted(s) => /\ pc[s] # "none" /\ span[s].state # "none"
                      /\ span[s].state = "cancelled" => Stopped(s)
    BY <2>1 DEF Counted, Lane, Early, Reasons
  <2> QED BY <1>1, <2>1, <2>2, <2>3 DEF Reasons, Stopped, Cancelled
<1> QED BY <1>1, <1>2 DEF EndInv, Ending, LeadAt

\* The grace and the abort's wait end with no task but a stuck one.
LEMMA GraceEnd ==
  ASSUME CleanInv, GraceEnds \/ AbortEnds
  PROVE  EndInv'
<1>1. /\ UNCHANGED <<pc, out, span, runTok, subsTok, left, listed>>
      /\ lead.at \in {"grace", "abort"} /\ lead'.at \in {"abort", "report"}
      /\ lead'.at = "report" => Tasks \subseteq Stuck
  BY DEF GraceEnds, AbortEnds, task, hist, ends, Goto, LeadAt, CleanInv, TrackInv, LeadTyped, LeadType
<1>2. \A t \in Spawns : Reasons(t)'
  BY <1>1, SameReasons DEF CleanInv, EndInv
<1>3. Tasks' = Tasks
  BY <1>1 DEF Tasks
<1> QED BY <1>1, <1>2, <1>3 DEF CleanInv, EndInv, Ending, LeadAt

\* The report finds every lane that the run's end closed.
LEMMA ReportEnd ==
  ASSUME CleanInv, Report
  PROVE  EndInv'
<1>1. /\ UNCHANGED <<pc, out, span, runTok, subsTok, left>>
      /\ lead.at = "report" /\ lead'.at = "over"
      /\ listed' = {s \in Spawns : span[s] = [state |-> "cancelled", detail |-> "run ended"]}
  BY DEF Report, task, hist, ends, Goto, LeadAt, CleanInv, TrackInv, LeadTyped, LeadType
<1>2. \A t \in Spawns : Reasons(t)'
  BY <1>1, SameReasons DEF CleanInv, EndInv
<1>3. Tasks' = Tasks /\ Tasks \subseteq Stuck
  BY <1>1 DEF Tasks, CleanInv, EndInv
<1>4. ASSUME ~runTok, NEW s \in left \ Stuck
      PROVE  s \in listed' \/ span[s].state \in {"done", "failed"}
  <2>1. s \in Spawns /\ s \notin Tasks
    BY <1>3, <1>4 DEF CleanInv, TrackInv, LeadTyped
  <2>2. Reasons(s) /\ Lane(s) /\ span[s] \in SpanType /\ lead.at # "down"
    BY <1>1, <2>1 DEF CleanInv, TrackInv, EndInv, TasksTyped
  <2>3. pc[s] = "gone" /\ span[s].state \notin {"none", "running"}
    BY <2>1, <2>2 DEF Reasons, Lane, Tasks
  <2>4. span[s].state = "cancelled" => span[s] = [state |-> "cancelled", detail |-> "run ended"]
    BY <1>4, <2>2 DEF Reasons, Stopped, SpanType
  <2> QED BY <1>1, <2>1, <2>2, <2>3, <2>4 DEF SpanType, SpanStates
<1> QED BY <1>1, <1>2, <1>3, <1>4 DEF CleanInv, EndInv, Ending, LeadAt

\* A dead run ends nothing, a resumed one has not yet.
LEMMA DaemonEnd ==
  ASSUME CleanInv, Crash \/ RuntimeStops \/ Resume
  PROVE  EndInv'
<1>1. /\ left' = {} /\ subsTok' = FALSE /\ lead'.at \in {"down", "round"}
      /\ \A s \in Spawns : pc'[s] \in {"none", "gone"}
  <2>1. CASE Crash \/ RuntimeStops
    <3>1. Forget
      BY <2>1 DEF Crash, RuntimeStops
    <3> QED BY <3>1 DEF Forget
  <2>2. CASE Resume
    <3>1. /\ lead.at = "down" /\ lead'.at = "round" /\ UNCHANGED <<pc, left, subsTok>>
      BY <2>2 DEF Resume, LeadAt, Goto, hist, ends, CleanInv, TrackInv, LeadTyped, LeadType
    <3>2. ~subsTok /\ left = {} /\ subsTok \in BOOLEAN
      BY <3>1 DEF CleanInv, EndInv, Ending, TrackInv, LeadTyped
    <3>3. \A s \in Spawns : pc[s] \in {"none", "gone"}
      BY <3>1 DEF CleanInv, TrackInv, Lane
    <3> QED BY <3>1, <3>2, <3>3
  <2> QED BY <2>1, <2>2
<1>2. \A s \in Spawns : Reasons(s)'
  BY <1>1 DEF Reasons
<1> QED BY <1>1, <1>2 DEF EndInv, Ending, LeadAt

\* Every step keeps the invariant of the run's end.
LEMMA NextClean ==
  ASSUME CleanInv, [Next]_vars
  PROVE  CleanInv'
<1> SUFFICES EndInv'
  BY NextTrack DEF CleanInv
<1>1. ASSUME NEW s \in Spawns, Spawn(s) \/ TaskStep(s) \/ Panics(s) \/ Aborted(s)
      PROVE  EndInv'
  BY <1>1, SpawnEnd, EarlyEnd, CloseSpanEnd, LateEnd, DropEnd DEF TaskStep
<1>2. CASE LeadStep
  BY <1>2, WorkEnd, StopCancelsEnd, GraceEnd, ReportEnd DEF StopStep
<1>3. CASE Crash \/ RuntimeStops \/ Resume
  BY <1>3, DaemonEnd
<1>4. CASE UNCHANGED vars
  <2>1. UNCHANGED <<pc, out, span, lead, runTok, subsTok, left, listed>>
    BY <1>4 DEF vars
  <2> QED BY <2>1 DEF CleanInv, EndInv, Reasons, Stopped, Cancelled, Tasks, LeadAt
<1> QED BY <1>1, <1>2, <1>3, <1>4 DEF Next, LeadStep

\* The invariant says what EndIsClean promises.
LEMMA CleanImplies ==
  ASSUME CleanInv
  PROVE  EndIsClean
<1>1. ASSUME lead.at = "over", NEW s \in Spawns \ Stuck
      PROVE  pc[s] \in {"none", "gone"} /\ span[s].state # "running"
  <2>1. pc[s] \in {"none", "gone"} /\ Lane(s)
    BY <1>1 DEF CleanInv, EndInv, Tasks, TrackInv
  <2> QED BY <1>1, <2>1 DEF Lane
<1> QED BY <1>1 DEF EndIsClean, NothingOutlives, ReportNamesTheStopped, LeadAt, CleanInv, EndInv

\* The end of a run is clean, whatever its subagents, its user and the daemon
\* do: nothing but a stuck call outlives the report, and the report names who
\* was stopped (stop_subagents, stopped_subagents).
THEOREM EndIsCleanAlways == Spec => []EndIsClean
<1>1. Init => CleanInv
  <2> SUFFICES ASSUME Init PROVE EndInv
    BY InitTrack DEF CleanInv
  <2>1. \A s \in Spawns : Reasons(s)
    BY DEF Init, Reasons
  <2> QED BY <2>1 DEF Init, EndInv, Ending, LeadAt
<1>2. CleanInv /\ [Next]_vars => CleanInv'
  BY NextClean
<1>3. CleanInv => EndIsClean
  BY CleanImplies
<1> QED BY <1>1, <1>2, <1>3, PTL DEF Spec

----------------------------------------------------------------------------
(* The wait, where every spawn has a run id of its own. *)

\* A task that still counts is the one its entry waits for.
LEMMA OwnWrite ==
  ASSUME OwnRunIds, OwnInv, NEW s \in Spawns, Counted(s)
  PROVE  /\ RunId[s] \in Ids /\ Unfinished(RunId[s]) /\ ~Finished(RunId[s])
         /\ entry[RunId[s]].of = <<s>> /\ ~AllDone
<1>1. RunId[s] \in Ids /\ Unfinished(RunId[s])
  BY DEF OwnInv, OwnEntries
<1>2. PICK t \in Spawns : entry[RunId[s]].of = <<t>> /\ RunId[t] = RunId[s]
  BY <1>1 DEF OwnInv, TrackInv, Entries
<1>3. t = s
  BY <1>2 DEF OwnRunIds
<1> QED BY <1>1, <1>2, <1>3 DEF Unfinished, Finished, AllDone

\* A task's step keeps what the wait relies on.
LEMMA TaskOwn ==
  ASSUME OwnRunIds, OwnInv, NEW s \in Tasks, OnlyTask(s), pc'[s] # "none",
         \/ entry' = entry /\ (Counted(s)' => Counted(s))
         \/ /\ Counted(s)
            /\ \E st \in {"running", "completed", "failed"} :
                  /\ entry' = [entry EXCEPT ![RunId[s]] = [st |-> st, of |-> <<s>>]]
                  /\ Counted(s)' => st = "running"
  PROVE  WaitInv' /\ OwnEntries' /\ ShownInv'
<1>1. /\ s \in Spawns /\ pc[s] # "none" /\ RunId[s] \in Ids
      /\ UNCHANGED <<lead, reported, late, inbox, shown, raced>>
      /\ \A t \in Spawns : t # s => pc'[t] = pc[t] /\ (Counted(t)' => Counted(t))
  BY DEF Tasks, OnlyTask, Counted
<1>2. CASE entry' = entry /\ (Counted(s)' => Counted(s))
  BY <1>1, <1>2 DEF OwnInv, WaitInv, OwnEntries, ShownInv, AllDone, Finished, Unfinished, LeadAt
<1>3. ASSUME Counted(s), NEW st \in {"running", "completed", "failed"},
             entry' = [entry EXCEPT ![RunId[s]] = [st |-> st, of |-> <<s>>]],
             Counted(s)' => st = "running"
      PROVE  WaitInv' /\ OwnEntries' /\ ShownInv'
  <2>1. /\ entry'[RunId[s]].st = st /\ entry'[RunId[s]].of = <<s>>
        /\ \A i \in Ids : i # RunId[s] => entry'[i] = entry[i]
    BY <1>1, <1>3, SetEntryIs DEF OwnInv, TrackInv, EntryStates
  <2>2. /\ Unfinished(RunId[s]) /\ ~Finished(RunId[s]) /\ ~AllDone /\ entry[RunId[s]].of = <<s>>
    BY <1>1, <1>3, OwnWrite
  <2>3. WaitInv'
    BY <1>1, <2>2 DEF OwnInv, WaitInv, LeadAt
  <2>4. OwnEntries'
    <3>1. \A i \in Ids : entry'[i].st # "none" =>
             \E t \in Spawns : entry'[i].of = <<t>> /\ RunId[t] = i /\ pc'[t] # "none"
      <4> TAKE i \in Ids
      <4>1. CASE i = RunId[s]
        BY <1>1, <2>1, <4>1
      <4>2. CASE i # RunId[s]
        BY <1>1, <2>1, <4>2 DEF OwnInv, OwnEntries
      <4> QED BY <4>1, <4>2
    <3>2. \A t \in Spawns : Counted(t)' => Unfinished(RunId[t])'
      <4> TAKE t \in Spawns
      <4>1. CASE t = s
        BY <1>1, <1>3, <2>1, <4>1 DEF Unfinished
      <4>2. CASE t # s
        <5>1. RunId[t] # RunId[s] /\ RunId[t] \in Ids
          BY <1>1, <4>2 DEF OwnRunIds
        <5> QED BY <1>1, <2>1, <4>2, <5>1 DEF OwnInv, OwnEntries, Unfinished
      <4> QED BY <4>1, <4>2
    <3> QED BY <3>1, <3>2 DEF OwnEntries
  <2>5. ShownInv'
    <3>1. \A i \in Ids : Finished(i) => Finished(i)' /\ entry'[i] = entry[i]
      BY <2>1, <2>2 DEF Finished
    <3>2. \A i \in Ids : entry[i].st # "none" => entry'[i].of = entry[i].of
      BY <2>1, <2>2
    <3>3. \A i \in reported' \ raced' : Finished(i)' /\ Range(entry'[i].of) \subseteq shown'
      BY <1>1, <3>1 DEF OwnInv, ShownInv, TrackInv, LeadTyped
    <3>4. ASSUME lead.at = "mark"
          PROVE  \E e \in EntryType :
                    /\ lead.saw = <<e>> /\ e.of = entry'[lead.id].of
                    /\ e.st \in {"completed", "failed"} =>
                          entry'[lead.id].st \in {"completed", "failed"}
      <4>1. PICK e \in EntryType :
               /\ lead.saw = <<e>> /\ e.of = entry[lead.id].of
               /\ e.st \in {"completed", "failed"} => Finished(lead.id)
        BY <3>4 DEF OwnInv, ShownInv, LeadAt
      <4>2. lead.id \in Ids
        BY <3>4 DEF OwnInv, TrackInv, LeadTyped
      <4>3. entry'[lead.id].of = entry[lead.id].of
        BY <2>1, <2>2, <4>2
      <4>4. Finished(lead.id) => entry'[lead.id].st \in {"completed", "failed"}
        BY <2>1, <2>2, <4>2 DEF Finished
      <4> QED BY <4>1, <4>3, <4>4
    <3>5. lead' = lead
      BY <1>1
    <3> QED BY <3>3, <3>4, <3>5 DEF ShownInv, LeadAt, Finished
  <2> QED BY <2>3, <2>4, <2>5
<1> QED BY <1>2, <1>3

\* A status change of a task that counts.
LEMMA WriteOwn ==
  ASSUME OwnRunIds, OwnInv, NEW s \in Spawns,
         Start(s) \/ FailUnstarted(s) \/ Settle(s) \/ Panics(s) \/ Aborted(s)
  PROVE  /\ OnlyTask(s) /\ Counted(s) /\ s \in Tasks /\ pc'[s] # "none"
         /\ \/ entry' = entry /\ Start(s) /\ Counted(s)'
            \/ \E st \in {"running", "completed", "failed"} :
                  /\ entry' = [entry EXCEPT ![RunId[s]] = [st |-> st, of |-> <<s>>]]
                  /\ st = "running" => Start(s)
                  /\ Counted(s)' => st = "running"
<1> USE DEF At, Step, SetEntry, ends, user, hist
<1>a. Lane(s) /\ TasksTyped
  BY DEF OwnInv, TrackInv
<1>1. CASE Start(s)
  <2>1. OnlyTask(s) /\ pc[s] = "permit" /\ pc'[s] \in {"unstarted", "running"}
    BY <1>1, <1>a DEF Start, OnlyTask, TasksTyped
  <2>2. /\ \/ entry' = entry
           \/ entry' = [entry EXCEPT ![RunId[s]] = [st |-> "running", of |-> <<s>>]]
    BY <1>1 DEF Start
  <2> QED BY <1>1, <2>1, <2>2 DEF Counted, Early, Tasks
<1>2. CASE FailUnstarted(s)
  <2>1. /\ OnlyTask(s) /\ pc[s] = "unstarted" /\ pc'[s] = "close" /\ out' = out
        /\ entry' = [entry EXCEPT ![RunId[s]] = [st |-> "failed", of |-> <<s>>]]
    BY <1>2, <1>a DEF FailUnstarted, OnlyTask, TasksTyped
  <2>2. out'[s] = "unstarted"
    BY <1>a, <2>1 DEF Lane
  <2> QED BY <2>1, <2>2 DEF Counted, Early, Tasks
<1>3. CASE Settle(s)
  <2>1. /\ OnlyTask(s) /\ pc[s] = "settle" /\ pc'[s] = "gone"
        /\ \E st \in {"completed", "failed"} :
              entry' = [entry EXCEPT ![RunId[s]] = [st |-> st, of |-> <<s>>]]
    BY <1>3, <1>a DEF Settle, OnlyTask, TasksTyped
  <2>2. out[s] # "unstarted"
    BY <1>a, <2>1 DEF Lane
  <2> QED BY <2>1, <2>2 DEF Counted, Early, Tasks
<1>4. CASE Panics(s) \/ Aborted(s)
  <2>1. PICK state \in {"failed", "cancelled"}, detail \in Details :
           Dropped(s, state, detail) /\ UNCHANGED <<out, reported, lead, late, ends, user, hist>>
    BY <1>4 DEF Panics, Aborted, CancelDetail, Details
  <2>2. pc[s] \in {"queued", "running"} /\ Counted(s)
    BY <1>4 DEF Panics, Aborted, Counted, Early
  <2>3. ~Finished(RunId[s])
    BY <2>2, OwnWrite
  <2>4. entry' = [entry EXCEPT ![RunId[s]] = [st |-> "failed", of |-> <<s>>]]
    BY <2>1, <2>3 DEF Dropped, Finished
  <2>5. \A t \in Spawns : t # s => span'[t] = span[t]
    BY <1>a, <2>1, ClosedSpanIs DEF Dropped, SpanStates
  <2>6. OnlyTask(s) /\ pc'[s] = "gone"
    BY <1>a, <2>1, <2>5 DEF OnlyTask, Dropped, TasksTyped
  <2> QED BY <2>2, <2>4, <2>6 DEF Counted, Early, Tasks
<1> QED BY <1>1, <1>2, <1>3, <1>4

\* A task's step that writes no entry.
LEMMA QuietOwn ==
  ASSUME TrackInv, NEW s \in Spawns,
         Acquire(s) \/ LoopEnds(s) \/ CloseSpan(s) \/ CloseLog(s)
  PROVE  /\ OnlyTask(s) /\ s \in Tasks /\ pc'[s] # "none" /\ entry' = entry
         /\ Counted(s)' => Counted(s)
<1> USE DEF At, Step, ends, user, hist
<1>a. Lane(s) /\ TasksTyped
  BY DEF TrackInv
<1>1. CASE Acquire(s) \/ LoopEnds(s)
  <2>1. OnlyTask(s) /\ entry' = entry /\ pc[s] \in {"queued", "running"}
    BY <1>1, <1>a DEF Acquire, LoopEnds, OnlyTask, TasksTyped
  <2>2. pc'[s] # "none"
    BY <1>1, <1>a DEF Acquire, LoopEnds, TasksTyped
  <2> QED BY <2>1, <2>2 DEF Counted, Early, Tasks
<1>2. CASE CloseSpan(s)
  <2>1. pc[s] = "close" /\ pc'[s] = "narrate" /\ entry' = entry
    BY <1>2, <1>a DEF CloseSpan, TasksTyped
  <2>2. StateOf(s) \in SpanStates /\ DetailOf(s) \in Details
    BY <1>a, <2>1, StateOfType DEF Lane
  <2>3. \A t \in Spawns : t # s => span'[t] = span[t]
    BY <1>2, <1>a, <2>2, ClosedSpanIs DEF CloseSpan
  <2>4. OnlyTask(s)
    BY <1>2, <1>a, <2>3 DEF CloseSpan, OnlyTask, TasksTyped
  <2>5. out[s] = "unstarted" => out'[s] = "unstarted"
    BY <1>2, <1>a DEF CloseSpan, TasksTyped
  <2> QED BY <2>1, <2>4, <2>5 DEF Counted, Early, Tasks
<1>3. CASE CloseLog(s)
  <2>1. /\ OnlyTask(s) /\ entry' = entry /\ pc[s] = "narrate" /\ pc'[s] \in {"gone", "settle"}
        /\ pc'[s] = "settle" => out[s] # "unstarted"
    BY <1>3, <1>a DEF CloseLog, OnlyTask, TasksTyped
  <2> QED BY <2>1 DEF Counted, Early, Tasks
<1> QED BY <1>1, <1>2, <1>3

\* A spawn's entry is a new one.
LEMMA SpawnFresh ==
  ASSUME OwnRunIds, OwnInv, NEW s \in Spawns, Spawn(s)
  PROVE  /\ RunId[s] \in Ids /\ entry[RunId[s]].st = "none"
         /\ entry'[RunId[s]].st = "queued" /\ entry'[RunId[s]].of = <<s>>
         /\ \A i \in Ids : i # RunId[s] => entry'[i] = entry[i]
         /\ UNCHANGED <<lead, reported, late, inbox, shown, raced>>
<1>1. /\ RunId[s] \in Ids /\ entry'[RunId[s]].st = "queued" /\ entry'[RunId[s]].of = <<s>>
      /\ \A i \in Ids : i # RunId[s] => entry'[i] = entry[i]
  BY SetEntryIs DEF Spawn, OwnInv, TrackInv, EntryStates
<1>2. entry[RunId[s]].st = "none"
  BY <1>1 DEF Spawn, OwnInv, OwnEntries, OwnRunIds
<1> QED BY <1>1, <1>2 DEF Spawn, user, hist

\* It disturbs nothing a wait relies on.
LEMMA SpawnOwn ==
  ASSUME OwnRunIds, OwnInv, NEW s \in Spawns, Spawn(s)
  PROVE  WaitInv' /\ OwnEntries' /\ ShownInv'
<1>1. /\ RunId[s] \in Ids /\ entry[RunId[s]].st = "none"
      /\ entry'[RunId[s]].st = "queued" /\ entry'[RunId[s]].of = <<s>>
      /\ \A i \in Ids : i # RunId[s] => entry'[i] = entry[i]
      /\ UNCHANGED <<lead, reported, late, inbox, shown, raced>>
  BY SpawnFresh
<1>2. /\ lead.at \in {"round", "sleep"} /\ pc'[s] = "queued" /\ out' = out
      /\ \A t \in Spawns : t # s => pc'[t] = pc[t]
  BY DEF Spawn, OwnInv, TrackInv, TasksTyped
<1>3. WaitInv'
  BY <1>1, <1>2 DEF OwnInv, WaitInv, LeadAt
<1>4. OwnEntries'
  <2>1. \A i \in Ids : entry'[i].st # "none" =>
           \E t \in Spawns : entry'[i].of = <<t>> /\ RunId[t] = i /\ pc'[t] # "none"
    <3> TAKE i \in Ids
    <3>1. CASE i = RunId[s]
      BY <1>1, <1>2, <3>1
    <3>2. CASE i # RunId[s]
      BY <1>1, <1>2, <3>2 DEF OwnInv, OwnEntries
    <3> QED BY <3>1, <3>2
  <2>2. \A t \in Spawns : Counted(t)' => Unfinished(RunId[t])'
    <3> TAKE t \in Spawns
    <3>1. CASE t = s
      BY <1>1, <3>1 DEF Unfinished
    <3>2. CASE t # s
      <4>1. RunId[t] # RunId[s] /\ RunId[t] \in Ids /\ (Counted(t)' => Counted(t))
        BY <1>2, <3>2 DEF OwnRunIds, Counted
      <4> QED BY <1>1, <4>1 DEF OwnInv, OwnEntries, Unfinished
    <3> QED BY <3>1, <3>2
  <2> QED BY <2>1, <2>2 DEF OwnEntries
<1>5. ShownInv'
  <2>1. \A i \in Ids : Finished(i) => Finished(i)' /\ entry'[i] = entry[i]
    BY <1>1 DEF Finished
  <2> QED BY <1>1, <1>2, <2>1 DEF OwnInv, ShownInv, TrackInv, LeadTyped, LeadAt
<1> QED BY <1>3, <1>4, <1>5

\* What was reported stays reported while no entry changes.
LEMMA SameShown ==
  ASSUME ShownInv, entry' = entry, UNCHANGED <<reported, shown, raced>>, lead'.at # "mark"
  PROVE  ShownInv'
BY DEF ShownInv, Finished, LeadAt

\* A check marks what it showed, or what was overtaken.
LEMMA CheckOwn ==
  ASSUME OwnInv, CheckMarks \/ \E i \in Ids : CheckReads(i)
  PROVE  WaitInv' /\ ShownInv'
<1> USE DEF LeadAt, ends, user, hist
<1>1. CASE CheckMarks
  <2>1. PICK e \in EntryType : lead.saw = <<e>> /\ e.of = entry[lead.id].of
    BY <1>1 DEF CheckMarks, OwnInv, ShownInv
  <2>2. PICK i \in Ids : i = lead.id
    BY <1>1 DEF CheckMarks, OwnInv, TrackInv, LeadTyped
  <2>3. /\ lead.at = "mark" /\ lead'.at = "round" /\ UNCHANGED <<entry, late, inbox>>
        /\ lead.saw[1] = e /\ Range(e.of) = Range(entry[i].of)
    BY <1>1, <2>1, <2>2 DEF CheckMarks
  <2>4. \/ UNCHANGED <<reported, shown, raced>>
        \/ /\ reported' = IF Finished(i) THEN reported \cup {i} ELSE reported
           /\ shown' = IF e.st \in {"completed", "failed"} THEN shown \cup Range(e.of) ELSE shown
           /\ raced' = IF Finished(i) /\ e.st \notin {"completed", "failed"}
                       THEN raced \cup {i} ELSE raced
    BY <1>1, <2>2, <2>3 DEF CheckMarks
  <2>5. ASSUME NEW j \in reported' \ raced'
        PROVE  Finished(j) /\ Range(entry[j].of) \subseteq shown'
    BY <2>3, <2>4 DEF OwnInv, ShownInv
  <2>6. ShownInv'
    BY <2>3, <2>5 DEF ShownInv, Finished
  <2> QED BY <2>3, <2>6 DEF OwnInv, WaitInv, Waits
<1>2. ASSUME NEW i \in Ids, CheckReads(i) PROVE WaitInv' /\ ShownInv'
  <2>1. /\ lead.at = "round" /\ UNCHANGED <<entry, late, inbox, reported, shown, raced>>
        /\ lead' = [at |-> "mark", id |-> i, saw |-> <<entry[i]>>] /\ entry[i] \in EntryType
    BY <1>2 DEF CheckReads, OwnInv, TrackInv, LeadTyped
  <2>2. /\ lead'.at = "mark" /\ lead'.id = i /\ lead'.saw = <<entry[i]>>
    BY <2>1
  <2>3. ShownInv'
    BY <2>1, <2>2 DEF OwnInv, ShownInv, Finished
  <2> QED BY <2>1, <2>2, <2>3 DEF OwnInv, WaitInv, Waits
<1> QED BY <1>1, <1>2

\* A report shows whatever it marks.
LEMMA ReportsOwn ==
  ASSUME OwnInv, WaitReports
  PROVE  WaitInv' /\ ShownInv'
<1> USE DEF LeadAt, Goto, ends, user
<1> DEFINE fresh == {i \in Ids : Finished(i) /\ i \notin reported}
<1>1. /\ reported' = reported \cup fresh /\ late' = FALSE /\ UNCHANGED <<entry, inbox, raced>>
      /\ shown' = shown \cup UNION {Range(entry[i].of) : i \in fresh} /\ lead'.at = "round"
  BY DEF WaitReports, OwnInv, TrackInv, LeadTyped, LeadType
<1>2. ASSUME NEW j \in reported' \ raced'
      PROVE  Finished(j) /\ Range(entry[j].of) \subseteq shown'
  <2>1. CASE j \in fresh
    BY <1>1, <2>1
  <2>2. CASE j \notin fresh
    BY <1>1, <1>2, <2>2 DEF OwnInv, ShownInv
  <2> QED BY <2>1, <2>2
<1>3. ShownInv'
  BY <1>1, <1>2 DEF ShownInv, Finished
<1> QED BY <1>1, <1>3 DEF WaitInv

\* The lead's other steps.
LEMMA LeadOwn ==
  ASSUME OwnInv, LeadStep
  PROVE  WaitInv' /\ OwnEntries' /\ ShownInv'
<1>1. UNCHANGED <<pc, out, entry>> /\ lead'.at # "down" /\ lead \in LeadType /\ inbox \in Nat
  BY LeadStepFrame DEF OwnInv, TrackInv, LeadTyped
<1>2. OwnEntries'
  BY <1>1 DEF OwnInv, OwnEntries, Counted, Unfinished
<1>3. WaitInv' /\ ShownInv'
  <2> USE DEF LeadAt, Goto, LeadType, ends, user, hist
  <2>1. CASE CheckMarks \/ \E i \in Ids : CheckReads(i)
    BY <2>1, CheckOwn
  <2>2. CASE WaitReports
    BY <2>2, ReportsOwn
  <2>3. CASE WaitCalled \/ WaitLooksAtInbox \/ WaitListens \/ WaitChecks \/ WaitSelects \/ WaitWakes
    <3>1. /\ UNCHANGED <<reported, shown, raced, inbox, late>>
          /\ lead'.at \in Waits
          /\ lead'.at = "nudged" => inbox > 0
          /\ lead'.at = "late" => late
          /\ lead'.at = "full" => AllDone
      BY <1>1, <2>3 DEF WaitCalled, WaitLooksAtInbox, WaitListens, WaitChecks, WaitSelects,
                        WaitWakes, Waits
    <3>2. AllDone' <=> AllDone
      BY <1>1 DEF AllDone, Unfinished
    <3> QED BY <1>1, <3>1, <3>2, SameShown DEF OwnInv, WaitInv, Waits
  <2>4. CASE Clock \/ Push
    <3>1. /\ UNCHANGED <<reported, shown, raced, lead>> /\ (inbox > 0 => inbox' > 0)
          /\ (late => late') /\ (late' => late \/ lead.at \in Waits) /\ lead.at # "down"
      BY <1>1, <2>4 DEF Clock, Push, Waits
    <3>2. AllDone' <=> AllDone
      BY <1>1 DEF AllDone, Unfinished
    <3>3. ShownInv'
      BY <1>1, <3>1 DEF OwnInv, ShownInv, Finished
    <3> QED BY <3>1, <3>2, <3>3 DEF OwnInv, WaitInv
  <2>5. CASE Drain \/ LeadEnds
    <3>1. /\ UNCHANGED <<reported, shown, raced>> /\ lead'.at \in {"round", "stop"}
          /\ late' = FALSE \/ (late' = late /\ lead.at = "round")
      <4>1. CASE Drain
        BY <4>1 DEF Drain
      <4>2. CASE LeadEnds
        BY <1>1, <4>2 DEF LeadEnds
      <4> QED BY <2>5, <4>1, <4>2
    <3> QED BY <1>1, <3>1, SameShown DEF OwnInv, WaitInv, Waits
  <2>6. CASE UserCancels
    <3>1. UNCHANGED <<reported, shown, raced, lead, late, inbox>>
      BY <2>6 DEF UserCancels
    <3> QED BY <1>1, <3>1 DEF OwnInv, WaitInv, ShownInv, Finished, AllDone, Unfinished
  <2>7. CASE StopStep
    <3>1. /\ UNCHANGED <<reported, shown, raced, late, inbox>>
          /\ lead.at \in {"stop", "grace", "abort", "report"}
          /\ lead'.at \in {"grace", "abort", "report", "over"}
      BY <1>1, <2>7 DEF StopStep, StopCancels, GraceEnds, AbortEnds, Report
    <3> QED BY <1>1, <3>1, SameShown DEF OwnInv, WaitInv, Waits
  <2> QED BY <2>1, <2>2, <2>3, <2>4, <2>5, <2>6, <2>7 DEF LeadStep, WaitStep
<1> QED BY <1>2, <1>3

\* A daemon that goes, and comes back.
LEMMA DaemonOwn ==
  ASSUME OwnInv, Crash \/ RuntimeStops \/ Resume
  PROVE  WaitInv' /\ OwnEntries' /\ ShownInv'
<1> USE DEF LeadAt
<1>1. CASE Crash \/ RuntimeStops
  <2>1. Forget
    BY <1>1 DEF Crash, RuntimeStops
  <2>2. /\ reported' = {} /\ late' = FALSE /\ inbox' = 0 /\ lead'.at = "down"
        /\ \A s \in Spawns : pc'[s] \in {"none", "gone"}
        /\ \A i \in Ids : entry'[i].st = "none"
    BY <2>1 DEF Forget, NoEntry
  <2> QED BY <2>2 DEF WaitInv, OwnEntries, ShownInv, Counted, Early
<1>2. CASE Resume
  <2>1. /\ lead.at = "down" /\ lead'.at = "round" /\ UNCHANGED <<pc, late, inbox, reported>>
        /\ entry' = [i \in Ids |-> Restored(i)]
    BY <1>2 DEF Resume, Goto, ends, user, hist, OwnInv, TrackInv, LeadTyped, LeadType
  <2>2. \A s \in Spawns : pc[s] \in {"none", "gone"} /\ (pc[s] = "none" => log[s] = {})
    BY <2>1 DEF OwnInv, TrackInv, Lane
  <2>3. reported = {} /\ ~late
    BY <2>1 DEF OwnInv, WaitInv, Waits
  <2>4. ASSUME NEW i \in Ids, entry'[i].st # "none"
        PROVE  \E s \in Spawns : entry'[i].of = <<s>> /\ RunId[s] = i /\ pc'[s] # "none"
    <3>1. entry'[i] = Restored(i) /\ Restored(i) # NoEntry
      BY <2>1, <2>4 DEF NoEntry
    <3>2. PICK s \in Spawns : Restored(i).of = <<s>> /\ RunId[s] = i /\ log[s] # {}
      BY <3>1, RestoredIs DEF OwnInv
    <3> QED BY <2>1, <2>2, <3>1, <3>2
  <2> QED BY <2>1, <2>2, <2>3, <2>4 DEF WaitInv, OwnEntries, ShownInv, Counted, Early
<1> QED BY <1>1, <1>2

\* Every step keeps what the wait relies on.
LEMMA NextOwn ==
  ASSUME OwnRunIds, OwnInv, [Next]_vars
  PROVE  OwnInv'
<1> SUFFICES WaitInv' /\ OwnEntries' /\ ShownInv'
  BY NextTrack DEF OwnInv
<1>1. ASSUME NEW s \in Spawns, Spawn(s) PROVE WaitInv' /\ OwnEntries' /\ ShownInv'
  BY <1>1, SpawnOwn
<1>2. ASSUME NEW s \in Spawns, TaskStep(s) \/ Panics(s) \/ Aborted(s)
      PROVE  WaitInv' /\ OwnEntries' /\ ShownInv'
  <2>1. CASE Acquire(s) \/ LoopEnds(s) \/ CloseSpan(s) \/ CloseLog(s)
    BY <2>1, QuietOwn, TaskOwn DEF OwnInv
  <2>2. CASE Start(s) \/ FailUnstarted(s) \/ Settle(s) \/ Panics(s) \/ Aborted(s)
    BY <2>2, WriteOwn, TaskOwn
  <2> QED BY <1>2, <2>1, <2>2 DEF TaskStep
<1>3. CASE LeadStep
  BY <1>3, LeadOwn
<1>4. CASE Crash \/ RuntimeStops \/ Resume
  BY <1>4, DaemonOwn
<1>5. CASE UNCHANGED vars
  <2>1. UNCHANGED <<pc, out, entry, lead, late, inbox, reported, shown, raced>>
    BY <1>5 DEF vars
  <2> QED BY <2>1 DEF OwnInv, WaitInv, OwnEntries, ShownInv, Counted, Unfinished, Finished,
                      AllDone, LeadAt
<1> QED BY <1>1, <1>2, <1>3, <1>4, <1>5 DEF Next, LeadStep

\* And it holds when the run begins.
LEMMA InitOwn ==
  ASSUME Init
  PROVE  OwnInv
<1>1. WaitInv
  BY DEF Init, WaitInv, LeadAt
<1>2. OwnEntries /\ ShownInv
  BY DEF Init, NoEntry, OwnEntries, ShownInv, Counted, Early, LeadAt
<1> QED BY <1>1, <1>2, InitTrack DEF OwnInv

\* Only its report takes a wait that found all finished back to the round.
LEMMA FullReports ==
  ASSUME OwnRunIds, OwnInv, Next, lead.at = "full", lead'.at = "round"
  PROVE  WaitReports
<1>1. ASSUME NEW s \in Spawns, Spawn(s) \/ TaskStep(s) \/ Panics(s) \/ Aborted(s) PROVE FALSE
  <2>1. lead' = lead
    BY <1>1 DEF Spawn, TaskStep, Acquire, Start, FailUnstarted, LoopEnds, CloseSpan, CloseLog,
                Settle, Panics, Aborted
  <2> QED BY <2>1
<1>2. ~Crash /\ ~RuntimeStops /\ ~Resume
  BY DEF Crash, RuntimeStops, Forget, Resume, LeadAt
<1> QED BY <1>1, <1>2 DEF Next, CheckReads, CheckMarks, WaitCalled, WaitStep, WaitLooksAtInbox,
     WaitListens, WaitChecks, WaitSelects, WaitWakes, Clock, Push, Drain, UserCancels, LeadEnds,
     StopStep, StopCancels, GraceEnds, AbortEnds, Report, LeadAt

\* A wait that says all have finished has put every answer before the lead but
\* for an overtaken check's, where no two spawns share a run id.
THEOREM AllMeansShownAlways ==
  ASSUME OwnRunIds
  PROVE  Spec => AllMeansShown
<1>1. Init => OwnInv
  BY InitOwn
<1>2. OwnInv /\ [Next]_vars => OwnInv'
  BY NextOwn
<1>3. OwnInv /\ [Next]_vars =>
         [LeadAt("full") /\ lead'.at = "round" =>
             \A i \in Ids \ raced : entry[i].st # "none" => Range(entry[i].of) \subseteq shown']_vars
  <2> SUFFICES ASSUME OwnInv, Next, lead.at = "full", lead'.at = "round",
                      NEW i \in Ids \ raced, entry[i].st # "none"
               PROVE  Range(entry[i].of) \subseteq shown'
    BY DEF LeadAt
  <2>1. WaitReports
    BY FullReports
  <2>2. Finished(i)
    BY DEF OwnInv, WaitInv, LeadAt, AllDone, Unfinished, Finished, TrackInv, LeadTyped, EntryType
  <2>3. CASE i \in reported
    BY <2>1, <2>3 DEF WaitReports, OwnInv, ShownInv
  <2>4. CASE i \notin reported
    BY <2>1, <2>2, <2>4 DEF WaitReports
  <2> QED BY <2>3, <2>4
<1> QED BY <1>1, <1>2, <1>3, PTL DEF Spec, AllMeansShown

----------------------------------------------------------------------------
(* The wait implements its promise. *)

Live == {i \in Ids : Unfinished(i)}
Ended == {i \in Ids : Finished(i)}
Waiting == lead.at \in Waits
Excused == inbox > 0 \/ late

\* The abstract step, in the words of this module.
WaitStepIs ==
    \/ \E i \in Ids \ (Live \cup Ended) :
          Live' = Live \cup {i} /\ UNCHANGED <<Ended, reported, Waiting, Excused>>
    \/ \E i \in Live :
          Live' = Live \ {i} /\ Ended' = Ended \cup {i} /\ UNCHANGED <<reported, Waiting, Excused>>
    \/ \E i \in Ended :
          reported' = reported \cup {i} /\ UNCHANGED <<Live, Ended, Waiting, Excused>>
    \/ ~Waiting /\ Waiting' /\ UNCHANGED <<Live, Ended, reported, Excused>>
    \/ Excused' = ~Excused /\ UNCHANGED <<Live, Ended, reported, Waiting>>
    \/ /\ Waiting /\ ~Waiting' /\ (Live = {} \/ Excused) /\ reported' = reported \cup Ended
       /\ UNCHANGED <<Live, Ended>>
    \/ Waiting /\ ~Waiting' /\ UNCHANGED <<Live, Ended, reported>>
    \/ Live' = {} /\ reported' = {} /\ ~Waiting' /\ ~Excused' /\ Ended' \in SUBSET Ids
    \/ UNCHANGED <<Live, Ended, reported, Waiting, Excused>>

\* That is a step of SubagentWait.
LEMMA WaitStepMaps ==
  ASSUME WaitStepIs
  PROVE  [Wait!Next]_(Wait!vars)
BY DEF WaitStepIs, Live, Ended, Waiting, Waits, Excused, Wait!Next, Wait!vars, Wait!Track,
       Wait!Finish, Wait!Check, Wait!Wait, Wait!Excuse, Wait!Return, Wait!Abandon, Wait!Restart

\* A spawn is tracked.
LEMMA SpawnMaps ==
  ASSUME OwnRunIds, OwnInv, NEW s \in Spawns, Spawn(s)
  PROVE  WaitStepIs
<1>1. /\ RunId[s] \in Ids /\ entry[RunId[s]].st = "none"
      /\ entry'[RunId[s]].st = "queued"
      /\ \A i \in Ids : i # RunId[s] => entry'[i] = entry[i]
      /\ UNCHANGED <<lead, reported, late, inbox>>
  BY SpawnFresh
<1>2. RunId[s] \in Ids \ (Live \cup Ended)
  BY <1>1 DEF Live, Ended, Unfinished, Finished
<1>3. Live' = Live \cup {RunId[s]} /\ Ended' = Ended
  BY <1>1 DEF Live, Ended, Unfinished, Finished
<1> QED BY <1>1, <1>2, <1>3 DEF WaitStepIs, Waiting, Excused

\* A task's step finishes one run, or none.
LEMMA TaskMaps ==
  ASSUME OwnRunIds, OwnInv, NEW s \in Spawns, TaskStep(s) \/ Panics(s) \/ Aborted(s)
  PROVE  WaitStepIs
<1>1. CASE Acquire(s) \/ LoopEnds(s) \/ CloseSpan(s) \/ CloseLog(s)
  <2>1. UNCHANGED <<entry, lead, reported, late, inbox>>
    BY <1>1, QuietOwn DEF OwnInv, OnlyTask
  <2> QED BY <2>1 DEF WaitStepIs, Live, Ended, Waiting, Excused, Unfinished, Finished
<1>2. CASE Start(s) \/ FailUnstarted(s) \/ Settle(s) \/ Panics(s) \/ Aborted(s)
  <2>1. /\ OnlyTask(s) /\ Counted(s)
        /\ \/ entry' = entry
           \/ \E st \in {"running", "completed", "failed"} :
                 entry' = [entry EXCEPT ![RunId[s]] = [st |-> st, of |-> <<s>>]]
    BY <1>2, WriteOwn
  <2>2. UNCHANGED <<lead, reported, late, inbox>>
    BY <2>1 DEF OnlyTask
  <2>3. CASE entry' = entry
    BY <2>2, <2>3 DEF WaitStepIs, Live, Ended, Waiting, Excused, Unfinished, Finished
  <2>4. ASSUME NEW st \in {"running", "completed", "failed"},
               entry' = [entry EXCEPT ![RunId[s]] = [st |-> st, of |-> <<s>>]]
        PROVE  WaitStepIs
    <3>1. /\ RunId[s] \in Ids /\ entry'[RunId[s]].st = st
          /\ \A i \in Ids : i # RunId[s] => entry'[i] = entry[i]
      BY <2>4, SetEntryIs DEF OwnInv, TrackInv, EntryStates
    <3>2. RunId[s] \in Live /\ RunId[s] \notin Ended
      BY <2>1, OwnWrite DEF Live, Ended
    <3>3. CASE st = "running"
      <4>1. Live' = Live /\ Ended' = Ended
        BY <3>1, <3>2, <3>3 DEF Live, Ended, Unfinished, Finished
      <4> QED BY <2>2, <4>1 DEF WaitStepIs, Waiting, Excused
    <3>4. CASE st # "running"
      <4>1. Live' = Live \ {RunId[s]} /\ Ended' = Ended \cup {RunId[s]}
        BY <3>1, <3>2, <3>4 DEF Live, Ended, Unfinished, Finished
      <4> QED BY <2>2, <3>2, <4>1 DEF WaitStepIs, Waiting, Excused
    <3> QED BY <3>3, <3>4
  <2> QED BY <2>1, <2>3, <2>4
<1> QED BY <1>1, <1>2 DEF TaskStep

\* The lead's steps: a check, a wait, its return, an excuse, or nothing.
LEMMA LeadMaps ==
  ASSUME OwnInv, LeadStep
  PROVE  WaitStepIs
<1>1. entry' = entry /\ lead \in LeadType /\ inbox \in Nat /\ late \in BOOLEAN
  BY LeadStepFrame DEF OwnInv, TrackInv, LeadTyped
<1>2. Live' = Live /\ Ended' = Ended
  BY <1>1 DEF Live, Ended, Unfinished, Finished
<1> USE DEF LeadAt, Goto, LeadType, ends, user, hist
<1>3. ASSUME NEW i \in Ids, CheckReads(i) PROVE WaitStepIs
  <2>1. lead.at = "round" /\ lead'.at = "mark" /\ UNCHANGED <<reported, late, inbox>>
    BY <1>3 DEF CheckReads
  <2> QED BY <1>2, <2>1 DEF WaitStepIs, Waiting, Waits, Excused
<1>4. CASE CheckMarks
  <2>1. PICK i \in Ids : i = lead.id
    BY <1>4 DEF CheckMarks, OwnInv, TrackInv, LeadTyped
  <2>2. /\ lead.at = "mark" /\ lead'.at = "round" /\ UNCHANGED <<late, inbox>>
        /\ reported' = reported \/ (reported' = reported \cup {i} /\ Finished(i))
    BY <1>4, <2>1 DEF CheckMarks
  <2>3. Waiting' = Waiting /\ Excused' = Excused
    BY <2>2 DEF Waiting, Waits, Excused
  <2>4. Finished(i) => i \in Ended
    BY DEF Ended
  <2> QED BY <1>2, <2>2, <2>3, <2>4 DEF WaitStepIs
<1>5. CASE WaitCalled
  <2>1. lead.at = "round" /\ lead'.at = "pre" /\ UNCHANGED <<reported, late, inbox>>
    BY <1>1, <1>5 DEF WaitCalled
  <2> QED BY <1>2, <2>1 DEF WaitStepIs, Waiting, Waits, Excused
<1>6. CASE WaitLooksAtInbox \/ WaitListens \/ WaitChecks \/ WaitSelects \/ WaitWakes
  <2>1. lead.at \in Waits /\ lead'.at \in Waits /\ UNCHANGED <<reported, late, inbox>>
    BY <1>1, <1>6 DEF WaitLooksAtInbox, WaitListens, WaitChecks, WaitSelects, WaitWakes, Waits
  <2> QED BY <1>2, <2>1 DEF WaitStepIs, Waiting, Excused
<1>7. CASE WaitReports
  <2>1. /\ lead.at \in {"nudged", "late", "full"} /\ lead'.at = "round"
        /\ reported' = reported \cup {i \in Ids : Finished(i) /\ i \notin reported}
    BY <1>1, <1>7 DEF WaitReports
  <2>2. Live = {} \/ Excused
    BY <2>1 DEF OwnInv, WaitInv, AllDone, Live, Excused
  <2>3. reported' = reported \cup Ended
    BY <2>1 DEF Ended
  <2>4. Waiting /\ ~Waiting'
    BY <2>1 DEF Waiting, Waits
  <2> QED BY <1>2, <2>2, <2>3, <2>4 DEF WaitStepIs
<1>8. CASE Clock \/ Push
  <2>1. UNCHANGED <<reported, lead>> /\ (Excused' = TRUE)
    <3>1. CASE Clock
      BY <3>1 DEF Clock, Excused
    <3>2. CASE Push
      BY <1>1, <3>2 DEF Push, Excused
    <3> QED BY <1>8, <3>1, <3>2
  <2>2. Excused \in BOOLEAN /\ Waiting' = Waiting
    BY <2>1 DEF Excused, Waiting
  <2> QED BY <1>2, <2>1, <2>2 DEF WaitStepIs
<1>9. CASE Drain
  <2>1. UNCHANGED <<reported, lead>> /\ lead.at = "round" /\ inbox > 0 /\ inbox' = 0 /\ late' = late
    BY <1>9 DEF Drain
  <2>2. ~late
    BY <2>1 DEF OwnInv, WaitInv, Waits
  <2>3. Excused = TRUE /\ Excused' = FALSE /\ Waiting' = Waiting
    BY <2>1, <2>2 DEF Excused, Waiting
  <2> QED BY <1>2, <2>1, <2>3 DEF WaitStepIs
<1>10. CASE UserCancels
  <2>1. UNCHANGED <<reported, lead, late, inbox>>
    BY <1>10 DEF UserCancels
  <2> QED BY <1>2, <2>1 DEF WaitStepIs, Waiting, Excused
<1>11. CASE LeadEnds
  <2>1. /\ lead.at \in {"round", "sleep"} /\ lead'.at = "stop" /\ late' = FALSE
        /\ UNCHANGED <<reported, inbox>>
    BY <1>1, <1>11 DEF LeadEnds
  <2>2. CASE lead.at = "sleep"
    BY <1>2, <2>1, <2>2 DEF WaitStepIs, Waiting, Waits
  <2>3. CASE lead.at = "round"
    <3>1. late = FALSE
      BY <1>1, <2>3 DEF OwnInv, WaitInv, Waits
    <3> QED BY <1>2, <2>1, <2>3, <3>1 DEF WaitStepIs, Waiting, Waits, Excused
  <2> QED BY <2>1, <2>2, <2>3
<1>12. CASE StopStep
  <2>1. /\ UNCHANGED <<reported, late, inbox>>
        /\ lead.at \in {"stop", "grace", "abort", "report"}
        /\ lead'.at \in {"grace", "abort", "report", "over"}
    BY <1>1, <1>12 DEF StopStep, StopCancels, GraceEnds, AbortEnds, Report
  <2> QED BY <1>2, <2>1 DEF WaitStepIs, Waiting, Waits, Excused
<1> QED BY <1>3, <1>4, <1>5, <1>6, <1>7, <1>8, <1>9, <1>10, <1>11, <1>12 DEF LeadStep, WaitStep

\* A daemon that goes or comes back restarts the wait.
LEMMA DaemonMaps ==
  ASSUME OwnInv, Crash \/ RuntimeStops \/ Resume
  PROVE  WaitStepIs
<1> SUFFICES Live' = {} /\ reported' = {} /\ ~Waiting' /\ ~Excused' /\ Ended' \in SUBSET Ids
  BY DEF WaitStepIs
<1>1. Ended' \in SUBSET Ids
  BY DEF Ended
<1>2. CASE Crash \/ RuntimeStops
  <2>1. Forget
    BY <1>2 DEF Crash, RuntimeStops
  <2>2. /\ reported' = {} /\ late' = FALSE /\ inbox' = 0 /\ lead'.at = "down"
        /\ \A i \in Ids : entry'[i].st = "none"
    BY <2>1 DEF Forget, NoEntry
  <2> QED BY <1>1, <2>2 DEF Live, Unfinished, Waiting, Waits, Excused
<1>3. CASE Resume
  <2>1. /\ lead.at = "down" /\ lead'.at = "round" /\ UNCHANGED <<late, inbox, reported>>
        /\ entry' = [i \in Ids |-> Restored(i)]
    BY <1>3 DEF Resume, LeadAt, Goto, ends, user, hist, OwnInv, TrackInv, LeadTyped, LeadType
  <2>2. reported = {} /\ ~late /\ inbox = 0
    BY <2>1 DEF OwnInv, WaitInv, Waits, LeadAt
  <2>3. \A i \in Ids : ~Unfinished(i)'
    BY <2>1, RestoredIs DEF OwnInv, Unfinished
  <2> QED BY <1>1, <2>1, <2>2, <2>3 DEF Live, Waiting, Waits, Excused
<1> QED BY <1>2, <1>3

\* The lead's wait implements SubagentWait's initial states and steps: it comes
\* back only when nobody is left or with an excuse, having reported whatever had
\* finished, and every other step is one the promise allows.  That it does come
\* back is liveness, which the run checks.
THEOREM WaitPromiseSafe ==
  ASSUME OwnRunIds
  PROVE  Spec => Wait!Init /\ [][Wait!Next]_(Wait!vars)
<1>1. Init => OwnInv
  BY InitOwn
<1>2. OwnInv /\ [Next]_vars => OwnInv'
  BY NextOwn
<1>3. Init => Wait!Init
  BY DEF Init, NoEntry, Unfinished, Finished, Wait!Init
<1>4. OwnInv /\ [Next]_vars => [Wait!Next]_(Wait!vars)
  <2> SUFFICES ASSUME OwnInv, [Next]_vars PROVE WaitStepIs
    BY WaitStepMaps
  <2>1. ASSUME NEW s \in Spawns, Spawn(s) \/ TaskStep(s) \/ Panics(s) \/ Aborted(s)
        PROVE  WaitStepIs
    BY <2>1, SpawnMaps, TaskMaps
  <2>2. CASE LeadStep
    BY <2>2, LeadMaps
  <2>3. CASE Crash \/ RuntimeStops \/ Resume
    BY <2>3, DaemonMaps
  <2>4. CASE UNCHANGED vars
    <3>1. UNCHANGED <<entry, lead, reported, late, inbox>>
      BY <2>4 DEF vars
    <3> QED BY <3>1 DEF WaitStepIs, Live, Ended, Waiting, Excused, Unfinished, Finished
  <2> QED BY <2>1, <2>2, <2>3, <2>4 DEF Next, LeadStep
<1> QED BY <1>1, <1>2, <1>3, <1>4, PTL DEF Spec
============================================================================
