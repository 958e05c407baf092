----------------------------- MODULE SessionLog -----------------------------
(***************************************************************************)
(* One conversation's log, `sessions/<id>/`, with everybody who touches it: *)
(* the service's slot and the handles cloned from it, the writer tasks      *)
(* behind the handles (one at a time, but a successor may be spawned while  *)
(* its predecessor winds down), the callers that emit a record, ask for a   *)
(* pre-edit snapshot or flush, the deletion of the conversation, and the    *)
(* boot that sweeps and reopens the directory after a crash.                *)
(*                                                                         *)
(* A file is a sequence of lines and a line is one record, so bytes are     *)
(* counted in lines; a file written beside the log (an image under          *)
(* snapshots/ or a result under results/) weighs BesideBytes.  The names    *)
(* `log.jsonl` and `log.<first>-<last>.jsonl` are kept apart from the files *)
(* they name, because a writer holds the file and not the name.             *)
(***************************************************************************)
EXTENDS Integers, Sequences, FiniteSets, SequencesExt, FiniteSetsExt

CONSTANTS
    Recs,         \* tool results, each emitted once by a turn holding a handle
    Snaps,        \* callers asking for a pre-edit snapshot
    Flushes,      \* callers of flush
    MaxWriters,   \* bound: writer tasks spawned in one boot
    MaxFiles,     \* bound: log files named or open at a time
    Capacity,     \* channel_capacity
    MaxBatch,     \* MAX_BATCH
    RotateBytes,  \* rotate_bytes
    MaxBytes,     \* max_session_bytes
    BesideBytes,  \* the weight of a file beside the log
    DiskFaults,   \* the operations that may fail
    MaxMishaps,   \* bound: disk faults and crashes in a behaviour
    PowerLoss,    \* TRUE: a crash may lose what was written and not synced
    MayDelete,    \* TRUE: the conversation may be deleted (with no other mishap)
    LateOpen,     \* bound: TRUE lets a turn that found it before open it afterwards
    MayEvict      \* TRUE: the conversation is archived and the root over its cap

Callers == Snaps \cup Flushes
Clients == Recs \cup Callers
Tasks == 1..MaxWriters
Files   == 1..MaxFiles

ASSUME SessionLogAssumption ==
    /\ Recs \cap Callers = {} /\ Snaps \cap Flushes = {}
    /\ {"start", "close", "trim", "cut", "bad"} \cap Clients = {}
    /\ {MaxWriters, MaxFiles, Capacity, MaxBatch, RotateBytes} \subseteq Nat \ {0}
    /\ {MaxBytes, BesideBytes, MaxMishaps} \subseteq Nat
    /\ DiskFaults \subseteq {"open", "append", "realign", "sync", "copy", "rotate", "unlink"}
    /\ {PowerLoss, MayEvict, MayDelete, LateOpen} \subseteq BOOLEAN

VARIABLES
    up, crashes, faults,
    slot, started,            \* SessionLogService: handles[id], started
    pc, hold,                 \* callers: where they are, the handle they will use
    dpc, dying,               \* the deletion: where it is, the writer it removed
    deletes,
    chan, queue,              \* a handle's channel
    mode, batch, log, closing,\* a writer task
    disk, lines, synced, beside, \* the directory, the files, what is durable
    swept,                    \* history: the boot sweep has evicted something
    lost,                     \* history: its last record went with an archived segment
    hurt,                     \* history: a realign, a rotation or an unlink failed
    spilled,                  \* the tool results whose payload goes to results/
    rows                      \* tool_execution_log: result_ref = "log:<seq>", or 0

serviceVars == <<slot, started>>
clientVars  == <<pc, hold>>
deleteVars  == <<dpc, dying, deletes>>
chanVars    == <<chan, queue>>
writerVars  == <<mode, batch, log, closing>>
diskVars    == <<disk, lines, synced, beside>>
rowVars     == <<rows, swept, lost, spilled>>
procVars    == <<up, crashes, faults, hurt>>
logVars ==
    <<procVars, serviceVars, clientVars, deleteVars, chanVars, writerVars, diskVars, rowVars>>

\* A line that parses, one cut short without its newline, and one that ends in
\* a newline and does not parse.
Line(n, r, f) == [seq |-> n, rec |-> r, ref |-> f]
Cut == Line(0, "cut", {})
Bad == Line(0, "bad", {})
Parses(l) == l.seq > 0

\* How much of a file is durable, kept only where a crash can tell.
Durable(n) == IF PowerLoss THEN n ELSE 0

Closed == [file |-> 0, next |-> 0, bytes |-> 0, first |-> 0, dirty |-> FALSE, gaveUp |-> FALSE]
NoDir  == [dir |-> FALSE, live |-> 0, arch |-> {}]

LogInit ==
    /\ up = TRUE /\ crashes = 0 /\ faults = 0 /\ hurt = FALSE
    /\ slot = 0 /\ started = FALSE
    /\ pc = [c \in Clients |-> "idle"]
    /\ hold = [c \in Clients |-> 0]
    /\ dpc = "idle" /\ dying = 0 /\ deletes = 0
    /\ chan = [w \in Tasks |-> "none"] /\ queue = [w \in Tasks |-> <<>>]
    /\ mode = [w \in Tasks |-> "none"] /\ batch = [w \in Tasks |-> <<>>]
    /\ log = [w \in Tasks |-> Closed] /\ closing = [w \in Tasks |-> FALSE]
    /\ disk = NoDir /\ lines = [f \in Files |-> <<>>] /\ synced = [f \in Files |-> 0]
    /\ beside = {} /\ rows = [r \in Recs |-> 0] /\ swept = FALSE /\ lost = FALSE
    /\ spilled \in SUBSET Recs

Quiet == crashes + faults < MaxMishaps /\ deletes = 0
Fault(op) ==
    /\ op \in DiskFaults /\ Quiet
    /\ faults' = faults + 1 /\ hurt' = (hurt \/ op \in {"realign", "rotate", "unlink"})
NoFault == UNCHANGED <<faults, hurt>>

\* The files after a step: one that neither a name of d nor a writer of lg
\* refers to is gone.
Kept(ls, d, lg) ==
    [f \in Files |-> IF f \in {d.live} \cup {a.file : a \in d.arch} \cup {lg[w].file : w \in Tasks}
                     THEN ls[f] ELSE <<>>]

(***************************************************************************)
(* The service: handles and writers.                                        *)
(***************************************************************************)

\* A task that is over and whose handle nobody holds may lend its number.
Unspawned ==
    {w \in Tasks : mode[w] \in {"none", "exit"}
                     /\ w \notin {dying} \cup Range(hold)}

\* spawn: a fresh writer takes the slot, with the messages msgs in its channel.
Spawned(w, msgs) ==
    /\ w \in Unspawned /\ \A v \in Unspawned : w <= v
    /\ slot' = w
    /\ chan' = [chan EXCEPT ![w] = "open"]
    /\ queue' = [queue EXCEPT ![w] = msgs]
    /\ mode' = [mode EXCEPT ![w] = "wait"]
    /\ log' = [log EXCEPT ![w] = Closed] /\ closing' = [closing EXCEPT ![w] = FALSE]

\* handle_for keeps the slot's handle while its writer takes messages.
Live(w) == w # 0 /\ chan[w] = "open"

\* open at the start of a turn: a handle, and `session_start` when this boot
\* has not touched the conversation yet.
Open(c) ==
    /\ up /\ pc[c] = "idle" /\ c \notin Flushes /\ (deletes = 0 \/ LateOpen)
    /\ started' = TRUE
    /\ IF Live(slot)
       THEN /\ hold' = [hold EXCEPT ![c] = slot]
            /\ queue' = IF started \/ Len(queue[slot]) = Capacity THEN queue
                        ELSE [queue EXCEPT ![slot] = Append(@, "start")]
            /\ UNCHANGED <<slot, chan, mode, log, closing>>
       ELSE \E w \in Tasks :
               /\ Spawned(w, IF started THEN <<>> ELSE <<"start">>)
               /\ hold' = [hold EXCEPT ![c] = w]
    /\ pc' = [pc EXCEPT ![c] = "held"]
    /\ UNCHANGED <<procVars, deleteVars, batch, diskVars, rowVars>>

\* flush_all takes the handles the map holds and spawns nothing.
Collect(c) ==
    /\ up /\ pc[c] = "idle" /\ c \in Flushes /\ slot # 0
    /\ crashes = 0                    \* bound: a flush belongs to the first boot
    /\ hold' = [hold EXCEPT ![c] = slot]
    /\ pc' = [pc EXCEPT ![c] = "held"]
    /\ UNCHANGED <<procVars, serviceVars, deleteVars, chanVars, writerVars, diskVars, rowVars>>

(***************************************************************************)
(* emit, snapshot and flush: one send on the handle in hand, and one more   *)
(* on a reopened handle when the first finds its channel closed.  A record  *)
(* is tried, a request waits for room.                                      *)
(***************************************************************************)

\* The end of a call that could not be delivered: a record is dropped, a
\* request refused.
Undelivered(c) == pc' = [pc EXCEPT ![c] = IF c \in Recs THEN "dropped" ELSE "refused"]

Send(c) ==
    /\ up /\ pc[c] \in {"held", "fresh"}
    /\ LET w == hold[c] IN
        \/ /\ chan[w] = "open" /\ Len(queue[w]) < Capacity
           /\ queue' = [queue EXCEPT ![w] = Append(@, c)]
           /\ pc' = [pc EXCEPT ![c] = IF c \in Recs THEN "accepted"
                                      ELSE IF @ = "held" THEN "waiting" ELSE "waiting2"]
        \/ /\ chan[w] = "open" /\ Len(queue[w]) = Capacity /\ c \in Recs
           /\ Undelivered(c)
           /\ UNCHANGED queue
        \/ /\ chan[w] = "gone"
           /\ IF pc[c] = "held" THEN pc' = [pc EXCEPT ![c] = "closed"] ELSE Undelivered(c)
           /\ UNCHANGED queue
    /\ hold' = [hold EXCEPT ![c] = 0]
    /\ UNCHANGED <<procVars, serviceVars, deleteVars, chan, writerVars, diskVars, rowVars>>

\* reopen, first half: a session the service no longer tracks is not reopened.
Tracked(c) ==
    /\ up /\ pc[c] = "closed"
    /\ IF slot # 0 THEN pc' = [pc EXCEPT ![c] = "reopen"] ELSE Undelivered(c)
    /\ UNCHANGED <<procVars, serviceVars, hold, deleteVars, chanVars, writerVars, diskVars, rowVars>>

\* reopen, second half: handle_for.
Reopen(c) ==
    /\ up /\ pc[c] = "reopen"
    /\ IF Live(slot) THEN hold' = [hold EXCEPT ![c] = slot]
                          /\ UNCHANGED <<slot, chanVars, mode, log, closing>>
       ELSE \E w \in Tasks : Spawned(w, <<>>) /\ hold' = [hold EXCEPT ![c] = w]
    /\ pc' = [pc EXCEPT ![c] = "fresh"]
    /\ UNCHANGED <<procVars, started, deleteVars, batch, diskVars, rowVars>>

(***************************************************************************)
(* The writer task, its waiting half.                                       *)
(***************************************************************************)

\* What dropping the messages in S unanswered means to whoever sent them: a
\* snapshot is refused, a flush tries a reopened handle once, and nobody hears
\* about a record.
Abandoned(S) ==
    [c \in Clients |-> CASE c \in S \cap Snaps -> "refused"
                         [] c \in S \cap Flushes ->
                               IF pc[c] = "waiting" THEN "closed" ELSE "refused"
                         [] OTHER -> pc[c]]

\* recv and try_recv: everything queued rides in one batch.
Take(w) ==
    /\ mode[w] = "wait" /\ queue[w] # <<>>
    /\ LET n == Min({MaxBatch, Len(queue[w])}) IN
        /\ batch' = [batch EXCEPT ![w] = SubSeq(queue[w], 1, n)]
        /\ queue' = [queue EXCEPT ![w] = SubSeq(@, n + 1, Len(@))]
    /\ mode' = [mode EXCEPT ![w] = "work"]
    /\ UNCHANGED <<procVars, serviceVars, clientVars, deleteVars, chan, log, closing,
                   diskVars, rowVars>>

\* OpenLog::sync, which may fail and is then only logged.
Synced(w) ==
    \/ /\ log[w].file # 0
       /\ synced' = [synced EXCEPT ![log[w].file] = Durable(Len(lines[log[w].file]))]
       /\ log' = [log EXCEPT ![w].dirty = FALSE]
       /\ NoFault
    \/ log[w].file = 0 /\ NoFault /\ UNCHANGED <<synced, log>>
    \/ log[w].file # 0 /\ Fault("sync") /\ UNCHANGED <<synced, log>>

\* The timer, with something unsynced.
TimerSync(w) ==
    /\ mode[w] = "wait" /\ queue[w] = <<>> /\ log[w].dirty
    /\ Synced(w)
    /\ UNCHANGED <<up, crashes, serviceVars, clientVars, deleteVars, chanVars, mode, batch,
                   closing, disk, lines, beside, rowVars>>

\* Idle with nothing unsynced: the loop is left with the channel still open.
Idle(w) ==
    /\ mode[w] = "wait" /\ queue[w] = <<>> /\ ~log[w].dirty
    /\ Unspawned # {}                 \* bound: a successor can be spawned
    /\ mode' = [mode EXCEPT ![w] = "leave"]
    /\ UNCHANGED <<procVars, serviceVars, clientVars, deleteVars, chanVars, batch, log, closing,
                   diskVars, rowVars>>

\* drop(rx), before the final sync.
DropRx(w) ==
    /\ mode[w] = "leave"
    /\ chan' = [chan EXCEPT ![w] = "gone"]
    /\ pc' = Abandoned(Range(queue[w]))
    /\ queue' = [queue EXCEPT ![w] = <<>>]
    /\ mode' = [mode EXCEPT ![w] = "last"]
    /\ UNCHANGED <<procVars, serviceVars, hold, deleteVars, batch, log, closing,
                   diskVars, rowVars>>

\* The final sync, and the answer owed to the deletion that closed the log.
FinalSync(w) ==
    /\ mode[w] = "last"
    /\ \/ log[w].file = 0 /\ NoFault /\ UNCHANGED synced
       \/ /\ log[w].file # 0 /\ NoFault
          /\ synced' = [synced EXCEPT ![log[w].file] = Durable(Len(lines[log[w].file]))]
       \/ log[w].file # 0 /\ Fault("sync") /\ UNCHANGED synced
    /\ log' = [log EXCEPT ![w] = Closed]
    /\ lines' = Kept(lines, disk, log')
    /\ mode' = [mode EXCEPT ![w] = "exit"]
    /\ dpc' = IF closing[w] /\ dpc = "wait" /\ dying = w THEN "remove" ELSE dpc
    /\ UNCHANGED <<up, crashes, serviceVars, clientVars, dying, deletes, chanVars, batch, closing,
                   disk, beside, rowVars>>

(***************************************************************************)
(* The writer task, its blocking half: process a batch message by message.  *)
(***************************************************************************)

Working(w) == mode[w] = "work" /\ batch[w] # <<>>
Msg(w) == Head(batch[w])
NeedsLog(m) == m \in Recs \cup Snaps \cup {"start"}
Pop(w) == batch' = [batch EXCEPT ![w] = Tail(@)] /\ mode' = [mode EXCEPT ![w] = "work"]

\* Mutant: the writer that gave up returns with its receiver kept alive.
EndBatchKeepingRx(w) ==
    /\ mode[w] = "work" /\ batch[w] = <<>>
    /\ mode' = [mode EXCEPT ![w] = IF log[w].gaveUp THEN "exit"
                                   ELSE IF closing[w] THEN "leave" ELSE "wait"]
    /\ UNCHANGED <<procVars, serviceVars, clientVars, deleteVars, chanVars, batch, log, closing,
                   diskVars, rowVars>>

\* The batch is over: the writer that gave up returns at once, the one told to
\* close leaves the loop, the others wait again.
EndBatch(w) ==
    /\ mode[w] = "work" /\ batch[w] = <<>>
    /\ IF log[w].gaveUp
       THEN /\ chan' = [chan EXCEPT ![w] = "gone"]
            /\ pc' = Abandoned(Range(queue[w]))
            /\ queue' = [queue EXCEPT ![w] = <<>>]
            /\ mode' = [mode EXCEPT ![w] = "exit"]
       ELSE /\ mode' = [mode EXCEPT ![w] = IF closing[w] THEN "leave" ELSE "wait"]
            /\ UNCHANGED <<chan, queue, pc>>
    /\ UNCHANGED <<procVars, serviceVars, hold, deleteVars, batch, log, closing,
                   diskVars, rowVars>>

\* Msg::Sync is answered whether or not the sync worked.
SyncMsg(w) ==
    /\ Working(w) /\ Msg(w) \in Flushes
    /\ Synced(w)
    /\ pc' = [pc EXCEPT ![Msg(w)] = "ok"]
    /\ Pop(w)
    /\ UNCHANGED <<up, crashes, serviceVars, hold, deleteVars, chanVars, closing, disk,
                   lines, beside, rowVars>>

\* Msg::Close: nothing queued behind it is written.
CloseMsg(w) ==
    /\ Working(w) /\ Msg(w) = "close"
    /\ closing' = [closing EXCEPT ![w] = TRUE]
    /\ pc' = Abandoned(Range(batch[w]))
    /\ batch' = [batch EXCEPT ![w] = <<>>]
    /\ UNCHANGED <<procVars, serviceVars, hold, deleteVars, chanVars, mode, log, diskVars,
                   rowVars>>

\* With no log to be had, a record is skipped and a snapshot refused.
SkipMsg(w) ==
    /\ Working(w) /\ NeedsLog(Msg(w)) /\ log[w].gaveUp
    /\ pc' = Abandoned({Msg(w)})
    /\ Pop(w)
    /\ UNCHANGED <<procVars, serviceVars, hold, deleteVars, chanVars, log, closing,
                   diskVars, rowVars>>

LastParsed(s) == Max({0} \cup {i \in DOMAIN s : Parses(s[i])})

\* Mutant: the tail is left as the crash left it.
TailKept(s) == s

\* Truncate a torn tail: everything past the last line that parses.
repair_tail(s) == SubSeq(s, 1, LastParsed(s))
head_seq(s) == IF s = <<>> THEN 0 ELSE s[1].seq

\* Mutant: an empty live segment starts its numbers over.
FromOne == 0

\* The highest seq an archived segment's name claims.
archived_last_seq == Max({0} \cup {a.last : a \in disk.arch})

FreeFiles == Files \ ({disk.live} \cup {a.file : a \in disk.arch} \cup {log[w].file : w \in Tasks})
FreeFile(f) == f \in FreeFiles /\ \A g \in FreeFiles : f <= g

\* ensure_log / OpenLog::open: create the directory, repair the live segment
\* and resume its numbering, or the archived segments' when it is empty.
ensure_log(w) ==
    /\ Working(w) /\ NeedsLog(Msg(w)) /\ log[w].file = 0 /\ ~log[w].gaveUp
    /\ \/ \E f \in Files :
            /\ IF disk.live = 0 THEN FreeFile(f) ELSE f = disk.live
            /\ LET s == IF disk.live = 0 THEN <<>> ELSE repair_tail(lines[f])
                   next == (IF s = <<>> THEN archived_last_seq ELSE s[Len(s)].seq) + 1
               IN /\ lines' = [lines EXCEPT ![f] = s]
                  /\ synced' = [synced EXCEPT ![f] = Min({@, Len(s)})]
                  /\ log' = [log EXCEPT ![w] = [file |-> f, next |-> next, bytes |-> Len(s),
                                 first |-> head_seq(s), dirty |-> FALSE, gaveUp |-> FALSE]]
            /\ disk' = [disk EXCEPT !.dir = TRUE, !.live = f]
            /\ NoFault
       \/ /\ Fault("open")
          /\ log' = [log EXCEPT ![w].gaveUp = TRUE]
          /\ UNCHANGED <<lines, synced, disk>>
    /\ UNCHANGED <<up, crashes, serviceVars, clientVars, deleteVars, chanVars, mode, batch,
                   closing, beside, rowVars>>

\* The file a message puts beside the log: a snapshot's is named after the seq
\* its record will get, a result's after its call.
Name(w, m) == <<IF m \in Snaps THEN log[w].next ELSE 0, m>>

\* Mutant: a snapshot goes on without its image, as a result does.
NotCopiedGoOn(w) == mode' = [mode EXCEPT ![w] = "plain"] /\ UNCHANGED <<pc, batch>>

NotCopied(w) ==
    IF Msg(w) \in Snaps THEN pc' = [pc EXCEPT ![Msg(w)] = "refused"] /\ Pop(w)
    ELSE mode' = [mode EXCEPT ![w] = "plain"] /\ UNCHANGED <<pc, batch>>

\* write_snapshot_file and write_spill_file.  An image is never overwritten
\* and a copy that fails refuses the snapshot; a result already there stands,
\* and one that cannot be written leaves a record without a reference.
Copy(w) ==
    /\ Working(w) /\ Msg(w) \in Snaps \cup spilled /\ log[w].file # 0
    /\ LET m == Msg(w) IN
        \/ /\ m \in spilled \/ Name(w, m) \notin beside
           /\ disk' = [disk EXCEPT !.dir = TRUE]
           /\ beside' = beside \cup {Name(w, m)}
           /\ mode' = [mode EXCEPT ![w] = "copied"]
           /\ NoFault /\ UNCHANGED <<pc, batch>>
        \/ /\ \/ Fault("copy") /\ (m \in spilled => Name(w, m) \notin beside)
              \/ m \in Snaps /\ Name(w, m) \in beside /\ NoFault
           /\ NotCopied(w)
           /\ UNCHANGED <<disk, beside>>
    /\ UNCHANGED <<up, crashes, serviceVars, hold, deleteVars, chanVars, log, closing,
                   lines, synced, rowVars>>

\* The lines of a file after a record: one appended to a line without its
\* newline is swallowed by it.
Appended(s, l) ==
    IF s # <<>> /\ s[Len(s)] = Cut THEN [s EXCEPT ![Len(s)] = Bad] ELSE Append(s, l)

\* OpenLog::write of record r with reference ref, when all goes well; a
\* boundary is synced, the rest is left to the timer.
Wrote(w, r, ref) ==
    LET f == log[w].file
        s == Appended(lines[f], Line(log[w].next, r, ref))
    IN /\ lines' = [lines EXCEPT ![f] = s]
       /\ synced' = [synced EXCEPT ![f] = IF r = "start" THEN Durable(Len(s)) ELSE @]
       /\ log' = [log EXCEPT ![w].next = @ + 1, ![w].bytes = @ + 1,
                     ![w].first = IF @ = 0 THEN log[w].next ELSE @,
                     ![w].dirty = r # "start"]
       /\ NoFault /\ UNCHANGED disk

\* A boundary whose sync fails: the record is in the file and numbered, and
\* the write is reported as failed.
WroteUnsynced(w, r, ref) ==
    LET f == log[w].file IN
    /\ r = "start" /\ Fault("sync")
    /\ lines' = [lines EXCEPT ![f] = Appended(@, Line(log[w].next, r, ref))]
    /\ log' = [log EXCEPT ![w].next = @ + 1, ![w].bytes = @ + 1,
                  ![w].first = IF @ = 0 THEN log[w].next ELSE @]
    /\ UNCHANGED <<synced, disk>>

\* A file whose end is half a line.
Torn(s) == IF s # <<>> /\ s[Len(s)] = Cut THEN s ELSE Append(s, Cut)

\* set_len to n committed records: a shorter file is filled up with zeros, and
\* half a line that once stayed makes the cut miss the end of a line.
CutBack(s, n) ==
    LET t == IF n <= Len(s) THEN SubSeq(s, 1, n) ELSE Torn(s)
    IN {t} \cup (IF hurt /\ t # <<>> THEN {[t EXCEPT ![Len(t)] = Cut]} ELSE {})

\* An append that stops half way.  realign opens the live segment by its name
\* and cuts it back to the committed bytes; when that fails too, half a line
\* stays at the end of the file.
WriteFailed(w) ==
    \/ \E f \in Files :
        /\ Fault("append") /\ disk.dir
        /\ IF disk.live = 0 THEN FreeFile(f) ELSE f = disk.live
        /\ disk' = [disk EXCEPT !.live = f]
        /\ log' = [log EXCEPT ![w].file = f]
        /\ LET s == IF disk.live = 0 THEN <<>> ELSE lines[f] IN
           \E t \in CutBack(s, log[w].bytes) :
              /\ lines' = Kept([lines EXCEPT ![f] = t], disk', log')
              /\ synced' = [synced EXCEPT ![f] = Min({@, Len(t)})]
    \/ /\ Fault("realign")
       /\ lines' = [lines EXCEPT ![log[w].file] = Torn(@)]
       /\ UNCHANGED <<disk, synced, log>>

\* What the record says of the file beside the log.
Ref(w) == IF mode[w] = "copied" THEN {Name(w, Msg(w))} ELSE {}

\* The part of write_record that appends the record.  A snapshot whose record
\* could not be written loses its image again.
Write(w) ==
    /\ \/ Working(w) /\ Msg(w) \in (Recs \ spilled) \cup {"start"} /\ log[w].file # 0
       \/ mode[w] \in {"copied", "plain"}
    /\ \/ /\ Wrote(w, Msg(w), Ref(w))
          /\ mode' = [mode EXCEPT ![w] = "wrote"]
          /\ UNCHANGED <<pc, batch, beside>>
       \/ /\ WroteUnsynced(w, Msg(w), Ref(w)) \/ WriteFailed(w)
          /\ pc' = Abandoned({Msg(w)})
          /\ beside' = IF Msg(w) \in Snaps THEN beside \ {Name(w, Msg(w))} ELSE beside
          /\ Pop(w)
    /\ UNCHANGED <<up, crashes, serviceVars, hold, deleteVars, chanVars, closing, rowVars>>

\* Every file beside the log that a segment's records point at, up to the
\* first line that does not parse.
referenced_files_in(s) ==
    LET bad == {i \in DOMAIN s : ~Parses(s[i])}
        end == IF bad = {} THEN Len(s) ELSE Min(bad) - 1
    IN UNION {s[i].ref : i \in 1..end}

\* enforce_session_cap: whole archived segments are tried, the oldest first, as
\* few as let the session fit its cap, or all of them.  One goes with the files
\* it references; one of stuck cannot be removed, and the next is tried.
enforce_session_cap(d, b, ls, stuck) ==
    LET Oldest == {D \in SUBSET d.arch : \A x \in D : \A y \in d.arch \ D : x.first <= y.first}
        Refs(D) == UNION {referenced_files_in(ls[a.file]) : a \in D}
        Bytes(D) == (IF d.live = 0 THEN 0 ELSE Len(ls[d.live]))
                    + MapThenSumSet(LAMBDA a : Len(ls[a.file]), d.arch \ D)
                    + BesideBytes * Cardinality(b \ Refs(D))
        Enough == {D \in Oldest : Bytes(D \ stuck) <= MaxBytes \/ D = d.arch}
        tried == CHOOSE D \in Enough : \A E \in Enough : Cardinality(D) <= Cardinality(E)
        gone == tried \ stuck
    IN [disk |-> [d EXCEPT !.arch = @ \ gone], beside |-> b \ Refs(gone),
        trimmed |-> gone # {}, failed |-> tried \cap stuck # {}]

\* rename of the live segment to the range of seqs it holds.
Archived(w, d) ==
    LET last == log[w].next - 1
        first == IF log[w].first = 0 THEN last ELSE log[w].first
    IN [d EXCEPT !.live = 0,
                 !.arch = {a \in @ : a.first # first \/ a.last # last}
                          \cup {[first |-> first, last |-> last, file |-> d.live]}]

\* The answer a message is owed once its record is written and paid for.
Answered(w) ==
    /\ pc' = IF Msg(w) \in Snaps THEN [pc EXCEPT ![Msg(w)] = "ok"] ELSE pc
    /\ Pop(w)

\* Either the notice of what was trimmed is owed, or the message is done.
Paid(w, trimmed) ==
    IF trimmed THEN mode' = [mode EXCEPT ![w] = "trimmed"] /\ UNCHANGED <<pc, batch>>
    ELSE Answered(w)

\* index_tool_call: the row of a result that has no file beside the log, or
\* could not be given one, names the record.
Indexed(w) ==
    LET s == lines[log[w].file]
        filed == Msg(w) \in spilled /\ (Name(w, Msg(w)) \in beside \/ s[Len(s)].ref # {})
    IN IF Msg(w) \in Recs /\ ~filed THEN [rows EXCEPT ![Msg(w)] = log[w].next - 1] ELSE rows

\* enforce_cap_now, which only a record that put a file beside the log calls.
CapNow(w, stuck) ==
    IF Msg(w) \in Snaps \cup spilled /\ disk.dir
    THEN enforce_session_cap(disk, beside, lines, stuck)
    ELSE [disk |-> disk, beside |-> beside, trimmed |-> FALSE, failed |-> FALSE]

\* The removals of a step all went well, or not.
Unlinked(failed) == IF failed THEN Fault("unlink") ELSE NoFault

\* The rest of write_record: the index row, the cap when a file was put beside
\* the log, the rotation and the cap it enforces.  One disk fault a step: a
\* removal that fails is of one segment.
AfterWrite(w) ==
    /\ mode[w] = "wrote"
    /\ rows' = Indexed(w)
    /\ \E stuck \in {{}} \cup (IF Quiet THEN {{a} : a \in disk.arch \cup Archived(w, disk).arch}
                               ELSE {}) :
       LET f == log[w].file
           c == CapNow(w, stuck)
           Stay == disk' = c.disk /\ beside' = c.beside /\ Paid(w, c.trimmed)
       IN \/ /\ log[w].bytes < RotateBytes
             /\ Stay /\ Unlinked(c.failed) /\ UNCHANGED <<synced, log>>
          \/ /\ log[w].bytes >= RotateBytes /\ ~c.failed   \* the sync before the rename fails
             /\ Stay /\ Fault("sync") /\ UNCHANGED <<synced, log>>
          \/ /\ log[w].bytes >= RotateBytes /\ c.disk.live = 0   \* nothing to rename
             /\ Stay /\ Unlinked(c.failed)
             /\ synced' = [synced EXCEPT ![f] = Durable(Len(lines[f]))]
             /\ log' = [log EXCEPT ![w].dirty = FALSE]
          \/ /\ log[w].bytes >= RotateBytes /\ c.disk.live # 0   \* no new segment
             /\ Fault("rotate") /\ ~c.failed
             /\ synced' = [synced EXCEPT ![f] = Durable(Len(lines[f]))]
             /\ disk' = Archived(w, c.disk) /\ beside' = c.beside
             /\ log' = [log EXCEPT ![w].dirty = FALSE]
             /\ Paid(w, c.trimmed)
          \/ \E g \in Files :
             /\ log[w].bytes >= RotateBytes /\ c.disk.live # 0
             /\ FreeFile(g)
             /\ synced' = [synced EXCEPT ![f] = Durable(Len(lines[f])), ![g] = 0]
             /\ log' = [log EXCEPT ![w].file = g, ![w].bytes = 0, ![w].first = 0,
                                   ![w].dirty = FALSE]
             /\ LET e == enforce_session_cap([Archived(w, c.disk) EXCEPT !.live = g],
                                             c.beside, lines, stuck)
                IN /\ disk' = e.disk /\ beside' = e.beside /\ Paid(w, c.trimmed \/ e.trimmed)
                   /\ Unlinked(c.failed \/ e.failed)
    /\ lines' = Kept(lines, disk', log')
    /\ UNCHANGED <<up, crashes, serviceVars, hold, deleteVars, chanVars, closing, swept, lost,
                   spilled>>

\* `log_trimmed`: the log says what it lost, or fails to.
Notice(w) ==
    /\ mode[w] = "trimmed"
    /\ Wrote(w, "trim", {}) \/ WriteFailed(w)
    /\ Answered(w)
    /\ UNCHANGED <<up, crashes, serviceVars, hold, deleteVars, chanVars, closing, beside,
                   rowVars>>

(***************************************************************************)
(* The deletion of the conversation: its rows, then the service's slot, the *)
(* writer and the directory.                                                *)
(***************************************************************************)

\* delete_session: one transaction, which also clears the index.  It is refused
\* while a task of the conversation runs; a chat turn is no task, and it may
\* hold a handle.
DeleteRows ==
    /\ up /\ dpc = "idle" /\ MayDelete /\ crashes + faults + deletes = 0
    /\ deletes' = deletes + 1 /\ dpc' = "forget"
    /\ rows' = [r \in Recs |-> 0]
    /\ UNCHANGED <<procVars, serviceVars, clientVars, dying, chanVars, writerVars, diskVars,
                   swept, lost, spilled>>

\* forget: stop tracking the session and keep its drop count.
Forget ==
    /\ up /\ dpc = "forget"
    /\ started' = FALSE /\ slot' = 0 /\ dying' = slot
    /\ dpc' = IF slot = 0 THEN "remove" ELSE "send"
    /\ UNCHANGED <<procVars, clientVars, deletes, chanVars, writerVars, diskVars, rowVars>>

\* send(Msg::Close), which waits for room and fails on a closed channel.
SendClose ==
    /\ up /\ dpc = "send"
    /\ \/ chan[dying] = "gone" /\ dpc' = "remove" /\ UNCHANGED queue
       \/ /\ chan[dying] = "open" /\ Len(queue[dying]) < Capacity
          /\ queue' = [queue EXCEPT ![dying] = Append(@, "close")]
          /\ dpc' = "wait"
    /\ UNCHANGED <<procVars, serviceVars, clientVars, dying, deletes, chan, writerVars,
                   diskVars, rowVars>>

\* The wait ends: the answer was dropped, or FORGET_TIMEOUT passed.
ForgetTimesOut ==
    /\ up /\ dpc = "wait" /\ dpc' = "remove"
    /\ UNCHANGED <<procVars, serviceVars, clientVars, dying, deletes, chanVars, writerVars,
                   diskVars, rowVars>>

\* remove_dir_all.
RemoveDir ==
    /\ up /\ dpc = "remove"
    /\ disk' = NoDir /\ beside' = {} /\ dpc' = "idle" /\ dying' = 0
    /\ lines' = Kept(lines, NoDir, log)
    /\ UNCHANGED <<procVars, serviceVars, clientVars, deletes, chanVars, writerVars, synced,
                   rowVars>>

(***************************************************************************)
(* Crash, the boot sweep and the next boot.                                 *)
(***************************************************************************)

Over == {"idle", "accepted", "dropped", "ok", "refused"}

\* What dies with the process.  A call cut off may be made again by a turn of
\* the next boot.
Died ==
    /\ up /\ Quiet
    /\ up' = FALSE /\ crashes' = crashes + 1
    /\ slot' = 0 /\ started' = FALSE
    /\ pc' = [c \in Clients |-> IF pc[c] \in Over /\ c \notin Flushes THEN pc[c] ELSE "idle"]
    /\ hold' = [c \in Clients |-> 0]
    /\ dpc' = "idle" /\ dying' = 0
    /\ chan' = [w \in Tasks |-> "none"] /\ queue' = [w \in Tasks |-> <<>>]
    /\ mode' = [w \in Tasks |-> "none"] /\ batch' = [w \in Tasks |-> <<>>]
    /\ log' = [w \in Tasks |-> Closed] /\ closing' = [w \in Tasks |-> FALSE]

\* Its end inside a rotation, after the rename and before the new segment is
\* created: only archived segments are left.  (An end elsewhere in AfterWrite
\* leaves what one before or after it does, or a file no record names, which
\* only weighs on the cap.)
CutRotation(w) ==
    /\ mode[w] = "wrote" /\ log[w].bytes >= RotateBytes /\ disk.live # 0
    /\ rows' = Indexed(w)
    /\ disk' = Archived(w, CapNow(w, {}).disk) /\ beside' = CapNow(w, {}).beside
    /\ synced' = [synced EXCEPT ![log[w].file] = Durable(Len(lines[log[w].file]))]
    /\ lines' = Kept(lines, disk', log')

\* Its end anywhere else: what it had not written is gone, a line may be cut
\* short, and when the machine dies with it, what was not synced may be gone too.
CutWrite ==
    /\ \/ lines' = Kept(lines, disk, log') /\ UNCHANGED synced
       \/ \E f \in Files \cap {disk.live} :
          /\ \E k \in synced[f]..Len(lines[f]), torn \in BOOLEAN :
              /\ k < Len(lines[f]) => PowerLoss
              /\ lines' = [Kept(lines, disk, log') EXCEPT ![f] =
                              SubSeq(@, 1, k) \o (IF torn THEN <<Cut>> ELSE <<>>)]
              /\ torn => k < Len(lines[f]) \/ \E w \in Tasks : log[w].file = f /\ batch[w] # <<>>
          /\ synced' = [synced EXCEPT ![f] = Durable(Len(lines'[f]))]
    /\ UNCHANGED <<disk, beside, rows>>

\* The process dies.
Crash ==
    /\ Died
    /\ CutWrite \/ \E w \in Tasks : CutRotation(w)
    /\ UNCHANGED <<faults, hurt, deletes, swept, lost, spilled>>

\* enforce_total_cap on an archived conversation, one victim a step: the files
\* beside the log, then the archived segments, oldest first, and the live
\* segment last -- its index rows cleared before it goes, with a crash in
\* between.  A victim that cannot be removed is passed over.
Sweep ==
    /\ ~up /\ MayEvict /\ swept' = TRUE
    /\ \/ \E b \in beside :
            /\ beside' = beside \ {b} /\ NoFault
            /\ UNCHANGED <<disk, rows, lost>>
       \/ \E a \in disk.arch :
            /\ Unlinked(beside # {} \/ \E x \in disk.arch : x.first < a.first)
            /\ disk' = [disk EXCEPT !.arch = @ \ {a}]
            /\ lost' = (lost \/ /\ disk.arch = {a}
                                /\ \A f \in {disk.live} \ {0} : head_seq(lines[f]) = 0)
            /\ UNCHANGED <<beside, rows>>
       \/ /\ disk.live # 0
          /\ Unlinked(beside # {} \/ disk.arch # {})
          /\ rows' = [r \in Recs |-> 0] /\ lost' = FALSE
          /\ disk' \in {disk, [disk EXCEPT !.live = 0]}
          /\ UNCHANGED beside
    /\ lines' = Kept(lines, disk', log)
    /\ UNCHANGED <<up, crashes, serviceVars, clientVars, deleteVars, chanVars, writerVars, synced,
                   spilled>>

Boot ==
    /\ ~up /\ up' = TRUE
    /\ UNCHANGED <<crashes, faults, hurt, serviceVars, clientVars, deleteVars, chanVars, writerVars,
                   diskVars, rowVars>>

LogNext ==
    \/ \E c \in Clients : Open(c) \/ Collect(c) \/ Send(c) \/ Tracked(c) \/ Reopen(c)
    \/ \E w \in Tasks :
          \/ Take(w) \/ TimerSync(w) \/ Idle(w) \/ DropRx(w) \/ FinalSync(w) \/ EndBatch(w)
          \/ SyncMsg(w) \/ CloseMsg(w) \/ SkipMsg(w) \/ ensure_log(w) \/ Copy(w) \/ Write(w)
          \/ AfterWrite(w) \/ Notice(w)
    \/ DeleteRows \/ Forget \/ SendClose \/ ForgetTimesOut \/ RemoveDir
    \/ Crash \/ Sweep \/ Boot

LogSpec == LogInit /\ [][LogNext]_logVars

(***************************************************************************)
(* Properties.                                                              *)
(***************************************************************************)

\* The types, with the bounds of the channel (emit's try_send), of a batch and
\* of the files.
LogTypes ==
    /\ {up, started, swept, lost, hurt} \subseteq BOOLEAN
    /\ {crashes, faults, crashes + faults} \subseteq 0..MaxMishaps /\ deletes \in 0..1
    /\ spilled \subseteq Recs
    /\ slot \in Tasks \cup {0} /\ dying \in Tasks \cup {0}
    /\ pc \in [Clients -> Over \cup {"held", "waiting", "closed", "reopen", "fresh", "waiting2"}]
    /\ hold \in [Clients -> Tasks \cup {0}]
    /\ dpc \in {"idle", "forget", "send", "wait", "remove"}
    /\ chan \in [Tasks -> {"none", "open", "gone"}]
    /\ \A w \in Tasks : Len(queue[w]) <= Capacity /\ Len(batch[w]) <= MaxBatch
    /\ closing \in [Tasks -> BOOLEAN]
    /\ mode \in [Tasks -> {"none", "wait", "work", "copied", "plain", "wrote", "trimmed",
                             "leave", "last", "exit"}]
    /\ \A w \in Tasks : log[w].file \in Files \cup {0} /\ {log[w].next, log[w].bytes} \subseteq Nat
    /\ disk.live \in Files \cup {0} /\ \A a \in disk.arch : a.file \in Files
    /\ \A f \in Files \ FreeFiles : synced[f] \in 0..Len(lines[f])
    /\ rows \in [Recs -> Nat]

\* What a reader goes through: the archived segments by their first seq, then
\* the live one.  A place is a line of one of them.
Segments == {a.file : a \in disk.arch} \cup ({disk.live} \ {0})
Places   == UNION {{f} \X DOMAIN lines[f] : f \in Segments}
At(p)    == lines[p[1]][p[2]]
OnDisk   == {At(p) : p \in Places}

ReadFirst(f, g) ==
    \E a \in disk.arch :
        /\ a.file = f
        /\ g = disk.live \/ \E b \in disk.arch : b.file = g /\ a.first < b.first
Before(p, q) == (p[1] = q[1] /\ p[2] < q[2]) \/ ReadFirst(p[1], q[1])

\* Across idle closes, rotations, trims, failed appends, crashes and reopens
\* the records of a conversation nobody deleted (and whose disk let every
\* realign and rotation run to its end) are numbered upwards with no number left
\* out, and no reader stops before the last of them: a line that does not parse
\* is the very last one.
NumberedWhole ==
    deletes = 0 /\ ~hurt =>
        \A p, q \in Places : Before(p, q) =>
            /\ Parses(At(p))
            /\ Parses(At(q)) =>
                 /\ At(p).seq < At(q).seq
                 /\ \A n \in At(p).seq..At(q).seq : \E l \in OnDisk : l.seq = n

\* The index of a conversation nobody deleted names records, not numbers:
\* `log:<seq>` leads to the record of that very call or, once it is trimmed or
\* evicted, to none; and when the sweep has taken the last segment, whose
\* numbers the next one starts over, no row names a seq any more.  Not claimed
\* once the sweep has met a log whose last record is in an archived segment.
RowNamesItsRecord ==
    deletes = 0 /\ ~hurt /\ ~lost =>
        /\ \A r \in Recs : \A l \in OnDisk : rows[r] # 0 /\ l.seq = rows[r] => l.rec = r
        /\ disk.live = 0 /\ disk.arch = {} => \A r \in Recs : rows[r] = 0

\* A record that can be read names a file that is there, until the boot sweep
\* evicts it or the conversation is deleted.
RefsResolve ==
    ~swept /\ deletes = 0 => \A l \in OnDisk : l.ref \subseteq beside

\* The log is whole for its readers: recovery, the learning queue and the
\* history view meet every record in order, and every file a record names.
LogReadsWhole == LogTypes /\ NumberedWhole /\ RefsResolve

\* A snapshot is answered Ok only with the old bytes saved and the record that
\* names them in the log: the caller is about to destroy them.  Provided one
\* snapshot fits under the cap: MaxBytes is large enough for what a segment
\* that was just archived holds and references.
ImageKept ==
    [][\A s \in Snaps : pc[s] # "ok" /\ pc'[s] = "ok" /\ deletes' = 0 /\ ~hurt' =>
          \E l \in OnDisk' : l.rec = s /\ l.ref # {} /\ l.ref \subseteq beside']_logVars

\* A snapshot and a flush wait with no time limit, so whoever waits is in the
\* hands of a writer that will get to it or drop it, at every point of a batch,
\* an idle close, a failed open, a deletion and a respawn.
WaitsForSomebody ==
    \A c \in Callers : pc[c] \in {"waiting", "waiting2"} =>
        \E w \in Tasks : c \in Range(queue[w] \o batch[w]) /\ mode[w] \notin {"none", "exit"}

\* "Returns whether it was accepted" and a flush "waits until everything
\* queued before this call is on disk": with no fault, crash or deletion, a
\* record accepted is in a channel, in a batch or in the log.
AcceptedIsKept ==
    crashes + faults + deletes = 0 => \A r \in Recs : pc[r] = "accepted" =>
        \/ \E w \in Tasks : r \in Range(queue[w]) \cup Range(batch[w])
        \/ \E l \in OnDisk : l.rec = r

\* "A reopened session restarts its seq at 1", so after an eviction, too, a row
\* names no record of another generation.
RowsOfThisGeneration ==
    deletes = 0 => \A r \in Recs : \A l \in OnDisk : rows[r] # 0 /\ l.seq = rows[r] => l.rec = r

\* "No window exists in which a row describes a record that is not there": an
\* eviction that leaves nothing of the log leaves no row.
NoRowWithoutLog ==
    deletes = 0 /\ disk.live = 0 /\ disk.arch = {} => \A r \in Recs : rows[r] = 0

\* "The writer is the only thing that assigns seqs": no two writers have the
\* log open with something to write.
OneWriter ==
    \A v, w \in Tasks : v # w /\ log[v].file # 0 /\ log[w].file # 0 =>
        batch[v] = <<>> \/ batch[w] = <<>>

\* "None of them can reopen the session" once forget has returned: a session
\* the service dropped is tracked again only by a turn that opens it.
NotReopened ==
    [][\A c \in Clients : deletes > 0 /\ slot = 0 => ~(Reopen(c) /\ slot' # 0)]_logVars
=============================================================================
