------------------------ MODULE SessionLogInvariant ------------------------
(***************************************************************************)
(* What the proofs about the session log rest on: its types, the parts of  *)
(* the inductive invariants WholeLog and ImageLog, and the shapes its      *)
(* steps have.  LogAndGateProofs proves that every step keeps them, and    *)
(* SessionLogInvariant.cfg has TLC check them on the run's instance, but   *)
(* for Numbered, which quantifies over all numbers.                        *)
(***************************************************************************)
EXTENDS SessionLog

----------------------------------------------------------------------------
(* The types of the state. *)

Messages == Clients \cup {"start", "close"}
Words    == Clients \cup {"start", "trim", "cut", "bad"}
Images   == Nat \X Clients
Stops    == Over \cup {"held", "waiting", "closed", "reopen", "fresh", "waiting2"}
Handling == {"copied", "plain", "wrote", "trimmed"}
WriterModes == {"none", "wait", "work", "leave", "last", "exit"} \cup Handling

LineType == [seq : Nat, rec : Words, ref : SUBSET Images]
FileType == [file : Files \cup {0}, next : Nat, bytes : Nat, first : Nat,
             dirty : BOOLEAN, gaveUp : BOOLEAN]
SegType  == [first : Nat, last : Nat, file : Files]
DirType  == [dir : BOOLEAN, live : Files \cup {0}, arch : SUBSET SegType]

ProcOK ==
    /\ up \in BOOLEAN /\ hurt \in BOOLEAN
    /\ crashes \in Nat /\ faults \in Nat /\ crashes + faults <= MaxMishaps
ServiceOK == slot \in Tasks \cup {0} /\ started \in BOOLEAN
ClientOK  == pc \in [Clients -> Stops] /\ hold \in [Clients -> Tasks \cup {0}]
DeleteOK  ==
    /\ dpc \in {"idle", "forget", "send", "wait", "remove"}
    /\ dying \in Tasks \cup {0} /\ deletes \in 0..1
ChanOK ==
    /\ chan \in [Tasks -> {"none", "open", "gone"}]
    /\ queue \in [Tasks -> Seq(Messages)]
    /\ \A w \in Tasks : Len(queue[w]) <= Capacity
WritersOK ==
    /\ mode \in [Tasks -> WriterModes] /\ batch \in [Tasks -> Seq(Messages)]
    /\ \A w \in Tasks : Len(batch[w]) <= MaxBatch
    /\ log \in [Tasks -> FileType] /\ closing \in [Tasks -> BOOLEAN]
    /\ \A w \in Tasks : log[w].file # 0 => log[w].next > 0
DiskOK ==
    /\ disk \in DirType /\ IsFiniteSet(disk.arch)
    /\ lines \in [Files -> Seq(LineType)] /\ synced \in [Files -> Nat]
    /\ beside \subseteq Images
RowsOK ==
    rows \in [Recs -> Nat] /\ swept \in BOOLEAN /\ lost \in BOOLEAN /\ spilled \subseteq Recs

\* What a writer's mode m says of its channel ch, its queue q, its batch b and its file g.
Agrees(ch, q, m, b, g) ==
    /\ m \in {"none", "last", "exit"} <=> ch # "open"
    /\ ch # "open" => q = <<>>
    /\ m \in Handling => b # <<>> /\ NeedsLog(Head(b)) /\ g.file # 0
    /\ m = "copied" => Head(b) \in Recs \cup Snaps
    /\ m = "plain" => Head(b) \in Recs
    /\ m \notin Handling \cup {"work"} => b = <<>>
    /\ g.gaveUp => g.file = 0
    /\ m \in {"none", "exit"} => g.file = 0
ModesAgree == \A w \in Tasks : Agrees(chan[w], queue[w], mode[w], batch[w], log[w])

LogTyped ==
    /\ ProcOK /\ ServiceOK /\ ClientOK /\ DeleteOK
    /\ ChanOK /\ WritersOK /\ DiskOK /\ RowsOK /\ ModesAgree

----------------------------------------------------------------------------
(* What the steps of a writer do to the directory and the files. *)

\* The directory without the segments G, and the files no record of them names.
Less(d, G)   == [d EXCEPT !.arch = @ \ G]
Spared(b, G) == b \ UNION {referenced_files_in(lines[a.file]) : a \in G}
OldestOf(d, G) == G \subseteq d.arch /\ \A x \in G : \A y \in d.arch \ G : x.first <= y.first

\* What a cap takes is the oldest segments, unless one could not be removed.
Takes(d, G) == G \subseteq d.arch /\ (hurt' \/ OldestOf(d, G))

\* The log a writer opened: the live segment repaired, or a free file when there is none.
Opened(w, f, s) ==
    /\ NoFault
    /\ \/ disk.live = 0 /\ FreeFile(f) /\ s = <<>>
       \/ disk.live # 0 /\ f = disk.live /\ s = repair_tail(lines[f])
    /\ lines' = [lines EXCEPT ![f] = s]
    /\ synced' \in [Files -> Nat] /\ synced'[f] <= Len(s) /\ Len(s) \in Nat
    /\ \A g \in Files \ {f} : synced'[g] = synced[g]
    /\ disk' = [disk EXCEPT !.dir = TRUE, !.live = f]
    /\ \E next \in Nat, first \in Nat :
         /\ next = (IF s = <<>> THEN archived_last_seq ELSE s[Len(s)].seq) + 1
         /\ first = head_seq(s)
         /\ log' = [log EXCEPT ![w] = [file |-> f, next |-> next, bytes |-> Len(s),
                      first |-> first, dirty |-> FALSE, gaveUp |-> FALSE]]

\* A record in its file: the numbers and the bytes of the writer go on by one.
Grown(w, r, ref) ==
    /\ lines' = [lines EXCEPT ![log[w].file] = Appended(@, Line(log[w].next, r, ref))]
    /\ lines' \in [Files -> Seq(LineType)]
    /\ synced' \in [Files -> Nat]
    /\ synced'[log[w].file] \in {synced[log[w].file], Durable(Len(lines'[log[w].file]))}
    /\ \A g \in Files \ {log[w].file} : synced'[g] = synced[g]
    /\ log' \in [Tasks -> FileType] /\ \A v \in Tasks \ {w} : log'[v] = log[v]
    /\ log'[w].file = log[w].file /\ log'[w].gaveUp = log[w].gaveUp
    /\ log'[w].next = log[w].next + 1 /\ log'[w].bytes = log[w].bytes + 1
    /\ log'[w].first = IF log[w].first = 0 THEN log[w].next ELSE log[w].first
    /\ disk' = disk

\* A failed append, cut back: the lines of the live segment are t.
Realigned(w, f, t) ==
    /\ Fault("append") /\ disk.dir
    /\ \/ disk.live = 0 /\ FreeFile(f)
       \/ disk.live # 0 /\ f = disk.live
    /\ disk' = [disk EXCEPT !.live = f]
    /\ log' = [log EXCEPT ![w].file = f]
    /\ ~hurt /\ disk.live # 0 /\ log[w].bytes = Len(lines[f]) => t = lines[f]
    /\ \A i \in 1..Len(t) : t[i] = Cut \/ (disk.live # 0 /\ i <= Len(lines[f]) /\ t[i] = lines[f][i])
    /\ lines' = Kept([lines EXCEPT ![f] = t], disk', log')
    /\ synced' \in [Files -> Nat] /\ synced'[f] <= Len(t)
    /\ \A g \in Files \ {f} : synced'[g] = synced[g]

\* Half a line stays in the file of the writer.
LeftTorn(w) ==
    /\ Fault("realign")
    /\ lines' = [lines EXCEPT ![log[w].file] = Torn(@)]
    /\ UNCHANGED <<disk, synced, log>>

\* What may be durable once a record is done: the new segments Z have nothing that is.
SyncedOr(Z) ==
    /\ synced' \in [Files -> Nat]
    /\ \A x \in Files \ Z : synced'[x] \in {synced[x], Durable(Len(lines[x]))}
    /\ \A x \in Z : synced'[x] = 0

\* The three ways AfterWrite ends, the cap having taken the segments G: the live segment
\* stays, it is renamed and no new one comes, or the new one is g and the cap takes H too.
Stayed(w, G) ==
    /\ disk' = Less(disk, G) /\ beside' = Spared(beside, G) /\ Paid(w, G # {})
    /\ log' = log \/ log' = [log EXCEPT ![w].dirty = FALSE]
    /\ SyncedOr({})
    /\ \E op \in {"sync", "unlink"} : NoFault \/ Fault(op)
Stranded(w, G) ==
    /\ disk.live # 0
    /\ disk' = Archived(w, Less(disk, G)) /\ beside' = Spared(beside, G) /\ Paid(w, G # {})
    /\ log' = [log EXCEPT ![w].dirty = FALSE]
    /\ SyncedOr({})
    /\ Fault("rotate")
Turned(w, G, g) == [Archived(w, Less(disk, G)) EXCEPT !.live = g]
Rotated(w, G, g, H) ==
    /\ disk.live # 0 /\ log[w].bytes >= RotateBytes /\ FreeFile(g)
    /\ Takes(Turned(w, G, g), H)
    /\ disk' = Less(Turned(w, G, g), H) /\ beside' = Spared(Spared(beside, G), H)
    /\ Paid(w, G # {} \/ H # {})
    /\ log' = [log EXCEPT ![w].file = g, ![w].bytes = 0, ![w].first = 0, ![w].dirty = FALSE]
    /\ SyncedOr({g})
    /\ NoFault \/ Fault("unlink")

\* The end of the process inside a rotation, the cap having taken the segments G.
Halted(w, G) ==
    /\ disk.live # 0 /\ log[w].bytes >= RotateBytes
    /\ OldestOf(disk, G)
    /\ disk' = Archived(w, Less(disk, G)) /\ beside' = Spared(beside, G)
    /\ lines' = Kept(lines, disk', log')
    /\ SyncedOr({})

\* What a crash leaves of a file: all of it, or what was durable and perhaps half a line.
CutShort(f, k, torn) == SubSeq(lines[f], 1, k) \o (IF torn THEN <<Cut>> ELSE <<>>)

----------------------------------------------------------------------------
(* Who waits, and for whom. *)

With(c, w) == c \in Range(queue[w]) \cup Range(batch[w])
Waits(c) == pc[c] \in {"waiting", "waiting2"}

Waiters ==
    /\ \A c \in Callers : Waits(c) => \E w \in Tasks : With(c, w)
    /\ \A c \in Clients : pc[c] \in {"held", "fresh"} => hold[c] # 0

----------------------------------------------------------------------------
(* The steps, by what they do to the files. *)

\* Nothing is renamed, written or opened; a writer may sync, end or begin.
Neutral ==
    /\ lines' = lines /\ disk'.live = disk.live /\ disk'.arch = disk.arch
    /\ \A v \in Tasks :
         /\ log'[v].file = log[v].file
         /\ log[v].file # 0 => /\ log'[v].next = log[v].next /\ log'[v].bytes = log[v].bytes
                               /\ log'[v].first = log[v].first
                               /\ chan'[v] = "open" => chan[v] = "open"
    /\ \A x \in Files : synced'[x] \in {synced[x], Durable(Len(lines[x]))}

Opens(w) == log[w].file = 0 /\ \E f \in Files, s \in Seq(LineType) : Opened(w, f, s)
Grows(w) == \E r \in Words, ref \in SUBSET Images : Grown(w, r, ref)
Cuts(w)  == \E f \in Files, t \in Seq(LineType) : Realigned(w, f, t)
Rolls(w) ==
    /\ lines' = Kept(lines, disk', log')
    /\ \E G : /\ Takes(disk, G)
              /\ \/ Stayed(w, G)
                 \/ Stranded(w, G)
                 \/ \E g \in Files : \E H : Rotated(w, G, g, H)
Works(w) ==
    /\ chan[w] = "open" /\ UNCHANGED chan
    /\ \/ Opens(w)
       \/ log[w].file \in Files /\ (Grows(w) \/ LeftTorn(w) \/ Cuts(w) \/ Rolls(w))

----------------------------------------------------------------------------
(* The directory. *)

Named(f) ==
    \/ f = disk.live
    \/ \E a \in disk.arch : a.file = f
    \/ \E w \in Tasks : log[w].file = f

Dir ==
    /\ \A a, b \in disk.arch : a.file = b.file => a = b
    /\ \A a \in disk.arch : a.file # disk.live
    /\ \A f \in Files : ~Named(f) => lines[f] = <<>>
    /\ \A f \in Files : Named(f) => synced[f] <= Len(lines[f])

----------------------------------------------------------------------------
(* One writer takes messages, until the conversation is deleted. *)

Solo ==
    /\ deletes = 0 => dpc = "idle" /\ dying = 0
    /\ deletes = 0 => \A w \in Tasks : chan[w] = "open" => w = slot
    /\ ~up => slot = 0 /\ \A w \in Tasks : mode[w] = "none"

----------------------------------------------------------------------------
(* The numbers: archived segments, the live one after them, what an open writer knows. *)

\* Every segment holds the numbers of its name, no number is held twice, and none is left out.
Chained(arch, ls) ==
    /\ \A a \in arch :
         /\ 1 <= a.first /\ a.first <= a.last /\ Len(ls[a.file]) = a.last - a.first + 1
         /\ \A i \in 1..Len(ls[a.file]) : ls[a.file][i].seq = a.first + i - 1
    /\ \A a, b \in arch : a = b \/ a.last < b.first \/ b.last < a.first
    /\ \A a, b \in arch : \A n \in a.first..b.last : \E c \in arch : n \in c.first..c.last

\* lead is the last number the archived segments hold, or any when there is none.
Leads(arch, lead) ==
    /\ \A a \in arch : a.last <= lead
    /\ arch # {} => \E a \in arch : a.last = lead

Sound == deletes = 0 /\ ~hurt

\* The live segment goes on after number lead, and who has it open knows where it ends.
Ready(lead) ==
    /\ Leads(disk.arch, lead)
    /\ \A i \in 1..Len(lines[disk.live]) :
         /\ Parses(lines[disk.live][i]) => lines[disk.live][i].seq = lead + i
         /\ i < Len(lines[disk.live]) => Parses(lines[disk.live][i])
    /\ \A w \in Tasks : chan[w] = "open" /\ log[w].file # 0 =>
         /\ log[w].file = disk.live
         /\ \A i \in 1..Len(lines[disk.live]) : Parses(lines[disk.live][i])
         /\ log[w].bytes = Len(lines[disk.live])
         /\ log[w].next = lead + Len(lines[disk.live]) + 1
         /\ log[w].first = IF lines[disk.live] = <<>> THEN 0 ELSE lead + 1

Numbers ==
    /\ Chained(disk.arch, lines)
    /\ disk.live # 0 => \E lead \in Nat : Ready(lead)
    /\ disk.live = 0 => \A w \in Tasks : chan[w] = "open" => log[w].file = 0
Numbered == Sound => Numbers

----------------------------------------------------------------------------
(* What a step adds to the log, and what it takes away. *)

Blank(l) == ~Parses(l) /\ l.ref = {} /\ l.rec \notin Recs
Same(f, i) == f \in Segments /\ i \in 1..Len(lines[f]) /\ lines'[f][i] = lines[f][i]
FewerLines ==
    \A f \in Segments' : \A i \in 1..Len(lines'[f]) : Blank(lines'[f][i]) \/ Same(f, i)

\* Some segments go, each with the files its lines name, and no other file does.
Trimmed(Z) ==
    /\ Z \subseteq Segments /\ Segments' \cap Z = {}
    /\ beside' \subseteq beside
    /\ \A x \in beside \ beside' : \E f \in Z : \E i \in 1..Len(lines[f]) : x \in lines[f][i].ref

\* A record of r, or the notice of what was trimmed, reaches its file.
Added(w, r, ref) ==
    /\ Grown(w, r, ref)
    /\ \/ Write(w) /\ r = Msg(w) /\ ref = Ref(w)
       \/ Notice(w) /\ r = "trim" /\ ref = {}

----------------------------------------------------------------------------
(* What a writer has still to do. *)

Rest(w) == IF mode[w] \in {"wrote", "trimmed"} THEN Tail(batch[w]) ELSE batch[w]
Todo(w) == Rest(w) \o queue[w]
Distinct(s) == \A i, j \in 1..Len(s) : s[i] \in Recs /\ s[i] = s[j] => i = j

\* How what a writer has in hand and in its channel may change.
RestMoves(v) ==
    \/ Rest(v)' = Rest(v) /\ queue'[v] = queue[v]
    \/ Rest(v)' = <<>> /\ queue'[v] \in {<<>>, <<"start">>, queue[v]}
    \/ /\ Rest(v)' = Rest(v)
       /\ \E m \in Messages : /\ queue'[v] = Append(queue[v], m)
                              /\ m \in Recs => pc[m] \in {"held", "fresh"} /\ pc'[m] = "accepted"
    \/ Rest(v) = <<>> /\ queue[v] = Rest(v)' \o queue'[v]
    \/ Rest(v) # <<>> /\ Rest(v)' = Tail(Rest(v)) /\ queue'[v] = queue[v]

Sent == \A w \in Tasks : \A r \in Recs : r \in Range(Todo(w)) => pc[r] = "accepted"
Once ==
    deletes = 0 =>
        /\ \A w \in Tasks : Distinct(Todo(w))
        /\ \A f \in Segments : \A i \in 1..Len(lines[f]) : lines[f][i].rec \in Recs =>
             /\ pc[lines[f][i].rec] = "accepted"
             /\ \A w \in Tasks : lines[f][i].rec \notin Range(Todo(w))

----------------------------------------------------------------------------
(* The files beside the log, each of one record. *)

Unnamed(x) == \A f \in Segments : \A i \in 1..Len(lines[f]) : x \notin lines[f][i].ref
RefsHold ==
    /\ \A f \in Segments : \A i \in 1..Len(lines[f]) : \A x \in lines[f][i].ref :
         x \in beside /\ x[2] = lines[f][i].rec
    /\ \A f, g \in Segments : \A i \in 1..Len(lines[f]) : \A j \in 1..Len(lines[g]) :
         \A x \in lines[f][i].ref : x \in lines[g][j].ref => f = g /\ i = j
    /\ \A w \in Tasks : mode[w] = "copied" =>
         Name(w, Msg(w)) \in beside /\ Unnamed(Name(w, Msg(w)))
Refs == deletes = 0 /\ ~swept => RefsHold

\* How a writer comes to hold a message it has copied, written or trimmed for: it did before, or
\* it took the step of its own that leads there.
HeldOn(v) ==
    /\ mode'[v] = mode[v] /\ log'[v] = log[v]
    /\ ~Write(v) /\ ~AfterWrite(v) /\ ~Notice(v)
HasCopied(v) ==
    /\ Copy(v) /\ mode'[v] = "copied" /\ UNCHANGED log
    /\ beside' = beside \cup {Name(v, Msg(v))}
    /\ Msg(v) \in spilled \/ Name(v, Msg(v)) \notin beside
HasWritten(v) ==
    /\ Write(v) /\ mode'[v] = "wrote" /\ beside' = beside
    /\ Grown(v, Msg(v), Ref(v))

\* A step after which every file named was named before at the same place.
FewerNames ==
    \A f \in Segments' : \A i \in 1..Len(lines'[f]) : lines'[f][i].ref = {} \/ Same(f, i)

WholeLog == LogTyped /\ Dir /\ Solo /\ Numbered /\ Sent /\ Once /\ Refs

----------------------------------------------------------------------------
(* A snapshot's image, from the copy to the answer. *)

\* The sizes leave something of the log: what the cap trims is never all of it.
CapLeavesSome == Sound => \A w \in Tasks : mode[w] = "trimmed" => OnDisk # {}

\* A file a record names is the record's own, and an image bears its number.
RefNames ==
    deletes = 0 =>
        \A f \in Segments : \A i \in 1..Len(lines[f]) : \A x \in lines[f][i].ref :
            /\ x[2] = lines[f][i].rec
            /\ x[2] \in Snaps => x[1] = lines[f][i].seq

\* What was copied for a record is there until the record is written.
CopiedBeside ==
    deletes = 0 => \A w \in Tasks : mode[w] = "copied" => Name(w, Msg(w)) \in beside

\* The record just written is the last line of the log, and its image is there.
LatestOf(w) ==
    LET s == lines[disk.live] IN
    /\ disk.live # 0 /\ s # <<>>
    /\ s[Len(s)].seq = log[w].next - 1 /\ s[Len(s)].rec = Msg(w)
    /\ Msg(w) \in Snaps => s[Len(s)].ref # {} /\ s[Len(s)].ref \subseteq beside
Latest == Sound => \A w \in Tasks : mode[w] = "wrote" => LatestOf(w)

\* The image of a snapshot that the cap has been enforced for is there, and so is its record.
ImageThere(s) ==
    \E f \in Segments : \E i \in 1..Len(lines[f]) :
        /\ Parses(lines[f][i]) /\ lines[f][i].rec = s
        /\ lines[f][i].ref # {} /\ lines[f][i].ref \subseteq beside
Imaged ==
    Sound => \A w \in Tasks : mode[w] = "trimmed" /\ Msg(w) \in Snaps => ImageThere(Msg(w))

ImageLog == LogTyped /\ Dir /\ Solo /\ Numbered /\ RefNames /\ CopiedBeside /\ Latest /\ Imaged

----------------------------------------------------------------------------
(* The index of the tool results. *)

\* A row names its record's place, and the log has gone on past it.
RowsHold ==
    Sound /\ ~lost => \A r \in Recs : rows[r] # 0 =>
        /\ \E f \in Segments : \E i \in 1..Len(lines[f]) :
             Parses(lines[f][i]) /\ lines[f][i].seq >= rows[r]
        /\ \A f \in Segments : \A i \in 1..Len(lines[f]) :
             lines[f][i].seq = rows[r] => lines[f][i].rec = r

\* What follows a record that is written, or is cut off by the end of the process.
Pays(w) == AfterWrite(w) \/ (Crash /\ CutRotation(w))
=============================================================================
