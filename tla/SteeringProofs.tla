--------------------------- MODULE SteeringProofs ---------------------------
(***************************************************************************)
(* Why an interjection is shown in order, kept in exactly one place, found  *)
(* again after a crash and never rendered once cancelled - for any set of   *)
(* messages, inbox bound, round budget and number of crashes.               *)
(***************************************************************************)
EXTENDS SteeringRail, SequenceTheorems, TLAPS

USE NoteAssumption, RailAssumption

LogRecord == [kind : {"steering", "steering_drained"}, ids : SUBSET All]

\* The queues of the workflow's memory, as sequences.
Queues ==
    /\ inbox \in Seq(All) /\ pending \in Seq(All) /\ batch \in Seq(All)
    /\ leftovers \in Seq(All) /\ arrivals \in Seq(All) /\ got \in Seq(All)

\* Everything else.
Scalars ==
    /\ pc \in [Msgs -> {"idle", "pushed", "filing", "acked", "refused", "cut"}]
    /\ closed \in BOOLEAN /\ logOpen \in BOOLEAN /\ up \in BOOLEAN
    /\ phase \in Running \cup Over
    /\ rounds \in Nat /\ bonus \in Nat /\ errors \in 0..Retries
    /\ crashes \in 0..MaxCrashes
    /\ row \in [All -> {"none", "queued", "done", "cancelled"}]
    /\ table \in Seq(All)
    /\ turn \subseteq All /\ shown \subseteq All /\ delivered \subseteq All
    /\ dropped \subseteq Msgs

LogTyped == log \in Seq(LogRecord) /\ onDisk \in 0..Len(log)

\* A run that is not under way keeps nothing in memory.
Clean ==
    /\ inbox = <<>> /\ pending = <<>> /\ batch = <<>> /\ leftovers = <<>>
    /\ arrivals = <<>> /\ got = <<>> /\ closed /\ ~logOpen

\* Which queue may hold something where the workflow is.
Stages ==
    /\ ~up \/ phase \in {"none", "interrupted"} => Clean
    /\ batch # <<>> => phase \in {"logRound", "logGuard"}
    /\ pending # <<>> => phase \in {"top", "logRound", "calling"}
    /\ leftovers # <<>> => phase = "filing"
    /\ ~closed <=> up /\ phase \in {"booting", "exited"} \cup InLoop
    /\ closed => inbox = <<>>
    /\ logOpen => phase \in {"exited", "filing"} \cup InLoop

\* No message is in two hands at once.
Apart ==
    /\ Range(got) \cap InMemory = {}
    /\ Range(inbox) \cap (Range(pending) \cup Range(batch)) = {}
    /\ Range(pending) \cap Range(batch) = {}

\* What the loop holds or has shown was filed by the fallback, if at all.
Heard ==
    \A m \in Range(got) \cup Range(inbox) \cup Range(pending) \cup Range(batch) :
        row[m] # "none" => m \in dropped

Filed == {m \in All : row[m] # "none"}

\* Nothing the inbox accepted has slipped away.
Kept == Range(arrivals) \ {Note} \subseteq Range(got) \cup InMemory \cup Filed

\* A message nobody has typed is nowhere.
Fresh == \A m \in Msgs : pc[m] = "idle" => m \notin Range(got) \cup InMemory \cup Filed

\* A request that still has to record its message knows where it went.
Recording ==
    \A m \in Msgs :
        /\ pc[m] \in {"pushed", "filing"} => m \in Range(arrivals)
        /\ pc[m] = "filing" => m \in dropped

Seen == Range(got) \subseteq delivered

Hands == Apart /\ Heard /\ Kept /\ NoteNeverFiled /\ Fresh /\ Recording /\ Seen

\* What the log says was typed, was; and the daemon knows of it, once it is past
\* its boot pass or where there is nothing to boot.
Typists == \A m \in Named("steering", Len(log)) : m \in Msgs /\ pc[m] # "idle"

Remembered ==
    up \/ phase \in Over =>
        \A m \in Named("steering", Len(log)) :
            \/ m \in InMemory \cup delivered
            \/ row[m] # "none"
            \/ m \in Named("steering_drained", onDisk)

LogInv == Typists /\ (~up => onDisk = Len(log)) /\ Remembered

RailInv == Queues /\ Scalars /\ LogTyped /\ Stages /\ FifoOrder /\ Hands /\ LogInv

----------------------------------------------------------------------------
(* Sequences, seen as the sets of what they hold. *)

\* Nothing is in the empty queue.
LEMMA RangeEmpty == Range(<<>>) = {}
BY DEF Range

\* A push adds its message.
LEMMA RangeAppend ==
  ASSUME NEW S, NEW q \in Seq(S), NEW m \in S
  PROVE  Range(Append(q, m)) = Range(q) \cup {m}
<1>1. /\ Append(q, m) \in Seq(S) /\ DOMAIN Append(q, m) = 1..Len(q) + 1
      /\ \A i \in 1..Len(q) + 1 : Append(q, m)[i] = IF i <= Len(q) THEN q[i] ELSE m
  OBVIOUS
<1>2. DOMAIN q = 1..Len(q) /\ Len(q) \in Nat
  OBVIOUS
<1> QED BY <1>1, <1>2 DEF Range

\* A queue is its head and what is behind it.
LEMMA RangeTail ==
  ASSUME NEW S, NEW q \in Seq(S), q # <<>>
  PROVE  /\ Range(q) = Range(Tail(q)) \cup {Head(q)}
         /\ Head(q) \in S /\ Tail(q) \in Seq(S)
<1>1. /\ Tail(q) \in Seq(S) /\ Head(q) \in S /\ Head(q) = q[1] /\ Len(q) \in Nat /\ Len(q) >= 1
      /\ DOMAIN q = 1..Len(q) /\ DOMAIN Tail(q) = 1..Len(q) - 1
      /\ \A i \in 1..Len(q) - 1 : Tail(q)[i] = q[i + 1]
  OBVIOUS
<1>2. Range(q) \subseteq Range(Tail(q)) \cup {Head(q)}
  <2> SUFFICES ASSUME NEW i \in DOMAIN q PROVE q[i] \in Range(Tail(q)) \cup {Head(q)}
    BY DEF Range
  <2>1. CASE i = 1
    BY <2>1, <1>1
  <2>2. CASE i # 1
    <3>1. i - 1 \in DOMAIN Tail(q) /\ Tail(q)[i - 1] = q[i]
      BY <2>2, <1>1
    <3> QED BY <3>1 DEF Range
  <2> QED BY <2>1, <2>2
<1>3. Range(Tail(q)) \cup {Head(q)} \subseteq Range(q)
  BY <1>1 DEF Range
<1> QED BY <1>1, <1>2, <1>3

\* Two queues one behind the other.
LEMMA RangeBoth ==
  ASSUME NEW S, NEW p \in Seq(S), NEW q \in Seq(S)
  PROVE  p \o q \in Seq(S) /\ Range(p \o q) = Range(p) \cup Range(q)
BY RangeConcatenation

\* A queue of messages holds messages.
LEMMA RangeSub ==
  ASSUME NEW S, NEW q \in Seq(S)
  PROVE  Range(q) \subseteq S
BY DEF Range

----------------------------------------------------------------------------
(* Types. *)

\* The queues' types give those the model states by their ranges.
LEMMA Typed == Queues /\ Scalars /\ LogTyped => TypeOK
<1> SUFFICES ASSUME Queues, Scalars, LogTyped PROVE TypeOK
  OBVIOUS
<1>1. {Range(q) : q \in {inbox, pending, batch, leftovers, table, arrivals, got}}
          \subseteq SUBSET All
  BY RangeSub DEF Queues, Scalars
<1>2. \A i \in DOMAIN log : log[i] \in LogRecord
  BY DEF LogTyped
<1>3. \A i \in DOMAIN log : log[i].kind \in {"steering", "steering_drained"}
                            /\ log[i].ids \subseteq All
  BY <1>2 DEF LogRecord
<1> QED BY <1>1, <1>3 DEF TypeOK, Scalars, LogTyped

\* Every step keeps the queues queues of messages.
LEMMA QueuesStep ==
  ASSUME Queues, [Next]_vars
  PROVE  Queues'
<1>a. <<>> \in Seq(All) /\ Note \in All /\ Msgs \subseteq All
  BY DEF All
<1> USE <1>a DEF Queues, loopVars, logVars, rowVars, turnVars, procVars
<1>1. ASSUME NEW m \in Msgs, Push(m) PROVE Queues'
  BY <1>1 DEF Push
<1>2. CASE Spawn
  <2>1. <<Note>> \in Seq(All)
    OBVIOUS
  <2>2. inbox' \in Seq(All)
    BY <1>2, <2>1 DEF Spawn
  <2> QED BY <1>2, <2>2 DEF Spawn
<1>3. CASE ExitAtTop \/ CallExit
  <2>1. inbox' = pending \o inbox /\ pending' = <<>>
    BY <1>3 DEF ExitAtTop, CallExit, ExitLoop, ReturnPending
  <2>2. inbox' \in Seq(All)
    BY <2>1
  <2> QED BY <1>3, <2>1, <2>2 DEF ExitAtTop, CallExit
<1>4. CASE DrainRound \/ CompletionGuard \/ CloseAndDrain
  <2>2. CASE DrainRound
    BY <2>2 DEF DrainRound
  <2>3. CASE CompletionGuard
    BY <2>3 DEF CompletionGuard
  <2>4. CASE CloseAndDrain
    BY <2>4 DEF CloseAndDrain
  <2> QED BY <1>4, <2>2, <2>3, <2>4
<1>5. CASE LogDrained
  BY <1>5 DEF LogDrained
<1>6. CASE CallOk
  BY <1>6 DEF CallOk
<1>7. CASE FileLeftover
  BY <1>7 DEF FileLeftover
<1>8. CASE Crash
  BY <1>8 DEF Crash
<1>9. ASSUME NEW m \in Msgs, PushRefused(m) \/ Producer(m) PROVE Queues'
  BY <1>9 DEF PushRefused, Producer, EmitPushed, EmitDropped, FileDropped
<1>10. ASSUME NEW m \in All, ClaimRow(m) \/ CancelRow(m) \/ RecoverOne(m) PROVE Queues'
  BY <1>10 DEF ClaimRow, CancelRow, RecoverOne
<1>11. CASE OpenLog \/ CallRetry \/ AnotherRound \/ ExitAfterAnswer \/ CloseLog \/ Finalize
  BY <1>11 DEF OpenLog, CallRetry, AnotherRound, ExitAfterAnswer, CloseLog, Finalize
<1>12. CASE WriterStep \/ ListRows \/ Flip \/ UNCHANGED vars
  BY <1>12 DEF WriterStep, ListRows, Flip, vars
<1> HIDE DEF Queues, loopVars, logVars, rowVars, turnVars, procVars
<1> QED BY <1>1, <1>2, <1>3, <1>4, <1>5, <1>6, <1>7, <1>8, <1>9, <1>10, <1>11, <1>12
        DEF Next, Workflow, Boot

\* queue_unprocessed_steering_once keeps the table's type.
LEMMA FileType ==
  ASSUME Scalars, NEW m \in All, File(m)
  PROVE  /\ row' \in [All -> {"none", "queued", "done", "cancelled"}]
         /\ table' \in Seq(All)
         /\ row' = [row EXCEPT ![m] = IF row[m] = "none" THEN "queued" ELSE row[m]]
<1>1. row \in [All -> {"none", "queued", "done", "cancelled"}] /\ table \in Seq(All)
  BY DEF Scalars
<1>2. CASE row[m] = "none"
  BY <1>1, <1>2 DEF File
<1>3. CASE row[m] # "none"
  <2>1. row' = row /\ table' = table
    BY <1>3 DEF File, rowVars
  <2> QED BY <1>1, <1>3, <2>1
<1> QED BY <1>2, <1>3

\* Every step keeps the scalars' types.
LEMMA ScalarsStep ==
  ASSUME Queues, Scalars, [Next]_vars
  PROVE  Scalars'
<1>a. Note \in All /\ Msgs \subseteq All
  BY DEF All
<1>b. Range(pending) \subseteq All
  BY RangeSub DEF Queues
<1> USE DEF Scalars, loopVars, logVars, rowVars, turnVars, procVars
<1>1. ASSUME NEW m \in Msgs, Push(m) \/ PushRefused(m) \/ EmitPushed(m) \/ EmitDropped(m)
      PROVE  Scalars'
  BY <1>1 DEF Push, PushRefused, EmitPushed, EmitDropped
<1>2. ASSUME NEW m \in Msgs, FileDropped(m) PROVE Scalars'
  <2>1. /\ row' \in [All -> {"none", "queued", "done", "cancelled"}]
        /\ table' \in Seq(All)
    BY <1>2, <1>a, FileType DEF FileDropped
  <2> QED BY <1>2, <2>1 DEF FileDropped
<1>3. CASE FileLeftover
  <2>1. /\ row' \in [All -> {"none", "queued", "done", "cancelled"}]
        /\ table' \in Seq(All)
    <3>1. CASE Head(leftovers) = Note
      BY <1>3, <3>1 DEF FileLeftover
    <3>2. CASE Head(leftovers) # Note
      <4>1. Head(leftovers) \in All /\ File(Head(leftovers))
        BY <1>3, <3>2, RangeTail DEF FileLeftover, Queues
      <4> QED BY <4>1, FileType
    <3> QED BY <3>1, <3>2
  <2> QED BY <1>3, <2>1 DEF FileLeftover
<1>4. ASSUME NEW m \in All, RecoverOne(m) PROVE Scalars'
  <2>1. /\ row' \in [All -> {"none", "queued", "done", "cancelled"}]
        /\ table' \in Seq(All)
    BY <1>4, FileType DEF RecoverOne
  <2> QED BY <1>4, <2>1 DEF RecoverOne
<1>5. ASSUME NEW m \in All, ClaimRow(m) \/ CancelRow(m) PROVE Scalars'
  BY <1>5 DEF ClaimRow, CancelRow
<1>6. CASE ListRows
  <2>1. \A i \in DOMAIN table : table[i] \in All
    OBVIOUS
  <2>2. turn' \subseteq All
    BY <1>6, <2>1 DEF ListRows, Oldest, QueuedRows
  <2> QED BY <1>6, <2>2 DEF ListRows
<1>7. CASE Crash
  <2>1. pc' \in [Msgs -> {"idle", "pushed", "filing", "acked", "refused", "cut"}]
    BY <1>7 DEF Crash
  <2>2. crashes' \in 0..MaxCrashes
    BY <1>7 DEF Crash
  <2> QED BY <1>7, <2>1, <2>2 DEF Crash
<1>8. CASE CallOk
  BY <1>8, <1>b DEF CallOk, Running, InLoop, Over
<1>9. CASE CallRetry
  BY <1>9 DEF CallRetry, Running, InLoop, Over
<1>10. CASE Spawn \/ OpenLog \/ ExitAtTop \/ CallExit \/ LogDrained
  <2>1. phase' \in Running \cup Over
    BY <1>10 DEF Spawn, OpenLog, ExitAtTop, CallExit, ExitLoop, LogDrained, Running, InLoop
  <2>2. CASE Spawn
    <3>1. rounds' = 0 /\ bonus' = 0 /\ errors' = 0 /\ closed' = FALSE
      BY <2>2, Zenon DEF Spawn
    <3>2. UNCHANGED <<pc, logOpen, up, crashes, row, table, turn, shown, delivered, dropped>>
      BY <2>2 DEF Spawn
    <3>3. 0 \in 0..Retries
      OBVIOUS
    <3> QED BY <2>1, <3>1, <3>2, <3>3
  <2>3. CASE OpenLog
    BY <2>1, <2>3 DEF OpenLog
  <2>4. CASE ExitAtTop \/ CallExit
    BY <2>1, <2>4 DEF ExitAtTop, CallExit
  <2>5. CASE LogDrained
    BY <2>1, <2>5 DEF LogDrained
  <2> QED BY <1>10, <2>2, <2>3, <2>4, <2>5
<1>11. CASE DrainRound \/ CompletionGuard
  BY <1>11 DEF DrainRound, CompletionGuard, Running, InLoop, Over
<1>12. CASE AnotherRound \/ ExitAfterAnswer \/ CloseAndDrain \/ CloseLog \/ Finalize
  BY <1>12 DEF AnotherRound, ExitAfterAnswer, CloseAndDrain, CloseLog, Finalize, Running,
               InLoop, Over
<1>13. CASE WriterStep \/ Flip \/ UNCHANGED vars
  BY <1>13 DEF WriterStep, Flip, vars, Running, InLoop, Over
<1> HIDE DEF Scalars, loopVars, logVars, rowVars, turnVars, procVars
<1> QED BY <1>1, <1>2, <1>3, <1>4, <1>5, <1>6, <1>7, <1>8, <1>9, <1>10, <1>11, <1>12, <1>13
        DEF Next, Workflow, Boot, Producer

\* A record more, and the writer is still within the log.
LEMMA LogAppend ==
  ASSUME LogTyped, NEW x \in LogRecord
  PROVE  Append(log, x) \in Seq(LogRecord) /\ onDisk \in 0..Len(Append(log, x))
<1>1. log \in Seq(LogRecord) /\ onDisk \in 0..Len(log) /\ Len(log) \in Nat
  BY DEF LogTyped
<1>2. Append(log, x) \in Seq(LogRecord) /\ Len(Append(log, x)) = Len(log) + 1
  BY <1>1
<1> QED BY <1>1, <1>2

\* Every step keeps the log a sequence of records, the writer within it.
LEMMA LogTypedStep ==
  ASSUME Queues, LogTyped, [Next]_vars
  PROVE  LogTyped'
<1>a. Range(batch) \subseteq All
  BY RangeSub DEF Queues
<1> USE DEF LogTyped, loopVars, logVars, rowVars, turnVars, procVars
<1>1. ASSUME NEW m \in Msgs, EmitPushed(m) PROVE LogTyped'
  <2>1. Pushed(m) \in LogRecord
    BY DEF Pushed, LogRecord, All
  <2>2. log' \in {log, Append(log, Pushed(m))} /\ onDisk' = onDisk
    BY <1>1 DEF EmitPushed
  <2> QED BY <2>1, <2>2, LogAppend
<1>2. CASE LogDrained
  <2>1. Drained(Range(batch)) \in LogRecord
    BY <1>a DEF Drained, LogRecord
  <2>2. log' \in {log, Append(log, Drained(Range(batch)))} /\ onDisk' = onDisk
    BY <1>2 DEF LogDrained
  <2> QED BY <2>1, <2>2, LogAppend
<1>3. CASE Crash
  <2>1. SubSeq(log, 1, onDisk) \in Seq(LogRecord) /\ Len(SubSeq(log, 1, onDisk)) = onDisk
    OBVIOUS
  <2> QED BY <1>3, <2>1 DEF Crash
<1>4. CASE WriterStep
  BY <1>4 DEF WriterStep
<1>5. ASSUME NEW m \in Msgs, Push(m) \/ PushRefused(m) \/ EmitDropped(m) \/ FileDropped(m)
      PROVE  LogTyped'
  BY <1>5 DEF Push, PushRefused, EmitDropped, FileDropped
<1>6. ASSUME NEW m \in All, ClaimRow(m) \/ CancelRow(m) \/ RecoverOne(m) PROVE LogTyped'
  BY <1>6 DEF ClaimRow, CancelRow, RecoverOne
<1>7. CASE Spawn \/ OpenLog \/ ExitAtTop \/ CallExit \/ CallOk \/ CallRetry
  BY <1>7 DEF Spawn, OpenLog, ExitAtTop, CallExit, CallOk, CallRetry
<1>8. CASE DrainRound \/ CompletionGuard \/ AnotherRound \/ ExitAfterAnswer
  BY <1>8 DEF DrainRound, CompletionGuard, AnotherRound, ExitAfterAnswer
<1>9. CASE CloseAndDrain \/ FileLeftover \/ CloseLog \/ Finalize
  BY <1>9 DEF CloseAndDrain, FileLeftover, CloseLog, Finalize
<1>10. CASE ListRows \/ Flip \/ UNCHANGED vars
  BY <1>10 DEF ListRows, Flip, vars
<1> HIDE DEF LogTyped, loopVars, logVars, rowVars, turnVars, procVars
<1> QED BY <1>1, <1>2, <1>3, <1>4, <1>5, <1>6, <1>7, <1>8, <1>9, <1>10
        DEF Next, Workflow, Boot, Producer

----------------------------------------------------------------------------
(* Where the workflow is, and which queues may hold something there. *)

\* Every step keeps the stages of a run.
LEMMA StagesStep ==
  ASSUME Scalars, Stages, [Next]_vars
  PROVE  Stages'
<1> USE DEF Stages, Clean, At, InLoop, loopVars, logVars, rowVars, turnVars, procVars
<1>a. up \in BOOLEAN /\ closed \in BOOLEAN /\ logOpen \in BOOLEAN
  BY DEF Scalars
<1>1. ASSUME NEW m \in Msgs, Push(m) PROVE Stages'
  BY <1>1, <1>a DEF Push
<1>2. ASSUME NEW m \in Msgs, PushRefused(m) \/ Producer(m) PROVE Stages'
  BY <1>2, <1>a DEF PushRefused, Producer, EmitPushed, EmitDropped, FileDropped
<1>3. CASE Spawn
  BY <1>3, <1>a DEF Spawn
<1>4. CASE OpenLog
  BY <1>4, <1>a DEF OpenLog
<1>5. CASE ExitAtTop \/ CallExit
  BY <1>5, <1>a DEF ExitAtTop, CallExit, ExitLoop
<1>6. CASE DrainRound
  BY <1>6, <1>a DEF DrainRound
<1>7. CASE LogDrained
  BY <1>7, <1>a DEF LogDrained
<1>8. CASE CallOk
  BY <1>8, <1>a DEF CallOk
<1>9. CASE CallRetry
  BY <1>9, <1>a DEF CallRetry
<1>10. CASE AnotherRound \/ ExitAfterAnswer
  BY <1>10, <1>a DEF AnotherRound, ExitAfterAnswer
<1>11. CASE CompletionGuard
  BY <1>11, <1>a DEF CompletionGuard
<1>12. CASE CloseAndDrain
  BY <1>12, <1>a DEF CloseAndDrain
<1>13. CASE FileLeftover
  BY <1>13, <1>a DEF FileLeftover
<1>14. CASE CloseLog \/ Finalize
  BY <1>14, <1>a DEF CloseLog, Finalize
<1>15. ASSUME NEW m \in All, ClaimRow(m) \/ CancelRow(m) \/ RecoverOne(m) PROVE Stages'
  BY <1>15, <1>a DEF ClaimRow, CancelRow, RecoverOne
<1>16. CASE Crash
  BY <1>16, <1>a DEF Crash
<1>17. CASE Flip
  <2>1. phase' \notin {"booting", "exited"} \cup InLoop /\ up'
    BY <1>17 DEF Flip, Running
  <2> QED BY <1>17, <1>a, <2>1 DEF Flip
<1>18. CASE WriterStep \/ ListRows \/ UNCHANGED vars
  BY <1>18, <1>a DEF WriterStep, ListRows, vars
<1> HIDE DEF Stages, Clean, At, InLoop, loopVars, logVars, rowVars, turnVars, procVars
<1> QED BY <1>1, <1>2, <1>3, <1>4, <1>5, <1>6, <1>7, <1>8, <1>9, <1>10, <1>11, <1>12, <1>13,
           <1>14, <1>15, <1>16, <1>17, <1>18 DEF Next, Workflow, Boot

----------------------------------------------------------------------------
(* The order of delivery. *)

\* A message put last is last of the whole line.
LEMMA AppendBehind ==
  ASSUME NEW S, NEW p \in Seq(S), NEW q \in Seq(S), NEW m \in S
  PROVE  p \o Append(q, m) = Append(p \o q, m)
<1>1. Append(q, m) = q \o <<m>> /\ Append(p \o q, m) = (p \o q) \o <<m>>
  BY AppendIsConcat
<1>2. <<m>> \in Seq(S)
  OBVIOUS
<1> QED BY <1>1, <1>2, ConcatAssociative

\* Every step keeps the line in the order the inbox accepted it.
LEMMA FifoStep ==
  ASSUME Queues, Scalars, Stages, FifoOrder, [Next]_vars
  PROVE  FifoOrder'
<1> DEFINE Open == {"booting", "exited"} \cup InLoop
<1>a. \A p, q, r \in Seq(All) : (p \o q) \o r = p \o (q \o r)
  BY ConcatAssociative
<1>b. <<>> \in Seq(All) /\ \A q \in Seq(All) : q \o <<>> = q /\ <<>> \o q = q
  BY ConcatEmptySeq
<1>c. \A p, q \in Seq(All) : p \o q \in Seq(All)
  OBVIOUS
<1>d. Queues'
  BY QueuesStep
<1> USE DEF FifoOrder
<1>1. ASSUME NEW m \in Msgs, Push(m) PROVE FifoOrder'
  <2>1. phase \in Open /\ up /\ phase' = phase
    BY <1>1 DEF Push, Stages, procVars
  <2>2. got \o pending \o batch \in Seq(All) /\ inbox \in Seq(All) /\ m \in All
    BY <1>c DEF Queues, All
  <2>3. got \o pending \o batch \o Append(inbox, m)
           = Append(got \o pending \o batch \o inbox, m)
    BY <2>2, AppendBehind
  <2> QED BY <1>1, <2>1, <2>3 DEF Push, loopVars
<1>2. CASE Spawn
  <2>1. got' = <<>> /\ pending' = <<>> /\ batch' = <<>> /\ inbox' = arrivals'
    BY <1>2 DEF Spawn, Stages, Clean
  <2> QED BY <2>1, <1>b, <1>d DEF Queues
<1>3. CASE ExitAtTop \/ CallExit
  <2>1. /\ phase \in {"top", "calling"} /\ up
        /\ inbox' = pending \o inbox /\ pending' = <<>> /\ batch = <<>>
        /\ got' = got /\ batch' = batch /\ arrivals' = arrivals
    BY <1>3 DEF ExitAtTop, CallExit, ExitLoop, ReturnPending, At, Stages
  <2>2. got \o pending \o batch \o inbox = got \o (pending \o inbox)
    BY <2>1, <1>a, <1>b, <1>c DEF Queues
  <2>3. got' \o pending' \o batch' \o inbox' = got \o (pending \o inbox)
    BY <2>1, <1>b DEF Queues
  <2> QED BY <2>1, <2>2, <2>3 DEF InLoop
<1>4. CASE DrainRound \/ CompletionGuard
  <2>1. /\ phase \in {"top", "answered"} /\ up /\ inbox' = <<>> /\ batch' = inbox
        /\ batch = <<>> /\ got' = got /\ pending' = pending /\ arrivals' = arrivals
    BY <1>4 DEF DrainRound, CompletionGuard, At, Stages
  <2>2. got' \o pending' \o batch' \o inbox' = got \o pending \o batch \o inbox
    BY <2>1, <1>b, <1>c DEF Queues
  <2> QED BY <2>1, <2>2 DEF InLoop
<1>5. CASE LogDrained
  <2>1. /\ phase \in {"logRound", "logGuard"} /\ up /\ inbox' = inbox /\ batch' = <<>>
        /\ pending' = pending \o batch /\ got' = got /\ arrivals' = arrivals
    BY <1>5 DEF LogDrained, At
  <2>2. got \o (pending \o batch) = got \o pending \o batch
    BY <1>a DEF Queues
  <2>3. got \o (pending \o batch) \o <<>> = got \o pending \o batch
    BY <2>2, <1>b, <1>c DEF Queues
  <2>4. got' \o pending' \o batch' \o inbox' = got \o pending \o batch \o inbox
    BY <2>1, <2>3
  <2> QED BY <2>1, <2>4 DEF InLoop
<1>6. CASE CallOk
  <2>1. /\ phase = "calling" /\ up /\ inbox' = inbox /\ batch' = batch
        /\ pending' = <<>> /\ got' = got \o pending /\ arrivals' = arrivals
    BY <1>6 DEF CallOk, At
  <2>2. got' \o pending' \o batch' \o inbox' = got \o pending \o batch \o inbox
    BY <2>1, <1>b, <1>c DEF Queues
  <2> QED BY <2>1, <2>2 DEF InLoop
<1>7. CASE CloseAndDrain \/ FileLeftover \/ CloseLog \/ Finalize
  BY <1>7 DEF CloseAndDrain, FileLeftover, CloseLog, Finalize, At, InLoop
<1>8. CASE Crash \/ Flip
  BY <1>8 DEF Crash, Flip, InLoop, Running
<1>9. CASE OpenLog \/ CallRetry \/ AnotherRound \/ ExitAfterAnswer
  BY <1>9 DEF OpenLog, CallRetry, AnotherRound, ExitAfterAnswer, At, InLoop, loopVars
<1>10. ASSUME NEW m \in Msgs, PushRefused(m) \/ Producer(m) PROVE FifoOrder'
  BY <1>10 DEF PushRefused, Producer, EmitPushed, EmitDropped, FileDropped, loopVars, procVars
<1>11. ASSUME NEW m \in All, ClaimRow(m) \/ CancelRow(m) \/ RecoverOne(m) PROVE FifoOrder'
  BY <1>11 DEF ClaimRow, CancelRow, RecoverOne, loopVars, procVars
<1>12. CASE WriterStep \/ ListRows \/ UNCHANGED vars
  BY <1>12 DEF WriterStep, ListRows, vars, loopVars, procVars
<1> HIDE DEF FifoOrder
<1> QED BY <1>1, <1>2, <1>3, <1>4, <1>5, <1>6, <1>7, <1>8, <1>9, <1>10, <1>11, <1>12
        DEF Next, Workflow, Boot

----------------------------------------------------------------------------
(* Which hands a message is in. *)

\* Filing one message changes no other row, and never takes one back.
LEMMA FileRow ==
  ASSUME Scalars, NEW m \in All, File(m)
  PROVE  \A n \in All :
            /\ n # m => row'[n] = row[n]
            /\ row[n] # "none" => row'[n] # "none"
            /\ row'[m] # "none"
<1>1. row \in [All -> {"none", "queued", "done", "cancelled"}]
  BY DEF Scalars
<1> QED BY <1>1, FileType

\* An accepted push puts a new message in the inbox and nowhere else.
LEMMA PushHands ==
  ASSUME Queues, Scalars, Hands, NEW m \in Msgs, Push(m)
  PROVE  Hands'
<1>1. m \in All /\ pc[m] = "idle"
  BY DEF Push, All
<1>2. Range(inbox') = Range(inbox) \cup {m} /\ Range(arrivals') = Range(arrivals) \cup {m}
  BY <1>1, RangeAppend DEF Push, Queues
<1>3. /\ pc' = [pc EXCEPT ![m] = "pushed"]
      /\ UNCHANGED <<pending, batch, leftovers, got, delivered, row, dropped>>
  BY DEF Push, loopVars, rowVars
<1>4. m \notin Range(got) \cup InMemory \cup Filed
  BY <1>1 DEF Hands, Fresh
<1>5. Apart' /\ Heard'
  BY <1>1, <1>2, <1>3, <1>4 DEF Hands, Apart, Heard, InMemory, Filed
<1>6. Kept' /\ NoteNeverFiled' /\ Seen'
  BY <1>2, <1>3 DEF Hands, Kept, NoteNeverFiled, Seen, InMemory, Filed
<1>7. Fresh' /\ Recording'
  BY <1>2, <1>3 DEF Hands, Fresh, Recording, InMemory, Filed, Scalars
<1> QED BY <1>5, <1>6, <1>7 DEF Hands

\* A request that records its message moves nothing; the fallback's row is of a
\* message whose record was refused.
LEMMA ProducerHands ==
  ASSUME Queues, Scalars, Hands, NEW m \in Msgs, PushRefused(m) \/ Producer(m)
  PROVE  Hands'
<1>1. m \in All
  BY DEF All
<1>2. UNCHANGED <<inbox, pending, batch, leftovers, got, delivered, arrivals>>
  BY DEF PushRefused, Producer, EmitPushed, EmitDropped, FileDropped, loopVars
<1>3. /\ dropped \subseteq dropped' /\ pc'[m] # "idle" /\ pc'[m] # "pushed"
      /\ pc'[m] = "filing" => pc[m] = "pushed" /\ m \in dropped'
      /\ \A n \in Msgs : n # m => pc'[n] = pc[n]
  BY DEF PushRefused, Producer, EmitPushed, EmitDropped, FileDropped, Scalars
<1>4. \A n \in All :
        /\ row[n] # "none" => row'[n] # "none"
        /\ n # m => row'[n] = row[n]
        /\ row'[n] # row[n] => n \in dropped'
  <2>1. CASE FileDropped(m)
    BY <2>1, <1>1, <1>3, FileRow DEF FileDropped, Hands, Recording
  <2>2. CASE PushRefused(m) \/ EmitPushed(m) \/ EmitDropped(m)
    BY <2>2 DEF PushRefused, EmitPushed, EmitDropped, rowVars
  <2> QED BY <2>1, <2>2 DEF Producer
<1>5. Apart' /\ Seen'
  BY <1>2 DEF Hands, Apart, Seen, InMemory
<1>6. InMemory' = InMemory /\ Filed \subseteq Filed' /\ Filed' \subseteq Filed \cup {m}
  BY <1>2, <1>4 DEF InMemory, Filed
<1>7. Kept'
  BY <1>2, <1>6 DEF Hands, Kept
<1>8. Fresh' /\ Recording'
  BY <1>2, <1>3, <1>6 DEF Hands, Fresh, Recording
<1>9. NoteNeverFiled'
  BY <1>4, Note \in All, Note # m DEF Hands, NoteNeverFiled, All
<1>10. Heard'
  <2> SUFFICES ASSUME NEW n \in Range(got) \cup Range(inbox) \cup Range(pending)
                                   \cup Range(batch), row'[n] # "none"
               PROVE  n \in dropped'
    BY <1>2 DEF Heard
  <2>1. n \in All
    BY RangeSub DEF Queues
  <2> QED BY <2>1, <1>3, <1>4 DEF Hands, Heard
<1> QED BY <1>5, <1>7, <1>8, <1>9, <1>10 DEF Hands

\* A new run begins with empty hands, or with the daemon's note.
LEMMA SpawnHands ==
  ASSUME Queues, Scalars, Stages, Hands, Spawn
  PROVE  Hands'
<1>1. Clean
  BY DEF Spawn, Stages
<1>2. Range(<<>>) = {} /\ Range(<<Note>>) = {Note}
  BY DEF Range
<1>3. /\ Range(inbox') \subseteq {Note} /\ arrivals' = inbox'
      /\ UNCHANGED <<pc, pending, batch, leftovers, got, delivered, row, dropped>>
  BY <1>2 DEF Spawn, rowVars
<1>4. Range(got') = {} /\ Range(pending') = {} /\ Range(batch') = {} /\ Range(leftovers') = {}
  BY <1>1, <1>2, <1>3 DEF Clean
<1>5. Range(arrivals) = {} /\ Range(inbox) = {}
  BY <1>1, <1>2 DEF Clean
<1>6. \A m \in Msgs : m # Note
  OBVIOUS
<1>7. Apart' /\ Kept' /\ Seen' /\ NoteNeverFiled'
  BY <1>3, <1>4 DEF Hands, Apart, Kept, Seen, NoteNeverFiled, InMemory
<1>8. Heard'
  BY <1>3, <1>4 DEF Hands, Heard, NoteNeverFiled
<1>9. Fresh' /\ Recording'
  BY <1>3, <1>4, <1>5, <1>6 DEF Hands, Fresh, Recording, InMemory, Filed
<1> QED BY <1>7, <1>8, <1>9 DEF Hands

\* The loop only passes messages on, and keeps or shows every one of them.
LEMMA LoopMoves ==
  ASSUME Queues, Stages, Hands,
         ExitAtTop \/ CallExit \/ DrainRound \/ CompletionGuard \/ LogDrained \/ CallOk
             \/ CloseAndDrain
  PROVE  /\ UNCHANGED <<pc, row, dropped, arrivals>>
         /\ Range(got') \cup InMemory' = Range(got) \cup InMemory
         /\ Range(got') \cup Range(inbox') \cup Range(pending') \cup Range(batch')
               \subseteq Range(got) \cup Range(inbox) \cup Range(pending) \cup Range(batch)
         /\ Apart' /\ Seen' /\ delivered \subseteq delivered'
<1>1. UNCHANGED <<pc, row, dropped, arrivals>>
  BY DEF ExitAtTop, CallExit, DrainRound, CompletionGuard, LogDrained, CallOk, CloseAndDrain,
         rowVars
<1>2. /\ Range(got') \cup InMemory' = Range(got) \cup InMemory
      /\ Range(got') \cup Range(inbox') \cup Range(pending') \cup Range(batch')
            \subseteq Range(got) \cup Range(inbox) \cup Range(pending) \cup Range(batch)
      /\ Apart' /\ Seen' /\ delivered \subseteq delivered'
  <2> USE RangeEmpty DEF Hands, Apart, Seen, InMemory
  <2>1. CASE ExitAtTop \/ CallExit
    <3>1. UNCHANGED <<batch, leftovers, got, delivered>> /\ pending' = <<>>
      BY <2>1 DEF ExitAtTop, CallExit, ExitLoop
    <3>2. inbox' = pending \o inbox
      BY <2>1 DEF ExitAtTop, CallExit, ExitLoop, ReturnPending
    <3>3. Range(inbox') = Range(pending) \cup Range(inbox)
      BY <3>2, RangeBoth DEF Queues
    <3> QED BY <3>1, <3>3
  <2>2. CASE DrainRound \/ CompletionGuard
    <3>1. /\ UNCHANGED <<pending, leftovers, got, delivered>> /\ inbox' = <<>>
          /\ batch' = inbox /\ batch = <<>>
      BY <2>2 DEF DrainRound, CompletionGuard, At, Stages
    <3> QED BY <3>1
  <2>3. CASE LogDrained
    <3>1. UNCHANGED <<inbox, leftovers, got, delivered>> /\ batch' = <<>>
      BY <2>3 DEF LogDrained
    <3>2. Range(pending') = Range(pending) \cup Range(batch)
      BY <2>3, RangeBoth DEF LogDrained, Queues
    <3> QED BY <3>1, <3>2
  <2>4. CASE CallOk
    <3>1. /\ UNCHANGED <<inbox, leftovers, batch>> /\ pending' = <<>>
          /\ delivered' = delivered \cup Range(pending) /\ batch = <<>> /\ leftovers = <<>>
      BY <2>4 DEF CallOk, At, Stages
    <3>2. Range(got') = Range(got) \cup Range(pending)
      BY <2>4, RangeBoth DEF CallOk, Queues
    <3> QED BY <3>1, <3>2
  <2>5. CASE CloseAndDrain
    <3>1. /\ UNCHANGED <<pending, batch, got, delivered>> /\ inbox' = <<>>
          /\ leftovers' = inbox /\ leftovers = <<>>
      BY <2>5 DEF CloseAndDrain, At, Stages, loopVars
    <3> QED BY <3>1
  <2> QED BY <2>1, <2>2, <2>3, <2>4, <2>5
<1> QED BY <1>1, <1>2

\* The loop's steps keep every message in the hands its history says.
LEMMA LoopHands ==
  ASSUME Queues, Stages, Hands,
         ExitAtTop \/ CallExit \/ DrainRound \/ CompletionGuard \/ LogDrained \/ CallOk
             \/ CloseAndDrain
  PROVE  Hands'
<1>1. UNCHANGED <<pc, row, dropped, arrivals>>
  BY LoopMoves
<1>2. /\ Range(got') \cup InMemory' = Range(got) \cup InMemory
      /\ Range(got') \cup Range(inbox') \cup Range(pending') \cup Range(batch')
            \subseteq Range(got) \cup Range(inbox) \cup Range(pending) \cup Range(batch)
      /\ Apart' /\ Seen'
  BY LoopMoves
<1>3. Filed' = Filed
  BY <1>1 DEF Filed
<1>4. Heard'
  BY <1>1, <1>2 DEF Hands, Heard
<1>5. Kept' /\ NoteNeverFiled'
  BY <1>1, <1>2, <1>3 DEF Hands, Kept, NoteNeverFiled
<1>6. Fresh' /\ Recording'
  BY <1>1, <1>2, <1>3 DEF Hands, Fresh, Recording
<1> QED BY <1>2, <1>4, <1>5, <1>6 DEF Hands

\* A leftover becomes a row; the daemon's own does not, and none is lost.
LEMMA FileLeftoverHands ==
  ASSUME Queues, Scalars, Stages, Hands, FileLeftover
  PROVE  Hands'
<1> DEFINE h == Head(leftovers)
<1>1. /\ Range(leftovers) = Range(leftovers') \cup {h} /\ h \in All
      /\ UNCHANGED <<pc, inbox, pending, batch, got, delivered, dropped, arrivals>>
  BY RangeTail DEF FileLeftover, Queues, loopVars
<1>2. \A n \in All :
        /\ row[n] # "none" => row'[n] # "none"
        /\ row'[n] # row[n] => n = h /\ h # Note
  <2>1. CASE h = Note
    BY <2>1 DEF FileLeftover, rowVars
  <2>2. CASE h # Note
    BY <2>2, <1>1, FileRow DEF FileLeftover
  <2> QED BY <2>1, <2>2
<1>3. h = Note \/ row'[h] # "none"
  BY <1>1, FileRow DEF FileLeftover
<1>4. inbox = <<>> /\ pending = <<>> /\ batch = <<>>
  BY DEF FileLeftover, At, Stages, InLoop
<1>5. Range(inbox) = {} /\ Range(pending) = {} /\ Range(batch) = {}
  BY <1>4, RangeEmpty
<1> HIDE DEF h
<1>6. h \notin Range(got) /\ h \in InMemory
  BY <1>1 DEF Hands, Apart, InMemory
<1>7. Filed \subseteq Filed' /\ Filed' \subseteq Filed \cup {h} /\ (h = Note \/ h \in Filed')
  BY <1>1, <1>2, <1>3 DEF Filed
<1>8. InMemory' \subseteq InMemory /\ InMemory \subseteq InMemory' \cup {h}
  BY <1>1 DEF InMemory
<1>9. Apart' /\ Seen' /\ Kept'
  BY <1>1, <1>7, <1>8 DEF Hands, Apart, Seen, Kept
<1>10. NoteNeverFiled'
  BY <1>2, Note \in All DEF Hands, NoteNeverFiled, All
<1>11. Heard'
  <2>1. Range(got) \subseteq All
    BY RangeSub DEF Queues
  <2> SUFFICES ASSUME NEW n \in Range(got), row'[n] # "none" PROVE n \in dropped
    BY <1>1, <1>5 DEF Heard
  <2> QED BY <2>1, <1>2, <1>6 DEF Hands, Heard
<1>12. Fresh' /\ Recording'
  BY <1>1, <1>6, <1>7, <1>8 DEF Hands, Fresh, Recording
<1> QED BY <1>9, <1>10, <1>11, <1>12 DEF Hands

\* A crash empties every hand.
LEMMA CrashHands ==
  ASSUME Scalars, Hands, Crash
  PROVE  Hands'
<1>1. /\ inbox' = <<>> /\ pending' = <<>> /\ batch' = <<>> /\ leftovers' = <<>>
      /\ arrivals' = <<>> /\ got' = <<>> /\ row' = row
      /\ \A m \in Msgs : pc'[m] \notin {"pushed", "filing"} /\ (pc'[m] = "idle" => pc[m] = "idle")
  BY DEF Crash, rowVars, Scalars
<1>2. /\ Range(got') = {} /\ InMemory' = {} /\ Range(arrivals') = {} /\ Filed' = Filed
      /\ Range(inbox') = {} /\ Range(pending') = {} /\ Range(batch') = {}
  BY <1>1, RangeEmpty DEF InMemory, Filed
<1>3. Apart' /\ Seen' /\ Kept' /\ Heard' /\ NoteNeverFiled'
  BY <1>1, <1>2 DEF Hands, Apart, Seen, Kept, Heard, NoteNeverFiled
<1>4. Fresh' /\ Recording'
  BY <1>1, <1>2 DEF Hands, Fresh, Recording
<1> QED BY <1>3, <1>4 DEF Hands

\* Recovery files what the log says was typed, when no hand holds anything.
LEMMA RecoverHands ==
  ASSUME Scalars, Stages, Hands, Typists, NEW m \in All, RecoverOne(m)
  PROVE  Hands'
<1>1. UNCHANGED <<pc, inbox, pending, batch, leftovers, got, delivered, dropped, arrivals>>
  BY DEF RecoverOne, loopVars
<1>2. m \in Msgs /\ pc[m] # "idle"
  BY DEF RecoverOne, Undrained, Typists
<1>3. /\ Range(got) = {} /\ InMemory = {} /\ Range(arrivals) = {}
      /\ Range(inbox) = {} /\ Range(pending) = {} /\ Range(batch) = {}
  BY RangeEmpty DEF RecoverOne, Stages, Clean, InMemory
<1>4. \A n \in All : n # m => row'[n] = row[n]
  BY FileRow DEF RecoverOne
<1>5. Filed' \subseteq Filed \cup {m}
  BY <1>4 DEF Filed
<1>6. Apart' /\ Seen' /\ Kept' /\ Heard'
  BY <1>1, <1>3 DEF Hands, Apart, Seen, Kept, Heard, InMemory
<1>7. NoteNeverFiled'
  BY <1>2, <1>4, Note \in All DEF Hands, NoteNeverFiled, All
<1>8. Fresh' /\ Recording'
  BY <1>1, <1>2, <1>3, <1>5 DEF Hands, Fresh, Recording, InMemory
<1> QED BY <1>6, <1>7, <1>8 DEF Hands

\* Every step keeps each message in the hands its history says.
LEMMA HandsStep ==
  ASSUME Queues, Scalars, Stages, Hands, Typists, [Next]_vars
  PROVE  Hands'
<1>1. CASE UNCHANGED <<pc, inbox, pending, batch, leftovers, got, delivered, dropped, arrivals>>
           /\ \A m \in All : row'[m] # "none" <=> row[m] # "none"
  <2>1. InMemory' = InMemory /\ Filed' = Filed
    BY <1>1 DEF InMemory, Filed
  <2>2. \A m \in Range(got) \cup Range(inbox) \cup Range(pending) \cup Range(batch) : m \in All
    BY RangeSub DEF Queues
  <2>3. Apart' /\ Seen' /\ Kept' /\ Heard'
    BY <1>1, <2>1, <2>2 DEF Hands, Apart, Seen, Kept, Heard
  <2>4. NoteNeverFiled' /\ Fresh' /\ Recording'
    BY <1>1, <2>1, Note \in All DEF Hands, NoteNeverFiled, Fresh, Recording, All
  <2> QED BY <2>3, <2>4 DEF Hands
<1>2. ASSUME NEW m \in All, ClaimRow(m) \/ CancelRow(m) PROVE Hands'
  <2>1. /\ UNCHANGED <<pc, inbox, pending, batch, leftovers, got, delivered, dropped, arrivals>>
        /\ \A n \in All : row'[n] # "none" <=> row[n] # "none"
    BY <1>2 DEF ClaimRow, CancelRow, loopVars, Scalars
  <2> QED BY <2>1, <1>1
<1>3. CASE \/ OpenLog \/ CallRetry \/ AnotherRound \/ ExitAfterAnswer \/ CloseLog \/ Finalize
           \/ WriterStep \/ ListRows \/ Flip \/ UNCHANGED vars
  BY <1>1, <1>3 DEF OpenLog, CallRetry, AnotherRound, ExitAfterAnswer, CloseLog, Finalize,
                    WriterStep, ListRows, Flip, vars, loopVars, rowVars
<1> QED BY <1>2, <1>3, PushHands, ProducerHands, SpawnHands, LoopHands, FileLeftoverHands,
           CrashHands, RecoverHands DEF Next, Workflow, Boot

----------------------------------------------------------------------------
(* What the log remembers. *)

\* Named, of any log.
NamedIn(lg, kind, n) == UNION {lg[i].ids : i \in {j \in 1..n : lg[j].kind = kind}}

\* A record that is appended adds its ids to those of its kind, and changes
\* nothing of what is before it.
LEMMA NamedAppend ==
  ASSUME NEW lg \in Seq(LogRecord), NEW r \in LogRecord, NEW kind
  PROVE  /\ NamedIn(Append(lg, r), kind, Len(Append(lg, r)))
               = NamedIn(lg, kind, Len(lg)) \cup (IF r.kind = kind THEN r.ids ELSE {})
         /\ \A n \in 0..Len(lg) : NamedIn(Append(lg, r), kind, n) = NamedIn(lg, kind, n)
<1>1. /\ Len(lg) \in Nat /\ Len(Append(lg, r)) = Len(lg) + 1
      /\ \A i \in 1..Len(lg) : Append(lg, r)[i] = lg[i]
      /\ Append(lg, r)[Len(lg) + 1] = r
  OBVIOUS
<1> DEFINE al == Append(lg, r)
<1> HIDE DEF al
<1>2. \A n \in 0..Len(lg) : NamedIn(al, kind, n) = NamedIn(lg, kind, n)
  <2> SUFFICES ASSUME NEW n \in 0..Len(lg) PROVE NamedIn(al, kind, n) = NamedIn(lg, kind, n)
    OBVIOUS
  <2>1. \A i \in 1..n : al[i] = lg[i]
    BY <1>1 DEF al
  <2> QED BY <2>1 DEF NamedIn
<1>3. NamedIn(al, kind, Len(lg) + 1)
         = NamedIn(al, kind, Len(lg)) \cup (IF r.kind = kind THEN r.ids ELSE {})
  <2>1. al[Len(lg) + 1] = r /\ 1..(Len(lg) + 1) = 1..Len(lg) \cup {Len(lg) + 1}
    BY <1>1 DEF al
  <2> QED BY <2>1 DEF NamedIn
<1> QED BY <1>1, <1>2, <1>3 DEF al

\* What the writer had written is what is left of the log after a crash.
LEMMA NamedCut ==
  ASSUME NEW lg \in Seq(LogRecord), NEW n \in 0..Len(lg), NEW kind
  PROVE  NamedIn(SubSeq(lg, 1, n), kind, n) = NamedIn(lg, kind, n)
<1>1. \A i \in 1..n : SubSeq(lg, 1, n)[i] = lg[i]
  OBVIOUS
<1> DEFINE sl == SubSeq(lg, 1, n)
<1> HIDE DEF sl
<1>2. \A i \in 1..n : sl[i] = lg[i]
  BY <1>1 DEF sl
<1>3. NamedIn(sl, kind, n) = NamedIn(lg, kind, n)
  BY <1>2 DEF NamedIn
<1> QED BY <1>3 DEF sl

\* A longer reading names no less.
LEMMA NamedMore ==
  ASSUME NEW lg, NEW kind, NEW n \in Nat, NEW k \in Nat, n <= k
  PROVE  NamedIn(lg, kind, n) \subseteq NamedIn(lg, kind, k)
BY DEF NamedIn

\* The model's reading of its own log.
LEMMA NamedIs ==
  ASSUME NEW kind, NEW n
  PROVE  Named(kind, n) = NamedIn(log, kind, n)
BY DEF Named, NamedIn

\* The messages the daemon can still account for.
Aware == InMemory \cup delivered \cup Filed

\* A step that leaves the log alone and forgets no message keeps the log true.
LEMMA LogFrame ==
  ASSUME LogInv, Scalars, LogTyped,
         UNCHANGED <<log, onDisk, up>>, up \/ phase' = phase,
         \A m \in Msgs : pc'[m] = "idle" => pc[m] = "idle",
         \A m \in Msgs : m \in Aware => m \in Aware'
  PROVE  LogInv'
<1>1. /\ Named("steering", Len(log))' = Named("steering", Len(log))
      /\ Named("steering_drained", onDisk)' = Named("steering_drained", onDisk)
  BY DEF Named
<1>2. Typists'
  BY <1>1 DEF LogInv, Typists
<1>3. Remembered'
  <2> SUFFICES ASSUME up \/ phase' \in Over, NEW m \in Named("steering", Len(log))
               PROVE  \/ m \in InMemory' \cup delivered'
                      \/ row'[m] # "none"
                      \/ m \in Named("steering_drained", onDisk)
    BY <1>1 DEF Remembered
  <2>1. m \in Msgs /\ m \in All
    BY DEF LogInv, Typists, All
  <2>2. m \in Aware \/ m \in Named("steering_drained", onDisk)
    BY <2>1 DEF LogInv, Remembered, Aware, Filed
  <2> QED BY <2>1, <2>2 DEF Aware, Filed
<1> QED BY <1>2, <1>3 DEF LogInv

\* The record of a push names a message the daemon accounts for.
LEMMA EmitLog ==
  ASSUME Queues, Scalars, LogTyped, Stages, Hands, LogInv, NEW m \in Msgs, EmitPushed(m)
  PROVE  LogInv'
<1>1. /\ UNCHANGED <<onDisk, up, phase, delivered, row, inbox, pending, batch, leftovers>>
      /\ pc' = [pc EXCEPT ![m] = "acked"]
  BY DEF EmitPushed, loopVars, rowVars, procVars
<1>2. InMemory' = InMemory /\ Aware' = Aware
  BY <1>1 DEF InMemory, Aware, Filed
<1>3. \A n \in Msgs : pc'[n] = "idle" => pc[n] = "idle"
  BY <1>1 DEF Scalars
<1>4. CASE ~logOpen
  <2>1. log' = log
    BY <1>4 DEF EmitPushed
  <2> QED BY <2>1, <1>1, <1>2, <1>3, LogFrame
<1>5. CASE logOpen
  <2>1. log' = Append(log, Pushed(m)) /\ Pushed(m) \in LogRecord
    BY <1>5 DEF EmitPushed, Pushed, LogRecord, All
  <2>2. log \in Seq(LogRecord) /\ onDisk \in 0..Len(log)
    BY DEF LogTyped
  <2>3. /\ NamedIn(log', "steering", Len(log')) = NamedIn(log, "steering", Len(log)) \cup {m}
        /\ NamedIn(log', "steering_drained", onDisk) = NamedIn(log, "steering_drained", onDisk)
    BY <2>1, <2>2, NamedAppend DEF Pushed
  <2>4. /\ Named("steering", Len(log))' = Named("steering", Len(log)) \cup {m}
        /\ Named("steering_drained", onDisk)' = Named("steering_drained", onDisk)
    BY <2>3, <1>1 DEF Named, NamedIn
  <2>5. m \in Range(arrivals)
    BY DEF EmitPushed, Hands, Recording
  <2>6. up
    BY <2>5, RangeEmpty DEF Stages, Clean
  <2>7. m \in InMemory \cup delivered \/ row[m] # "none"
    BY <2>5, m # Note DEF Hands, Kept, Seen, Filed
  <2>8. Typists'
    BY <2>4, <1>1, <1>3 DEF LogInv, Typists, Scalars
  <2>9. Remembered'
    BY <2>4, <2>6, <2>7, <1>1, <1>2 DEF LogInv, Remembered
  <2> QED BY <2>6, <2>8, <2>9, <1>1 DEF LogInv
<1> QED BY <1>4, <1>5

\* The record of a drain names what the loop still has in hand.
LEMMA DrainLog ==
  ASSUME Queues, Scalars, LogTyped, Stages, Hands, LogInv, LogDrained
  PROVE  LogInv'
<1>1. UNCHANGED <<pc, onDisk, up, delivered, row>> /\ up
  BY DEF LogDrained, At, rowVars, procVars
<1>2. \A n : n \in Aware => n \in Aware'
  <2>1. Range(got') \cup InMemory' = Range(got) \cup InMemory /\ Seen'
    BY LoopMoves
  <2> QED BY <2>1, <1>1 DEF Aware, Seen, Filed
<1>3. CASE log' = log
  BY <1>1, <1>2, <1>3, LogFrame
<1>4. CASE log' = Append(log, Drained(Range(batch)))
  <2>1. Drained(Range(batch)) \in LogRecord
    BY RangeSub DEF Drained, LogRecord, Queues
  <2>2. log \in Seq(LogRecord) /\ onDisk \in 0..Len(log)
    BY DEF LogTyped
  <2>3. /\ NamedIn(log', "steering", Len(log')) = NamedIn(log, "steering", Len(log))
        /\ NamedIn(log', "steering_drained", onDisk) = NamedIn(log, "steering_drained", onDisk)
    <3> DEFINE r == Drained(Range(batch))
    <3>1. r.kind = "steering_drained" /\ r \in LogRecord /\ log' = Append(log, r)
      BY <2>1, <1>4 DEF Drained
    <3> HIDE DEF r
    <3>2. NamedIn(log', "steering", Len(log'))
             = NamedIn(log, "steering", Len(log))
                  \cup (IF r.kind = "steering" THEN r.ids ELSE {})
      BY <3>1, <2>2, NamedAppend
    <3>3. NamedIn(log', "steering_drained", onDisk) = NamedIn(log, "steering_drained", onDisk)
      BY <3>1, <2>2, NamedAppend
    <3> QED BY <3>1, <3>2, <3>3
  <2>4. /\ Named("steering", Len(log))' = Named("steering", Len(log))
        /\ Named("steering_drained", onDisk)' = Named("steering_drained", onDisk)
    BY <2>3, <1>1 DEF Named, NamedIn
  <2>5. Typists'
    BY <2>4, <1>1 DEF LogInv, Typists
  <2>6. Remembered'
    <3> SUFFICES ASSUME NEW n \in Named("steering", Len(log))
                 PROVE  \/ n \in InMemory' \cup delivered'
                        \/ row'[n] # "none"
                        \/ n \in Named("steering_drained", onDisk)
      BY <2>4 DEF Remembered
    <3>1. n \in All
      BY DEF LogInv, Typists, All
    <3>2. n \in Aware \/ n \in Named("steering_drained", onDisk)
      BY <3>1, <1>1 DEF LogInv, Remembered, Aware, Filed
    <3> QED BY <3>1, <3>2, <1>2 DEF Aware, Filed
  <2> QED BY <2>5, <2>6, <1>1 DEF LogInv
<1> QED BY <1>3, <1>4 DEF LogDrained

\* A crash cuts the log at what was written; a run that was over had nothing
\* left in memory to lose.
LEMMA CrashLog ==
  ASSUME Scalars, LogTyped, Stages, LogInv, Crash
  PROVE  LogInv'
<1>1. /\ up /\ ~up' /\ UNCHANGED <<onDisk, phase, delivered, row>>
      /\ log' = SubSeq(log, 1, onDisk)
      /\ \A m \in Msgs : pc'[m] = "idle" => pc[m] = "idle"
  BY DEF Crash, rowVars, Scalars
<1>2. /\ log \in Seq(LogRecord) /\ onDisk \in 0..Len(log) /\ onDisk \in Nat /\ Len(log) \in Nat
      /\ Len(log') = onDisk
  BY <1>1 DEF LogTyped
<1>3. \A kind : NamedIn(log', kind, onDisk) = NamedIn(log, kind, onDisk)
  BY <1>1, <1>2, NamedCut
<1>4. NamedIn(log, "steering", onDisk) \subseteq NamedIn(log, "steering", Len(log))
  BY <1>2, NamedMore
<1>5. /\ Named("steering", Len(log))' \subseteq Named("steering", Len(log))
      /\ Named("steering_drained", onDisk)' = Named("steering_drained", onDisk)
  BY <1>1, <1>2, <1>3, <1>4 DEF Named, NamedIn
<1>6. Typists'
  BY <1>1, <1>5 DEF LogInv, Typists
<1>7. Remembered'
  <2> SUFFICES ASSUME phase \in Over PROVE Remembered'
    BY <1>1 DEF Remembered
  <2>1. inbox = <<>> /\ pending = <<>> /\ batch = <<>> /\ leftovers = <<>>
    BY DEF Stages, Clean, Over, InLoop
  <2>2. InMemory = {}
    BY <2>1, RangeEmpty DEF InMemory
  <2> QED BY <2>2, <1>1, <1>5 DEF LogInv, Remembered
<1> QED BY <1>1, <1>2, <1>6, <1>7 DEF LogInv

\* The boot pass ends when every undrained record of a cut run has its row.
LEMMA FlipLog ==
  ASSUME Scalars, LogTyped, LogInv, Flip
  PROVE  LogInv'
<1>1. /\ ~up /\ up' /\ onDisk = Len(log)
      /\ UNCHANGED <<pc, log, onDisk, delivered, row, inbox, pending, batch, leftovers>>
  BY DEF Flip, LogInv, loopVars, logVars, rowVars
<1>2. /\ Named("steering", Len(log))' = Named("steering", Len(log))
      /\ Named("steering_drained", onDisk)' = Named("steering_drained", onDisk)
      /\ InMemory' = InMemory
  BY <1>1 DEF Named, InMemory
<1>3. Typists'
  BY <1>1, <1>2 DEF LogInv, Typists
<1>4. \A m \in Named("steering", Len(log)) :
         \/ m \in InMemory \cup delivered
         \/ row[m] # "none"
         \/ m \in Named("steering_drained", onDisk)
  <2>1. CASE phase \in Running
    BY <2>1, <1>1 DEF Flip, Undrained
  <2>2. CASE phase \in Over
    BY <2>2 DEF LogInv, Remembered
  <2> QED BY <2>1, <2>2 DEF Scalars
<1>5. Remembered'
  BY <1>1, <1>2, <1>4 DEF Remembered
<1> QED BY <1>1, <1>3, <1>5 DEF LogInv

\* The writer only brings more of the log to disk.
LEMMA WriterLog ==
  ASSUME LogTyped, LogInv, WriterStep
  PROVE  LogInv'
<1>1. /\ up /\ up' /\ onDisk' = onDisk + 1
      /\ UNCHANGED <<pc, phase, log, delivered, row, inbox, pending, batch, leftovers>>
  BY DEF WriterStep, loopVars, rowVars, procVars
<1>2. onDisk \in Nat /\ onDisk' \in Nat /\ onDisk <= onDisk'
  BY <1>1 DEF LogTyped
<1>3. NamedIn(log, "steering_drained", onDisk) \subseteq NamedIn(log, "steering_drained", onDisk')
  BY <1>2, NamedMore
<1>4. /\ Named("steering", Len(log))' = Named("steering", Len(log))
      /\ Named("steering_drained", onDisk) \subseteq Named("steering_drained", onDisk)'
      /\ InMemory' = InMemory
  BY <1>1, <1>3 DEF Named, NamedIn, InMemory
<1> QED BY <1>1, <1>4 DEF LogInv, Typists, Remembered

\* Every step keeps the log true.
LEMMA LogStep ==
  ASSUME Queues, Scalars, LogTyped, Stages, Hands, LogInv, [Next]_vars
  PROVE  LogInv'
<1>1. CASE ExitAtTop \/ CallExit \/ DrainRound \/ CompletionGuard \/ CallOk \/ CloseAndDrain
  <2>1. /\ UNCHANGED <<pc, row, log, onDisk, up>> /\ up
        /\ Range(got') \cup InMemory' = Range(got) \cup InMemory
        /\ Seen' /\ delivered \subseteq delivered'
    <3>1. UNCHANGED <<log, onDisk, up>> /\ up
      BY <1>1 DEF ExitAtTop, CallExit, DrainRound, CompletionGuard, CallOk, CloseAndDrain,
                  At, logVars, procVars
    <3> QED BY <3>1, <1>1, LoopMoves
  <2>2. \A m \in Msgs : m \in Aware => m \in Aware'
    BY <2>1 DEF Aware, Seen, Filed
  <2> QED BY <2>1, <2>2, LogFrame
<1>2. CASE FileLeftover
  <2>1. /\ UNCHANGED <<pc, log, onDisk, up, inbox, pending, batch, delivered>> /\ up
        /\ Range(leftovers) = Range(leftovers') \cup {Head(leftovers)}
        /\ Head(leftovers) \in All
    BY <1>2, RangeTail DEF FileLeftover, At, loopVars, logVars, procVars, Queues
  <2>2. /\ \A m \in All : row[m] # "none" => row'[m] # "none"
        /\ Head(leftovers) = Note \/ row'[Head(leftovers)] # "none"
    BY <1>2, <2>1, FileRow DEF FileLeftover, rowVars
  <2>3. \A m \in Msgs : m \in Aware => m \in Aware'
    BY <2>1, <2>2 DEF Aware, InMemory, Filed, All
  <2> QED BY <2>1, <2>3, LogFrame
<1>3. ASSUME NEW m \in Msgs, Push(m) \/ PushRefused(m) \/ EmitDropped(m) \/ FileDropped(m)
      PROVE  LogInv'
  <2>1. /\ UNCHANGED <<log, onDisk, up, phase, pending, batch, leftovers, delivered>>
        /\ \A n \in Msgs : pc'[n] = "idle" => pc[n] = "idle"
    BY <1>3 DEF Push, PushRefused, EmitDropped, FileDropped, loopVars, logVars, procVars, Scalars
  <2>2. Range(inbox) \subseteq Range(inbox')
    <3>1. CASE Push(m)
      <4>1. m \in All /\ inbox \in Seq(All) /\ inbox' = Append(inbox, m)
        BY <3>1 DEF Push, Queues, All
      <4> QED BY <4>1, RangeAppend
    <3>2. CASE PushRefused(m) \/ EmitDropped(m) \/ FileDropped(m)
      BY <3>2 DEF PushRefused, EmitDropped, FileDropped
    <3> QED BY <1>3, <3>1, <3>2
  <2>3. \A n \in All : row[n] # "none" => row'[n] # "none"
    <3>1. CASE FileDropped(m)
      BY <3>1, FileRow DEF FileDropped, All
    <3>2. CASE Push(m) \/ PushRefused(m) \/ EmitDropped(m)
      BY <3>2 DEF Push, PushRefused, EmitDropped, rowVars
    <3> QED BY <1>3, <3>1, <3>2
  <2>4. \A n \in Msgs : n \in Aware => n \in Aware'
    BY <2>1, <2>2, <2>3 DEF Aware, InMemory, Filed
  <2> QED BY <2>1, <2>4, LogFrame
<1>4. CASE Spawn
  <2>1. UNCHANGED <<pc, log, onDisk, up, pending, batch, leftovers, delivered, row>> /\ up
    BY <1>4 DEF Spawn, logVars, rowVars, procVars
  <2>2. Range(inbox) = {}
    BY <1>4, RangeEmpty DEF Spawn, Stages, Clean
  <2>3. \A n \in Msgs : n \in Aware => n \in Aware'
    BY <2>1, <2>2 DEF Aware, InMemory, Filed
  <2> QED BY <2>1, <2>3, LogFrame
<1>5. CASE \/ OpenLog \/ CallRetry \/ AnotherRound \/ ExitAfterAnswer \/ CloseLog \/ Finalize
           \/ ListRows \/ UNCHANGED vars
  <2>1. /\ UNCHANGED <<pc, log, onDisk, up, inbox, pending, batch, leftovers, delivered, row>>
        /\ up \/ phase' = phase
    BY <1>5 DEF OpenLog, CallRetry, AnotherRound, ExitAfterAnswer, CloseLog, Finalize, ListRows,
                vars, At, loopVars, logVars, rowVars, procVars
  <2>2. \A n \in Msgs : n \in Aware => n \in Aware'
    BY <2>1 DEF Aware, InMemory, Filed
  <2> QED BY <2>1, <2>2, LogFrame
<1>6. ASSUME NEW m \in All, ClaimRow(m) \/ CancelRow(m) PROVE LogInv'
  <2>1. /\ UNCHANGED <<pc, log, onDisk, up, phase, inbox, pending, batch, leftovers, delivered>>
        /\ \A n \in All : row[n] # "none" => row'[n] # "none"
    BY <1>6 DEF ClaimRow, CancelRow, loopVars, logVars, procVars, Scalars
  <2>2. \A n \in Msgs : n \in Aware => n \in Aware'
    BY <2>1 DEF Aware, InMemory, Filed
  <2> QED BY <2>1, <2>2, LogFrame
<1>7. ASSUME NEW m \in All, RecoverOne(m) PROVE LogInv'
  <2>1. UNCHANGED <<pc, log, onDisk, up, phase>> /\ ~up /\ phase \notin Over
    BY <1>7 DEF RecoverOne, logVars, procVars, Running, InLoop, Over
  <2> QED BY <2>1 DEF LogInv, Typists, Remembered, Named
<1> QED BY <1>1, <1>2, <1>3, <1>4, <1>5, <1>6, <1>7, EmitLog, DrainLog, CrashLog, FlipLog,
           WriterLog DEF Next, Workflow, Boot, Producer

----------------------------------------------------------------------------
(* The theorems. *)

\* The start is a clean slate.
LEMMA InitRail == Init => RailInv
<1> SUFFICES ASSUME Init PROVE RailInv
  OBVIOUS
<1>1. Queues /\ Scalars /\ LogTyped
  <2>1. Queues /\ LogTyped
    BY DEF Init, Queues, LogTyped
  <2>2. 0 \in 0..Retries /\ 0 \in 0..MaxCrashes
    OBVIOUS
  <2>3. /\ pc \in [Msgs -> {"idle", "pushed", "filing", "acked", "refused", "cut"}]
        /\ row \in [All -> {"none", "queued", "done", "cancelled"}]
    BY DEF Init
  <2>4. closed \in BOOLEAN /\ logOpen \in BOOLEAN /\ up \in BOOLEAN
    BY Zenon DEF Init
  <2>5. /\ rounds = 0 /\ bonus = 0 /\ errors = 0 /\ crashes = 0 /\ phase = "none"
        /\ turn = {} /\ shown = {} /\ delivered = {} /\ dropped = {} /\ table = <<>>
    BY DEF Init
  <2>6. Scalars
    BY <2>2, <2>3, <2>4, <2>5 DEF Scalars, Over
  <2> QED BY <2>1, <2>6
<1>2. Stages
  BY DEF Init, Stages, Clean, InLoop
<1>3. FifoOrder
  BY DEF Init, FifoOrder, InLoop
<1>4. Range(got) = {} /\ InMemory = {} /\ Range(arrivals) = {} /\ Filed = {}
  BY RangeEmpty DEF Init, InMemory, Filed
<1>5. Range(inbox) = {} /\ Range(pending) = {} /\ Range(batch) = {}
  BY RangeEmpty DEF Init
<1>6. Hands
  BY <1>4, <1>5 DEF Hands, Apart, Heard, Kept, NoteNeverFiled, Fresh, Recording, Seen, Init, All
<1>7. Named("steering", Len(log)) = {} /\ up
  BY DEF Init, Named
<1> QED BY <1>1, <1>2, <1>3, <1>6, <1>7 DEF RailInv, LogInv, Typists, Remembered

\* Every step keeps the whole invariant.
LEMMA NextRail == RailInv /\ [Next]_vars => RailInv'
<1> SUFFICES ASSUME RailInv, [Next]_vars PROVE RailInv'
  OBVIOUS
<1>1. Queues /\ Scalars /\ LogTyped /\ Stages /\ FifoOrder /\ Hands /\ LogInv /\ Typists
  BY DEF RailInv, LogInv
<1>2. Queues' /\ Scalars' /\ LogTyped' /\ Stages' /\ FifoOrder'
  BY <1>1, QueuesStep, ScalarsStep, LogTypedStep, StagesStep, FifoStep
<1>3. Hands' /\ LogInv'
  BY <1>1, HandsStep, LogStep
<1> QED BY <1>2, <1>3 DEF RailInv

\* In every behaviour of the rail the invariant holds.
THEOREM RailInvariant == Spec => []RailInv
BY InitRail, NextRail, PTL DEF Spec

\* The model sees interjections in the order the inbox accepted them, whatever
\* was returned to the front of the queue on the way (drain_all, push_front_all).
THEOREM FifoOrderAlways == Spec => []FifoOrder
<1>1. RailInv => FifoOrder
  BY DEF RailInv
<1> QED BY <1>1, RailInvariant, PTL

\* While the daemon lives, an accepted interjection is in memory, shown or filed;
\* one that was shown is not filed as unheard, and the daemon's note never is
\* (push, close_and_drain, file_unprocessed_steering).
THEOREM OnePlaceAlways == Spec => []OnePlace
<1>1. RailInv => OnePlace
  <2> SUFFICES ASSUME RailInv PROVE OnePlace
    OBVIOUS
  <2> USE DEF RailInv
  <2>1. TypeOK
    BY Typed
  <2>2. ConsumedNotFiled /\ NoteNeverFiled
    BY DEF Hands, Heard, ConsumedNotFiled
  <2>3. InMemory # {} => phase \in Running
    BY RangeEmpty DEF InMemory, Stages, Running, InLoop
  <2>4. Accounted
    BY <2>3 DEF Accounted, Hands, Kept, Filed
  <2> QED BY <2>1, <2>2, <2>4 DEF OnePlace
<1> QED BY <1>1, RailInvariant, PTL

\* After the boot pass, an interjection the log on disk names and no drain
\* record does is in memory, shown or filed (undrained_steering, recover_one).
THEOREM CrashRecoveredAlways == Spec => []CrashRecovered
<1>1. RailInv => CrashRecovered
  <2> SUFFICES ASSUME RailInv, up, NEW m \in Undrained(onDisk)
               PROVE  m \in InMemory \cup delivered \/ row[m] # "none"
    BY DEF CrashRecovered
  <2>1. onDisk \in Nat /\ Len(log) \in Nat /\ onDisk <= Len(log)
    BY DEF RailInv, LogTyped
  <2>2. Named("steering", onDisk) \subseteq Named("steering", Len(log))
    BY <2>1, NamedMore, NamedIs
  <2>3. m \in Named("steering", Len(log)) /\ m \notin Named("steering_drained", onDisk)
    BY <2>2 DEF Undrained
  <2> QED BY <2>3 DEF RailInv, LogInv, Remembered
<1> QED BY <1>1, RailInvariant, PTL

\* A cancelled row stays cancelled and is not rendered afterwards, however the
\* DELETE and the turn's claim interleave (cancel_if_queued, claim_and_render).
THEOREM CancelStandsAlways == Spec => CancelStands
<1> DEFINE Stands == \A m \in All : row[m] = "cancelled" =>
                         row'[m] = "cancelled" /\ (m \in shown' => m \in shown)
<1>1. RailInv /\ [Next]_vars => [Stands]_vars
  <2> SUFFICES ASSUME Queues, Scalars, Next PROVE Stands
    BY DEF RailInv
  <2> SUFFICES ASSUME NEW n \in All, row[n] = "cancelled"
               PROVE  row'[n] = "cancelled" /\ (n \in shown' => n \in shown)
    OBVIOUS
  <2>1. ASSUME NEW m \in All, ClaimRow(m) \/ CancelRow(m)
        PROVE  row'[n] = "cancelled" /\ (n \in shown' => n \in shown)
    BY <2>1 DEF ClaimRow, CancelRow, turnVars, Scalars
  <2>2. ASSUME NEW m \in All, File(m) PROVE row'[n] = "cancelled"
    BY <2>2, FileType DEF Scalars
  <2>3. ASSUME NEW m \in Msgs, Push(m) \/ PushRefused(m) \/ Producer(m)
        PROVE  row'[n] = "cancelled" /\ (n \in shown' => n \in shown)
    BY <2>2, <2>3 DEF Push, PushRefused, Producer, EmitPushed, EmitDropped, FileDropped, rowVars,
                      turnVars, All
  <2>4. CASE FileLeftover
    <3>1. Head(leftovers) \in All
      BY <2>4, RangeTail DEF FileLeftover, Queues
    <3> QED BY <2>2, <2>4, <3>1 DEF FileLeftover, rowVars, turnVars
  <2>5. ASSUME NEW m \in All, RecoverOne(m)
        PROVE  row'[n] = "cancelled" /\ (n \in shown' => n \in shown)
    BY <2>2, <2>5 DEF RecoverOne, turnVars
  <2>6. CASE \/ OpenLog \/ ExitAtTop \/ DrainRound \/ LogDrained \/ CallOk \/ CallRetry
             \/ CallExit \/ AnotherRound \/ ExitAfterAnswer \/ CompletionGuard
             \/ CloseAndDrain \/ CloseLog \/ Finalize
    BY <2>6 DEF OpenLog, ExitAtTop, DrainRound, LogDrained, CallOk, CallRetry, CallExit,
                AnotherRound, ExitAfterAnswer, CompletionGuard, CloseAndDrain, CloseLog,
                Finalize, rowVars, turnVars
  <2>7. CASE Spawn \/ WriterStep \/ ListRows \/ Crash \/ Flip
    BY <2>7 DEF Spawn, WriterStep, ListRows, Crash, Flip, rowVars, turnVars
  <2> QED BY <2>1, <2>3, <2>4, <2>5, <2>6, <2>7 DEF Next, Workflow, Boot
<1> QED BY <1>1, RailInvariant, PTL DEF Spec, CancelStands
============================================================================
