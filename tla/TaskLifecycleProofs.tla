------------------------ MODULE TaskLifecycleProofs ------------------------
(***************************************************************************)
(* The run slot of a task id is exclusive, for any number of ids, request  *)
(* handlers and launches.  The clients are assumed to learn an id from the *)
(* answer of the request that created it (AddressesInDispatch = FALSE);    *)
(* without that assumption the statement is false, see TaskEarlyStart.cfg. *)
(***************************************************************************)
EXTENDS TaskLifecycle, TLAPS

\* What a request handler carries at each of its steps.
CallShape ==
    \A c \in Callers :
        /\ call[c].pc # "idle" => up /\ call[c].task \in Tasks
        /\ call[c].pc = "idle" => call[c] = NoCall
        /\ call[c].pc \in Controlling => call[c].mode \in Controls
        /\ call[c].pc \in Launching => call[c].mode \in Modes
        /\ call[c].pc = "claim" => call[c].mode # "create"

\* A dispatch owns its launch number: no run has it yet, no other dispatch does.
LaunchNumbers ==
    /\ \A c \in Callers : call[c].pc \in Dispatching =>
           call[c].run \in 1..(nextRun - 1) /\ run[call[c].run].phase = "free"
    /\ \A c, d \in Callers :
           /\ call[c].pc \in Dispatching
           /\ call[d].pc \in Dispatching
           /\ call[c].run = call[d].run
           => c = d
    /\ \A r \in Runs : r >= nextRun => run[r].phase = "free"

\* A live run watches the token it is named after, and that is the id's token.
RunsHold ==
    \A r \in Runs : IsLive(r) =>
        up /\ run[r].task \in Tasks /\ run[r].tok = r /\ tok[run[r].task] = r

ClaimsHold == \A c \in Callers : HoldsClaim(c) => tok[call[c].task] = call[c].run

\* A launch under a fresh id has that id to itself until it returns.
FreshAlone ==
    \A c \in Callers : call[c].pc \in Dispatching /\ call[c].mode = "create" =>
        /\ tok[call[c].task] = 0
        /\ \A d \in Callers : d # c => call[d].task # call[c].task
        /\ \A r \in Runs : IsLive(r) => run[r].task # call[c].task

\* Whatever holds a slot, or is about to, has a row.
RowKnown ==
    /\ \A t \in Tasks : tok[t] # 0 => row[t].status # "none"
    /\ \A c \in Callers : call[c].pc \in {"claim", "spawn"} \/ HoldsClaim(c) =>
           row[call[c].task].status # "none"

IInv == TypeOK /\ CallShape /\ LaunchNumbers /\ RunsHold /\ ClaimsHold
              /\ FreshAlone /\ RowKnown

USE TaskAssumption, BoundAssumption, AddressAssumption
USE DEF Runs

----------------------------------------------------------------------------
(* What the state-changing helpers do, element by element. *)

\* A handler that answers is idle again, and nobody else moved.
LEMMA ReturnIs ==
  ASSUME TypeOK, NEW c \in Callers, Return(c)
  PROVE  /\ call' \in [Callers -> CallType]
         /\ \A d \in Callers : call'[d] = IF d = c THEN NoCall ELSE call[d]
  BY DEF TypeOK, Return, NoCall, CallType, Modes

\* A handler that goes on keeps what it carries.
LEMMA GotoIs ==
  ASSUME TypeOK, NEW c \in Callers, NEW l \in Launching \cup Controlling, Goto(c, l)
  PROVE  /\ call' \in [Callers -> CallType]
         /\ \A d \in Callers : d # c => call'[d] = call[d]
         /\ call'[c] = [pc |-> l, task |-> call[c].task, mode |-> call[c].mode,
                        run |-> call[c].run]
  BY DEF TypeOK, Goto, CallType

\* Entering the dispatcher consumes one launch number.
LEMMA EnterIs ==
  ASSUME TypeOK, NEW c \in Callers, NEW t \in Tasks, NEW m \in Modes,
         EnterDispatch(c, t, m)
  PROVE  /\ call' \in [Callers -> CallType]
         /\ \A d \in Callers : d # c => call'[d] = call[d]
         /\ call'[c] = [pc |-> "dispatch", task |-> t, mode |-> m, run |-> nextRun]
         /\ nextRun \in Runs
         /\ nextRun' = nextRun + 1
         /\ nextRun' \in 1..(MaxRuns + 1)
  BY DEF TypeOK, EnterDispatch, CallType, Launching, Dispatching

\* A run that moves on keeps its id and its token.
LEMMA RunGotoIs ==
  ASSUME TypeOK, NEW r \in Runs, NEW p \in Phases, RunGoto(r, p)
  PROVE  /\ run' \in [Runs -> RunType]
         /\ \A s \in Runs : s # r => run'[s] = run[s]
         /\ run'[r].phase = p /\ run'[r].task = run[r].task /\ run'[r].tok = run[r].tok
<1>1. run \in [Runs -> RunType] /\ run' = [run EXCEPT ![r].phase = p]
  BY DEF TypeOK, RunGoto
<1>2. run[r] \in RunType
  BY <1>1
<1>3. /\ [run[r] EXCEPT !.phase = p] \in RunType
      /\ [run[r] EXCEPT !.phase = p].phase = p
      /\ [run[r] EXCEPT !.phase = p].task = run[r].task
      /\ [run[r] EXCEPT !.phase = p].tok = run[r].tok
  BY <1>2 DEF RunType
<1> QED
  BY <1>1, <1>3

\* A status write neither creates nor removes a row.
LEMMA RowUpdateIs ==
  ASSUME TypeOK, NEW t \in Tasks, NEW s \in Status, RowUpdate(t, s)
  PROVE  /\ row' \in [Tasks -> RowType]
         /\ \A u \in Tasks : /\ row'[u].status = "none" <=> row[u].status = "none"
                             /\ row'[u].result = row[u].result
                             /\ u # t => row'[u] = row[u]
<1>1. \A u \in Tasks : row[u] \in RowType
  BY DEF TypeOK
<1>2. [row[t] EXCEPT !.status = IF @ = "none" THEN @ ELSE s] \in RowType
  BY <1>1 DEF RowType
<1>3. s # "none"
  BY DEF Status, Live, Terminal
<1> QED BY <1>1, <1>2, <1>3 DEF RowUpdate, TypeOK, RowType

\* Freeing a slot keeps the token map's type.
LEMMA RemoveTokenIs ==
  ASSUME TypeOK, NEW t, RemoveToken(t)
  PROVE  tok' \in [Tasks -> 0..MaxRuns]
<1>1. tok \in [Tasks -> 0..MaxRuns] /\ 0 \in 0..MaxRuns
  BY DEF TypeOK
<1> QED BY <1>1 DEF RemoveToken

\* What a finished run leaves behind is a run record.
LEMMA DoneIs == NoRun \in RunType /\ DoneRun \in RunType
  BY DEF NoRun, DoneRun, RunType, Phases

\* A registry write keeps the registry's type.
LEMMA RegUpdateIs ==
  ASSUME TypeOK, NEW t, NEW s \in Status, RegUpdate(t, s)
  PROVE  reg' \in [Tasks -> Status \cup {"none"}]
  BY DEF TypeOK, RegUpdate

----------------------------------------------------------------------------
(* The invariant is inductive: one step per action, one leaf per conjunct    *)
(* the action can disturb.                                                   *)

\* The initial state satisfies the invariant: no slot is held, nobody is calling.
LEMMA InitIInv == Init => IInv
  BY DEF Init, IInv, TypeOK, CallShape, LaunchNumbers, RunsHold, ClaimsHold, HoldsClaim,
         FreshAlone, RowKnown, IsLive, LoopPhases, TailPhases, NoRun, NoCall, RowType,
         RunType, CallType, Phases, Modes, Controls, Launching, Dispatching, Controlling,
         NoResult

\* A handler step that only answers, and leaves tokens, rows and runs alone.
LEMMA AnswerIInv ==
  ASSUME IInv, NEW c \in Callers, Return(c),
         reg' \in [Tasks -> Status \cup {"none"}], stopped' \subseteq Tasks,
         UNCHANGED <<row, tok, fired, activeWf, run, router, up, nextRun, owner>>
  PROVE  IInv'
<1>1. /\ call' \in [Callers -> CallType]
      /\ \A d \in Callers : call'[d] = IF d = c THEN NoCall ELSE call[d]
  BY ReturnIs DEF IInv
<1>2. TypeOK'
  BY <1>1 DEF IInv, TypeOK
<1>3. CallShape'
  BY <1>1 DEF IInv, CallShape, NoCall, Controlling, Launching, Dispatching
<1>4. LaunchNumbers'
  BY <1>1 DEF IInv, LaunchNumbers, NoCall, Dispatching
<1>5. RunsHold' /\ ClaimsHold'
  BY <1>1 DEF IInv, RunsHold, IsLive, ClaimsHold, HoldsClaim, NoCall, Dispatching
<1>6. FreshAlone'
  BY <1>1 DEF IInv, FreshAlone, CallShape, IsLive, NoCall, Dispatching, Launching
<1>7. RowKnown'
  BY <1>1 DEF IInv, RowKnown, HoldsClaim, NoCall, Dispatching
<1> QED BY <1>2, <1>3, <1>4, <1>5, <1>6, <1>7 DEF IInv

\* A request whose check passed: the handler now carries an id that clients
\* may name, hence one that no first dispatch is still working on.
LEMMA AcceptIInv ==
  ASSUME IInv, ~AddressesInDispatch, NEW c \in Callers, NEW t \in Tasks,
         NEW p \in {"claim"} \cup Controlling, NEW m \in Modes \cup Controls,
         Idle(c), Addressable(t),
         p = "claim" => m \in Modes \ {"create"} /\ row[t].status # "none",
         p # "claim" => m \in Controls,
         call' = [call EXCEPT ![c] = [pc |-> p, task |-> t, mode |-> m, run |-> 0]],
         UNCHANGED <<row, reg, tok, fired, activeWf, run, router, up, nextRun, owner,
                     stopped>>
  PROVE  IInv'
<1>1. /\ call' \in [Callers -> CallType]
      /\ \A d \in Callers : d # c => call'[d] = call[d]
      /\ call'[c] = [pc |-> p, task |-> t, mode |-> m, run |-> 0]
  BY DEF IInv, TypeOK, CallType, Launching
<1>2. p \notin Dispatching /\ p # "idle" /\ p # "spawn"
  BY DEF Controlling, Dispatching
<1>3. TypeOK'
  BY <1>1 DEF IInv, TypeOK
<1>4. CallShape'
  BY <1>1, <1>2 DEF IInv, CallShape, Idle, Launching, Controlling, Dispatching
<1>5. LaunchNumbers'
  BY <1>1, <1>2 DEF IInv, LaunchNumbers
<1>6. RunsHold' /\ ClaimsHold'
  BY <1>1, <1>2 DEF IInv, RunsHold, IsLive, ClaimsHold, HoldsClaim
<1>7. FreshAlone'
  BY <1>1, <1>2 DEF IInv, FreshAlone, Addressable, IsLive
<1>8. RowKnown'
  BY <1>1, <1>2 DEF IInv, RowKnown, HoldsClaim
<1> QED BY <1>3, <1>4, <1>5, <1>6, <1>7, <1>8 DEF IInv

\* A handler that moves on inside the dispatcher, or inside a control verb.
LEMMA MoveIInv ==
  ASSUME IInv, TypeOK', NEW c \in Callers, NEW l \in Dispatching \cup Controlling,
         call[c].pc \in Dispatching \/ call[c].pc \in Controlling,
         l \in Dispatching <=> call[c].pc \in Dispatching,
         Goto(c, l),
         \A u \in Tasks : row[u].status # "none" => row'[u].status # "none",
         l = "spawn" => row'[call[c].task].status # "none",
         UNCHANGED <<tok, run, up, nextRun>>
  PROVE  IInv'
<1>1. /\ \A d \in Callers : d # c => call'[d] = call[d]
      /\ call'[c] = [pc |-> l, task |-> call[c].task, mode |-> call[c].mode,
                     run |-> call[c].run]
  BY GotoIs DEF IInv, Launching
<1>2. /\ \A p \in Dispatching : p \notin Controlling /\ p \in Launching
      /\ l # "idle" /\ l # "claim"
      /\ call[c].pc # "idle" /\ call[c].pc # "claim"
      /\ "claim" \notin Controlling /\ "claim" \notin Dispatching
  BY DEF Dispatching, Controlling, Launching
<1>3. CallShape'
  BY <1>1, <1>2 DEF IInv, CallShape, Launching
<1>4. LaunchNumbers'
  BY <1>1, <1>2 DEF IInv, LaunchNumbers
<1>5. RunsHold' /\ ClaimsHold'
  BY <1>1, <1>2 DEF IInv, RunsHold, IsLive, ClaimsHold, HoldsClaim
<1>6. FreshAlone'
  BY <1>1, <1>2 DEF IInv, FreshAlone, IsLive
<1>7. RowKnown'
  <2>1. \A d \in Callers : call[d].pc # "idle" => call[d].task \in Tasks
    BY DEF IInv, CallShape
  <2>2. HoldsClaim(c)' => HoldsClaim(c)
    BY <1>1 DEF HoldsClaim
  <2>3. \A d \in Callers : d # c => (HoldsClaim(d)' <=> HoldsClaim(d))
    BY <1>1 DEF HoldsClaim
  <2>4. "idle" \notin Dispatching
    BY DEF Dispatching
  <2> QED BY <1>1, <1>2, <2>1, <2>2, <2>3, <2>4 DEF IInv, RowKnown, HoldsClaim
<1> QED BY <1>3, <1>4, <1>5, <1>6, <1>7 DEF IInv

\* A live run that moves on and keeps its slot.
LEMMA RunMoveIInv ==
  ASSUME IInv, TypeOK', NEW r \in Runs, IsLive(r), IsLive(r)',
         run'[r].task = run[r].task, run'[r].tok = run[r].tok,
         \A s \in Runs : s # r => run'[s] = run[s],
         \A u \in Tasks : row[u].status # "none" => row'[u].status # "none",
         UNCHANGED <<tok, call, up, nextRun>>
  PROVE  IInv'
<1>1. "free" \notin LoopPhases \cup TailPhases
  BY DEF LoopPhases, TailPhases
<1>2. CallShape'
  BY DEF IInv, CallShape
<1>3. LaunchNumbers'
  <2>1. \A n \in 1..(nextRun - 1) : n \in Runs
    BY DEF IInv, TypeOK
  <2>2. run[r].phase # "free"
    BY <1>1 DEF IsLive
  <2>3. r < nextRun
    BY <2>2 DEF IInv, LaunchNumbers, TypeOK
  <2> QED BY <2>1, <2>2, <2>3 DEF IInv, LaunchNumbers
<1>4. RunsHold' /\ ClaimsHold'
  BY DEF IInv, RunsHold, IsLive, ClaimsHold, HoldsClaim
<1>5. FreshAlone'
  BY DEF IInv, FreshAlone, IsLive
<1>6. RowKnown'
  <2>1. \A d \in Callers : call[d].pc # "idle" => call[d].task \in Tasks
    BY DEF IInv, CallShape
  <2> QED BY <2>1 DEF IInv, RowKnown, HoldsClaim, Dispatching
<1> QED BY <1>2, <1>3, <1>4, <1>5, <1>6 DEF IInv

\* The launch number a dispatch takes was nobody's.
LEMMA EnterNumbers ==
  ASSUME IInv, NEW c \in Callers, NEW t \in Tasks, NEW m \in Modes,
         EnterDispatch(c, t, m), run' = run
  PROVE  LaunchNumbers'
<1>1. /\ \A d \in Callers : d # c => call'[d] = call[d]
      /\ call'[c] = [pc |-> "dispatch", task |-> t, mode |-> m, run |-> nextRun]
      /\ nextRun \in Runs
      /\ nextRun' = nextRun + 1
  BY EnterIs DEF IInv
<1>2. nextRun \in Nat /\ run[nextRun].phase = "free" /\ nextRun \in 1..(nextRun' - 1)
  BY <1>1 DEF IInv, LaunchNumbers
<1>3. \A d \in Callers : call[d].pc \in Dispatching =>
        /\ call[d].run \in 1..(nextRun' - 1)
        /\ call[d].run # nextRun
        /\ run[call[d].run].phase = "free"
  BY <1>1 DEF IInv, LaunchNumbers
<1>4. \A r \in Runs : r >= nextRun' => run'[r].phase = "free"
  BY <1>1 DEF IInv, LaunchNumbers
<1> QED BY <1>1, <1>2, <1>3, <1>4 DEF IInv, LaunchNumbers

\* Every request a client can make preserves the invariant.
LEMMA RequestIInv ==
  ASSUME IInv, ~AddressesInDispatch, NEW c \in Callers, Request(c)
  PROVE  IInv'
<1>0. PICK t \in Tasks :
        \/ CreateTask(c, t)
        \/ DispatchNew(c, t)
        \/ StartTask(c, t)
        \/ ResumeTask(c, t)
        \/ \E new \in Controls : ApplyTaskAction(c, t, new)
  BY DEF Request
<1>1. CASE CreateTask(c, t)
  <2> USE <1>1 DEF CreateTask
  <2>1. /\ row' \in [Tasks -> RowType]
        /\ \A u \in Tasks : row[u].status # "none" => row'[u].status # "none"
    <3>1. row \in [Tasks -> RowType] /\ row' = [row EXCEPT ![t].status = "queued"]
      BY DEF IInv, TypeOK
    <3>2. row[t] \in RowType /\ "queued" \in Status \cup {"none"}
      BY <3>1 DEF Status, Live
    <3>3. [row[t] EXCEPT !.status = "queued"] \in RowType
          /\ [row[t] EXCEPT !.status = "queued"].status = "queued"
      BY <3>2 DEF RowType
    <3>4. /\ row'[t] = [row[t] EXCEPT !.status = "queued"]
          /\ \A u \in Tasks : u # t => row'[u] = row[u]
          /\ row' \in [Tasks -> RowType]
      BY <3>1, <3>3
    <3> QED
      BY <3>3, <3>4
  <2>2. TypeOK'
    BY <2>1 DEF IInv, TypeOK, Status, Live
  <2>3. CallShape' /\ LaunchNumbers' /\ RunsHold' /\ ClaimsHold' /\ FreshAlone'
    BY DEF IInv, CallShape, LaunchNumbers, RunsHold, IsLive, ClaimsHold, HoldsClaim,
           FreshAlone
  <2>4. \A d \in Callers : call[d].pc # "idle" => call[d].task \in Tasks
    BY DEF IInv, CallShape
  <2>5. RowKnown'
    BY <2>1, <2>4 DEF IInv, RowKnown, HoldsClaim, Dispatching
  <2> QED BY <2>2, <2>3, <2>5 DEF IInv
<1>2. CASE DispatchNew(c, t)
  <2> USE <1>2 DEF DispatchNew
  <2>1. /\ call' \in [Callers -> CallType]
        /\ \A d \in Callers : d # c => call'[d] = call[d]
        /\ call'[c] = [pc |-> "dispatch", task |-> t, mode |-> "create", run |-> nextRun]
        /\ nextRun \in Runs
        /\ nextRun' = nextRun + 1
        /\ nextRun' \in 1..(MaxRuns + 1)
    BY EnterIs DEF IInv, Modes
  <2>2. TypeOK'
    BY <2>1 DEF IInv, TypeOK
  <2>3. CallShape'
    BY <2>1 DEF IInv, CallShape, Idle, Launching, Dispatching, Controlling, Modes
  <2>4. LaunchNumbers'
    BY EnterNumbers DEF Modes
  <2>5. RunsHold'
    BY DEF IInv, RunsHold, IsLive
  <2>6. ClaimsHold'
    BY <2>1 DEF IInv, ClaimsHold, HoldsClaim
  <2>7. tok[t] = 0 /\ (\A d \in Callers : call[d].task # t)
    BY DEF IInv, RowKnown, FreshId
  <2>8. \A r \in Runs : IsLive(r) => run[r].task # t
    BY <2>7 DEF IInv, RunsHold
  <2>9. FreshAlone'
    BY <2>1, <2>7, <2>8 DEF IInv, FreshAlone, IsLive
  <2>10. RowKnown'
    BY <2>1 DEF IInv, RowKnown, HoldsClaim
  <2> QED BY <2>2, <2>3, <2>4, <2>5, <2>6, <2>9, <2>10 DEF IInv
<1>3. CASE StartTask(c, t)
  <2>1. row[t].status # "none"
    BY <1>3 DEF StartTask, Live
  <2> QED BY <1>3, <2>1, AcceptIInv DEF StartTask, Modes
<1>4. CASE ResumeTask(c, t)
  <2>1. row[t].status # "none"
    BY <1>4 DEF ResumeTask
  <2> QED BY <1>4, <2>1, AcceptIInv DEF ResumeTask, Modes
<1>5. CASE \E new \in Controls : ApplyTaskAction(c, t, new)
  <2>1. PICK new \in Controls : ApplyTaskAction(c, t, new)
    BY <1>5
  <2> DEFINE p == IF new = "cancelled" THEN "fire" ELSE "writeRow"
  <2>2. p \in Controlling /\ p # "claim"
    BY DEF Controlling
  <2>3. call' = [call EXCEPT ![c] = [pc |-> p, task |-> t, mode |-> new, run |-> 0]]
    BY <2>1 DEF ApplyTaskAction
  <2> HIDE DEF p
  <2> QED BY <2>1, <2>2, <2>3, AcceptIInv DEF ApplyTaskAction
<1> QED BY <1>0, <1>1, <1>2, <1>3, <1>4, <1>5

\* A dispatch has its id to itself: no run is live on it and no other dispatch
\* is under way for it.
LEMMA DispatchAlone ==
  ASSUME IInv, NEW c \in Callers, call[c].pc \in Dispatching
  PROVE  /\ \A r \in Runs : IsLive(r) => run[r].task # call[c].task
         /\ \A d \in Callers : call[d].pc \in Dispatching /\ call[d].task = call[c].task
                                => d = c
<1> DEFINE t == call[c].task
<1>1. \A r \in Runs : IsLive(r) => run[r].task # t
  <2>1. call[c].mode = "create" => \A r \in Runs : IsLive(r) => run[r].task # t
    BY DEF IInv, FreshAlone
  <2>2. run[call[c].run].phase = "free" /\ (HoldsClaim(c) => tok[t] = call[c].run)
    BY DEF IInv, LaunchNumbers, ClaimsHold
  <2>3. \A r \in Runs : IsLive(r) => r # call[c].run
    BY <2>2 DEF IsLive, LoopPhases, TailPhases
  <2> QED BY <2>1, <2>2, <2>3 DEF IInv, RunsHold, HoldsClaim
<1>2. \A d \in Callers : call[d].pc \in Dispatching /\ call[d].task = t => d = c
  <2> SUFFICES ASSUME NEW d \in Callers, call[d].pc \in Dispatching, call[d].task = t,
                      d # c
               PROVE  FALSE
    OBVIOUS
  <2>1. call[c].mode # "create" /\ call[d].mode # "create"
    BY DEF IInv, FreshAlone
  <2>2. call[c].run = call[d].run
    BY <2>1 DEF IInv, ClaimsHold, HoldsClaim
  <2> QED BY <2>2 DEF IInv, LaunchNumbers
<1> QED BY <1>1, <1>2

\* A dispatch that ends in the handler gives back at most its own slot, so
\* removing whatever token the id has disturbs nobody else.
LEMMA GiveBackIInv ==
  ASSUME IInv, TypeOK', NEW c \in Callers, call[c].pc \in Dispatching, Return(c),
         RemoveToken(call[c].task),
         \A u \in Tasks : row[u].status # "none" => row'[u].status # "none",
         UNCHANGED <<run, up, nextRun>>
  PROVE  IInv'
<1> DEFINE t == call[c].task
<1>1. \A d \in Callers : call'[d] = IF d = c THEN NoCall ELSE call[d]
  BY ReturnIs DEF IInv
<1>2. t \in Tasks /\ tok' = [tok EXCEPT ![t] = 0]
  BY DEF IInv, CallShape, Dispatching, RemoveToken
<1>3. \A u \in Tasks : tok'[u] = IF u = t THEN 0 ELSE tok[u]
  BY <1>2 DEF IInv, TypeOK
<1>4. \A r \in Runs : IsLive(r) => run[r].task # t
  BY DispatchAlone
<1>5. \A d \in Callers : HoldsClaim(d) /\ call[d].task = t => d = c
  BY DispatchAlone DEF HoldsClaim
<1>6. CallShape'
  BY <1>1 DEF IInv, CallShape, NoCall, Controlling, Launching, Dispatching
<1>7. LaunchNumbers'
  BY <1>1 DEF IInv, LaunchNumbers, NoCall, Dispatching
<1>8. RunsHold'
  BY <1>3, <1>4 DEF IInv, RunsHold, IsLive
<1>9. \A d \in Callers : call[d].pc # "idle" => call[d].task \in Tasks
  BY DEF IInv, CallShape
<1>10. ClaimsHold'
  BY <1>1, <1>3, <1>5, <1>9 DEF IInv, ClaimsHold, HoldsClaim, NoCall, Dispatching
<1>11. FreshAlone'
  BY <1>1, <1>3, <1>9 DEF IInv, FreshAlone, IsLive, NoCall, Dispatching
<1>12. RowKnown'
  BY <1>1, <1>3, <1>9 DEF IInv, RowKnown, HoldsClaim, NoCall, Dispatching
<1> QED BY <1>6, <1>7, <1>8, <1>10, <1>11, <1>12 DEF IInv

\* The claim makes the slot the launch's own.
LEMMA ClaimIInv ==
  ASSUME IInv, NEW c \in Callers, ClaimRunSlot(c)
  PROVE  IInv'
<1> DEFINE t == call[c].task
<1> USE DEF ClaimRunSlot
<1>1. t \in Tasks /\ call[c].mode \in Modes /\ call[c].mode # "create"
  BY DEF IInv, CallShape, Launching
<1>2. EnterDispatch(c, t, call[c].mode)
  BY DEF ClaimRunSlot
<1>3. /\ call' \in [Callers -> CallType]
      /\ \A d \in Callers : d # c => call'[d] = call[d]
      /\ call'[c] = [pc |-> "dispatch", task |-> t, mode |-> call[c].mode, run |-> nextRun]
      /\ nextRun \in Runs
      /\ nextRun' \in 1..(MaxRuns + 1)
  BY <1>1, <1>2, EnterIs DEF IInv
<1>4. LaunchNumbers'
  BY <1>1, <1>2, EnterNumbers
<1>5. /\ tok' \in [Tasks -> 0..MaxRuns]
      /\ \A u \in Tasks : tok'[u] = IF u = t THEN nextRun ELSE tok[u]
  <2>1. tok \in [Tasks -> 0..MaxRuns] /\ tok' = [tok EXCEPT ![t] = nextRun]
    BY DEF IInv, TypeOK
  <2> HIDE DEF ClaimRunSlot
  <2> QED BY <1>1, <1>3, <2>1
<1>6. TypeOK'
  BY <1>3, <1>5 DEF IInv, TypeOK
<1>7. CallShape'
  BY <1>1, <1>3 DEF IInv, CallShape, Launching, Dispatching, Controlling
<1>8. tok[t] = 0
  OBVIOUS
<1>9. \A r \in Runs : IsLive(r) => run[r].task # t
  BY <1>8 DEF IInv, RunsHold
<1>10. RunsHold'
  BY <1>5, <1>9 DEF IInv, RunsHold, IsLive
<1>11. \A d \in Callers : HoldsClaim(d) => call[d].task # t
  <2>1. \A d \in Callers : call[d].pc \in Dispatching => call[d].run # 0
    BY DEF IInv, LaunchNumbers
  <2> QED BY <1>8, <2>1 DEF IInv, ClaimsHold, HoldsClaim
<1>12. \A d \in Callers : call[d].pc # "idle" => call[d].task \in Tasks
  BY DEF IInv, CallShape
<1>13. ClaimsHold'
  BY <1>3, <1>5, <1>11, <1>12 DEF IInv, ClaimsHold, HoldsClaim, Dispatching
<1>14. \A d \in Callers : call[d].pc \in Dispatching /\ call[d].mode = "create" =>
         call[d].task # t
  BY <1>1 DEF IInv, FreshAlone, Dispatching
<1>15. FreshAlone'
  BY <1>1, <1>3, <1>5, <1>12, <1>14 DEF IInv, FreshAlone, IsLive, Dispatching
<1>16. RowKnown'
  BY <1>3, <1>5, <1>12 DEF IInv, RowKnown, HoldsClaim, Dispatching
<1> QED BY <1>4, <1>6, <1>7, <1>10, <1>13, <1>15, <1>16 DEF IInv

\* A spawn turns the launch's number into a run that watches the id's token.
LEMMA SpawnIInv ==
  ASSUME IInv, NEW c \in Callers, SpawnRun(c)
  PROVE  IInv'
<1> DEFINE t == call[c].task
           n == call[c].run
<1>1. /\ call[c].pc = "spawn" /\ t \in Tasks /\ call[c].mode \in Modes
      /\ n \in Runs /\ n < nextRun /\ run[n].phase = "free"
  BY DEF IInv, TypeOK, CallShape, LaunchNumbers, Dispatching, Launching, SpawnRun
<1>2. RunToken(c) = n
  BY <1>1 DEF IInv, ClaimsHold, HoldsClaim, FreshAlone, RunToken, Dispatching
<1>3. /\ tok' = [tok EXCEPT ![t] = n]
      /\ run' = [run EXCEPT ![n] = [phase |-> "spawned", task |-> t, tok |-> n,
                                    ok |-> FALSE]]
      /\ activeWf' = activeWf \cup {t}
      /\ UNCHANGED <<row, reg, fired, router, up, nextRun, owner, stopped>>
  BY <1>2 DEF SpawnRun
<1>4. /\ call' \in [Callers -> CallType]
      /\ \A d \in Callers : call'[d] = IF d = c THEN NoCall ELSE call[d]
  BY ReturnIs DEF IInv, SpawnRun
<1>5. /\ tok' \in [Tasks -> 0..MaxRuns]
      /\ \A u \in Tasks : tok'[u] = IF u = t THEN n ELSE tok[u]
  <2>1. tok \in [Tasks -> 0..MaxRuns]
    BY DEF IInv, TypeOK
  <2> QED BY <1>1, <1>3, <2>1
<1>6. /\ run' \in [Runs -> RunType]
      /\ \A r \in Runs : r # n => run'[r] = run[r]
      /\ run'[n] = [phase |-> "spawned", task |-> t, tok |-> n, ok |-> FALSE]
  <2>1. run \in [Runs -> RunType]
    BY DEF IInv, TypeOK
  <2>2. [phase |-> "spawned", task |-> t, tok |-> n, ok |-> FALSE] \in RunType
    BY <1>1 DEF RunType, Phases, LoopPhases
  <2> QED BY <1>1, <1>3, <2>1, <2>2
<1>7. TypeOK'
  BY <1>1, <1>3, <1>4, <1>5, <1>6 DEF IInv, TypeOK
<1>8. CallShape'
  BY <1>3, <1>4 DEF IInv, CallShape, NoCall, Controlling, Launching, Dispatching
<1>9. LaunchNumbers'
  <2>1. \A d \in Callers : d # c /\ call[d].pc \in Dispatching => call[d].run # n
    BY <1>1 DEF IInv, LaunchNumbers, Dispatching
  <2>2. \A d \in Callers : call[d].pc \in Dispatching => call[d].run \in Runs
    BY DEF IInv, LaunchNumbers, TypeOK
  <2>3. \A d \in Callers : call'[d].pc \in Dispatching => d # c /\ call'[d] = call[d]
    BY <1>4 DEF NoCall, Dispatching
  <2>4. \A r \in Runs : r >= nextRun => run'[r].phase = "free"
    <3>1. \A r \in Runs : r >= nextRun => r # n
      BY <1>1 DEF IInv, TypeOK
    <3> QED BY <1>6, <3>1 DEF IInv, LaunchNumbers
  <2> QED BY <1>3, <1>6, <2>1, <2>2, <2>3, <2>4 DEF IInv, LaunchNumbers
<1>10. \A r \in Runs : IsLive(r) => run[r].task # t
  <2>1. \A r \in Runs : IsLive(r) => r # n
    BY <1>1 DEF IsLive, LoopPhases, TailPhases
  <2>2. tok[t] # 0 => tok[t] = n
    BY <1>2 DEF RunToken
  <2> QED BY <2>1, <2>2 DEF IInv, RunsHold
<1>11. RunsHold'
  <2>1. up
    BY <1>1 DEF IInv, CallShape
  <2> QED BY <1>1, <1>3, <1>5, <1>6, <1>10, <2>1 DEF IInv, RunsHold, IsLive
<1>12. \A d \in Callers : call[d].pc # "idle" => call[d].task \in Tasks
  BY DEF IInv, CallShape
<1>13. \A d \in Callers : HoldsClaim(d) /\ call[d].task = t => call[d].run = n
  <2>1. \A d \in Callers : HoldsClaim(d) => call[d].run # 0
    BY DEF IInv, LaunchNumbers, HoldsClaim
  <2>2. tok[t] # 0 => tok[t] = n
    BY <1>2 DEF RunToken
  <2> QED BY <2>1, <2>2 DEF IInv, ClaimsHold
<1>14. ClaimsHold'
  BY <1>4, <1>5, <1>12, <1>13 DEF IInv, ClaimsHold, HoldsClaim, NoCall, Dispatching
<1>15. \A d \in Callers : d # c /\ call[d].pc \in Dispatching /\ call[d].mode = "create"
          => call[d].task # t
  BY <1>1 DEF IInv, FreshAlone
<1>16. FreshAlone'
  <2> SUFFICES ASSUME NEW e \in Callers, call'[e].pc \in Dispatching,
                      call'[e].mode = "create"
               PROVE  /\ tok'[call'[e].task] = 0
                      /\ \A d \in Callers : d # e => call'[d].task # call'[e].task
                      /\ \A r \in Runs : IsLive(r)' => run'[r].task # call'[e].task
    BY DEF FreshAlone
  <2>1. e # c /\ call'[e] = call[e]
    BY <1>4 DEF NoCall, Dispatching
  <2>2. /\ call[e].task \in Tasks /\ call[e].task # t
        /\ tok[call[e].task] = 0
        /\ \A d \in Callers : d # e => call[d].task # call[e].task
        /\ \A r \in Runs : IsLive(r) => run[r].task # call[e].task
    BY <1>12, <1>15, <2>1 DEF IInv, FreshAlone, Dispatching
  <2>3. tok'[call'[e].task] = 0
    BY <1>5, <2>1, <2>2
  <2>4. \A d \in Callers : d # e => call'[d].task # call'[e].task
    BY <1>4, <2>1, <2>2 DEF NoCall
  <2>5. \A r \in Runs : IsLive(r)' => run'[r].task # call'[e].task
    BY <1>6, <2>1, <2>2 DEF IsLive
  <2> QED BY <2>3, <2>4, <2>5
<1>17. RowKnown'
  BY <1>1, <1>3, <1>4, <1>5, <1>12 DEF IInv, RowKnown, HoldsClaim, NoCall, Dispatching
<1> QED BY <1>7, <1>8, <1>9, <1>11, <1>14, <1>16, <1>17 DEF IInv

\* Every step of a request handler preserves the invariant.
LEMMA HandlerIInv ==
  ASSUME IInv, NEW c \in Callers, HandlerStep(c)
  PROVE  IInv'
<1>0. /\ call[c].pc # "idle" => call[c].task \in Tasks
      /\ reg \in [Tasks -> Status \cup {"none"}] /\ stopped \subseteq Tasks
  BY DEF IInv, TypeOK, CallShape
<1>1. CASE ResumeLogMissing(c)
  BY <1>0, <1>1, AnswerIInv DEF ResumeLogMissing
<1>2. CASE ClaimRunSlot(c)
  BY <1>2, ClaimIInv
<1>3. CASE AlreadyRunning(c)
  BY <1>0, <1>3, AnswerIInv DEF AlreadyRunning
<1>4. CASE DispatchFails(c)
  <2>1. CASE HoldsClaim(c)
    <3>1. call' \in [Callers -> CallType]
      BY <1>4, ReturnIs DEF IInv, DispatchFails
    <3>2. TypeOK'
      BY <1>4, <2>1, <3>1, RemoveTokenIs DEF IInv, TypeOK, DispatchFails
    <3> QED BY <1>4, <2>1, <3>2, GiveBackIInv DEF DispatchFails, Dispatching
  <2>2. CASE ~HoldsClaim(c)
    BY <1>0, <1>4, <2>2, AnswerIInv DEF DispatchFails
  <2> QED BY <2>1, <2>2
<1>5. CASE DispatchRegister(c)
  <2>1. call' \in [Callers -> CallType]
    BY <1>5, GotoIs DEF IInv, DispatchRegister, Launching, Dispatching
  <2>2. reg' \in [Tasks -> Status \cup {"none"}]
    BY <1>5 DEF IInv, TypeOK, DispatchRegister, Status, Live
  <2>3. TypeOK'
    BY <1>5, <2>1, <2>2 DEF IInv, TypeOK, DispatchRegister
  <2> QED BY <1>5, <2>3, MoveIInv DEF DispatchRegister, Dispatching
<1>6. CASE DispatchPersist(c)
  <2> DEFINE t == call[c].task
  <2>1. call' \in [Callers -> CallType]
    BY <1>6, GotoIs DEF IInv, DispatchPersist, Launching, Dispatching
  <2>2. t \in Tasks /\ call[c].run \in 0..MaxRuns
    BY <1>0, <1>6 DEF IInv, TypeOK, CallType, DispatchPersist
  <2>3. QueuedRow(row[t], call[c].mode) \in RowType
    <3>1. row[t] \in RowType
      BY <2>2 DEF IInv, TypeOK
    <3> QED BY <3>1 DEF QueuedRow, RowType, Status, Live, NoResult
  <2>4. /\ row' \in [Tasks -> RowType]
        /\ \A u \in Tasks : row'[u] = IF u = t THEN QueuedRow(row[t], call[c].mode)
                                               ELSE row[u]
    BY <1>6, <2>2, <2>3 DEF IInv, TypeOK, DispatchPersist
  <2>5. row'[t].status # "none"
    BY <2>2, <2>4 DEF QueuedRow
  <2>6. \A u \in Tasks : row[u].status # "none" => row'[u].status # "none"
    BY <2>4, <2>5
  <2>7. TypeOK'
    BY <1>6, <2>1, <2>2, <2>4 DEF IInv, TypeOK, DispatchPersist
  <2> QED BY <1>6, <2>5, <2>6, <2>7, MoveIInv DEF DispatchPersist, Dispatching
<1>7. CASE SpawnRun(c)
  BY <1>7, SpawnIInv
<1>8. CASE SpawnWithoutRouter(c)
  <2> DEFINE t == call[c].task
  <2>1. call' \in [Callers -> CallType]
    BY <1>8, ReturnIs DEF IInv, SpawnWithoutRouter
  <2>2. reg' \in [Tasks -> Status \cup {"none"}] /\ tok' \in [Tasks -> 0..MaxRuns]
    <3>1. reg' \in [Tasks -> Status \cup {"none"}]
      BY <1>8, <1>0 DEF SpawnWithoutRouter, Status, Terminal
    <3> QED BY <1>8, <3>1, RemoveTokenIs DEF IInv, SpawnWithoutRouter
  <2>3. /\ row' \in [Tasks -> RowType]
        /\ \A u \in Tasks : row[u].status # "none" => row'[u].status # "none"
    <3>1. t \in Tasks
      BY <1>0, <1>8 DEF SpawnWithoutRouter
    <3>2. \A u \in Tasks : row[u] \in RowType
      BY DEF IInv, TypeOK
    <3>3. /\ [row[t] EXCEPT !.status = "failed"] \in RowType
          /\ [row[t] EXCEPT !.status = "failed"].status = "failed"
      BY <3>1, <3>2 DEF RowType, Status, Terminal
    <3> QED BY <1>8, <3>1, <3>2, <3>3 DEF IInv, TypeOK, SpawnWithoutRouter
  <2>4. TypeOK'
    BY <1>8, <2>1, <2>2, <2>3 DEF IInv, TypeOK, SpawnWithoutRouter
  <2> QED BY <1>8, <2>3, <2>4, GiveBackIInv DEF SpawnWithoutRouter, Dispatching
<1>9. CASE FireToken(c)
  <2>1. call' \in [Callers -> CallType]
    BY <1>9, GotoIs DEF IInv, FireToken, Controlling
  <2>2. tok[call[c].task] \in 0..MaxRuns
    BY <1>0, <1>9 DEF IInv, TypeOK, FireToken
  <2>3. TypeOK'
    <3>1. fired' \subseteq Runs
      <4>1. fired \subseteq Runs
        BY DEF IInv, TypeOK
      <4>2. {tok[call[c].task]} \ {0} \subseteq Runs
        BY <2>2
      <4>3. fired' = fired \cup ({tok[call[c].task]} \ {0})
        BY <1>9 DEF FireToken
      <4> QED BY <4>1, <4>2, <4>3
    <3> QED BY <1>9, <2>1, <3>1 DEF IInv, TypeOK, FireToken
  <2> QED BY <1>9, <2>3, MoveIInv DEF FireToken, Controlling, Dispatching
<1>10. CASE ControlWriteRow(c)
  <2>1. call' \in [Callers -> CallType]
    BY <1>10, GotoIs DEF IInv, ControlWriteRow, Controlling
  <2>2. call[c].task \in Tasks /\ call[c].mode \in Status
    BY <1>0, <1>10 DEF IInv, CallShape, ControlWriteRow, Controlling, Controls, Status,
                       Live, Terminal
  <2>3. /\ row' \in [Tasks -> RowType]
        /\ \A u \in Tasks : row'[u].status = "none" <=> row[u].status = "none"
    BY <1>10, <2>2, RowUpdateIs DEF IInv, ControlWriteRow
  <2>4. TypeOK'
    BY <1>10, <2>1, <2>3 DEF IInv, TypeOK, ControlWriteRow
  <2> QED BY <1>10, <2>3, <2>4, MoveIInv DEF ControlWriteRow, Controlling, Dispatching
<1>11. CASE ControlWriteRegistry(c)
  <2>1. call[c].task \in Tasks /\ call[c].mode \in Status
    BY <1>0, <1>11 DEF IInv, CallShape, ControlWriteRegistry, Controlling, Controls,
                       Status, Live, Terminal
  <2>2. reg' \in [Tasks -> Status \cup {"none"}]
    BY <1>11, <2>1, RegUpdateIs DEF IInv, ControlWriteRegistry
  <2>3. stopped' \subseteq Tasks
    BY <1>11, <2>1 DEF IInv, TypeOK, ControlWriteRegistry
  <2> QED BY <1>11, <2>2, <2>3, AnswerIInv DEF ControlWriteRegistry
<1> QED BY <1>1, <1>2, <1>3, <1>4, <1>5, <1>6, <1>7, <1>8, <1>9, <1>10, <1>11
        DEF HandlerStep

\* Releasing the slot ends the run; nobody else was relying on the token.
LEMMA ReleaseIInv ==
  ASSUME IInv, NEW r \in Runs, Release(r)
  PROVE  IInv'
<1> DEFINE t == run[r].task
<1>1. IsLive(r) /\ t \in Tasks /\ tok[t] = r /\ run[r].phase # "free"
  BY DEF IInv, RunsHold, IsLive, LoopPhases, TailPhases, Release
<1>2. /\ tok' \in [Tasks -> 0..MaxRuns]
      /\ \A u \in Tasks : tok'[u] = IF u = t THEN 0 ELSE tok[u]
  BY <1>1, RemoveTokenIs DEF IInv, TypeOK, Release, RemoveToken
<1>3. /\ run' \in [Runs -> RunType]
      /\ \A s \in Runs : s # r => run'[s] = run[s]
      /\ run'[r].phase = "done"
  <2>1. run \in [Runs -> RunType] /\ DoneRun \in RunType
    BY DoneIs DEF IInv, TypeOK
  <2> QED BY <2>1 DEF Release, DoneRun
<1>4. UNCHANGED <<row, reg, fired, activeWf, call, router, up, nextRun, owner, stopped>>
  BY DEF Release
<1>5. TypeOK'
  BY <1>2, <1>3, <1>4 DEF IInv, TypeOK
<1>6. CallShape'
  BY <1>4 DEF IInv, CallShape
<1>7. LaunchNumbers'
  <2>1. \A d \in Callers : call[d].pc \in Dispatching => call[d].run \in Runs
    BY DEF IInv, LaunchNumbers, TypeOK
  <2>2. r < nextRun
    BY <1>1 DEF IInv, LaunchNumbers, TypeOK
  <2>3. \A s \in Runs : s >= nextRun => s # r
    <3>1. nextRun \in Nat
      BY DEF IInv, TypeOK
    <3> QED BY <2>2, <3>1
  <2> QED BY <1>1, <1>3, <1>4, <2>1, <2>3 DEF IInv, LaunchNumbers
<1>8. RunsHold'
  <2>1. ~IsLive(r)'
    BY <1>3 DEF IsLive, LoopPhases, TailPhases
  <2>2. \A s \in Runs : s # r /\ IsLive(s) => run[s].task # t
    BY <1>1 DEF IInv, RunsHold
  <2> QED BY <1>2, <1>3, <1>4, <2>1, <2>2 DEF IInv, RunsHold, IsLive
<1>9. \A d \in Callers : call[d].pc # "idle" => call[d].task \in Tasks
  BY DEF IInv, CallShape
<1>10. ClaimsHold'
  <2>1. \A d \in Callers : HoldsClaim(d) => call[d].run # r
    BY <1>1 DEF IInv, LaunchNumbers, HoldsClaim
  <2> QED BY <1>1, <1>2, <1>4, <1>9, <2>1 DEF IInv, ClaimsHold, HoldsClaim, Dispatching
<1>11. FreshAlone'
  <2>1. \A s \in Runs : IsLive(s)' => IsLive(s) /\ run'[s] = run[s]
    BY <1>3 DEF IsLive, LoopPhases, TailPhases
  <2> QED BY <1>2, <1>4, <1>9, <2>1 DEF IInv, FreshAlone, Dispatching
<1>12. RowKnown'
  BY <1>2, <1>4 DEF IInv, RowKnown, HoldsClaim
<1> QED BY <1>5, <1>6, <1>7, <1>8, <1>10, <1>11, <1>12 DEF IInv

\* Every step of a run preserves the invariant.
LEMMA RunIInv ==
  ASSUME IInv, NEW r \in Runs, RunStep(r)
  PROVE  IInv'
<1> DEFINE t == run[r].task
<1>0. /\ IsLive(r) => t \in Tasks
      /\ LoopPhases \subseteq Phases /\ TailPhases \subseteq Phases
      /\ Verdict(r) \in Status /\ "running" \in Status
  BY DEF IInv, RunsHold, Phases, Verdict, Status, Live, Terminal
\* A step that writes nothing but the run, the registry and the rows.
<1>1. ASSUME NEW p \in LoopPhases \cup TailPhases, IsLive(r), RunGoto(r, p),
             row' \in [Tasks -> RowType],
             \A u \in Tasks : row[u].status # "none" => row'[u].status # "none",
             reg' \in [Tasks -> Status \cup {"none"}],
             UNCHANGED <<tok, fired, activeWf, call, router, up, nextRun, owner, stopped>>
      PROVE  IInv'
  <2>1. /\ run' \in [Runs -> RunType]
        /\ \A s \in Runs : s # r => run'[s] = run[s]
        /\ run'[r].phase = p /\ run'[r].task = t /\ run'[r].tok = run[r].tok
    BY <1>0, <1>1, RunGotoIs DEF IInv
  <2>2. TypeOK'
    BY <1>1, <2>1 DEF IInv, TypeOK
  <2>3. IsLive(r)'
    BY <1>1, <2>1 DEF IsLive
  <2> QED BY <1>1, <2>1, <2>2, <2>3, RunMoveIInv
\* A step that takes the run out of its loop.
<1>2. ASSUME NEW ok \in BOOLEAN, IsLive(r), Detach(r, ok)
      PROVE  IInv'
  <2>1. /\ run' \in [Runs -> RunType]
        /\ \A s \in Runs : s # r => run'[s] = run[s]
        /\ run'[r].phase = "setOutcome" /\ run'[r].task = t /\ run'[r].tok = run[r].tok
    <3>1. run \in [Runs -> RunType] /\ run[r] \in RunType
      BY DEF IInv, TypeOK
    <3>2. /\ [run[r] EXCEPT !.phase = "setOutcome", !.ok = ok] \in RunType
          /\ [run[r] EXCEPT !.phase = "setOutcome", !.ok = ok].task = t
          /\ [run[r] EXCEPT !.phase = "setOutcome", !.ok = ok].tok = run[r].tok
          /\ [run[r] EXCEPT !.phase = "setOutcome", !.ok = ok].phase = "setOutcome"
      BY <3>1 DEF RunType, Phases, TailPhases
    <3>3. run' = [run EXCEPT ![r] = [run[r] EXCEPT !.phase = "setOutcome", !.ok = ok]]
      BY <1>2 DEF Detach
    <3> QED BY <3>1, <3>2, <3>3
  <2>2. TypeOK'
    BY <1>2, <2>1 DEF IInv, TypeOK, Detach
  <2>3. IsLive(r)'
    BY <2>1 DEF IsLive, TailPhases
  <2> QED BY <1>2, <2>1, <2>2, <2>3, RunMoveIInv DEF Detach
<1>3. row \in [Tasks -> RowType] /\ reg \in [Tasks -> Status \cup {"none"}]
  BY DEF IInv, TypeOK
<1>5. CASE MarkRegistryRunning(r)
  <2>1. reg' \in [Tasks -> Status \cup {"none"}]
    BY <1>0, <1>5, RegUpdateIs DEF IInv, MarkRegistryRunning
  <2> QED BY <1>1, <1>3, <1>5, <2>1 DEF MarkRegistryRunning, IsLive, LoopPhases
<1>6. CASE MarkRowRunning(r)
  <2>1. IsLive(r)
    BY <1>6 DEF MarkRowRunning, IsLive, LoopPhases
  <2>2. /\ row' \in [Tasks -> RowType]
        /\ \A u \in Tasks : row'[u].status = "none" <=> row[u].status = "none"
    BY <1>0, <1>6, <2>1, RowUpdateIs DEF IInv, MarkRowRunning
  <2> QED BY <1>1, <1>3, <1>6, <2>1, <2>2 DEF MarkRowRunning, LoopPhases
<1>7. CASE EnterLoop(r)
  BY <1>1, <1>3, <1>7 DEF EnterLoop, IsLive, LoopPhases
<1>8. CASE LoopCancelled(r)
  BY <1>2, <1>8 DEF LoopCancelled, IsLive, LoopPhases
<1>9. CASE LoopReturns(r)
  BY <1>2, <1>9 DEF LoopReturns, IsLive, LoopPhases
<1>10. CASE SetOutcome(r)
  <2>1. IsLive(r)
    BY <1>10 DEF SetOutcome, IsLive, TailPhases
  <2>2. /\ row' \in [Tasks -> RowType]
        /\ \A u \in Tasks : row'[u].status = row[u].status
    <3>1. [row[t] EXCEPT !.outcome = r] \in RowType
      BY <1>0, <1>3, <2>1 DEF RowType
    <3> QED BY <1>0, <1>3, <1>10, <2>1, <3>1 DEF SetOutcome, RowType
  <2> QED BY <1>1, <1>3, <1>10, <2>1, <2>2 DEF SetOutcome, TailPhases
<1>11. CASE FinalizeRegistry(r)
  <2>1. reg' \in [Tasks -> Status \cup {"none"}]
    BY <1>0, <1>11, RegUpdateIs DEF IInv, FinalizeRegistry
  <2> QED BY <1>1, <1>3, <1>11, <2>1 DEF FinalizeRegistry, IsLive, TailPhases
<1>12. CASE FinalizeRow(r)
  <2>1. IsLive(r)
    BY <1>12 DEF FinalizeRow, IsLive, TailPhases
  <2>2. /\ row' \in [Tasks -> RowType]
        /\ \A u \in Tasks : row'[u].status = "none" <=> row[u].status = "none"
    BY <1>0, <1>12, <2>1, RowUpdateIs DEF IInv, FinalizeRow
  <2> QED BY <1>1, <1>3, <1>12, <2>1, <2>2 DEF FinalizeRow, TailPhases
<1>13. CASE SetResult(r)
  <2>1. IsLive(r)
    BY <1>13 DEF SetResult, IsLive, TailPhases
  <2>2. /\ row' \in [Tasks -> RowType]
        /\ \A u \in Tasks : row'[u].status = row[u].status
    <3>1. [row[t] EXCEPT !.result = r] \in RowType
      BY <1>0, <1>3, <2>1 DEF RowType
    <3> QED BY <1>0, <1>3, <1>13, <2>1, <3>1 DEF SetResult, RowType
  <2> QED BY <1>1, <1>3, <1>13, <2>1, <2>2 DEF SetResult, TailPhases
<1>14. CASE Release(r)
  BY <1>14, ReleaseIInv
<1> QED BY <1>5, <1>6, <1>7, <1>8, <1>9, <1>10, <1>11, <1>12, <1>13, <1>14 DEF RunStep

\* A crash clears every holder at once, and the sweep finds none.
LEMMA ProcessIInv ==
  ASSUME IInv, Crash \/ BootSweep
  PROVE  IInv'
<1>1. CASE Crash
  <2>1. /\ run' \in [Runs -> RunType]
        /\ \A r \in Runs : ~IsLive(r)' /\ (run[r].phase = "free" => run'[r].phase = "free")
    <3>1. \A r \in Runs : run'[r] = NoRun \/ run'[r] = DoneRun
      BY <1>1 DEF Crash
    <3>2. \A r \in Runs : run'[r] \in RunType
      BY <3>1, DoneIs
    <3>3. \A r \in Runs : run'[r].phase \in {"free", "done"}
      BY <3>1 DEF NoRun, DoneRun
    <3>4. \A r \in Runs : run[r].phase = "free" => run'[r].phase = "free"
      BY <1>1 DEF Crash, NoRun
    <3>5. run' \in [Runs -> RunType]
      BY <1>1, <3>2 DEF Crash
    <3> QED BY <3>3, <3>4, <3>5 DEF IsLive, LoopPhases, TailPhases
  <2>2. /\ call' \in [Callers -> CallType]
        /\ \A c \in Callers : call'[c] = NoCall
    BY <1>1 DEF Crash, NoCall, CallType, Modes
  <2>3. /\ tok' \in [Tasks -> 0..MaxRuns]
        /\ \A t \in Tasks : tok'[t] = 0
    BY <1>1 DEF Crash
  <2>4. TypeOK'
    BY <1>1, <2>1, <2>2, <2>3 DEF IInv, TypeOK, Crash
  <2>5. CallShape' /\ ClaimsHold' /\ FreshAlone' /\ RowKnown'
    BY <2>2, <2>3 DEF CallShape, ClaimsHold, HoldsClaim, FreshAlone, RowKnown, NoCall,
                      Controlling, Launching, Dispatching
  <2>6. LaunchNumbers'
    BY <1>1, <2>1, <2>2 DEF IInv, LaunchNumbers, NoCall, Dispatching, Crash
  <2>7. RunsHold'
    BY <2>1 DEF RunsHold
  <2> QED BY <2>4, <2>5, <2>6, <2>7 DEF IInv
<1>2. CASE BootSweep
  <2>1. /\ row' \in [Tasks -> RowType]
        /\ \A t \in Tasks : row[t].status # "none" => row'[t].status # "none"
    <3>1. \A t \in Tasks : /\ Interrupt(row[t]) \in RowType
                           /\ row[t].status # "none" => Interrupt(row[t]).status # "none"
      <4> TAKE t \in Tasks
      <4>1. row[t] \in RowType
        BY DEF IInv, TypeOK
      <4>2. CASE row[t].status \in Live
        <5>1. Interrupt(row[t]) =
                [status |-> "interrupted", outcome |-> row[t].outcome,
                 result |-> IF row[t].result = NoResult THEN SweepNote ELSE row[t].result]
          BY <4>1, <4>2 DEF Interrupt, RowType
        <5>2. SweepNote \in -1..MaxRuns
          BY DEF SweepNote
        <5> QED BY <4>1, <5>1, <5>2 DEF RowType, Status, Terminal
      <4>3. CASE row[t].status \notin Live
        BY <4>1, <4>3 DEF Interrupt
      <4> QED BY <4>2, <4>3
    <3> QED BY <1>2, <3>1 DEF BootSweep
  <2>2. TypeOK'
    BY <1>2, <2>1 DEF IInv, TypeOK, BootSweep, memory
  <2>3. LaunchNumbers' /\ ClaimsHold' /\ FreshAlone'
    BY <1>2 DEF IInv, LaunchNumbers, ClaimsHold, HoldsClaim, FreshAlone, IsLive,
                BootSweep, memory
  <2>4. CallShape' /\ RunsHold'
    BY <1>2 DEF IInv, CallShape, RunsHold, IsLive, BootSweep, memory
  <2>5. \A c \in Callers : call[c].pc # "idle" => call[c].task \in Tasks
    BY DEF IInv, CallShape
  <2>6. RowKnown'
    BY <1>2, <2>1, <2>5 DEF IInv, RowKnown, HoldsClaim, Dispatching, BootSweep, memory
  <2> QED BY <2>2, <2>3, <2>4, <2>6 DEF IInv
<1> QED BY <1>1, <1>2

\* The invariant is inductive.
LEMMA NextIInv ==
  ASSUME IInv, ~AddressesInDispatch, [Next]_vars
  PROVE  IInv'
<1>1. CASE UNCHANGED vars
  BY <1>1 DEF vars, memory, IInv, TypeOK, CallShape, LaunchNumbers, RunsHold, IsLive,
              ClaimsHold, HoldsClaim, FreshAlone, RowKnown
<1>2. CASE Next
  BY <1>2, RequestIInv, HandlerIInv, RunIInv, ProcessIInv DEF Next
<1> QED BY <1>1, <1>2

----------------------------------------------------------------------------
(* The theorems. *)

\* The state the task lifecycle keeps is well formed, in every behaviour in
\* which clients name only ids they were told.
THEOREM TypeCorrect ==
  ASSUME ~AddressesInDispatch
  PROVE  Spec => []TypeOK
<1>1. Init => IInv
  BY InitIInv
<1>2. IInv /\ [Next]_vars => IInv'
  BY NextIInv
<1>3. IInv => TypeOK
  BY DEF IInv
<1> QED BY <1>1, <1>2, <1>3, PTL DEF Spec

\* Two lead agents never work on one id, however many requests race for it:
\* claim_run_slot is a lock.
THEOREM RunIsExclusive ==
  ASSUME ~AddressesInDispatch
  PROVE  Spec => []OneRunPerId
<1>1. Init => IInv
  BY InitIInv
<1>2. IInv /\ [Next]_vars => IInv'
  BY NextIInv
<1>3. IInv => OneRunPerId
  BY DEF IInv, RunsHold, OneRunPerId
<1> QED BY <1>1, <1>2, <1>3, PTL DEF Spec

\* The id's token is the one its run, or its claim, holds: a cancel reaches
\* it and a second launch is refused by it, from the claim to the last write.
THEOREM SlotIsHeld ==
  ASSUME ~AddressesInDispatch
  PROVE  Spec => []SlotHeld
<1>1. Init => IInv
  BY InitIInv
<1>2. IInv /\ [Next]_vars => IInv'
  BY NextIInv
<1>3. IInv => SlotHeld
  BY DEF IInv, RunsHold, ClaimsHold, SlotHeld
<1> QED BY <1>1, <1>2, <1>3, PTL DEF Spec

-----------------------------------------------------------------------------
(***************************************************************************)
(* What the rows, the registry and the lane index say about the runs, on   *)
(* top of the exclusive run slot.                                          *)
(***************************************************************************)
\* The launch that last wrote an id's row live is the one that runs it.
OwnerKnown ==
    /\ \A r \in Runs : IsLive(r) => owner[run[r].task] = r
    /\ \A c \in Callers : call[c].pc = "spawn" => owner[call[c].task] = call[c].run

\* Whoever may still write a row live has the id in the registry.
RegKnown ==
    /\ \A r \in Runs : IsLive(r) => reg[run[r].task] # "none"
    /\ \A c \in Callers : call[c].pc \in {"persist", "spawn"} \cup Controlling =>
           reg[call[c].task] # "none"

RowInv == OwnerKnown /\ RegKnown /\ ResultIsOwn /\ LaneIndexExact /\ NoOrphanRow


\* The initial state: no rows, no entries, no lane.
LEMMA InitRowInv == Init => RowInv
  BY DEF Init, RowInv, OwnerKnown, RegKnown, ResultIsOwn, LaneIndexExact, NoOrphanRow,
         IsLive, Attached, LoopPhases, TailPhases, NoRun, NoCall, Controlling, NoResult,
         Live

\* A handler that goes on keeps its id and its launch number.
LEMMA GotoFields ==
  ASSUME IInv, NEW c \in Callers, NEW l \in Launching \cup Controlling, Goto(c, l)
  PROVE  /\ \A d \in Callers : d # c => call'[d] = call[d]
         /\ call'[c].pc = l /\ call'[c].task = call[c].task /\ call'[c].run = call[c].run
<1>1. /\ \A d \in Callers : d # c => call'[d] = call[d]
      /\ call'[c] = [pc |-> l, task |-> call[c].task, mode |-> call[c].mode,
                     run |-> call[c].run]
  BY GotoIs DEF IInv
<1> QED BY <1>1

\* A launch that enters the dispatcher is at its first step.
LEMMA EnterFields ==
  ASSUME IInv, NEW c \in Callers, NEW t \in Tasks, NEW m \in Modes, EnterDispatch(c, t, m)
  PROVE  (\A d \in Callers : d # c => call'[d] = call[d]) /\ call'[c].pc = "dispatch"
<1>1. /\ \A d \in Callers : d # c => call'[d] = call[d]
      /\ call'[c] = [pc |-> "dispatch", task |-> t, mode |-> m, run |-> nextRun]
  BY EnterIs DEF IInv
<1> QED BY <1>1

\* A step that hands no id over: owners and lane stay, no run starts, no run
\* leaves its loop, no entry disappears, no summary is written.
LEMMA KeepRowInv ==
  ASSUME IInv, RowInv, IInv',
         UNCHANGED <<owner, activeWf>>,
         up' => up,
         \A r \in Runs : /\ IsLive(r)' => IsLive(r) /\ run'[r].task = run[r].task
                         /\ Attached(r) <=> Attached(r)'
                         /\ run'[r].task = run[r].task \/ ~Attached(r),
         \A d \in Callers : call'[d].pc = "spawn" => call'[d] = call[d],
         \A d \in Callers : call'[d].pc \in {"persist", "spawn"} \cup Controlling =>
             reg'[call'[d].task] # "none",
         \A u \in Tasks : /\ row'[u].result = row[u].result
                          /\ reg[u] # "none" => reg'[u] # "none"
                          /\ row'[u].status \in Live =>
                                row[u].status \in Live \/ reg'[u] # "none"
  PROVE  RowInv'
<1>1. OwnerKnown'
  BY DEF RowInv, OwnerKnown
<1>2. RegKnown'
  BY DEF RowInv, RegKnown, IInv, RunsHold
<1>3. ResultIsOwn'
  BY DEF RowInv, ResultIsOwn
<1>4. LaneIndexExact'
  <2>1. \A r \in Runs : Attached(r) => run'[r].task = run[r].task
    OBVIOUS
  <2> QED BY <2>1 DEF RowInv, LaneIndexExact
<1>5. NoOrphanRow'
  BY DEF RowInv, NoOrphanRow
<1> QED BY <1>1, <1>2, <1>3, <1>4, <1>5 DEF RowInv

\* The same for a step of a request handler that starts no run.
LEMMA CallRowInv ==
  ASSUME IInv, RowInv, IInv', NEW c \in Callers,
         UNCHANGED <<owner, activeWf, run, up>>,
         \A d \in Callers : d # c => call'[d] = call[d],
         call'[c].pc # "spawn",
         call'[c].pc \in {"persist"} \cup Controlling => reg'[call'[c].task] # "none",
         \A u \in Tasks : /\ row'[u].result = row[u].result
                          /\ reg[u] # "none" => reg'[u] # "none"
                          /\ row'[u].status \in Live =>
                                row[u].status \in Live \/ reg'[u] # "none"
  PROVE  RowInv'
<1>1. \A r \in Runs : (IsLive(r)' <=> IsLive(r)) /\ (Attached(r)' <=> Attached(r))
  BY DEF IsLive, Attached
<1>2. \A d \in Callers : call[d].pc # "idle" => call[d].task \in Tasks
  BY DEF IInv, CallShape
<1>3. \A d \in Callers : call'[d].pc \in {"persist", "spawn"} \cup Controlling =>
        reg'[call'[d].task] # "none"
  BY <1>2 DEF RowInv, RegKnown, Controlling
<1> QED BY <1>1, <1>3, KeepRowInv

\* A request leaves rows and runs consistent.
LEMMA RequestRowInv ==
  ASSUME IInv, RowInv, IInv', NEW c \in Callers, Request(c)
  PROVE  RowInv'
<1>0. PICK t \in Tasks :
        \/ CreateTask(c, t)
        \/ DispatchNew(c, t)
        \/ StartTask(c, t)
        \/ ResumeTask(c, t)
        \/ \E new \in Controls : ApplyTaskAction(c, t, new)
  BY DEF Request
<1>1. CASE CreateTask(c, t)
  <2>1. \A u \in Tasks : /\ row'[u].result = row[u].result
                         /\ u # t => row'[u] = row[u] /\ reg'[u] = reg[u]
                         /\ reg'[t] = "queued"
    BY <1>1 DEF IInv, TypeOK, RowType, CreateTask
  <2>2. call[c].pc = "idle" /\ call' = call
    BY <1>1 DEF CreateTask, Idle
  <2> QED BY <1>1, <2>1, <2>2, CallRowInv DEF CreateTask, Controlling
<1>2. CASE DispatchNew(c, t)
  <2>1. /\ \A d \in Callers : d # c => call'[d] = call[d]
        /\ call'[c].pc = "dispatch"
    BY <1>2, EnterFields DEF DispatchNew, Modes
  <2> QED BY <1>2, <2>1, CallRowInv DEF DispatchNew, Controlling
<1>3. CASE StartTask(c, t) \/ ResumeTask(c, t)
  <2>1. /\ \A d \in Callers : d # c => call'[d] = call[d]
        /\ call'[c].pc = "claim"
    BY <1>3 DEF IInv, TypeOK, StartTask, ResumeTask
  <2> QED BY <1>3, <2>1, CallRowInv DEF StartTask, ResumeTask, Controlling
<1>4. CASE \E new \in Controls : ApplyTaskAction(c, t, new)
  <2>1. PICK new \in Controls : ApplyTaskAction(c, t, new)
    BY <1>4
  <2>2. /\ \A d \in Callers : d # c => call'[d] = call[d]
        /\ call'[c].pc \in {"fire", "writeRow"} /\ call'[c].task = t
    <3> DEFINE p == IF new = "cancelled" THEN "fire" ELSE "writeRow"
    <3>1. call' = [call EXCEPT ![c] = [pc |-> p, task |-> t, mode |-> new, run |-> 0]]
      BY <2>1 DEF ApplyTaskAction
    <3>2. call \in [Callers -> CallType] /\ p \in {"fire", "writeRow"}
      BY DEF IInv, TypeOK
    <3> HIDE DEF p
    <3> QED BY <3>1, <3>2
  <2>3. ControlFrom(new) \subseteq Live
    BY DEF ControlFrom, Controls, Live
  <2>4. reg[t] # "none"
    BY <2>1, <2>3 DEF RowInv, NoOrphanRow, ApplyTaskAction, Idle, Resolved
  <2>5. UNCHANGED <<owner, activeWf, run, up, reg, row>>
    BY <2>1 DEF ApplyTaskAction
  <2> QED BY <2>2, <2>4, <2>5, CallRowInv
<1> QED BY <1>0, <1>1, <1>2, <1>3, <1>4

\* Persisting the row hands the id to the launch: it was alone on it.
LEMMA PersistRowInv ==
  ASSUME IInv, RowInv, IInv', NEW c \in Callers, DispatchPersist(c)
  PROVE  RowInv'
<1> DEFINE t == call[c].task
<1>1. call[c].pc = "persist" /\ t \in Tasks /\ reg[t] # "none"
  BY DEF IInv, CallShape, RowInv, RegKnown, DispatchPersist
<1>2. /\ \A d \in Callers : d # c => call'[d] = call[d]
      /\ call'[c].pc = "spawn" /\ call'[c].task = t /\ call'[c].run = call[c].run
  BY GotoFields DEF DispatchPersist, Launching, Dispatching
<1>3. /\ \A u \in Tasks : u # t => row'[u] = row[u] /\ owner'[u] = owner[u]
      /\ row'[t].result = 0 /\ owner'[t] = call[c].run
  <2>1. /\ row' = [row EXCEPT ![t] = QueuedRow(row[t], call[c].mode)]
        /\ owner' = [owner EXCEPT ![t] = call[c].run]
    BY DEF DispatchPersist
  <2>2. QueuedRow(row[t], call[c].mode).result = 0
    BY DEF QueuedRow, NoResult
  <2>3. row \in [Tasks -> RowType] /\ owner \in [Tasks -> 0..MaxRuns]
    BY DEF IInv, TypeOK
  <2> QED BY <1>1, <2>1, <2>2, <2>3
<1>4. /\ \A r \in Runs : IsLive(r) => run[r].task # t
      /\ \A d \in Callers : call[d].pc \in Dispatching /\ call[d].task = t => d = c
  BY <1>1, DispatchAlone DEF Dispatching
<1>5. UNCHANGED <<reg, run, activeWf, up>>
  BY DEF DispatchPersist
<1>6. \A d \in Callers : call[d].pc # "idle" => call[d].task \in Tasks
  BY DEF IInv, CallShape
<1>7. OwnerKnown'
  <2>1. \A r \in Runs : IsLive(r)' => owner'[run'[r].task] = r
    BY <1>3, <1>4, <1>5 DEF IInv, RunsHold, RowInv, OwnerKnown, IsLive
  <2>2. \A d \in Callers : call'[d].pc = "spawn" => owner'[call'[d].task] = call'[d].run
    BY <1>2, <1>3, <1>4, <1>6 DEF RowInv, OwnerKnown, Dispatching
  <2> QED BY <2>1, <2>2 DEF OwnerKnown
<1>8. RegKnown'
  BY <1>1, <1>2, <1>5 DEF RowInv, RegKnown, IsLive
<1>9. ResultIsOwn'
  BY <1>3 DEF RowInv, ResultIsOwn
<1>10. LaneIndexExact'
  BY <1>5 DEF RowInv, LaneIndexExact, Attached
<1>11. NoOrphanRow'
  BY <1>1, <1>3, <1>5 DEF RowInv, NoOrphanRow
<1> QED BY <1>7, <1>8, <1>9, <1>10, <1>11 DEF RowInv

\* The spawned run joins the lane as the only run of its id.
LEMMA SpawnRowInv ==
  ASSUME IInv, RowInv, IInv', NEW c \in Callers, SpawnRun(c)
  PROVE  RowInv'
<1> DEFINE t == call[c].task
           n == call[c].run
<1>1. call[c].pc = "spawn" /\ t \in Tasks /\ n \in Runs
  BY DEF IInv, TypeOK, CallShape, LaunchNumbers, Dispatching, SpawnRun
<1>2. /\ \A r \in Runs : r # n => run'[r] = run[r]
      /\ run'[n].phase = "spawned" /\ run'[n].task = t
  BY <1>1 DEF IInv, TypeOK, SpawnRun
<1>3. \A d \in Callers : call'[d] = IF d = c THEN NoCall ELSE call[d]
  BY ReturnIs DEF IInv, SpawnRun
<1>4. UNCHANGED <<row, reg, up, owner>> /\ activeWf' = activeWf \cup {t}
  BY DEF SpawnRun
<1>5. owner[t] = n /\ reg[t] # "none"
  BY <1>1 DEF RowInv, OwnerKnown, RegKnown
<1>6. OwnerKnown'
  BY <1>2, <1>3, <1>4, <1>5 DEF RowInv, OwnerKnown, IsLive, NoCall
<1>7. RegKnown'
  BY <1>2, <1>3, <1>4, <1>5 DEF RowInv, RegKnown, IsLive, NoCall, Controlling
<1>8. ResultIsOwn' /\ NoOrphanRow'
  BY <1>4 DEF RowInv, ResultIsOwn, NoOrphanRow
<1>9. LaneIndexExact'
  <2>1. ~Attached(n)
    BY <1>1 DEF IInv, LaunchNumbers, Dispatching, Attached, LoopPhases
  <2>2. \A r \in Runs : r # n => (Attached(r)' <=> Attached(r)) /\ run'[r] = run[r]
    BY <1>2 DEF Attached
  <2>3. \A r \in Runs : r = n => Attached(r)' /\ run'[r].task = t
    BY <1>2 DEF Attached, LoopPhases
  <2> QED BY <1>1, <1>4, <2>1, <2>2, <2>3 DEF RowInv, LaneIndexExact
<1> QED BY <1>6, <1>7, <1>8, <1>9 DEF RowInv

\* Every step of a request handler leaves rows and runs consistent.
LEMMA HandlerRowInv ==
  ASSUME IInv, RowInv, IInv', NEW c \in Callers, HandlerStep(c)
  PROVE  RowInv'
<1> DEFINE t == call[c].task
<1>0. /\ call[c].pc # "idle" => t \in Tasks
      /\ row \in [Tasks -> RowType] /\ reg \in [Tasks -> Status \cup {"none"}]
  BY DEF IInv, TypeOK, CallShape
\* A handler that answers.
<1>1. ASSUME Return(c), UNCHANGED <<owner, activeWf, run, up>>,
             \A u \in Tasks : /\ row'[u].result = row[u].result
                              /\ reg[u] # "none" => reg'[u] # "none"
                              /\ row'[u].status \in Live =>
                                    row[u].status \in Live \/ reg'[u] # "none"
      PROVE  RowInv'
  <2>1. \A d \in Callers : call'[d] = IF d = c THEN NoCall ELSE call[d]
    BY <1>1, ReturnIs DEF IInv
  <2> QED BY <1>1, <2>1, CallRowInv DEF NoCall, Controlling
<1>2. CASE ResumeLogMissing(c) \/ AlreadyRunning(c) \/ DispatchFails(c)
  BY <1>1, <1>2 DEF ResumeLogMissing, AlreadyRunning, DispatchFails
<1>3. CASE ClaimRunSlot(c)
  <2>1. t \in Tasks /\ call[c].mode \in Modes
    BY <1>3 DEF IInv, CallShape, ClaimRunSlot, Launching
  <2>2. /\ \A d \in Callers : d # c => call'[d] = call[d]
        /\ call'[c].pc = "dispatch"
    BY <1>3, <2>1, EnterFields DEF ClaimRunSlot
  <2> QED BY <1>3, <2>2, CallRowInv DEF ClaimRunSlot, Controlling
<1>4. CASE DispatchRegister(c)
  <2>1. /\ \A d \in Callers : d # c => call'[d] = call[d]
        /\ call'[c].pc = "persist" /\ call'[c].task = t
    BY <1>4, GotoFields DEF DispatchRegister, Launching, Dispatching
  <2>2. t \in Tasks
    BY <1>0, <1>4 DEF DispatchRegister
  <2>3. reg'[t] # "none" /\ \A u \in Tasks : u # t => reg'[u] = reg[u]
    BY <1>0, <1>4, <2>2 DEF DispatchRegister
  <2> QED BY <1>4, <2>1, <2>2, <2>3, CallRowInv DEF DispatchRegister
<1>5. CASE DispatchPersist(c)
  BY <1>5, PersistRowInv
<1>6. CASE SpawnRun(c)
  BY <1>6, SpawnRowInv
<1>7. CASE SpawnWithoutRouter(c)
  <2>1. t \in Tasks
    BY <1>0, <1>7 DEF SpawnWithoutRouter
  <2>2. \A u \in Tasks : /\ row'[u].result = row[u].result
                         /\ row'[u].status \in Live => row[u].status \in Live
    BY <1>0, <1>7, <2>1 DEF SpawnWithoutRouter, RowType, Live
  <2>3. \A u \in Tasks : reg[u] # "none" => reg'[u] # "none"
    BY <1>0, <1>7, <2>1 DEF SpawnWithoutRouter
  <2> QED BY <1>1, <1>7, <2>2, <2>3 DEF SpawnWithoutRouter
<1>8. CASE FireToken(c)
  <2>1. /\ \A d \in Callers : d # c => call'[d] = call[d]
        /\ call'[c].pc = "writeRow" /\ call'[c].task = t
    BY <1>8, GotoFields DEF FireToken, Controlling
  <2>2. reg[t] # "none"
    BY <1>8 DEF RowInv, RegKnown, FireToken, Controlling
  <2> QED BY <1>8, <2>1, <2>2, CallRowInv DEF FireToken
<1>9. CASE ControlWriteRow(c)
  <2>1. /\ \A d \in Callers : d # c => call'[d] = call[d]
        /\ call'[c].pc = "writeReg" /\ call'[c].task = t
    BY <1>9, GotoFields DEF ControlWriteRow, Controlling
  <2>2. reg[t] # "none"
    BY <1>9 DEF RowInv, RegKnown, ControlWriteRow, Controlling
  <2>3. t \in Tasks /\ call[c].mode \in Status
    BY <1>0, <1>9 DEF IInv, CallShape, ControlWriteRow, Controlling, Controls, Status,
                      Live, Terminal
  <2>4. \A u \in Tasks : row'[u].result = row[u].result /\ (u # t => row'[u] = row[u])
    BY <1>9, <2>3, RowUpdateIs DEF IInv, ControlWriteRow
  <2> QED BY <1>9, <2>1, <2>2, <2>4, CallRowInv DEF ControlWriteRow
<1>10. CASE ControlWriteRegistry(c)
  <2>1. t \in Tasks /\ call[c].mode # "none"
    BY <1>0, <1>10 DEF IInv, CallShape, ControlWriteRegistry, Controlling, Controls
  <2>2. \A u \in Tasks : reg[u] # "none" => reg'[u] # "none"
    BY <1>0, <1>10, <2>1 DEF ControlWriteRegistry, RegUpdate
  <2> QED BY <1>1, <1>10, <2>2 DEF ControlWriteRegistry
<1> QED BY <1>2, <1>3, <1>4, <1>5, <1>6, <1>7, <1>8, <1>9, <1>10 DEF HandlerStep

\* A run that leaves its loop takes its id, and only its id, off the lane.
LEMMA DetachRowInv ==
  ASSUME IInv, RowInv, IInv', NEW r \in Runs, NEW ok \in BOOLEAN, Attached(r), Detach(r, ok)
  PROVE  RowInv'
<1> DEFINE t == run[r].task
<1>1. IsLive(r) /\ t \in Tasks
  BY DEF IInv, RunsHold, IsLive, Attached
<1>2. /\ \A s \in Runs : s # r => run'[s] = run[s]
      /\ run'[r].phase = "setOutcome" /\ run'[r].task = t
  <2>1. run \in [Runs -> RunType] /\ run[r] \in RunType
    BY DEF IInv, TypeOK
  <2>2. /\ [run[r] EXCEPT !.phase = "setOutcome", !.ok = ok].task = t
        /\ [run[r] EXCEPT !.phase = "setOutcome", !.ok = ok].phase = "setOutcome"
    BY <2>1 DEF RunType
  <2>3. run' = [run EXCEPT ![r] = [run[r] EXCEPT !.phase = "setOutcome", !.ok = ok]]
    BY DEF Detach
  <2> QED BY <2>1, <2>2, <2>3
<1>3. UNCHANGED <<row, reg, call, up, owner>> /\ activeWf' = activeWf \ {t}
  BY DEF Detach
<1>4. \A s \in Runs : IsLive(s)' => IsLive(s) /\ run'[s].task = run[s].task
  BY <1>1, <1>2 DEF IsLive
<1>5. OwnerKnown' /\ RegKnown'
  BY <1>3, <1>4 DEF RowInv, OwnerKnown, RegKnown
<1>6. ResultIsOwn' /\ NoOrphanRow'
  BY <1>3 DEF RowInv, ResultIsOwn, NoOrphanRow
<1>7. LaneIndexExact'
  <2>1. \A s \in Runs : s = r => ~Attached(s)'
    BY <1>2 DEF Attached, LoopPhases
  <2>2. \A s \in Runs : s # r => (Attached(s)' <=> Attached(s)) /\ run'[s] = run[s]
    BY <1>2 DEF Attached
  <2>3. \A s \in Runs : s # r /\ Attached(s) => run[s].task # t
    BY <1>1 DEF IInv, RunsHold, IsLive, Attached
  <2> QED BY <1>3, <2>1, <2>2, <2>3 DEF RowInv, LaneIndexExact
<1> QED BY <1>5, <1>6, <1>7 DEF RowInv

\* A run's own writes: its status, its outcome, its summary, its slot.
LEMMA RunRowInv ==
  ASSUME IInv, RowInv, IInv', NEW r \in Runs, RunStep(r)
  PROVE  RowInv'
<1> DEFINE t == run[r].task
<1>0. /\ IsLive(r) => t \in Tasks /\ reg[t] # "none" /\ owner[t] = r
      /\ row \in [Tasks -> RowType] /\ reg \in [Tasks -> Status \cup {"none"}]
      /\ Verdict(r) \in Status /\ "running" \in Status /\ "none" \notin Status
      /\ LoopPhases \cup TailPhases \subseteq Phases
  BY DEF IInv, TypeOK, RunsHold, RowInv, RegKnown, OwnerKnown, Verdict, Status, Live,
         Terminal, Phases
\* A step inside the loop phases or inside the tail.
<1>1. ASSUME NEW p \in LoopPhases \cup TailPhases, IsLive(r), RunGoto(r, p),
             p \in LoopPhases <=> run[r].phase \in LoopPhases,
             \A u \in Tasks : /\ row'[u].result = row[u].result
                              /\ u # t => row'[u] = row[u]
                              /\ reg[u] # "none" => reg'[u] # "none",
             UNCHANGED <<activeWf, call, up, owner>>
      PROVE  RowInv'
  <2>1. /\ \A s \in Runs : s # r => run'[s] = run[s]
        /\ run'[r].phase = p /\ run'[r].task = t
    BY <1>0, <1>1, RunGotoIs DEF IInv
  <2>2. \A s \in Runs : /\ IsLive(s)' => IsLive(s) /\ run'[s].task = run[s].task
                        /\ Attached(s) <=> Attached(s)'
                        /\ run'[s].task = run[s].task
    BY <1>1, <2>1 DEF IsLive, Attached
  <2>3. \A d \in Callers : call[d].pc \in {"persist", "spawn"} \cup Controlling =>
          reg'[call[d].task] # "none"
    BY <1>1 DEF IInv, CallShape, RowInv, RegKnown, Controlling
  <2>4. \A u \in Tasks : row'[u].status \in Live => row[u].status \in Live \/ reg'[u] # "none"
    BY <1>0, <1>1
  <2> QED BY <1>1, <2>2, <2>3, <2>4, KeepRowInv
<1>2. CASE MarkRegistryRunning(r)
  <2>1. IsLive(r) /\ run[r].phase \in LoopPhases /\ "marking" \in LoopPhases
    BY <1>2 DEF MarkRegistryRunning, IsLive, LoopPhases
  <2>2. \A u \in Tasks : reg[u] # "none" => reg'[u] # "none"
    BY <1>0, <1>2, <2>1 DEF MarkRegistryRunning, RegUpdate
  <2> QED BY <1>1, <1>2, <2>1, <2>2 DEF MarkRegistryRunning
<1>3. CASE MarkRowRunning(r)
  <2>1. IsLive(r) /\ run[r].phase \in LoopPhases /\ "entering" \in LoopPhases
    BY <1>3 DEF MarkRowRunning, IsLive, LoopPhases
  <2>2. \A u \in Tasks : row'[u].result = row[u].result /\ (u # t => row'[u] = row[u])
    BY <1>0, <1>3, <2>1, RowUpdateIs DEF IInv, MarkRowRunning
  <2> QED BY <1>1, <1>3, <2>1, <2>2 DEF MarkRowRunning
<1>4. CASE EnterLoop(r)
  <2>1. IsLive(r) /\ run[r].phase \in LoopPhases /\ "looping" \in LoopPhases
    BY <1>4 DEF EnterLoop, IsLive, LoopPhases
  <2> QED BY <1>1, <1>4, <2>1 DEF EnterLoop
<1>5. CASE LoopCancelled(r) \/ LoopReturns(r)
  <2>1. Attached(r)
    BY <1>5 DEF LoopCancelled, LoopReturns, Attached, LoopPhases
  <2>2. \E ok \in BOOLEAN : Detach(r, ok)
    BY <1>5 DEF LoopCancelled, LoopReturns
  <2> QED BY <2>1, <2>2, DetachRowInv
<1>6. CASE SetOutcome(r)
  <2>1. IsLive(r) /\ run[r].phase \notin LoopPhases /\ "setReg" \in TailPhases \ LoopPhases
    BY <1>6 DEF SetOutcome, IsLive, LoopPhases, TailPhases
  <2>2. \A u \in Tasks : row'[u].result = row[u].result /\ (u # t => row'[u] = row[u])
    BY <1>0, <1>6, <2>1 DEF SetOutcome, RowType
  <2> QED BY <1>1, <1>6, <2>1, <2>2 DEF SetOutcome
<1>7. CASE FinalizeRegistry(r)
  <2>1. IsLive(r) /\ run[r].phase \notin LoopPhases /\ "setRow" \in TailPhases \ LoopPhases
    BY <1>7 DEF FinalizeRegistry, IsLive, LoopPhases, TailPhases
  <2>2. \A u \in Tasks : reg[u] # "none" => reg'[u] # "none"
    BY <1>0, <1>7, <2>1 DEF FinalizeRegistry, RegUpdate
  <2> QED BY <1>1, <1>7, <2>1, <2>2 DEF FinalizeRegistry
<1>8. CASE FinalizeRow(r)
  <2>1. IsLive(r) /\ run[r].phase \notin LoopPhases /\ "setResult" \in TailPhases \ LoopPhases
    BY <1>8 DEF FinalizeRow, IsLive, LoopPhases, TailPhases
  <2>2. \A u \in Tasks : row'[u].result = row[u].result /\ (u # t => row'[u] = row[u])
    BY <1>0, <1>8, <2>1, RowUpdateIs DEF IInv, FinalizeRow
  <2> QED BY <1>1, <1>8, <2>1, <2>2 DEF FinalizeRow
<1>9. CASE SetResult(r)
  <2>1. IsLive(r) /\ run[r].phase \notin LoopPhases /\ t \in Tasks
    BY <1>0, <1>9 DEF SetResult, IsLive, LoopPhases, TailPhases
  <2>2. /\ \A s \in Runs : s # r => run'[s] = run[s]
        /\ run'[r].phase = "release" /\ run'[r].task = t
    BY <1>9, RunGotoIs DEF IInv, SetResult, Phases, TailPhases
  <2>3. /\ \A u \in Tasks : row'[u].status = row[u].status /\ (u # t => row'[u] = row[u])
        /\ row'[t].result = r
    BY <1>0, <1>9, <2>1 DEF SetResult, RowType
  <2>4. UNCHANGED <<reg, activeWf, call, up, owner>>
    BY <1>9 DEF SetResult
  <2>5. \A s \in Runs : /\ IsLive(s)' => IsLive(s) /\ run'[s].task = run[s].task
                        /\ Attached(s) <=> Attached(s)'
                        /\ run'[s].task = run[s].task
    BY <2>1, <2>2 DEF IsLive, Attached, LoopPhases
  <2>6. OwnerKnown' /\ RegKnown'
    BY <2>4, <2>5 DEF RowInv, OwnerKnown, RegKnown
  <2>7. ResultIsOwn'
    BY <1>0, <2>1, <2>3, <2>4 DEF RowInv, ResultIsOwn
  <2>8. LaneIndexExact' /\ NoOrphanRow'
    BY <2>3, <2>4, <2>5 DEF RowInv, LaneIndexExact, NoOrphanRow
  <2> QED BY <2>6, <2>7, <2>8 DEF RowInv
<1>10. CASE Release(r)
  <2>1. /\ \A s \in Runs : s # r => run'[s] = run[s]
        /\ run[r].phase = "release" /\ run'[r].phase = "done"
    BY <1>10 DEF IInv, TypeOK, Release, DoneRun
  <2>2. \A s \in Runs : /\ IsLive(s)' => IsLive(s) /\ run'[s].task = run[s].task
                        /\ Attached(s) <=> Attached(s)'
                        /\ run'[s].task = run[s].task \/ ~Attached(s)
    BY <2>1 DEF IsLive, Attached, LoopPhases, TailPhases
  <2>3. UNCHANGED <<row, reg, activeWf, call, up, owner>>
    BY <1>10 DEF Release
  <2> QED BY <2>2, <2>3, KeepRowInv DEF RowInv, RegKnown
<1> QED BY <1>2, <1>3, <1>4, <1>5, <1>6, <1>7, <1>8, <1>9, <1>10 DEF RunStep

\* A crash empties memory, and the sweep closes every row it finds live before
\* anyone can be answered.
LEMMA ProcessRowInv ==
  ASSUME IInv, RowInv, IInv', Crash \/ BootSweep
  PROVE  RowInv'
<1>1. CASE Crash
  <2>1. /\ \A r \in Runs : run'[r].phase \in {"free", "done"}
        /\ \A c \in Callers : call'[c] = NoCall
    BY <1>1 DEF Crash, NoRun, DoneRun
  <2>2. \A r \in Runs : ~IsLive(r)' /\ ~Attached(r)'
    BY <2>1 DEF IsLive, Attached, LoopPhases, TailPhases
  <2>3. OwnerKnown' /\ RegKnown'
    BY <2>1, <2>2 DEF OwnerKnown, RegKnown, NoCall, Controlling
  <2>4. ResultIsOwn' /\ NoOrphanRow' /\ LaneIndexExact'
    BY <1>1, <2>2 DEF Crash, RowInv, ResultIsOwn, NoOrphanRow, LaneIndexExact
  <2> QED BY <2>3, <2>4 DEF RowInv
<1>2. CASE BootSweep
  <2>1. UNCHANGED <<reg, activeWf, run, call, owner>>
    BY <1>2 DEF BootSweep, memory
  <2>2. OwnerKnown' /\ RegKnown' /\ LaneIndexExact'
    BY <2>1 DEF RowInv, OwnerKnown, RegKnown, LaneIndexExact, IsLive, Attached
  <2>3. \A t \in Tasks : /\ row'[t].status \notin Live
                         /\ row'[t].result > 0 => row'[t].result = row[t].result
    <3> TAKE t \in Tasks
    <3>1. row[t] \in RowType /\ row'[t] = Interrupt(row[t])
      BY <1>2 DEF IInv, TypeOK, BootSweep
    <3>2. CASE row[t].status \in Live
      <4>1. Interrupt(row[t]).status = "interrupted"
        BY <3>1, <3>2 DEF Interrupt, RowType
      <4>2. Interrupt(row[t]).result =
              IF row[t].result = NoResult THEN SweepNote ELSE row[t].result
        BY <3>1, <3>2 DEF Interrupt, RowType
      <4> QED BY <3>1, <4>1, <4>2 DEF Live, SweepNote
    <3>3. CASE row[t].status \notin Live
      BY <3>1, <3>3 DEF Interrupt
    <3> QED BY <3>2, <3>3
  <2>4. ResultIsOwn' /\ NoOrphanRow'
    BY <2>1, <2>3 DEF RowInv, ResultIsOwn, NoOrphanRow
  <2> QED BY <2>2, <2>4 DEF RowInv
<1> QED BY <1>1, <1>2

\* Both layers together are inductive.
LEMMA NextRowInv ==
  ASSUME IInv, RowInv, ~AddressesInDispatch, [Next]_vars
  PROVE  IInv' /\ RowInv'
<1>1. IInv'
  BY NextIInv
<1>2. CASE UNCHANGED vars
  <2>1. RowInv'
    BY <1>2 DEF vars, memory, RowInv, OwnerKnown, RegKnown, ResultIsOwn, LaneIndexExact,
                NoOrphanRow, IsLive, Attached
  <2> QED BY <1>1, <2>1
<1>3. CASE Next
  BY <1>1, <1>3, RequestRowInv, HandlerRowInv, RunRowInv, ProcessRowInv DEF Next
<1> QED BY <1>2, <1>3

----------------------------------------------------------------------------
(* The theorems. *)

\* A run's summary never lands on a row that a later launch of the id owns:
\* finalize_task against upsert_queued.
THEOREM ResultsStayWithTheirRun ==
  ASSUME ~AddressesInDispatch
  PROVE  Spec => []ResultIsOwn
<1>1. Init => IInv /\ RowInv
  BY InitIInv, InitRowInv
<1>2. IInv /\ RowInv /\ [Next]_vars => IInv' /\ RowInv'
  BY NextRowInv
<1>3. RowInv => ResultIsOwn
  BY DEF RowInv
<1> QED BY <1>1, <1>2, <1>3, PTL DEF Spec

\* The lane index never loses a newer run to an older one's detach.
THEOREM LaneIsExact ==
  ASSUME ~AddressesInDispatch
  PROVE  Spec => []LaneIndexExact
<1>1. Init => IInv /\ RowInv
  BY InitIInv, InitRowInv
<1>2. IInv /\ RowInv /\ [Next]_vars => IInv' /\ RowInv'
  BY NextRowInv
<1>3. RowInv => LaneIndexExact
  BY DEF RowInv
<1> QED BY <1>1, <1>2, <1>3, PTL DEF Spec

\* No crash, at any step of any launch, leaves a live row behind once the
\* daemon is up again: the sweep and the registry account for every one.
THEOREM NoOrphans ==
  ASSUME ~AddressesInDispatch
  PROVE  Spec => []NoOrphanRow
<1>1. Init => IInv /\ RowInv
  BY InitIInv, InitRowInv
<1>2. IInv /\ RowInv /\ [Next]_vars => IInv' /\ RowInv'
  BY NextRowInv
<1>3. RowInv => NoOrphanRow
  BY DEF RowInv
<1> QED BY <1>1, <1>2, <1>3, PTL DEF Spec

\* A launch takes an id's row over only when no run is live on it.
THEOREM TakeoverNeedsIdle ==
  ASSUME ~AddressesInDispatch
  PROVE  Spec => RelaunchNeedsIdle
<1> DEFINE Step == \A t \in Tasks :
             owner'[t] # owner[t] => \A r \in Runs : IsLive(r) => run[r].task # t
<1>1. Init => IInv
  BY InitIInv
<1>2. IInv /\ [Next]_vars => IInv'
  BY NextIInv
<1>3. ASSUME IInv, [Next]_vars
      PROVE  [Step]_vars
  <2>1. ASSUME NEW c \in Callers, DispatchPersist(c)
        PROVE  Step
    <3>1. \A r \in Runs : IsLive(r) => run[r].task # call[c].task
      BY <1>3, <2>1, DispatchAlone DEF DispatchPersist, Dispatching
    <3>2. \A t \in Tasks : owner'[t] # owner[t] => t = call[c].task
      BY <1>3, <2>1 DEF DispatchPersist, IInv, TypeOK
    <3> QED BY <3>1, <3>2
  <2>2. ASSUME NEW c \in Callers, HandlerStep(c), ~DispatchPersist(c)
        PROVE  owner' = owner
    BY <2>2 DEF HandlerStep, ResumeLogMissing, ClaimRunSlot, AlreadyRunning,
       DispatchFails, DispatchRegister, SpawnRun, SpawnWithoutRouter, FireToken,
       ControlWriteRow, ControlWriteRegistry
  <2>3. ASSUME NEW c \in Callers, Request(c)
        PROVE  owner' = owner
    BY <2>3 DEF Request, CreateTask, DispatchNew, StartTask, ResumeTask,
       ApplyTaskAction
  <2>4. ASSUME NEW r \in Runs, RunStep(r)
        PROVE  owner' = owner
    BY <2>4 DEF RunStep, MarkRegistryRunning, MarkRowRunning, EnterLoop, LoopCancelled,
       LoopReturns, Detach, SetOutcome, FinalizeRegistry, FinalizeRow, SetResult, Release
  <2>5. Crash \/ BootSweep => owner' = owner
    BY DEF Crash, BootSweep
  <2> QED BY <1>3, <2>1, <2>2, <2>3, <2>4, <2>5 DEF Next
<1>4. (Spec => [][Step]_vars) => (Spec => RelaunchNeedsIdle)
  BY DEF RelaunchNeedsIdle
<1> QED BY <1>1, <1>2, <1>3, <1>4, PTL DEF Spec
============================================================================
