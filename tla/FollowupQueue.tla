--------------------------- MODULE FollowupQueue ---------------------------
(***************************************************************************)
(* A lane's follow-ups and the conversations they are promised in.         *)
(* Clients, turns and workflows queue follow-ups; a workflow that has      *)
(* released its run slot claims the oldest one, re-activates the           *)
(* conversation it was queued in, and spawns it as a turn of its own;      *)
(* clients cancel queued ones.  Every turn, a follow-up's and a user's     *)
(* alike, resolves the lane's conversation in several queries; clients     *)
(* open, activate, archive and delete conversations in between; the        *)
(* daemon shuts down, dies and boots.                                      *)
(*                                                                         *)
(* One step is one hold of the SQLite connection or one in-memory lock.    *)
(* Rows of kind `unprocessed_steering` are in SteeringRail; contents,      *)
(* titles and message counts are left out.                                 *)
(***************************************************************************)
EXTENDS Integers

CONSTANTS
    MaxRows,             \* bound: follow-ups queued in a behaviour
    Unparseable,         \* rows whose principal_json no longer parses
    MaxSessions,         \* bound: conversations opened in a behaviour
    Roots, NoRoot,       \* project roots
    FirstRoot,           \* the project of the conversation the lane starts in
    Users,               \* request ids of the users' turns
    Flows,               \* workflow runs
    MaxMoves,            \* bound: the clients' session and follow-up requests
    MaxCrashes           \* bound: deaths of the process

Rows     == 1..MaxRows
Turns    == Rows \cup Users
Sessions == 1..MaxSessions
NoSession == 0

ASSUME NamesAssumption ==
    /\ NoRoot \notin Roots /\ FirstRoot \in Roots \cup {NoRoot}
    /\ Rows \cap Users = {}
ASSUME BoundsAssumption ==
    /\ MaxRows \in Nat /\ MaxSessions \in Nat \ {0} /\ MaxMoves \in Nat /\ MaxCrashes \in Nat
    /\ Unparseable \subseteq Rows

VARIABLES
    row,       \* lane_followups
    sess,      \* session rows: status and workspace_id
    turn,      \* Gateway::handle_event, a follow-up's turn named by its row
    flow,      \* the background tasks of workflows
    drop,      \* DELETE .../followups/{id}: the row its read saw, 0 if none
    del,       \* DELETE /v1/sessions/{id} past its check
    stopping,  \* daemon_shutdown is cancelled
    up,
    moves, crashes,
    told,      \* history: rows a client was told are cancelled
    begun,     \* history: how often a row's turn was spawned
    strayed,   \* history: turns whose lane was moved while they resolved it
    outbid,    \* history: turns that lost their conversation to another project
    lost       \* history: rows in hand when the process died

vars == <<row, sess, turn, flow, drop, del, stopping, up, moves, crashes,
          told, begun, strayed, outbid, lost>>

Hist == <<told, begun, lost, outbid>>
Env  == <<stopping, up, crashes>>

Active == {s \in Sessions : sess[s].status = "active"}
Known  == {s \in Sessions : sess[s].status \in {"active", "archived"}}

\* The id the next conversation gets; ids are not reused.
IsFresh(s) == /\ sess[s].status = "none"
              /\ \A u \in Sessions : u < s => sess[u].status # "none"

Queued == {i \in Rows : row[i].status = "queued"}

NoRow    == [status |-> "none", ses |-> NoSession, root |-> NoRoot]
NoTurn   == [pc |-> "idle", ses |-> NoSession, root |-> NoRoot]
NoFlow   == [pc |-> "idle", ses |-> NoSession, root |-> NoRoot, row |-> 0]
NoSess   == [status |-> "none", root |-> NoRoot]

\* Turns, or claimed rows, that have not settled on a conversation yet.
Resolving ==
    {t \in Turns : turn[t].pc \in {"read", "get", "open", "reread"}}
    \cup {flow[w].row : w \in {v \in Flows : flow[v].pc = "spawn"}}

Init ==
    /\ row = [i \in Rows |-> NoRow]
    /\ sess = [s \in Sessions |->
                 IF s = 1 THEN [status |-> "active", root |-> FirstRoot] ELSE NoSess]
    /\ turn = [t \in Turns |-> NoTurn]
    /\ flow = [w \in Flows |-> NoFlow]
    /\ drop = 0
    /\ del = NoSession
    /\ stopping = FALSE /\ up = TRUE
    /\ moves = 0 /\ crashes = 0
    /\ told = {}
    /\ begun = [i \in Rows |-> 0]
    /\ strayed = {} /\ outbid = {} /\ lost = {}

Move == up /\ moves < MaxMoves /\ moves' = moves + 1

----------------------------------------------------------------------------
(* The session table.  Each of these is one transaction. *)

ArchiveActive(table) ==
    [s \in Sessions |-> IF table[s].status = "active"
                        THEN [table[s] EXCEPT !.status = "archived"] ELSE table[s]]

\* `s` becomes the lane's conversation; a row that is gone is not updated.
Activated(s) ==
    LET table == ArchiveActive(sess)
    IN  IF s \in Known THEN [table EXCEPT ![s].status = "active"] ELSE table

Created(s, root) ==
    [ArchiveActive(sess) EXCEPT ![s] = [status |-> "active", root |-> root]]

\* Whoever is still resolving the lane no longer sees the lane it began with.
Strays == strayed' = strayed \cup Resolving

CreateSession(s, root) ==
    /\ Move
    /\ IsFresh(s)
    /\ sess' = Created(s, root)
    /\ Strays
    /\ UNCHANGED <<row, turn, flow, drop, del, Hist, Env>>

ActivateSession(s) ==
    /\ Move
    /\ s \in Known \ Active
    /\ sess' = Activated(s)
    /\ Strays
    /\ UNCHANGED <<row, turn, flow, drop, del, Hist, Env>>

ArchiveSession(s) ==
    /\ Move
    /\ s \in Active
    /\ sess' = ArchiveActive(sess)
    /\ Strays
    /\ UNCHANGED <<row, turn, flow, drop, del, Hist, Env>>

\* delete_session refuses a conversation whose own workflow runs, ...
DeleteCheck(s) ==
    /\ Move
    /\ s \in Known
    /\ del = NoSession
    /\ \A w \in Flows : ~(flow[w].pc = "run" /\ flow[w].ses = s)
    /\ del' = s
    /\ UNCHANGED <<row, sess, turn, flow, drop, strayed, Hist, Env>>

\* ... then removes the row and every pin to it.
DeleteSession ==
    /\ up
    /\ del # NoSession
    /\ sess' = [sess EXCEPT ![del] = [status |-> "gone", root |-> NoRoot]]
    /\ row' = [i \in Rows |-> IF row[i].ses = del
                              THEN [row[i] EXCEPT !.ses = NoSession] ELSE row[i]]
    /\ del' = NoSession
    /\ Strays
    /\ UNCHANGED <<turn, flow, drop, moves, Hist, Env>>

----------------------------------------------------------------------------
(* Queueing and cancelling. *)

\* FollowupRepository::queue: pinned to the lane's active conversation.
Queue(root) ==
    \E i \in Rows :
        /\ row[i].status = "none"
        /\ \A j \in Rows : j < i => row[j].status # "none"
        /\ \E s \in IF Active = {} THEN {NoSession} ELSE Active :
               row' = [row EXCEPT ![i] = [status |-> "queued", ses |-> s, root |-> root]]

PostFollowup(root) ==
    /\ Move
    /\ Queue(root)
    /\ UNCHANGED <<sess, turn, flow, drop, del, strayed, Hist, Env>>

\* cancel_followup: the read decides 404, the compare-and-set decides 409.
DropRead(i) ==
    /\ Move
    /\ drop = 0
    /\ row[i].status # "none"
    /\ drop' = i
    /\ UNCHANGED <<row, sess, turn, flow, del, strayed, Hist, Env>>

\* Mutant of CancelIfQueued: mark_cancelled, whatever the row says.
CancelAnyway ==
    /\ up
    /\ drop # 0
    /\ row' = [row EXCEPT ![drop].status = "cancelled"]
    /\ told' = told \cup {drop}
    /\ drop' = 0
    /\ UNCHANGED <<sess, turn, flow, del, moves, begun, lost, strayed, outbid, Env>>

CancelIfQueued ==
    /\ up
    /\ drop # 0
    /\ IF row[drop].status = "queued"
       THEN /\ row' = [row EXCEPT ![drop].status = "cancelled"]
            /\ told' = told \cup {drop}
       ELSE UNCHANGED <<row, told>>
    /\ drop' = 0
    /\ UNCHANGED <<sess, turn, flow, del, moves, begun, lost, strayed, outbid, Env>>

----------------------------------------------------------------------------
(* A turn.  resolve_turn_session and get_or_create_active_session read the *)
(* lane once for the project and again for the conversation.               *)

Turn(t, pc) == up /\ turn[t].pc = pc
TurnAt(t, pc, s) == turn' = [turn EXCEPT ![t].pc = pc, ![t].ses = s]
OthersStray(t) == strayed' = strayed \cup (Resolving \ {t})

\* A turn with no project goes straight to the second read.
Entry(root) == IF root = NoRoot THEN "get" ELSE "read"

UserTurn(t, root) ==
    /\ Move
    /\ ~stopping
    /\ turn[t].pc = "idle"
    /\ turn' = [turn EXCEPT ![t] = [pc |-> Entry(root), ses |-> NoSession, root |-> root]]
    /\ UNCHANGED <<row, sess, flow, drop, del, strayed, Hist, Env>>

\* A conversation of another project is left for a new one.
TurnReads(t) ==
    /\ Turn(t, "read")
    /\ LET other == \E s \in Active : sess[s].root \notin {NoRoot, turn[t].root}
       IN  TurnAt(t, IF other THEN "create" ELSE "get", NoSession)
    /\ UNCHANGED <<row, sess, flow, drop, del, moves, strayed, Hist, Env>>

TurnCreates(t) ==
    /\ Turn(t, "create")
    /\ \E s \in Sessions :
           IsFresh(s) /\ sess' = Created(s, turn[t].root) /\ TurnAt(t, "insert", s)
    /\ OthersStray(t)
    /\ UNCHANGED <<row, flow, drop, del, moves, Hist, Env>>

TurnGets(t) ==
    /\ Turn(t, "get")
    /\ \/ \E s \in Active :
             IF sess[s].root = NoRoot /\ turn[t].root # NoRoot
             THEN TurnAt(t, "bind", s) ELSE TurnAt(t, "insert", s)
       \/ Active = {} /\ TurnAt(t, "open", NoSession)
    /\ UNCHANGED <<row, sess, flow, drop, del, moves, strayed, Hist, Env>>

\* The turns that found conversation `s` unbound and are about to use it for
\* a project other than `root`.
Rivals(s, root) ==
    {u \in Turns : /\ turn[u].root # root
                   /\ \/ turn[u].pc = "get" /\ s \in Active
                      \/ turn[u].pc = "bind" /\ turn[u].ses = s}

\* UPDATE ... WHERE workspace_id IS NULL, then the row is read back by its id.
TurnBinds(t) ==
    /\ Turn(t, "bind")
    /\ LET s == turn[t].ses
       IN  \/ /\ s \in Known /\ sess[s].root = NoRoot
              /\ sess' = [sess EXCEPT ![s].root = turn[t].root]
              /\ outbid' = outbid \cup Rivals(s, turn[t].root)
              /\ TurnAt(t, "insert", s)
           \/ /\ s \in Known /\ sess[s].root # NoRoot
              /\ TurnAt(t, "insert", s)
              /\ UNCHANGED <<sess, outbid>>
           \/ /\ s \notin Known
              /\ TurnAt(t, "handle", NoSession)
              /\ UNCHANGED <<sess, outbid>>
    /\ UNCHANGED <<row, flow, drop, del, moves, strayed, told, begun, lost, Env>>

\* INSERT ... ON CONFLICT DO NOTHING, then whatever is active.
TurnOpens(t) ==
    /\ Turn(t, "open")
    /\ IF Active = {}
       THEN \E s \in Sessions : IsFresh(s) /\ sess' = Created(s, turn[t].root)
       ELSE UNCHANGED sess
    /\ TurnAt(t, "reread", NoSession)
    /\ IF Active = {} THEN OthersStray(t) ELSE UNCHANGED strayed
    /\ UNCHANGED <<row, flow, drop, del, moves, Hist, Env>>

TurnRereads(t) ==
    /\ Turn(t, "reread")
    /\ \/ \E s \in Active : TurnAt(t, "insert", s)
       \/ Active = {} /\ TurnAt(t, "handle", NoSession)
    /\ UNCHANGED <<row, sess, flow, drop, del, moves, strayed, Hist, Env>>

\* The question's row; its conversation may have been deleted by now.
TurnInserts(t) ==
    /\ Turn(t, "insert")
    /\ TurnAt(t, "handle", turn[t].ses)
    /\ UNCHANGED <<row, sess, flow, drop, del, moves, strayed, Hist, Env>>

\* The handler: the main loop's queue_followup, start_workflow, or an answer.
TurnQueues(t) ==
    /\ Turn(t, "handle")
    /\ Queue(turn[t].root)
    /\ UNCHANGED <<sess, turn, flow, drop, del, moves, strayed, Hist, Env>>

TurnDelegates(t, w) ==
    /\ Turn(t, "handle")
    /\ flow[w].pc = "idle"
    /\ flow' = [flow EXCEPT ![w] = [pc |-> "run", ses |-> turn[t].ses,
                                    root |-> turn[t].root, row |-> 0]]
    /\ UNCHANGED <<row, sess, turn, drop, del, moves, strayed, Hist, Env>>

\* Mutant of TurnAnswers: a turn that failed returns before its row is closed.
TurnAnswersOrLeaves(t) ==
    /\ Turn(t, "handle")
    /\ \E pc \in {"close", "done"} : TurnAt(t, pc, turn[t].ses)
    /\ UNCHANGED <<row, sess, flow, drop, del, moves, strayed, Hist, Env>>

\* The answer is stored (or the handler failed), then a follow-up's runner
\* closes its row out, whatever the row says by then.
TurnAnswers(t) ==
    /\ Turn(t, "handle")
    /\ TurnAt(t, IF t \in Rows THEN "close" ELSE "done", turn[t].ses)
    /\ UNCHANGED <<row, sess, flow, drop, del, moves, strayed, Hist, Env>>

MarkDone(t) ==
    /\ Turn(t, "close")
    /\ row' = [row EXCEPT ![t].status = "done"]
    /\ TurnAt(t, "done", turn[t].ses)
    /\ UNCHANGED <<sess, flow, drop, del, moves, strayed, Hist, Env>>

----------------------------------------------------------------------------
(* A workflow, from its loop to the autostart at the end of its task. *)

Flow(w, pc) == up /\ flow[w].pc = pc
FlowGoto(w, pc) == flow' = [flow EXCEPT ![w].pc = pc]

FlowQueues(w) ==
    /\ Flow(w, "run")
    /\ Queue(flow[w].root)
    /\ UNCHANGED <<sess, turn, flow, drop, del, moves, strayed, Hist, Env>>

\* The run detaches from the lane, finalises and releases its slot.
FlowEnds(w) ==
    /\ Flow(w, "run")
    /\ FlowGoto(w, "released")
    /\ UNCHANGED <<row, sess, turn, drop, del, moves, strayed, Hist, Env>>

\* No autostart once the daemon is shutting down.
FlowLooks(w) ==
    /\ Flow(w, "released")
    /\ FlowGoto(w, IF stopping THEN "done" ELSE "claim")
    /\ UNCHANGED <<row, sess, turn, drop, del, moves, strayed, Hist, Env>>

Oldest(i) == i \in Queued /\ \A j \in Queued : i <= j

\* Mutant of Rehomed: the claim leaves the lane where it is.
NotRehomed(s) == sess

\* A row queued before the column, or in a deleted conversation, moves nothing.
Rehomed(s) == IF s = NoSession THEN sess ELSE Activated(s)

\* claim_next: the row and its conversation in one transaction.
ClaimNext(w) ==
    /\ Flow(w, "claim")
    /\ \/ \E i \in Rows :
             /\ Oldest(i)
             /\ row' = [row EXCEPT ![i].status = "running"]
             /\ flow' = [flow EXCEPT ![w].pc = "spawn", ![w].row = i]
             /\ sess' = Rehomed(row[i].ses)
             /\ IF row[i].ses = NoSession THEN UNCHANGED strayed ELSE Strays
       \/ Queued = {} /\ FlowGoto(w, "done") /\ UNCHANGED <<row, sess, strayed>>
    /\ UNCHANGED <<turn, drop, del, moves, Hist, Env>>

SpawnFollowup(w) ==
    LET i == flow[w].row
    IN  /\ Flow(w, "spawn")
        /\ IF i \in Unparseable
           THEN /\ row' = [row EXCEPT ![i].status = "cancelled"]
                /\ UNCHANGED <<turn, begun>>
           ELSE /\ turn' = [turn EXCEPT ![i] = [pc |-> Entry(row[i].root),
                                                ses |-> NoSession, root |-> row[i].root]]
                /\ begun' = [begun EXCEPT ![i] = @ + 1]
                /\ UNCHANGED row
        /\ FlowGoto(w, "done")
        /\ UNCHANGED <<sess, drop, del, moves, told, lost, strayed, outbid, Env>>

----------------------------------------------------------------------------
(* The process. *)

Shutdown ==
    /\ up /\ ~stopping
    /\ stopping' = TRUE
    /\ UNCHANGED <<row, sess, turn, flow, drop, del, up, moves, crashes, strayed, Hist>>

\* What was in memory is gone; a run in flight is swept to `interrupted`.
Die ==
    /\ up
    /\ crashes < MaxCrashes
    /\ up' = FALSE /\ crashes' = crashes + 1
    /\ turn' = [t \in Turns |-> IF turn[t].pc = "idle" THEN NoTurn
                                ELSE [turn[t] EXCEPT !.pc = "done"]]
    /\ flow' = [w \in Flows |-> IF flow[w].pc = "idle" THEN NoFlow
                                ELSE [flow[w] EXCEPT !.pc = "done"]]
    /\ drop' = 0 /\ del' = NoSession
    /\ stopping' = FALSE
    /\ lost' = lost \cup {i \in Rows : row[i].status = "running"}
    /\ UNCHANGED <<row, sess, moves, strayed, outbid, told, begun>>

Boot ==
    /\ ~up
    /\ up' = TRUE
    /\ UNCHANGED <<row, sess, turn, flow, drop, del, stopping, moves, crashes,
                   strayed, Hist>>

TurnStep(t) ==
    \/ TurnReads(t) \/ TurnCreates(t) \/ TurnGets(t) \/ TurnBinds(t)
    \/ TurnOpens(t) \/ TurnRereads(t) \/ TurnInserts(t) \/ TurnAnswers(t) \/ MarkDone(t)
FlowStep(w) == FlowEnds(w) \/ FlowLooks(w) \/ ClaimNext(w) \/ SpawnFollowup(w)

Next ==
    \/ \E s \in Sessions : ActivateSession(s) \/ ArchiveSession(s) \/ DeleteCheck(s)
    \/ \E s \in Sessions, root \in Roots \cup {NoRoot} : CreateSession(s, root)
    \/ DeleteSession
    \/ \E root \in Roots \cup {NoRoot} : PostFollowup(root)
    \/ \E i \in Rows : DropRead(i)
    \/ CancelIfQueued
    \/ \E t \in Users, root \in Roots \cup {NoRoot} : UserTurn(t, root)
    \/ \E t \in Turns : TurnStep(t) \/ TurnQueues(t)
    \/ \E t \in Turns, w \in Flows : TurnDelegates(t, w)
    \/ \E w \in Flows : FlowStep(w) \/ FlowQueues(w)
    \/ Shutdown \/ Die \/ Boot

\* Tokio polls what it spawned: a turn in progress and the tail of a workflow
\* go on.  When a workflow's loop ends, and all that clients do, is not fair.
Fairness ==
    /\ \A t \in Turns : WF_vars(TurnStep(t))
    /\ \A w \in Flows : WF_vars(FlowLooks(w) \/ ClaimNext(w) \/ SpawnFollowup(w))

Spec == Init /\ [][Next]_vars /\ Fairness

----------------------------------------------------------------------------
(* Properties. *)

SessType == [status : {"none", "active", "archived", "gone"}, root : Roots \cup {NoRoot}]

\* Every variable has its type.
TypeOK ==
    /\ row \in [Rows -> [status : {"none", "queued", "running", "done", "cancelled"},
                         ses : Sessions \cup {NoSession}, root : Roots \cup {NoRoot}]]
    /\ sess \in [Sessions -> SessType]
    /\ turn \in [Turns -> [pc : {"idle", "read", "create", "get", "bind", "open", "reread",
                                 "insert", "handle", "close", "done"},
                           ses : Sessions \cup {NoSession}, root : Roots \cup {NoRoot}]]
    /\ flow \in [Flows -> [pc : {"idle", "run", "released", "claim", "spawn", "done"},
                           ses : Sessions \cup {NoSession}, root : Roots \cup {NoRoot},
                           row : Rows \cup {0}]]
    /\ drop \in Rows \cup {0} /\ del \in Sessions \cup {NoSession}
    /\ stopping \in BOOLEAN /\ up \in BOOLEAN
    /\ moves \in 0..MaxMoves /\ crashes \in 0..MaxCrashes
    /\ told \subseteq Rows /\ lost \subseteq Rows
    /\ strayed \subseteq Turns /\ outbid \subseteq Turns
    /\ begun \in [Rows -> Nat]

\* idx_session_active_lane: whatever turns, claims and clients do at once, a
\* lane has at most one active conversation.
OneActive == \A s, u \in Active : s = u

\* Claim and cancel race on `status = 'queued'` and one wins: a row runs at
\* most once, and one whose cancel was answered 200 never runs and stays so.
RunsOnce ==
    \A i \in Rows :
        /\ begun[i] <= 1
        /\ i \in told => begun[i] = 0 /\ row[i].status = "cancelled"

\* A row is `running` only while a claimer or its turn has it in hand; only
\* the death of the process leaves one that nobody will settle.
InHand ==
    \A i \in Rows : row[i].status = "running" =>
        \/ turn[i].pc \notin {"idle", "done"}
        \/ \E w \in Flows : flow[w].pc = "spawn" /\ flow[w].row = i
        \/ i \in lost

\* Follow-ups start in the order they were queued: what was claimed leaves no
\* older row waiting.
OldestFirst ==
    \A i, j \in Rows : j < i /\ begun[i] > 0 => row[j].status # "queued"

Settled(t) == turn[t].pc \in {"insert", "handle", "close"}

\* The conversation a turn may be in: one not bound to another project.
Suits(s, root) == root = NoRoot \/ sess[s].root \in {NoRoot, root}

\* Unless somebody moved the lane while it was resolving, a follow-up's turn
\* is in the conversation it was queued in, if that is (or can be made) its
\* project's.
RunsWherePromised ==
    \A i \in Rows : Settled(i) /\ i \notin strayed =>
        \/ row[i].ses \in {NoSession, turn[i].ses}
        \/ ~Suits(row[i].ses, row[i].root)

\* Unless somebody moved the lane, or took its unbound conversation for another
\* project, while it was resolving, no turn is in a conversation of another
\* project.
InItsProject ==
    \A t \in Turns : Settled(t) /\ t \notin strayed \cup outbid /\ turn[t].ses \in Known =>
        Suits(turn[t].ses, turn[t].root)

\* The claim as a promise to the user who queued a follow-up: it starts once,
\* in turn, never after a cancel that was answered, and no row is left
\* `running` by anything but the death of the process (claim_next,
\* cancel_if_queued, the dispatcher's tail).
ClaimDiscipline == RunsOnce /\ InHand /\ OldestFirst

\* Where a turn ends up: the lane has one active conversation, and every turn
\* that nobody overtook, a follow-up's or not, is in the conversation it was
\* promised and in its own project (claim_next, resolve_turn_session).
RightPlace == TypeOK /\ OneActive /\ RunsWherePromised /\ InItsProject

\* A claimed follow-up is closed out, unless the process dies.
ClaimSettles ==
    \A i \in Rows : row[i].status = "running" ~> row[i].status # "running" \/ i \in lost

----------------------------------------------------------------------------
(* Two comments' sentences as they stand (section 6). *)

\* "a claimed row whose session was not re-activated runs in the wrong place":
\* a follow-up's turn is in the conversation it was queued in.
NeverInTheWrongPlace ==
    \A i \in Rows : Settled(i) =>
        \/ row[i].ses \in {NoSession, turn[i].ses}
        \/ ~Suits(row[i].ses, row[i].root)

\* "a project change [is answered] with a new session": a turn whose lane
\* nobody moved never lands in a session bound to another project.
NeverInAnotherProject ==
    \A t \in Turns : Settled(t) /\ t \notin strayed /\ turn[t].ses \in Known =>
        Suits(turn[t].ses, turn[t].root)

============================================================================
