------------------------- MODULE ConversationState -------------------------
(***************************************************************************)
(* A lane's conversations and their working states.  A conversation (the   *)
(* `session` row) keeps its message rows and one working state: a digest   *)
(* of every row up to `through`, under an optimistic version.  Turns read  *)
(* the conversation in several queries, run a loop that may compact, and   *)
(* leave a background job that writes the state; the learning queue's      *)
(* close refreshes it too; the user switches conversations and clears one. *)
(*                                                                         *)
(* A working state is modelled by the set of rows it was written from; a   *)
(* message is its row id, and whether it has a text: a question of         *)
(* attachments alone has none.  Each query and each update of SQLite is    *)
(* one step, because the connection's lock is released in between.  Rows   *)
(* that a memory forget took back, which every writer passes on purpose,   *)
(* rows of other roles and the deletion of a whole session are left out.   *)
(***************************************************************************)
EXTENDS Integers, FiniteSets

CONSTANTS
    Sessions, NoSession,  \* conversations of the lane modelled
    Turns, NoTurn,        \* request ids
    Closers,              \* the learning queue's closes
    MaxRows,              \* bound: message rows in a behaviour
    History,              \* rows the first conversation holds at the start
    First,                \* the conversation the lane starts in
    RecentLimit,          \* prompt_recent_messages
    MinRecent,            \* min_recent_messages
    MinNew,               \* summary_min_new_older_messages
    MaxMoves,             \* bound: the user's switches, archives and clears
    OlderCap,             \* rows one read behind the window takes (500)
    WindowCap             \* WINDOW_READ_ROWS (400)

ASSUME NamesAssumption ==
    /\ NoSession \notin Sessions
    /\ NoTurn \notin Turns
    /\ First \in Sessions
    /\ Turns \cap Closers = {}
ASSUME LimitsAssumption ==
    /\ MaxRows \in Nat /\ History \in 0..MaxRows
    /\ {RecentLimit, MinRecent, MinNew, MaxMoves, OlderCap, WindowCap} \subseteq Nat

VARIABLES
    msg,       \* conversation_messages, by id; a deleted row is in no session
    last,      \* the last id given out; ids are never reused
    sess,      \* session rows: version, through, working state
    active,    \* the lane's active session
    clearing,  \* conversations whose rows a clear deleted, state not yet reset
    turn,      \* the turns
    writer,    \* `write`, for a turn's background job or a close
    close,     \* the closes
    mark,      \* compacted_states
    unread,    \* history: rows a query behind the window should have found
    moves      \* the user's switches, archives and clears so far

vars == <<msg, last, sess, active, clearing, turn, writer, close, mark, unread, moves>>

Ids     == 1..MaxRows
Writers == Turns \cup Closers

NoMsg    == [ses |-> NoSession, turn |-> NoTurn, role |-> "none", text |-> FALSE]
Unknown  == [known |-> FALSE, ver |-> 0, through |-> 0, state |-> {}]
NoMark   == [ver |-> 0 - 1, through |-> 0]
NoCtx    == [ses |-> NoSession, ver |-> 0, through |-> 0, state |-> {}]
NoTurnYet == [pc |-> "idle", ses |-> NoSession, row |-> 0, ctx |-> NoCtx,
              window |-> {}, older |-> {}, top |-> 0]
NoWrite  == [pc |-> "idle", ses |-> NoSession, ver |-> 0, through |-> 0,
             state |-> {}, compacted |-> FALSE]
NoClose  == [pc |-> "idle", ses |-> NoSession, ctx |-> NoCtx, busy |-> {},
             rows |-> {}, open |-> {}]

RowsOf(s) == {i \in Ids : msg[i].ses = s}

Worded(S) == {i \in S : msg[i].text}

\* The rows that a state which passes them has to hold: those with a text, but
\* for what a failed query or the limit of one kept from a turn.
Owed(s) == Worded(RowsOf(s)) \ unread

\* ORDER BY id LIMIT n, from either end.
FirstN(S, n) == {i \in S : Cardinality({j \in S : j <= i}) <= n}
LastN(S, n)  == {i \in S : Cardinality({j \in S : j >= i}) <= n}
IsLast(i, S) == i \in S /\ \A j \in S : j <= i

\* The request ids LearningQueue holds: from before the user row exists until
\* after the answer's row was written.
InFlight == {t \in Turns : turn[t].pc \notin {"idle", "done"}}

Init ==
    /\ \E wordless \in SUBSET {i \in 1..History : i % 2 = 1} :
          msg = [i \in Ids |->
                   IF i <= History
                   THEN [ses |-> First, turn |-> NoTurn, text |-> i \notin wordless,
                         role |-> IF i % 2 = 1 THEN "user" ELSE "assistant"]
                   ELSE NoMsg]
    /\ last = History
    /\ sess = [s \in Sessions |->
                IF s = First THEN [Unknown EXCEPT !.known = TRUE] ELSE Unknown]
    /\ active = First
    /\ clearing = {}
    /\ turn = [t \in Turns |-> NoTurnYet]
    /\ writer = [w \in Writers |-> NoWrite]
    /\ close = [c \in Closers |-> NoClose]
    /\ mark = [s \in Sessions |-> NoMark]
    /\ unread = {}
    /\ moves = 0

----------------------------------------------------------------------------
(* The user's sessions. *)

Move == moves < MaxMoves /\ moves' = moves + 1

\* create_session_inheriting: the incumbent steps down in the same transaction.
CreateSession(s) ==
    /\ Move
    /\ ~sess[s].known
    /\ sess' = [sess EXCEPT ![s].known = TRUE]
    /\ active' = s
    /\ UNCHANGED <<msg, last, clearing, turn, writer, close, mark, unread>>

ActivateSession(s) ==
    /\ Move
    /\ sess[s].known
    /\ active # s
    /\ active' = s
    /\ UNCHANGED <<msg, last, sess, clearing, turn, writer, close, mark, unread>>

ArchiveSession(s) ==
    /\ Move
    /\ active = s
    /\ active' = NoSession
    /\ UNCHANGED <<msg, last, sess, clearing, turn, writer, close, mark, unread>>

\* DELETE /v1/chat/history: the rows go, then the state.
ClearRows(s) ==
    /\ Move
    /\ sess[s].known
    /\ s \notin clearing
    /\ msg' = [i \in Ids |->
                 IF msg[i].ses = s THEN [msg[i] EXCEPT !.ses = NoSession] ELSE msg[i]]
    /\ clearing' = clearing \cup {s}
    /\ UNCHANGED <<last, sess, active, turn, writer, close, mark, unread>>

ClearState(s) ==
    /\ s \in clearing
    /\ sess' = [sess EXCEPT ![s] = [Unknown EXCEPT !.known = TRUE]]
    /\ clearing' = clearing \ {s}
    /\ UNCHANGED <<msg, last, active, turn, writer, close, mark, unread, moves>>

----------------------------------------------------------------------------
(* A turn. *)

Insert(s, t, role, text) ==
    /\ last < MaxRows
    /\ msg' = [msg EXCEPT ![last + 1] =
                  [ses |-> s, turn |-> t, role |-> role, text |-> text]]
    /\ last' = last + 1

StartTurn(t) ==
    /\ turn[t].pc = "idle"
    /\ turn' = [turn EXCEPT ![t].pc = "started"]
    /\ UNCHANGED <<msg, last, sess, active, clearing, writer, close, mark, unread, moves>>

\* persist_user_message resolves lane -> session once and pins it: the active
\* one, or a new one when there is none or the turn's project is another.
PersistUser(t) ==
    /\ turn[t].pc = "started"
    /\ \E s \in Sessions, text \in BOOLEAN :
          /\ s = active \/ ~sess[s].known
          /\ Insert(s, t, "user", text)
          /\ sess' = [sess EXCEPT ![s].known = TRUE]
          /\ active' = s
          /\ turn' = [turn EXCEPT ![t] =
                       [@ EXCEPT !.pc = "handling", !.ses = s, !.row = last + 1]]
    /\ UNCHANGED <<clearing, writer, close, mark, unread, moves>>

\* The handler is through; what it read is dropped.
Answer(t) ==
    turn' = [turn EXCEPT ![t] = [NoTurnYet EXCEPT !.pc = "answer", !.ses = turn[t].ses]]

\* A task or memory command is answered before any context is built.
Command(t) ==
    /\ turn[t].pc = "handling"
    /\ Answer(t)
    /\ UNCHANGED <<msg, last, sess, active, clearing, writer, close, mark, unread, moves>>

ContextOf(s) ==
    [ses |-> s, ver |-> sess[s].ver, through |-> sess[s].through, state |-> sess[s].state]

\* build_context step 1: the lane's active session, whichever that is by now.
ActiveContext == IF active = NoSession THEN NoCtx ELSE ContextOf(active)

ReadSession(t) ==
    /\ turn[t].pc = "handling"
    /\ turn' = [turn EXCEPT ![t] = [@ EXCEPT !.pc = "recent", !.ctx = ActiveContext]]
    /\ UNCHANGED <<msg, last, sess, active, clearing, writer, close, mark, unread, moves>>

\* Steps 2 and 3: the newest rows, without the turn's own at the end.
RecentRows(t) ==
    LET recent == LastN(RowsOf(turn[t].ctx.ses), RecentLimit)
    IN  {i \in recent : ~(i = turn[t].row /\ IsLast(i, recent))}

\* CQ-4: after a compaction the window starts past the rows the state covers,
\* keeping MinRecent of them.
WindowStart(W, ctx) ==
    IF mark[ctx.ses] = [ver |-> ctx.ver, through |-> ctx.through]
    THEN {i \in W : i > ctx.through \/ i \in LastN(W, MinRecent)}
    ELSE W

ReadRecent(t) ==
    /\ turn[t].pc = "recent"
    /\ turn[t].ctx.ses # NoSession
    /\ turn' = [turn EXCEPT ![t] =
                  [@ EXCEPT !.pc = "older", !.top = last,
                            !.window = WindowStart(RecentRows(t), turn[t].ctx)]]
    /\ UNCHANGED <<msg, last, sess, active, clearing, writer, close, mark, unread, moves>>

\* Mutant of Behind: an upper bound that stops a row short of the window.
BehindShort(t) ==
    {i \in RowsOf(turn[t].ctx.ses) :
        /\ i > turn[t].ctx.through
        /\ \A j \in turn[t].window : i + 1 < j}

\* Step 5's range: past `through`, before the window.
Behind(t) ==
    {i \in RowsOf(turn[t].ctx.ses) :
        /\ i > turn[t].ctx.through
        /\ \A j \in turn[t].window : i < j}

\* The window keeps a question of attachments alone, this query leaves it out;
\* and one that fails counts as one that found nothing.
ReadOlder(t) ==
    /\ turn[t].pc = "older"
    /\ \E found \in {FirstN(Behind(t), OlderCap), {}} :
          /\ turn' = [turn EXCEPT ![t] =
                        [@ EXCEPT !.pc = "loop", !.older = Worded(found)]]
          /\ unread' = unread \cup (Behind(t) \ found)
    /\ UNCHANGED <<msg, last, sess, active, clearing, writer, close, mark, moves>>

\* No active conversation, or one of the first two queries failed: whatever the
\* loop is given, the turn's end has no row to write to.
LoopWithoutSession(t) ==
    /\ turn[t].pc = "recent"
    /\ Answer(t)
    /\ UNCHANGED <<msg, last, sess, active, clearing, writer, close, mark, unread, moves>>

\* after_turn hands a state to `write`.
HandOver(t, state, through, compacted) ==
    writer' = [writer EXCEPT ![t] =
        [pc |-> "write", ses |-> turn[t].ctx.ses, ver |-> turn[t].ctx.ver,
         through |-> through, state |-> state, compacted |-> compacted]]

\* Mutant of Trusted: the assembly trim is not looked at.
TrustedAlways(dropped, roomy) == roomy

\* Cursor::new: the state may pass the rows only when the trim dropped none and
\* none stands at messages[1], which a compaction keeps without reading it.
Trusted(dropped, roomy) == dropped = {} /\ roomy

\* The loop compacted.  The trim dropped the window's oldest rows, up to cut;
\* the writer read the kept ones up to `upto`, and the question and the tool
\* results after it when the boundary lay past the rows.  A loop that compacts
\* again may read rows beyond those it passes; nothing relies on them.
LoopCompacts(t) ==
    LET T == turn[t] IN
    /\ T.pc = "loop"
    /\ \E cut, upto \in 0..MaxRows, roomy, query \in BOOLEAN :
        LET dropped == {i \in T.window : i <= cut}
            read    == {i \in T.window : i > cut /\ i <= upto}
            behind  == IF Trusted(dropped, roomy) THEN T.older ELSE {}
            passed  == IF Trusted(dropped, roomy) THEN read \cup behind ELSE {}
        IN  /\ query => dropped \cup read = T.window
            /\ read # {} \/ query
            /\ \E through \in passed \cup {T.ctx.through} :
                /\ IsLast(through, passed \cup {T.ctx.through})
                /\ HandOver(t, T.ctx.state \cup behind \cup read
                                 \cup (IF query THEN {T.row} ELSE {}),
                            through, TRUE)
    /\ Answer(t)
    /\ UNCHANGED <<msg, last, sess, active, clearing, close, mark, unread, moves>>

\* The loop did not compact, and the lag rule finds enough rows to fold in.
LoopLags(t) ==
    LET T == turn[t] IN
    /\ T.pc = "loop"
    /\ T.older # {}
    /\ Cardinality(T.older) >= MinNew
    /\ \E through \in T.older :
        /\ IsLast(through, T.older)
        /\ HandOver(t, T.ctx.state \cup T.older, through, FALSE)
    /\ Answer(t)
    /\ UNCHANGED <<msg, last, sess, active, clearing, close, mark, unread, moves>>

\* Too few rows, the daily ceiling is spent, or the call failed.
LoopPlain(t) ==
    /\ turn[t].pc = "loop"
    /\ Answer(t)
    /\ UNCHANGED <<msg, last, sess, active, clearing, writer, close, mark, unread, moves>>

\* Mutant of AnswerSession: the lane is asked again.
AnswerSessionOfLane(t) == IF active = NoSession THEN turn[t].ses ELSE active

AnswerSession(t) == turn[t].ses

PersistAnswer(t) ==
    /\ turn[t].pc = "answer"
    /\ Insert(AnswerSession(t), t, "assistant", TRUE)
    /\ turn' = [turn EXCEPT ![t].pc = "finish"]
    /\ UNCHANGED <<sess, active, clearing, writer, close, mark, unread, moves>>

\* The handler failed, or answered with nothing.
NoAnswer(t) ==
    /\ turn[t].pc = "answer"
    /\ turn' = [turn EXCEPT ![t].pc = "finish"]
    /\ UNCHANGED <<msg, last, sess, active, clearing, writer, close, mark, unread, moves>>

FinishTurn(t) ==
    /\ turn[t].pc = "finish"
    /\ turn' = [turn EXCEPT ![t] = [NoTurnYet EXCEPT !.pc = "done"]]
    /\ UNCHANGED <<msg, last, sess, active, clearing, writer, close, mark, unread, moves>>

----------------------------------------------------------------------------
(* `write`: compare-and-set on the version, with one blind retry. *)

Update(w) ==
    sess' = [sess EXCEPT ![writer[w].ses] =
                [known |-> @.known, ver |-> @.ver + 1,
                 through |-> writer[w].through, state |-> writer[w].state]]

Landed(w) ==
    writer' = [writer EXCEPT ![w] =
                  IF writer[w].compacted THEN [@ EXCEPT !.pc = "mark"] ELSE NoWrite]

VersionHolds(w) == sess[writer[w].ses].ver = writer[w].ver

WriteLands(w) ==
    /\ writer[w].pc \in {"write", "rewrite"}
    /\ VersionHolds(w)
    /\ Update(w)
    /\ Landed(w)
    /\ UNCHANGED <<msg, last, active, clearing, turn, close, mark, unread, moves>>

WriteMisses(w) ==
    /\ writer[w].pc = "write"
    /\ ~VersionHolds(w)
    /\ writer' = [writer EXCEPT ![w].pc = "reread"]
    /\ UNCHANGED <<msg, last, sess, active, clearing, turn, close, mark, unread, moves>>

Reread(w) ==
    /\ writer[w].pc = "reread"
    /\ writer' = [writer EXCEPT ![w] =
                    [@ EXCEPT !.pc = "rewrite", !.ver = sess[writer[w].ses].ver]]
    /\ UNCHANGED <<msg, last, sess, active, clearing, turn, close, mark, unread, moves>>

WriteDiscarded(w) ==
    /\ writer[w].pc = "rewrite"
    /\ ~VersionHolds(w)
    /\ writer' = [writer EXCEPT ![w] = NoWrite]
    /\ UNCHANGED <<msg, last, sess, active, clearing, turn, close, mark, unread, moves>>

\* after_turn: the pair the compaction's write left on the row.
MarkCompacted(w) ==
    /\ writer[w].pc = "mark"
    /\ mark' = [mark EXCEPT ![writer[w].ses] =
                   [ver |-> writer[w].ver + 1, through |-> writer[w].through]]
    /\ writer' = [writer EXCEPT ![w] = NoWrite]
    /\ UNCHANGED <<msg, last, sess, active, clearing, turn, close, unread, moves>>

----------------------------------------------------------------------------
(* The close's refresh. *)

CloseStart(c) ==
    /\ close[c].pc = "idle"
    /\ writer[c].pc = "idle"
    /\ \E s \in Sessions :
          /\ sess[s].known
          /\ close' = [close EXCEPT ![c] =
                          [NoClose EXCEPT !.pc = "session", !.ses = s,
                                          !.busy = InFlight]]
    /\ UNCHANGED <<msg, last, sess, active, clearing, turn, writer, mark, unread, moves>>

CloseReadSession(c) ==
    /\ close[c].pc = "session"
    /\ close' = [close EXCEPT ![c] =
                   [@ EXCEPT !.pc = "rows", !.ctx = ContextOf(close[c].ses)]]
    /\ UNCHANGED <<msg, last, sess, active, clearing, turn, writer, mark, unread, moves>>

PastState(c) == {i \in RowsOf(close[c].ses) : i > close[c].ctx.through}

\* learning_window.  `open` is history: the turns whose answer is still to come.
CloseReadRows(c) ==
    /\ close[c].pc = "rows"
    /\ close' = [close EXCEPT ![c] =
                   [@ EXCEPT !.pc = "decide",
                             !.rows = FirstN(PastState(c), WindowCap),
                             !.open = {t \in InFlight : turn[t].pc # "finish"}]]
    /\ UNCHANGED <<msg, last, sess, active, clearing, turn, writer, mark, unread, moves>>

Busy(c) == close[c].busy \cup InFlight

\* The rows before the first user row of a turn in flight.
Settled(c) ==
    {i \in close[c].rows :
        \A j \in close[c].rows :
            msg[j].role = "user" /\ msg[j].turn \in Busy(c) => i < j}

CloseDecide(c) ==
    /\ close[c].pc = "decide"
    /\ \E i \in Settled(c) : msg[i].role = "user"
    /\ \E through \in Settled(c) :
        /\ IsLast(through, Settled(c))
        /\ writer' = [writer EXCEPT ![c] =
               [pc |-> "write", ses |-> close[c].ses, ver |-> close[c].ctx.ver,
                through |-> through, state |-> close[c].ctx.state \cup Worded(Settled(c)),
                compacted |-> FALSE]]
    /\ close' = [close EXCEPT ![c] = NoClose]
    /\ UNCHANGED <<msg, last, sess, active, clearing, turn, mark, unread, moves>>

\* Nothing to fold in, the ceiling is spent, the call failed or the chat is busy.
CloseHeld(c) ==
    /\ close[c].pc \in {"session", "rows", "decide"}
    /\ close' = [close EXCEPT ![c] = NoClose]
    /\ UNCHANGED <<msg, last, sess, active, clearing, turn, writer, mark, unread, moves>>

----------------------------------------------------------------------------
UserStep == \E s \in Sessions :
    \/ CreateSession(s) \/ ActivateSession(s) \/ ArchiveSession(s)
    \/ ClearRows(s) \/ ClearState(s)

TurnStep == \E t \in Turns :
    \/ StartTurn(t) \/ PersistUser(t) \/ Command(t)
    \/ ReadSession(t) \/ ReadRecent(t) \/ ReadOlder(t)
    \/ LoopWithoutSession(t) \/ LoopCompacts(t) \/ LoopLags(t) \/ LoopPlain(t)
    \/ PersistAnswer(t) \/ NoAnswer(t) \/ FinishTurn(t)

WriterStep == \E w \in Writers :
    \/ WriteLands(w) \/ WriteMisses(w) \/ Reread(w) \/ WriteDiscarded(w)
    \/ MarkCompacted(w)

CloseStep == \E c \in Closers :
    \/ CloseStart(c) \/ CloseReadSession(c) \/ CloseReadRows(c)
    \/ CloseDecide(c) \/ CloseHeld(c)

Next == UserStep \/ TurnStep \/ WriterStep \/ CloseStep

Spec == Init /\ [][Next]_vars

----------------------------------------------------------------------------
(* Properties. *)

TurnPcs  == {"idle", "started", "handling", "recent", "older", "loop", "answer",
             "finish", "done"}
WritePcs == {"idle", "write", "reread", "rewrite", "mark"}
ClosePcs == {"idle", "session", "rows", "decide"}
MsgType  == [ses : Sessions \cup {NoSession}, turn : Turns \cup {NoTurn},
             role : {"none", "user", "assistant"}, text : BOOLEAN]
SessType == [known : BOOLEAN, ver : Nat, through : Nat, state : SUBSET Ids]
Ctx      == [ses : Sessions \cup {NoSession}, ver : Nat, through : Nat,
             state : SUBSET Ids]
TurnType == [pc : TurnPcs, ses : Sessions \cup {NoSession}, row : 0..MaxRows,
             ctx : Ctx, window : SUBSET Ids, older : SUBSET Ids, top : 0..MaxRows]
WriterType == [pc : WritePcs, ses : Sessions \cup {NoSession}, ver : Nat,
               through : Nat, state : SUBSET Ids, compacted : BOOLEAN]
CloseType == [pc : ClosePcs, ses : Sessions \cup {NoSession}, ctx : Ctx,
              busy : SUBSET Turns, rows : SUBSET Ids, open : SUBSET Turns]

\* Every variable stays in the range the code gives it.
TypeOK ==
    /\ msg \in [Ids -> MsgType]
    /\ last \in 0..MaxRows
    /\ sess \in [Sessions -> SessType]
    /\ active \in Sessions \cup {NoSession}
    /\ clearing \subseteq Sessions
    /\ turn \in [Turns -> TurnType]
    /\ writer \in [Writers -> WriterType]
    /\ close \in [Closers -> CloseType]
    /\ mark \in [Sessions -> [ver : Int, through : Nat]]
    /\ unread \subseteq Ids
    /\ moves \in 0..MaxMoves

\* `through` is what every reader trusts: a row at or before it is never read
\* again, so whoever wrote the state -- a compaction, the lag refresh, a close,
\* a stale one of these through the blind retry -- must have read every row of
\* the conversation up to it that has a text, but for those that a failed query
\* or the limit of one kept from a turn.
Coverage ==
    \A s \in Sessions : \A i \in Owed(s) :
        i <= sess[s].through => i \in sess[s].state

\* build_context reads the state, the window and the rows between in three
\* queries, with writers and the compaction mark free to move in between; no
\* row of the conversation that has a text may fall between the three, unless
\* the last query failed or ran into its limit.
NothingFallsBetween ==
    \A t \in Turns : turn[t].pc = "loop" =>
        \A i \in Owed(turn[t].ctx.ses) :
            i <= turn[t].top =>
                i \in turn[t].ctx.state \cup turn[t].window \cup turn[t].older
                      \cup {turn[t].row}

\* The answer lands in the conversation the question was asked in, however the
\* user moved the lane while the loop ran.
TurnInOneConversation ==
    \A i, j \in Ids :
        (msg[i].turn \in Turns /\ msg[i].turn = msg[j].turn)
        => msg[i].ses = msg[j].ses \/ NoSession \in {msg[i].ses, msg[j].ses}

\* What a clear promises: once it has answered, no working state holds a row it
\* deleted.
ClearForgets ==
    clearing = {} =>
        \A s \in Sessions : \A i \in sess[s].state : msg[i].ses # NoSession

\* A state computed for one conversation does not land in another.
StateOfOwnConversation ==
    \A s \in Sessions : \A i \in sess[s].state : msg[i].ses \in {s, NoSession}

\* "Stops before the row instead of learning a turn whose answer has not
\* landed": a close that reads between a question and its answer leaves the
\* question out.
FlushStopsAtOpenTurn ==
    \A c \in Closers : close[c].pc = "decide" =>
        \A i \in Settled(c) :
            msg[i].role = "user" => msg[i].turn \notin close[c].open

\* "The state may pass the rows only when every row before them is read": also
\* when a query behind the window failed or ran into its limit.
PassedIsRead ==
    \A s \in Sessions : \A i \in Worded(RowsOf(s)) :
        i <= sess[s].through => i \in sess[s].state

\* The same of a question of attachments alone.
AttachmentsRead ==
    \A s \in Sessions : \A i \in RowsOf(s) \ unread :
        i <= sess[s].through => i \in sess[s].state

----------------------------------------------------------------------------
(* What Coverage rests on: the inductive invariant, which ConversationProofs proves. *)

\* What a state that reaches `through` has to hold of a conversation.
Knows(s, state, through) ==
    /\ through <= last
    /\ \A i \in Owed(s) : i <= through => i \in state

\* Ids not yet given out are in no conversation.
FreshIds == \A i \in Ids : i > last => msg[i].ses = NoSession

SessionOK(s) == Knows(s, sess[s].state, sess[s].through)

\* The window holds every row past `through` between two of its own.
Gapless(t) ==
    LET T == turn[t] IN
    /\ \A i \in T.window : i <= last
    /\ \A i, k \in T.window : \A j \in RowsOf(T.ctx.ses) :
          j > T.ctx.through /\ i < j /\ j < k => j \in T.window

\* The rows read behind the window are all there were to be read.
OlderFull(t) ==
    LET T == turn[t] IN
    /\ \A i \in T.older : i <= last /\ \A k \in T.window : i < k
    /\ \A j \in Owed(T.ctx.ses) :
          /\ j > T.ctx.through
          /\ \A k \in T.window : j < k
          /\ \E k \in T.window \cup T.older : j <= k
          => j \in T.older

TurnOK(t) ==
    /\ turn[t].ctx.ses \in Sessions =>
           Knows(turn[t].ctx.ses, turn[t].ctx.state, turn[t].ctx.through)
    /\ turn[t].pc \in {"older", "loop"} => turn[t].ctx.ses \in Sessions /\ Gapless(t)
    /\ turn[t].pc = "loop" => OlderFull(t)
    /\ turn[t].pc \in {"handling", "recent", "older", "loop"} => turn[t].row \in Ids

\* Whatever `write` was handed, fresh or stale, is safe to land.
WriterOK(w) ==
    writer[w].pc # "idle" =>
        /\ writer[w].ses \in Sessions
        /\ Knows(writer[w].ses, writer[w].state, writer[w].through)

CloseOK(c) ==
    /\ close[c].pc # "idle" => close[c].ses \in Sessions
    /\ close[c].pc \in {"rows", "decide"} =>
           Knows(close[c].ses, close[c].ctx.state, close[c].ctx.through)
    /\ close[c].pc = "decide" =>
           /\ \A i \in close[c].rows : i <= last
           /\ \A k \in close[c].rows : \A j \in RowsOf(close[c].ses) :
                 j > close[c].ctx.through /\ j < k => j \in close[c].rows

\* What the types rest on: an open turn has its question's row, a read its
\* conversation, and so has every write and close.
Placed ==
    /\ TypeOK
    /\ \A t \in Turns :
          /\ turn[t].pc \in {"older", "loop"} => turn[t].ctx.ses \in Sessions
          /\ turn[t].pc \in {"handling", "recent", "older", "loop"} => turn[t].row \in Ids
    /\ \A w \in Writers : writer[w].pc # "idle" => writer[w].ses \in Sessions
    /\ \A c \in Closers : close[c].pc # "idle" => close[c].ses \in Sessions

IInv ==
    /\ TypeOK
    /\ FreshIds
    /\ \A s \in Sessions : SessionOK(s)
    /\ \A t \in Turns : TurnOK(t)
    /\ \A w \in Writers : WriterOK(w)
    /\ \A c \in Closers : CloseOK(c)
=============================================================================
