------------------------ MODULE ConversationProofs ------------------------
(***************************************************************************)
(* Why no working state claims a row it was not written from: Coverage     *)
(* for any number of conversations, turns, closes and failed reads.        *)
(***************************************************************************)
EXTENDS ConversationState, FiniteSetTheorems, TLAPS

----------------------------------------------------------------------------
(* The working state: what every part of it keeps. *)

USE NamesAssumption, LimitsAssumption

\* The invariant has what the types rest on.
LEMMA IInvPlaced == IInv => Placed
  BY DEF IInv, Placed, TurnOK, WriterOK, CloseOK

\* The starting conversation has no state yet.
LEMMA InitIInv == Init => IInv
<1> SUFFICES ASSUME Init PROVE IInv
  OBVIOUS
<1>1. TypeOK
  <2>1. /\ msg \in [Ids -> MsgType]
        /\ last \in 0..MaxRows
    <3>1. PICK wordless \in SUBSET {i \in 1..History : i % 2 = 1} :
            msg = [i \in Ids |->
                     IF i <= History
                     THEN [ses |-> First, turn |-> NoTurn, text |-> i \notin wordless,
                           role |-> IF i % 2 = 1 THEN "user" ELSE "assistant"]
                     ELSE NoMsg]
      BY DEF Init
    <3>2. msg \in [Ids -> MsgType]
      BY <3>1 DEF NoMsg, MsgType
    <3> QED
      BY <3>2 DEF Init
  <2>2. sess \in [Sessions -> SessType]
    BY DEF Init, Unknown, SessType
  <2>3. NoCtx \in Ctx
    BY DEF NoCtx, Ctx
  <2>4. turn \in [Turns -> TurnType]
    BY <2>3 DEF Init, NoTurnYet, TurnType, TurnPcs
  <2>5. writer \in [Writers -> WriterType]
    BY DEF Init, NoWrite, WriterType, WritePcs
  <2>6. close \in [Closers -> CloseType]
    BY <2>3 DEF Init, NoClose, CloseType, ClosePcs
  <2>7. mark \in [Sessions -> [ver : Int, through : Nat]] /\ moves \in 0..MaxMoves
    BY DEF Init, NoMark
  <2> QED
    BY <2>1, <2>2, <2>4, <2>5, <2>6, <2>7
    DEF Init, TypeOK
<1>2. FreshIds
  BY DEF Init, FreshIds, Ids, NoMsg
<1>3. \A s \in Sessions : SessionOK(s)
  BY DEF Init, SessionOK, Knows, Owed, Worded, RowsOf, Ids, Unknown
<1>4. \A t \in Turns : TurnOK(t)
  BY DEF Init, TurnOK, NoTurnYet, NoCtx
<1>5. \A w \in Writers : WriterOK(w)
  BY DEF Init, WriterOK, NoWrite
<1>6. \A c \in Closers : CloseOK(c)
  BY DEF Init, CloseOK, NoClose
<1> QED
  BY <1>1, <1>2, <1>3, <1>4, <1>5, <1>6 DEF IInv

----------------------------------------------------------------------------
(* Rows. *)

\* A step adds rows past the last id and takes rows out; it never moves a row
\* into a conversation or gives it a text, and what was not read stays so.
OnlyNewRows ==
    /\ last <= last'
    /\ unread \subseteq unread'
    /\ \A i \in Ids : i <= last /\ msg'[i].ses \in Sessions =>
          msg'[i].ses = msg[i].ses /\ msg'[i].text = msg[i].text

\* A session row that comes into being keeps its type.
LEMMA KnownType ==
  ASSUME TypeOK, NEW s \in Sessions, sess' = [sess EXCEPT ![s].known = TRUE]
  PROVE  sess' \in [Sessions -> SessType]
<1>1. sess \in [Sessions -> SessType] /\ sess[s] \in SessType
  BY DEF TypeOK
<1>2. [sess[s] EXCEPT !.known = TRUE] \in SessType
  BY <1>1 DEF SessType
<1> QED
  BY <1>1, <1>2

\* The user's steps keep the types.
LEMMA UserType ==
  ASSUME TypeOK, NEW s \in Sessions,
         \/ CreateSession(s) \/ ActivateSession(s) \/ ArchiveSession(s)
         \/ ClearRows(s) \/ ClearState(s)
  PROVE  TypeOK'
<1> USE DEF TypeOK
<1>1. CASE CreateSession(s)
  <2>1. sess' \in [Sessions -> SessType]
    BY <1>1, KnownType DEF CreateSession
  <2> QED
    BY <1>1, <2>1 DEF CreateSession, Move
<1>2. CASE ActivateSession(s)
  BY <1>2 DEF ActivateSession, Move
<1>3. CASE ArchiveSession(s)
  BY <1>3 DEF ArchiveSession, Move
<1>4. CASE ClearRows(s)
  <2>1. msg' \in [Ids -> MsgType]
    BY <1>4 DEF ClearRows, MsgType
  <2> QED
    BY <1>4, <2>1 DEF ClearRows, Move
<1>5. CASE ClearState(s)
  BY <1>5 DEF ClearState, Unknown, SessType
<1> QED
  BY <1>1, <1>2, <1>3, <1>4, <1>5

\* A new row has the type of a row.
LEMMA InsertType ==
  ASSUME TypeOK, NEW s \in Sessions \cup {NoSession}, NEW t \in Turns,
         NEW role \in {"user", "assistant"}, NEW text \in BOOLEAN, Insert(s, t, role, text)
  PROVE  msg' \in [Ids -> MsgType] /\ last' \in 0..MaxRows /\ last + 1 \in 0..MaxRows
  BY DEF TypeOK, Insert, MsgType, Ids

\* One turn changes, to a record of its type.
LEMMA TurnSet ==
  ASSUME TypeOK, NEW t \in Turns, NEW r \in TurnType, turn' = [turn EXCEPT ![t] = r]
  PROVE  /\ turn' \in [Turns -> TurnType]
         /\ turn'[t] = r
         /\ \A u \in Turns : u # t => turn'[u] = turn[u]
  BY DEF TypeOK

\* What Answer leaves of a turn.
LEMMA AnswerIs ==
  ASSUME TypeOK, NEW t \in Turns, Answer(t)
  PROVE  /\ turn' \in [Turns -> TurnType]
         /\ turn'[t].pc = "answer" /\ turn'[t].ctx = NoCtx
         /\ \A u \in Turns : u # t => turn'[u] = turn[u]
<1> DEFINE r == [NoTurnYet EXCEPT !.pc = "answer", !.ses = turn[t].ses]
<1>1. NoTurnYet \in TurnType /\ NoTurnYet.ctx = NoCtx
  BY DEF NoTurnYet, NoCtx, Ctx, TurnType, TurnPcs
<1>2. turn[t].ses \in Sessions \cup {NoSession}
  BY DEF TypeOK, TurnType
<1>3. r \in TurnType /\ r.pc = "answer" /\ r.ctx = NoCtx
  BY <1>1, <1>2 DEF TurnType, TurnPcs
<1>4. turn' = [turn EXCEPT ![t] = r]
  BY DEF Answer
<1> HIDE DEF r
<1> QED
  BY <1>3, <1>4, TurnSet

\* Numbers and rows a writer is handed.
LEMMA HandOverType ==
  ASSUME TypeOK, NEW t \in Turns, NEW state \in SUBSET Ids, NEW through \in Nat,
         NEW compacted \in BOOLEAN, HandOver(t, state, through, compacted)
  PROVE  writer' \in [Writers -> WriterType]
  BY DEF TypeOK, HandOver, TurnType, Ctx, WriterType, WritePcs, Writers

\* What a compaction hands over: a range of the window behind the trim's cut,
\* and every row read behind it when the cursor is trusted.
LEMMA CompactHands ==
  ASSUME IInv, NEW t \in Turns, LoopCompacts(t)
  PROVE  \E state \in SUBSET Ids, through \in Nat :
           /\ HandOver(t, state, through, TRUE)
           /\ turn[t].ctx.state \subseteq state
           /\ \/ through = turn[t].ctx.through
              \/ /\ turn[t].older \subseteq state
                 /\ \A i \in turn[t].window : i <= through => i \in state
                 /\ through \in turn[t].window \cup turn[t].older
<1> DEFINE T == turn[t]
<1>1. PICK cut, upto \in 0..MaxRows, roomy, query \in BOOLEAN :
        LET dropped == {i \in T.window : i <= cut}
            read    == {i \in T.window : i > cut /\ i <= upto}
            behind  == IF Trusted(dropped, roomy) THEN T.older ELSE {}
            passed  == IF Trusted(dropped, roomy) THEN read \cup behind ELSE {}
        IN  /\ query => dropped \cup read = T.window
            /\ read # {} \/ query
            /\ \E through \in passed \cup {T.ctx.through} :
                /\ IsLast(through, passed \cup {T.ctx.through})
                /\ HandOver(t, T.ctx.state \cup behind \cup read
                                 \cup (IF query THEN {T.row} ELSE {}),
                            through, TRUE)
  BY DEF LoopCompacts
<1> DEFINE dropped == {i \in T.window : i <= cut}
           read    == {i \in T.window : i > cut /\ i <= upto}
           behind  == IF Trusted(dropped, roomy) THEN T.older ELSE {}
           passed  == IF Trusted(dropped, roomy) THEN read \cup behind ELSE {}
           state   == T.ctx.state \cup behind \cup read
                        \cup (IF query THEN {T.row} ELSE {})
<1>2. PICK through \in passed \cup {T.ctx.through} : HandOver(t, state, through, TRUE)
  BY <1>1
<1>3. T \in TurnType
  BY DEF IInv, TypeOK
<1>4. state \in SUBSET Ids /\ through \in Nat
  <2>1. T.row \in Ids
    BY DEF IInv, TurnOK, LoopCompacts
  <2> QED
    BY <1>3, <2>1 DEF TurnType, Ctx, Ids
<1>5. CASE through = T.ctx.through
  BY <1>2, <1>4, <1>5
<1>6. CASE through # T.ctx.through
  <2>1. Trusted(dropped, roomy) /\ through \in read \cup T.older
    BY <1>6
  <2>2. T.older \subseteq state /\ dropped = {}
    BY <2>1 DEF Trusted
  <2>3. \A i \in T.window : i <= through => i \in state
    <3>1. \A i \in T.window, k \in T.older : k < i
      BY <1>3 DEF IInv, TurnOK, OlderFull, LoopCompacts
    <3>2. /\ \A i \in T.window : i \in Nat
          /\ \A k \in T.older : k \in Nat
      BY <1>3 DEF TurnType, Ids
    <3>3. CASE through \in T.older
      BY <1>4, <3>1, <3>2, <3>3
    <3>4. CASE through \in read
      BY <1>1, <1>4, <2>2, <3>2, <3>4
    <3> QED
      BY <2>1, <3>3, <3>4
  <2>4. /\ HandOver(t, state, through, TRUE)
        /\ T.ctx.state \subseteq state
        /\ through \in T.window \cup T.older
    BY <1>2, <2>1
  <2> HIDE DEF state
  <2> QED
    BY <1>4, <2>2, <2>3, <2>4
<1> QED
  BY <1>5, <1>6

\* Whatever a compaction hands over has its type.
LEMMA CompactTyped ==
  ASSUME Placed, NEW t \in Turns, LoopCompacts(t)
  PROVE  \E state \in SUBSET Ids, through \in Nat : HandOver(t, state, through, TRUE)
<1> DEFINE T == turn[t]
<1>1. PICK cut, upto \in 0..MaxRows, roomy, query \in BOOLEAN :
        LET dropped == {i \in T.window : i <= cut}
            read    == {i \in T.window : i > cut /\ i <= upto}
            behind  == IF Trusted(dropped, roomy) THEN T.older ELSE {}
            passed  == IF Trusted(dropped, roomy) THEN read \cup behind ELSE {}
        IN  /\ query => dropped \cup read = T.window
            /\ read # {} \/ query
            /\ \E through \in passed \cup {T.ctx.through} :
                /\ IsLast(through, passed \cup {T.ctx.through})
                /\ HandOver(t, T.ctx.state \cup behind \cup read
                                 \cup (IF query THEN {T.row} ELSE {}),
                            through, TRUE)
  BY DEF LoopCompacts
<1> DEFINE dropped == {i \in T.window : i <= cut}
           read    == {i \in T.window : i > cut /\ i <= upto}
           behind  == IF Trusted(dropped, roomy) THEN T.older ELSE {}
           passed  == IF Trusted(dropped, roomy) THEN read \cup behind ELSE {}
           state   == T.ctx.state \cup behind \cup read
                        \cup (IF query THEN {T.row} ELSE {})
<1>2. T \in TurnType /\ T.row \in Ids
  BY DEF Placed, TypeOK, LoopCompacts
<1>3. PICK through \in passed \cup {T.ctx.through} : HandOver(t, state, through, TRUE)
  BY <1>1
<1>4. state \in SUBSET Ids /\ through \in Nat
  BY <1>2 DEF TurnType, Ctx, Ids
<1> HIDE DEF state
<1> QED
  BY <1>3, <1>4

\* A turn's steps keep the types.
LEMMA TurnStepType ==
  ASSUME Placed, NEW t \in Turns,
         \/ StartTurn(t) \/ PersistUser(t) \/ Command(t)
         \/ ReadSession(t) \/ ReadRecent(t) \/ ReadOlder(t)
         \/ LoopWithoutSession(t) \/ LoopCompacts(t) \/ LoopLags(t) \/ LoopPlain(t)
         \/ PersistAnswer(t) \/ NoAnswer(t) \/ FinishTurn(t)
  PROVE  TypeOK'
<1>0. TypeOK /\ turn[t] \in TurnType
  BY DEF Placed, TypeOK
<1>1. CASE StartTurn(t)
  BY <1>0, <1>1 DEF TypeOK, StartTurn, TurnType, TurnPcs
<1>2. CASE PersistUser(t)
  <2> PICK s \in Sessions, text \in BOOLEAN :
        /\ Insert(s, t, "user", text)
        /\ sess' = [sess EXCEPT ![s].known = TRUE]
        /\ active' = s
        /\ turn' = [turn EXCEPT ![t] =
                       [@ EXCEPT !.pc = "handling", !.ses = s, !.row = last + 1]]
    BY <1>2 DEF PersistUser
  <2>1. /\ msg' \in [Ids -> MsgType] /\ last' \in 0..MaxRows /\ last + 1 \in 0..MaxRows
    BY <1>0, InsertType
  <2>2. sess' \in [Sessions -> SessType]
    BY <1>0, KnownType
  <2>3. [turn[t] EXCEPT !.pc = "handling", !.ses = s, !.row = last + 1] \in TurnType
    BY <1>0, <2>1 DEF TurnType, TurnPcs
  <2>4. turn' \in [Turns -> TurnType]
    BY <1>0, <2>3, TurnSet
  <2> QED
    BY <1>0, <1>2, <2>1, <2>2, <2>4 DEF TypeOK, PersistUser
<1>3. CASE Command(t) \/ LoopWithoutSession(t) \/ LoopPlain(t)
  BY <1>0, <1>3, AnswerIs DEF TypeOK, Command, LoopWithoutSession, LoopPlain
<1>4. CASE ReadSession(t)
  <2> DEFINE c == ActiveContext
  <2>1. c \in Ctx
    BY <1>0 DEF TypeOK, SessType, Ctx, NoCtx, ActiveContext, ContextOf
  <2>2. turn' = [turn EXCEPT ![t] = [@ EXCEPT !.pc = "recent", !.ctx = c]]
    BY <1>4 DEF ReadSession
  <2> HIDE DEF c
  <2>3. [turn[t] EXCEPT !.pc = "recent", !.ctx = c] \in TurnType
    BY <1>0, <2>1 DEF TurnType, TurnPcs
  <2>4. turn' \in [Turns -> TurnType]
    BY <1>0, <2>2, <2>3, TurnSet
  <2> QED
    BY <1>0, <1>4, <2>4 DEF TypeOK, ReadSession
<1>5. CASE ReadRecent(t)
  <2> DEFINE w == WindowStart(RecentRows(t), turn[t].ctx)
  <2>1. w \in SUBSET Ids
    BY DEF WindowStart, RecentRows, LastN, RowsOf
  <2>2. turn' = [turn EXCEPT ![t] = [@ EXCEPT !.pc = "older", !.top = last, !.window = w]]
    BY <1>5 DEF ReadRecent
  <2> HIDE DEF w
  <2>3. [turn[t] EXCEPT !.pc = "older", !.top = last, !.window = w] \in TurnType
    <3>1. last \in 0..MaxRows
      BY <1>0 DEF TypeOK
    <3> QED
      BY <1>0, <2>1, <3>1 DEF TurnType, TurnPcs
  <2>4. turn' \in [Turns -> TurnType]
    BY <1>0, <2>2, <2>3, TurnSet
  <2> QED
    BY <1>0, <1>5, <2>4 DEF TypeOK, ReadRecent
<1>6. CASE ReadOlder(t)
  <2>1. PICK found \in {FirstN(Behind(t), OlderCap), {}} :
           /\ turn' = [turn EXCEPT ![t] = [@ EXCEPT !.pc = "loop", !.older = Worded(found)]]
           /\ unread' = unread \cup (Behind(t) \ found)
    BY <1>6 DEF ReadOlder
  <2> DEFINE o == Worded(found)
  <2>2. o \in SUBSET Ids /\ unread' \subseteq Ids
    BY <1>0, <2>1 DEF Worded, FirstN, Behind, RowsOf, TypeOK
  <2>5. turn' = [turn EXCEPT ![t] = [@ EXCEPT !.pc = "loop", !.older = o]]
    BY <2>1
  <2> HIDE DEF o
  <2>3. [turn[t] EXCEPT !.pc = "loop", !.older = o] \in TurnType
    BY <1>0, <2>2 DEF TurnType, TurnPcs
  <2>4. turn' \in [Turns -> TurnType]
    BY <1>0, <2>3, <2>5, TurnSet
  <2> QED
    BY <1>0, <1>6, <2>2, <2>4 DEF TypeOK, ReadOlder
<1>7. CASE LoopCompacts(t)
  <2>1. turn' \in [Turns -> TurnType]
    BY <1>0, <1>7, AnswerIs DEF LoopCompacts
  <2>2. writer' \in [Writers -> WriterType]
    BY <1>0, <1>7, CompactTyped, HandOverType
  <2> QED
    BY <1>0, <1>7, <2>1, <2>2 DEF TypeOK, LoopCompacts
<1>8. CASE LoopLags(t)
  <2>1. turn' \in [Turns -> TurnType]
    BY <1>0, <1>8, AnswerIs DEF LoopLags
  <2>2. PICK through \in turn[t].older :
          HandOver(t, turn[t].ctx.state \cup turn[t].older, through, FALSE)
    BY <1>8 DEF LoopLags
  <2>3. through \in Nat /\ turn[t].ctx.state \cup turn[t].older \in SUBSET Ids
    BY <1>0 DEF TurnType, Ctx, Ids
  <2>4. writer' \in [Writers -> WriterType]
    BY <1>0, <2>2, <2>3, HandOverType
  <2> QED
    BY <1>0, <1>8, <2>1, <2>4 DEF TypeOK, LoopLags
<1>9. CASE PersistAnswer(t)
  <2>1. AnswerSession(t) \in Sessions \cup {NoSession}
    BY <1>0 DEF TypeOK, AnswerSession, TurnType
  <2>2. msg' \in [Ids -> MsgType] /\ last' \in 0..MaxRows
    BY <1>0, <1>9, <2>1, InsertType DEF PersistAnswer
  <2>3. turn' \in [Turns -> TurnType]
    <3>1. [turn[t] EXCEPT !.pc = "finish"] \in TurnType
      BY <1>0 DEF TurnType, TurnPcs
    <3> QED
      BY <1>0, <1>9, <3>1, TurnSet DEF PersistAnswer
  <2> QED
    BY <1>0, <1>9, <2>2, <2>3 DEF TypeOK, PersistAnswer
<1>10. CASE NoAnswer(t)
  BY <1>0, <1>10 DEF TypeOK, NoAnswer, TurnType, TurnPcs
<1>11. CASE FinishTurn(t)
  <2>1. [NoTurnYet EXCEPT !.pc = "done"] \in TurnType
    BY DEF NoTurnYet, NoCtx, Ctx, TurnType, TurnPcs
  <2>2. turn' \in [Turns -> TurnType]
    BY <1>0, <1>11, <2>1, TurnSet DEF FinishTurn
  <2> QED
    BY <1>0, <1>11, <2>2 DEF TypeOK, FinishTurn
<1> QED
  BY <1>1, <1>2, <1>3, <1>4, <1>5, <1>6, <1>7, <1>8, <1>9, <1>10, <1>11

\* A writer's steps keep the types.
LEMMA WriterStepType ==
  ASSUME Placed, NEW w \in Writers,
         \/ WriteLands(w) \/ WriteMisses(w) \/ Reread(w) \/ WriteDiscarded(w)
         \/ MarkCompacted(w)
  PROVE  TypeOK'
<1>0. TypeOK /\ writer[w] \in WriterType
  BY DEF Placed, TypeOK
<1>1. writer[w].pc # "idle" /\ writer[w].ses \in Sessions
  BY DEF Placed, WriteLands, WriteMisses, Reread, WriteDiscarded, MarkCompacted
<1>2. ASSUME NEW r \in WriterType, writer' = [writer EXCEPT ![w] = r]
      PROVE  writer' \in [Writers -> WriterType]
  BY <1>0, <1>2 DEF TypeOK
<1>3. NoWrite \in WriterType
  BY DEF NoWrite, WriterType, WritePcs
<1>4. sess[writer[w].ses] \in SessType
  BY <1>0, <1>1 DEF TypeOK
<1>5. CASE WriteLands(w)
  <2>1. [writer[w] EXCEPT !.pc = "mark"] \in WriterType
    BY <1>0 DEF WriterType, WritePcs
  <2>2. writer' \in [Writers -> WriterType]
    BY <1>2, <1>3, <1>5, <2>1 DEF WriteLands, Landed
  <2> DEFINE r == [known |-> sess[writer[w].ses].known,
                   ver |-> sess[writer[w].ses].ver + 1,
                   through |-> writer[w].through, state |-> writer[w].state]
  <2>3. r \in SessType
    BY <1>0, <1>4 DEF SessType, WriterType
  <2>4. sess' = [sess EXCEPT ![writer[w].ses] = r]
    BY <1>5 DEF WriteLands, Update
  <2> HIDE DEF r
  <2>5. sess' \in [Sessions -> SessType]
    BY <1>0, <2>3, <2>4 DEF TypeOK
  <2> QED
    BY <1>0, <1>5, <2>2, <2>5 DEF TypeOK, WriteLands
<1>6. CASE WriteMisses(w)
  <2>1. [writer[w] EXCEPT !.pc = "reread"] \in WriterType
    BY <1>0 DEF WriterType, WritePcs
  <2>2. writer' \in [Writers -> WriterType]
    BY <1>2, <1>6, <2>1 DEF WriteMisses
  <2> QED
    BY <1>0, <1>6, <2>2 DEF TypeOK, WriteMisses
<1>7. CASE Reread(w)
  <2>1. [writer[w] EXCEPT !.pc = "rewrite", !.ver = sess[writer[w].ses].ver] \in WriterType
    BY <1>0, <1>4 DEF WriterType, WritePcs, SessType
  <2>2. writer' \in [Writers -> WriterType]
    BY <1>2, <1>7, <2>1 DEF Reread
  <2> QED
    BY <1>0, <1>7, <2>2 DEF TypeOK, Reread
<1>8. CASE WriteDiscarded(w)
  <2>1. writer' \in [Writers -> WriterType]
    BY <1>2, <1>3, <1>8 DEF WriteDiscarded
  <2> QED
    BY <1>0, <1>8, <2>1 DEF TypeOK, WriteDiscarded
<1>9. CASE MarkCompacted(w)
  <2>1. writer' \in [Writers -> WriterType]
    BY <1>2, <1>3, <1>9 DEF MarkCompacted
  <2>2. [ver |-> writer[w].ver + 1, through |-> writer[w].through]
           \in [ver : Int, through : Nat]
    BY <1>0 DEF WriterType
  <2>3. mark' \in [Sessions -> [ver : Int, through : Nat]]
    BY <1>0, <1>9, <2>2 DEF TypeOK, MarkCompacted
  <2> QED
    BY <1>0, <1>9, <2>1, <2>3 DEF TypeOK, MarkCompacted
<1> QED
  BY <1>5, <1>6, <1>7, <1>8, <1>9

\* One close changes, to a record of its type.
LEMMA CloseSet ==
  ASSUME TypeOK, NEW c \in Closers, NEW r \in CloseType, close' = [close EXCEPT ![c] = r]
  PROVE  /\ close' \in [Closers -> CloseType]
         /\ close'[c] = r
         /\ \A d \in Closers : d # c => close'[d] = close[d]
  BY DEF TypeOK

\* A close's steps keep the types.
LEMMA CloseStepType ==
  ASSUME Placed, NEW c \in Closers,
         \/ CloseStart(c) \/ CloseReadSession(c) \/ CloseReadRows(c)
         \/ CloseDecide(c) \/ CloseHeld(c)
  PROVE  TypeOK'
<1>0. TypeOK /\ close[c] \in CloseType
  BY DEF Placed, TypeOK
<1>1. NoClose \in CloseType
  BY DEF NoClose, NoCtx, Ctx, CloseType, ClosePcs
<1>2. CASE CloseStart(c)
  <2> PICK s \in Sessions :
        close' = [close EXCEPT ![c] =
                     [NoClose EXCEPT !.pc = "session", !.ses = s, !.busy = InFlight]]
    BY <1>2 DEF CloseStart
  <2>1. InFlight \in SUBSET Turns
    BY DEF InFlight
  <2>2. [NoClose EXCEPT !.pc = "session", !.ses = s, !.busy = InFlight] \in CloseType
    BY <1>1, <2>1 DEF CloseType, ClosePcs
  <2>3. close' \in [Closers -> CloseType]
    BY <1>0, <2>2, CloseSet
  <2> QED
    BY <1>0, <1>2, <2>3 DEF TypeOK, CloseStart
<1>3. CASE CloseReadSession(c)
  <2>1. close[c].ses \in Sessions
    BY <1>3 DEF Placed, CloseReadSession
  <2>2. ContextOf(close[c].ses) \in Ctx
    BY <1>0, <2>1 DEF TypeOK, SessType, Ctx, ContextOf
  <2>3. [close[c] EXCEPT !.pc = "rows", !.ctx = ContextOf(close[c].ses)] \in CloseType
    BY <1>0, <2>2 DEF CloseType, ClosePcs
  <2>4. close' \in [Closers -> CloseType]
    BY <1>0, <1>3, <2>3, CloseSet DEF CloseReadSession
  <2> QED
    BY <1>0, <1>3, <2>4 DEF TypeOK, CloseReadSession
<1>4. CASE CloseReadRows(c)
  <2> DEFINE taken == FirstN(PastState(c), WindowCap)
             open == {t \in InFlight : turn[t].pc # "finish"}
  <2>1. taken \in SUBSET Ids /\ open \in SUBSET Turns
    BY DEF FirstN, PastState, RowsOf, InFlight
  <2>2. close' = [close EXCEPT ![c] =
                     [@ EXCEPT !.pc = "decide", !.rows = taken, !.open = open]]
    BY <1>4 DEF CloseReadRows
  <2> HIDE DEF taken, open
  <2>3. [close[c] EXCEPT !.pc = "decide", !.rows = taken, !.open = open] \in CloseType
    BY <1>0, <2>1 DEF CloseType, ClosePcs
  <2>4. close' \in [Closers -> CloseType]
    BY <1>0, <2>2, <2>3, CloseSet
  <2> QED
    BY <1>0, <1>4, <2>4 DEF TypeOK, CloseReadRows
<1>5. CASE CloseDecide(c)
  <2>1. close' \in [Closers -> CloseType]
    BY <1>0, <1>1, <1>5, CloseSet DEF CloseDecide
  <2>2. PICK through \in Settled(c) :
          writer' = [writer EXCEPT ![c] =
            [pc |-> "write", ses |-> close[c].ses, ver |-> close[c].ctx.ver,
             through |-> through, state |-> close[c].ctx.state \cup Worded(Settled(c)),
             compacted |-> FALSE]]
    BY <1>5 DEF CloseDecide
  <2>3. Worded(Settled(c)) \subseteq Ids /\ through \in Nat
    BY <1>0 DEF Worded, Settled, CloseType, Ids
  <2>4. [pc |-> "write", ses |-> close[c].ses, ver |-> close[c].ctx.ver,
         through |-> through, state |-> close[c].ctx.state \cup Worded(Settled(c)),
         compacted |-> FALSE] \in WriterType
    BY <1>0, <2>3 DEF WriterType, WritePcs, CloseType, Ctx
  <2>5. writer' \in [Writers -> WriterType]
    BY <1>0, <2>2, <2>4 DEF TypeOK, Writers
  <2> QED
    BY <1>0, <1>5, <2>1, <2>5 DEF TypeOK, CloseDecide
<1>6. CASE CloseHeld(c)
  <2>1. close' \in [Closers -> CloseType]
    BY <1>0, <1>1, <1>6, CloseSet DEF CloseHeld
  <2> QED
    BY <1>0, <1>6, <2>1 DEF TypeOK, CloseHeld
<1> QED
  BY <1>2, <1>3, <1>4, <1>5, <1>6

\* Every step keeps the types.
LEMMA NextType == Placed /\ [Next]_vars => TypeOK'
<1> SUFFICES ASSUME Placed, [Next]_vars PROVE TypeOK'
  OBVIOUS
<1>0. TypeOK
  BY DEF Placed
<1>1. CASE UserStep
  BY <1>0, <1>1, UserType DEF UserStep
<1>2. CASE TurnStep
  BY <1>2, TurnStepType DEF TurnStep
<1>3. CASE WriterStep
  BY <1>3, WriterStepType DEF WriterStep
<1>4. CASE CloseStep
  BY <1>4, CloseStepType DEF CloseStep
<1>5. CASE UNCHANGED vars
  BY <1>0, <1>5 DEF TypeOK, vars
<1> QED
  BY <1>1, <1>2, <1>3, <1>4, <1>5 DEF Next

----------------------------------------------------------------------------
(* Rows are only added past the last id. *)

\* Insert uses the next id.
LEMMA InsertNew ==
  ASSUME TypeOK, FreshIds, NEW s, NEW t, NEW role, NEW text, Insert(s, t, role, text), unread' = unread
  PROVE  OnlyNewRows /\ FreshIds'
<1>1. /\ last \in Nat /\ last + 1 \in Ids /\ last' = last + 1
      /\ \A i \in Ids : i # last + 1 => msg'[i] = msg[i]
  BY DEF TypeOK, Insert, Ids
<1>2. \A i \in Ids : i \in Nat
  BY DEF Ids
<1> QED
  BY <1>1, <1>2 DEF FreshIds, OnlyNewRows

\* Every step only adds rows past the last id or takes rows out.
LEMMA RowsStep ==
  ASSUME IInv, [Next]_vars
  PROVE  OnlyNewRows /\ FreshIds'
<1>0. TypeOK /\ FreshIds
  BY DEF IInv
<1>1. ASSUME msg' = msg, last' = last, unread \subseteq unread'
      PROVE  OnlyNewRows /\ FreshIds'
  BY <1>0, <1>1 DEF OnlyNewRows, FreshIds, TypeOK
<1>2. ASSUME NEW s \in Sessions, ClearRows(s)
      PROVE  OnlyNewRows /\ FreshIds'
  BY <1>0, <1>2 DEF OnlyNewRows, FreshIds, TypeOK, ClearRows, MsgType
<1>3. CASE UserStep
  <2> PICK s \in Sessions : \/ CreateSession(s) \/ ActivateSession(s) \/ ArchiveSession(s)
                            \/ ClearRows(s) \/ ClearState(s)
    BY <1>3 DEF UserStep
  <2>1. (msg' = msg /\ last' = last /\ unread' = unread) \/ ClearRows(s)
    BY DEF CreateSession, ActivateSession, ArchiveSession, ClearState
  <2> QED
    BY <1>1, <1>2, <2>1
<1>4. CASE TurnStep
  <2> PICK t \in Turns :
         \/ StartTurn(t) \/ PersistUser(t) \/ Command(t)
         \/ ReadSession(t) \/ ReadRecent(t) \/ ReadOlder(t)
         \/ LoopWithoutSession(t) \/ LoopCompacts(t) \/ LoopLags(t) \/ LoopPlain(t)
         \/ PersistAnswer(t) \/ NoAnswer(t) \/ FinishTurn(t)
    BY <1>4 DEF TurnStep
  <2>1. CASE PersistUser(t)
    BY <1>0, <2>1, InsertNew DEF PersistUser
  <2>2. CASE PersistAnswer(t)
    BY <1>0, <2>2, InsertNew DEF PersistAnswer
  <2>3. CASE msg' = msg /\ last' = last /\ unread \subseteq unread'
    BY <1>1, <2>3
  <2> QED
    BY <2>1, <2>2, <2>3
    DEF StartTurn, Command, ReadSession, ReadRecent, ReadOlder, LoopWithoutSession,
        LoopCompacts, LoopLags, LoopPlain, NoAnswer, FinishTurn
<1>5. CASE WriterStep
  BY <1>1, <1>5
  DEF WriterStep, WriteLands, WriteMisses, Reread, WriteDiscarded, MarkCompacted
<1>6. CASE CloseStep
  BY <1>1, <1>6
  DEF CloseStep, CloseStart, CloseReadSession, CloseReadRows, CloseDecide, CloseHeld
<1>7. CASE UNCHANGED vars
  BY <1>1, <1>7 DEF vars
<1> QED
  BY <1>3, <1>4, <1>5, <1>6, <1>7 DEF Next

\* A row a conversation has after a step it had before, unless its id is new.
LEMMA OldRow ==
  ASSUME OnlyNewRows, NEW s \in Sessions, NEW i \in RowsOf(s)', i <= last
  PROVE  i \in RowsOf(s)
  BY DEF OnlyNewRows, RowsOf

\* So with the rows a state has to hold.
LEMMA OldOwed ==
  ASSUME OnlyNewRows, NEW s \in Sessions, NEW i \in Owed(s)', i <= last
  PROVE  i \in Owed(s)
  BY DEF OnlyNewRows, Owed, Worded, RowsOf

\* A state that knows a conversation goes on knowing it.
LEMMA StillKnows ==
  ASSUME TypeOK, OnlyNewRows, TypeOK', NEW s \in Sessions, NEW state, NEW through \in Nat,
         Knows(s, state, through)
  PROVE  Knows(s, state, through)'
<1>1. last \in Nat /\ last' \in Nat /\ last <= last' /\ through <= last
  BY DEF TypeOK, OnlyNewRows, Knows
<1>2. \A i \in Owed(s)' : i \in Nat
  BY DEF Owed, Worded, RowsOf, Ids
<1>3. ASSUME NEW i \in Owed(s)', i <= through
      PROVE  i \in state
  <2>1. i \in Owed(s)
    BY <1>1, <1>2, <1>3, OldOwed
  <2> QED
    BY <1>3, <2>1 DEF Knows
<1> QED
  BY <1>1, <1>3 DEF Knows

----------------------------------------------------------------------------
(* What nobody touched stays right while rows are added. *)

\* A session row whose state and `through` stay is still covered.
LEMMA SameSession ==
  ASSUME TypeOK, OnlyNewRows, TypeOK', NEW s \in Sessions, SessionOK(s),
         sess'[s].state = sess[s].state, sess'[s].through = sess[s].through
  PROVE  SessionOK(s)'
<1>1. sess[s].through \in Nat
  BY DEF TypeOK, SessType
<1> QED
  BY <1>1, StillKnows DEF SessionOK

\* A writer that keeps its state, or is done, is still safe to land.
LEMMA SameWriter ==
  ASSUME TypeOK, OnlyNewRows, TypeOK', NEW w \in Writers, WriterOK(w),
         \/ writer'[w].pc = "idle"
         \/ /\ writer[w].pc # "idle"
            /\ writer'[w].ses = writer[w].ses
            /\ writer'[w].state = writer[w].state
            /\ writer'[w].through = writer[w].through
  PROVE  WriterOK(w)'
<1>1. writer[w].through \in Nat
  BY DEF TypeOK, WriterType
<1> QED
  BY <1>1, StillKnows DEF WriterOK

\* What a turn has read is still true of the rows it read.
LEMMA SameTurn ==
  ASSUME TypeOK, OnlyNewRows, TypeOK', NEW t \in Turns, TurnOK(t), turn'[t] = turn[t]
  PROVE  TurnOK(t)'
<1> DEFINE T == turn[t]
<1>1. T \in TurnType /\ T.ctx.through \in Nat /\ T.window \subseteq Ids
      /\ T.older \subseteq Ids
  BY DEF TypeOK, TurnType, Ctx
<1>2. T.ctx.ses \in Sessions => Knows(T.ctx.ses, T.ctx.state, T.ctx.through)'
  BY <1>1, StillKnows DEF TurnOK
<1>3. /\ last \in Nat /\ last' \in Nat /\ last <= last'
      /\ \A i \in Ids : i \in Nat
      /\ RowsOf(T.ctx.ses)' \subseteq Ids /\ Owed(T.ctx.ses)' \subseteq Ids
  <2>1. last \in Nat /\ last' \in Nat /\ last <= last'
    BY DEF TypeOK, OnlyNewRows
  <2>2. \A i \in Ids : i \in Nat
    BY DEF Ids
  <2>3. RowsOf(T.ctx.ses)' \subseteq Ids /\ Owed(T.ctx.ses)' \subseteq Ids
    BY DEF Owed, Worded, RowsOf
  <2> QED
    BY <2>1, <2>2, <2>3
<1>4. ASSUME T.pc \in {"older", "loop"}
      PROVE  T.ctx.ses \in Sessions /\ Gapless(t)'
  <2>1. T.ctx.ses \in Sessions /\ Gapless(t)
    BY <1>4 DEF TurnOK
  <2>2. \A i \in T.window : i <= last'
    BY <1>1, <1>3, <2>1 DEF Gapless
  <2>3. ASSUME NEW i \in T.window, NEW k \in T.window, NEW j \in RowsOf(T.ctx.ses)',
               j > T.ctx.through, i < j, j < k
        PROVE  j \in T.window
    <3>1. j <= last
      BY <1>1, <1>3, <2>1, <2>3 DEF Gapless
    <3>2. j \in RowsOf(T.ctx.ses)
      BY <2>1, <3>1, OldRow
    <3> QED
      BY <2>1, <2>3, <3>2 DEF Gapless
  <2> QED
    BY <2>1, <2>2, <2>3 DEF Gapless
<1>5. ASSUME T.pc = "loop"
      PROVE  OlderFull(t)'
  <2>1. T.ctx.ses \in Sessions /\ Gapless(t) /\ OlderFull(t)
    BY <1>5 DEF TurnOK
  <2>2. \A k \in T.window \cup T.older : k <= last
    BY <2>1 DEF Gapless, OlderFull
  <2>3. \A i \in T.older : i <= last' /\ \A k \in T.window : i < k
    BY <1>1, <1>3, <2>1 DEF OlderFull
  <2>4. ASSUME NEW j \in Owed(T.ctx.ses)', j > T.ctx.through,
               \A k \in T.window : j < k,
               \E k \in T.window \cup T.older : j <= k
        PROVE  j \in T.older
    <3>1. j <= last
      BY <1>1, <1>3, <2>2, <2>4
    <3>2. j \in Owed(T.ctx.ses)
      BY <2>1, <3>1, OldOwed
    <3> QED
      BY <2>1, <2>4, <3>2 DEF OlderFull
  <2> QED
    BY <2>3, <2>4 DEF OlderFull
<1> QED
  BY <1>2, <1>4, <1>5 DEF TurnOK

\* What a close has read is still true of the rows it read.
LEMMA SameClose ==
  ASSUME TypeOK, OnlyNewRows, TypeOK', NEW c \in Closers, CloseOK(c), close'[c] = close[c]
  PROVE  CloseOK(c)'
<1> DEFINE C == close[c]
<1>1. C \in CloseType /\ C.ctx.through \in Nat /\ C.rows \subseteq Ids
  BY DEF TypeOK, CloseType, Ctx
<1>2. /\ last \in Nat /\ last' \in Nat /\ last <= last'
      /\ \A i \in Ids : i \in Nat
      /\ RowsOf(C.ses)' \subseteq Ids
  <2>1. last \in Nat /\ last' \in Nat /\ last <= last'
    BY DEF TypeOK, OnlyNewRows
  <2>2. \A i \in Ids : i \in Nat
    BY DEF Ids
  <2>3. RowsOf(C.ses)' \subseteq Ids
    BY DEF RowsOf
  <2> QED
    BY <2>1, <2>2, <2>3
<1>3. C.pc # "idle" => C.ses \in Sessions
  BY DEF CloseOK
<1>4. C.pc \in {"rows", "decide"} => Knows(C.ses, C.ctx.state, C.ctx.through)'
  BY <1>1, <1>3, StillKnows DEF CloseOK
<1>5. ASSUME C.pc = "decide", NEW k \in C.rows
      PROVE  /\ k <= last'
             /\ \A j \in RowsOf(C.ses)' : j > C.ctx.through /\ j < k => j \in C.rows
  <2>1. k <= last
    BY <1>5 DEF CloseOK
  <2>2. ASSUME NEW j \in RowsOf(C.ses)', j > C.ctx.through, j < k
        PROVE  j \in C.rows
    <3>1. j <= last
      BY <1>1, <1>2, <2>1, <2>2
    <3>2. j \in RowsOf(C.ses)
      BY <1>3, <1>5, <3>1, OldRow
    <3> QED
      BY <1>5, <2>2, <3>2 DEF CloseOK
  <2> QED
    BY <1>1, <1>2, <2>1, <2>2
<1> QED
  BY <1>3, <1>4, <1>5 DEF CloseOK

----------------------------------------------------------------------------
(* LIMIT n takes an end of the rows. *)

\* A set of ids is finite.
LEMMA IdsFinite ==
  ASSUME NEW S \in SUBSET Ids
  PROVE  IsFiniteSet(S) /\ Cardinality(S) \in Nat /\ Cardinality(S) <= MaxRows
<1>1. IsFiniteSet(Ids) /\ Cardinality(Ids) = MaxRows
  <2>1. MaxRows \in Nat
    OBVIOUS
  <2>2. Ids = 1..MaxRows
    BY DEF Ids
  <2>3. IsFiniteSet(1..MaxRows) /\ Cardinality(1..MaxRows) = MaxRows
    <3>1. /\ IsFiniteSet(1..MaxRows)
          /\ Cardinality(1..MaxRows) = IF 1 > MaxRows THEN 0 ELSE MaxRows - 1 + 1
      BY <2>1, MaxRows \in Int, 1 \in Int, FS_Interval, Zenon
    <3> QED
      BY <2>1, <3>1
  <2> QED
    BY <2>2, <2>3
<1>2. IsFiniteSet(S) /\ Cardinality(S) <= Cardinality(Ids)
  BY <1>1, FS_Subset
<1> QED
  BY <1>1, <1>2, FS_CardinalityType

\* The newest n rows: with a row come all the newer ones.
LEMMA LastNUp ==
  ASSUME NEW S \in SUBSET Ids, NEW n \in Nat, NEW i \in LastN(S, n), NEW j \in S, i <= j
  PROVE  j \in LastN(S, n)
<1> DEFINE A == {x \in S : x >= i}
           B == {x \in S : x >= j}
<1>1. \A x \in Ids : x \in Nat
  BY DEF Ids
<1>2. i \in S /\ Cardinality(A) <= n
  BY DEF LastN
<1>3. B \subseteq A
  BY <1>1, <1>2
<1>4. A \in SUBSET Ids
  OBVIOUS
<1>5. IsFiniteSet(A) /\ Cardinality(A) \in Nat
  BY <1>4, IdsFinite
<1>6. Cardinality(B) <= Cardinality(A) /\ Cardinality(B) \in Nat
  BY <1>3, <1>5, FS_Subset, FS_CardinalityType
<1>7. Cardinality(B) <= n
  BY <1>2, <1>5, <1>6
<1> QED
  BY <1>7 DEF LastN

\* The oldest n rows: with a row come all the older ones.
LEMMA FirstNDown ==
  ASSUME NEW S \in SUBSET Ids, NEW n \in Nat, NEW i \in FirstN(S, n), NEW j \in S, j <= i
  PROVE  j \in FirstN(S, n)
<1> DEFINE A == {x \in S : x <= i}
           B == {x \in S : x <= j}
<1>1. \A x \in Ids : x \in Nat
  BY DEF Ids
<1>2. i \in S /\ Cardinality(A) <= n
  BY DEF FirstN
<1>3. B \subseteq A
  BY <1>1, <1>2
<1>4. A \in SUBSET Ids
  OBVIOUS
<1>5. IsFiniteSet(A) /\ Cardinality(A) \in Nat
  BY <1>4, IdsFinite
<1>6. Cardinality(B) <= Cardinality(A) /\ Cardinality(B) \in Nat
  BY <1>3, <1>5, FS_Subset, FS_CardinalityType
<1>7. Cardinality(B) <= n
  BY <1>2, <1>5, <1>6
<1> QED
  BY <1>7 DEF FirstN

----------------------------------------------------------------------------
(* The turns. *)

\* A turn outside the context build only has to keep what it read.
LEMMA KeepContext ==
  ASSUME TypeOK, OnlyNewRows, TypeOK', NEW t \in Turns, TurnOK(t),
         turn'[t].ctx = turn[t].ctx,
         turn'[t].pc \notin {"older", "loop"},
         turn'[t].pc \in {"handling", "recent"} => turn'[t].row \in Ids
  PROVE  TurnOK(t)'
<1>1. turn[t].ctx.through \in Nat
  BY DEF TypeOK, TurnType, Ctx
<1>2. turn[t].ctx.ses \in Sessions =>
        Knows(turn[t].ctx.ses, turn[t].ctx.state, turn[t].ctx.through)'
  BY <1>1, StillKnows DEF TurnOK
<1> QED
  BY <1>2 DEF TurnOK

\* Step 1: the context is the active session's, which is covered.
LEMMA ReadSessionOK ==
  ASSUME IInv, OnlyNewRows, TypeOK', NEW t \in Turns, ReadSession(t)
  PROVE  TurnOK(t)' /\ \A u \in Turns : u # t => turn'[u] = turn[u]
<1>1. TypeOK /\ turn[t] \in TurnType /\ turn[t].row \in Ids
  BY DEF IInv, TypeOK, TurnOK, ReadSession
<1>2. /\ turn'[t].pc = "recent" /\ turn'[t].ctx = ActiveContext
      /\ turn'[t].row = turn[t].row
      /\ \A u \in Turns : u # t => turn'[u] = turn[u]
  <2>1. turn' = [turn EXCEPT ![t] = [@ EXCEPT !.pc = "recent", !.ctx = ActiveContext]]
    BY DEF ReadSession
  <2>2. turn'[t] = [turn[t] EXCEPT !.pc = "recent", !.ctx = ActiveContext]
        /\ \A u \in Turns : u # t => turn'[u] = turn[u]
    BY <1>1, <2>1 DEF TypeOK
  <2> QED
    BY <1>1, <2>2 DEF TurnType
<1>3. CASE active = NoSession
  BY <1>1, <1>2, <1>3 DEF TurnOK, ActiveContext, NoCtx
<1>4. CASE active # NoSession
  <2>1. active \in Sessions /\ sess[active].through \in Nat
    BY <1>1, <1>4 DEF TypeOK, SessType
  <2>2. Knows(active, sess[active].state, sess[active].through)
    BY <2>1 DEF IInv, SessionOK
  <2>3. turn'[t].ctx.ses = active /\ turn'[t].ctx.state = sess[active].state
        /\ turn'[t].ctx.through = sess[active].through
    BY <1>2, <1>4 DEF ActiveContext, ContextOf
  <2>4. last' = last /\ msg' = msg /\ unread' = unread
    BY DEF ReadSession
  <2>5. /\ turn'[t].ctx.through <= last'
        /\ \A i \in Ids : /\ msg'[i].ses = active /\ msg'[i].text /\ i \notin unread'
                          /\ i <= turn'[t].ctx.through
                          => i \in turn'[t].ctx.state
    BY <2>2, <2>3, <2>4 DEF Knows, Owed, Worded, RowsOf
  <2> QED
    BY <1>1, <1>2, <2>3, <2>5 DEF TurnOK, Knows, Owed, Worded, RowsOf
<1> QED
  BY <1>2, <1>3, <1>4

\* Steps 2 and 3: the window has no gaps past `through`.
LEMMA ReadRecentOK ==
  ASSUME IInv, OnlyNewRows, TypeOK', NEW t \in Turns, ReadRecent(t)
  PROVE  TurnOK(t)' /\ \A u \in Turns : u # t => turn'[u] = turn[u]
<1> DEFINE T == turn[t]
           R == RowsOf(T.ctx.ses)
           L == LastN(R, RecentLimit)
           W == RecentRows(t)
           V == WindowStart(W, T.ctx)
<1>1. TypeOK /\ T \in TurnType /\ T.row \in Ids /\ T.ctx.through \in Nat
  BY DEF IInv, TypeOK, TurnOK, ReadRecent, TurnType, Ctx
<1>2. /\ turn'[t].pc = "older" /\ turn'[t].ctx = T.ctx /\ turn'[t].row = T.row
      /\ turn'[t].window = V
      /\ \A u \in Turns : u # t => turn'[u] = turn[u]
  <2>1. turn'[t] = [T EXCEPT !.pc = "older", !.top = last, !.window = V]
        /\ \A u \in Turns : u # t => turn'[u] = turn[u]
    BY <1>1 DEF TypeOK, ReadRecent
  <2> HIDE DEF V
  <2> QED
    BY <1>1, <2>1 DEF TurnType
<1>3. T.ctx.ses \in Sessions /\ msg' = msg /\ last' = last /\ unread' = unread
  BY <1>1 DEF ReadRecent, TurnType, Ctx
<1>4. Knows(T.ctx.ses, T.ctx.state, T.ctx.through)
  BY <1>3 DEF IInv, TurnOK
<1>5. /\ R \subseteq Ids /\ W = {i \in L : ~(i = T.row /\ IsLast(i, L))}
      /\ L \subseteq R
      /\ \A i \in Ids : i \in Nat
  BY DEF RowsOf, RecentRows, LastN, Ids
<1>6. V \subseteq W /\ \A j \in W : j > T.ctx.through => j \in V
  BY DEF WindowStart, LastN
<1>7. \A i \in R : i <= last
  <2>1. \A i \in Ids : i > last => msg[i].ses = NoSession
    BY DEF IInv, FreshIds
  <2>2. last \in Nat
    BY <1>1 DEF TypeOK
  <2> QED
    BY <1>3, <1>5, <2>1, <2>2 DEF RowsOf
<1>8. ASSUME NEW i \in V, NEW k \in V, NEW j \in R, j > T.ctx.through, i < j, j < k
      PROVE  j \in V
  <2>1. i \in L /\ k \in L
    BY <1>5, <1>6
  <2>2. RecentLimit \in Nat
    OBVIOUS
  <2>3. j \in L
    <3>1. R \in SUBSET Ids /\ i <= j
      BY <1>5, <1>8, <2>1
    <3> QED
      BY <2>1, <2>2, <3>1, LastNUp
  <2>4. ~IsLast(j, L)
    BY <1>5, <1>8, <2>1 DEF IsLast
  <2>5. j \in W
    BY <1>5, <2>3, <2>4
  <2> QED
    BY <1>6, <1>8, <2>5
<1>9. R' = RowsOf(T.ctx.ses) /\ Owed(T.ctx.ses)' = Owed(T.ctx.ses)
  BY <1>2, <1>3 DEF Owed, Worded, RowsOf
<1> HIDE DEF V, W, L
<1>10. Gapless(t)'
  <2>1. \A i \in V : i <= last
    BY <1>5, <1>6, <1>7
  <2>2. RowsOf(turn[t].ctx.ses)' = R
    BY <1>9
  <2> QED
    BY <1>2, <1>3, <1>8, <2>1, <2>2 DEF Gapless
<1>11. Knows(turn[t].ctx.ses, turn[t].ctx.state, turn[t].ctx.through)'
  BY <1>2, <1>3, <1>4, <1>9 DEF Knows
<1> QED
  BY <1>1, <1>2, <1>3, <1>10, <1>11 DEF TurnOK

\* Step 5: of the rows between `through` and the window, those with a text are
\* read or known not to be.
LEMMA ReadOlderOK ==
  ASSUME IInv, OnlyNewRows, TypeOK', NEW t \in Turns, ReadOlder(t)
  PROVE  TurnOK(t)' /\ \A u \in Turns : u # t => turn'[u] = turn[u]
<1> DEFINE T == turn[t]
           R == RowsOf(T.ctx.ses)
<1>0. PICK found \in {FirstN(Behind(t), OlderCap), {}} :
         /\ turn' = [turn EXCEPT ![t] = [@ EXCEPT !.pc = "loop", !.older = Worded(found)]]
         /\ unread' = unread \cup (Behind(t) \ found)
  BY DEF ReadOlder
<1> DEFINE O == Worded(found)
<1>1. TypeOK /\ T \in TurnType /\ T.row \in Ids
  BY DEF IInv, TypeOK, TurnOK, ReadOlder
<1>2. /\ turn'[t].pc = "loop" /\ turn'[t].ctx = T.ctx /\ turn'[t].row = T.row
      /\ turn'[t].window = T.window /\ turn'[t].older = O
      /\ \A u \in Turns : u # t => turn'[u] = turn[u]
  <2>1. turn'[t] = [T EXCEPT !.pc = "loop", !.older = O]
        /\ \A u \in Turns : u # t => turn'[u] = turn[u]
    BY <1>0, <1>1 DEF TypeOK
  <2> HIDE DEF O
  <2> QED
    BY <1>1, <2>1 DEF TurnType
<1>3. /\ T.ctx.ses \in Sessions /\ msg' = msg /\ last' = last
      /\ Knows(T.ctx.ses, T.ctx.state, T.ctx.through) /\ Gapless(t)
  BY DEF ReadOlder, IInv, TurnOK
<1>4. O \subseteq Behind(t) /\ \A i \in Behind(t) : msg[i].text => i \in O \cup unread'
  BY <1>0 DEF Worded, FirstN
<1>5. \A i \in R : i <= last
  <2>1. \A i \in Ids : i > last => msg[i].ses = NoSession
    BY DEF IInv, FreshIds
  <2>2. last \in Nat /\ \A i \in Ids : i \in Nat
    BY <1>1 DEF TypeOK, Ids
  <2> QED
    BY <1>3, <2>1, <2>2 DEF RowsOf
<1>6. RowsOf(turn[t].ctx.ses)' = R /\ Owed(turn[t].ctx.ses)' = Worded(R) \ unread'
  BY <1>2, <1>3 DEF Owed, Worded, RowsOf
<1> HIDE DEF O
<1>7. Gapless(t)'
  BY <1>2, <1>3, <1>6 DEF Gapless
<1>8. OlderFull(t)'
  <2>1. \A i \in O : i <= last /\ \A k \in T.window : i < k
    BY <1>4, <1>5 DEF Behind
  <2>2. \A j \in Worded(R) \ unread' :
           j > T.ctx.through /\ (\A k \in T.window : j < k) => j \in O
    BY <1>4 DEF Behind, Worded
  <2> QED
    BY <1>2, <1>3, <1>6, <2>1, <2>2 DEF OlderFull
<1>9. Knows(turn[t].ctx.ses, turn[t].ctx.state, turn[t].ctx.through)'
  <2>1. T.ctx.through \in Nat
    BY <1>1 DEF TurnType, Ctx
  <2> QED
    BY <1>1, <1>2, <1>3, <2>1, StillKnows
<1> QED
  BY <1>1, <1>2, <1>3, <1>7, <1>8, <1>9 DEF TurnOK

\* The turns stay right at every step of one of them.
LEMMA TurnStepTurns ==
  ASSUME IInv, OnlyNewRows, TypeOK', TurnStep
  PROVE  \A t \in Turns : TurnOK(t)'
<1>0. TypeOK /\ \A t \in Turns : TurnOK(t)
  BY DEF IInv
<1> PICK t \in Turns :
       \/ StartTurn(t) \/ PersistUser(t) \/ Command(t)
       \/ ReadSession(t) \/ ReadRecent(t) \/ ReadOlder(t)
       \/ LoopWithoutSession(t) \/ LoopCompacts(t) \/ LoopLags(t) \/ LoopPlain(t)
       \/ PersistAnswer(t) \/ NoAnswer(t) \/ FinishTurn(t)
  BY DEF TurnStep
<1> SUFFICES TurnOK(t)' /\ \A u \in Turns : u # t => turn'[u] = turn[u]
  BY <1>0, SameTurn
<1>1. turn[t] \in TurnType
  BY <1>0 DEF TypeOK
<1>2. CASE StartTurn(t) \/ PersistAnswer(t) \/ NoAnswer(t)
  <2>1. PICK p \in {"started", "finish"} : turn' = [turn EXCEPT ![t].pc = p]
    BY <1>2 DEF StartTurn, PersistAnswer, NoAnswer
  <2>2. turn'[t] = [turn[t] EXCEPT !.pc = p]
        /\ \A u \in Turns : u # t => turn'[u] = turn[u]
    BY <1>0, <2>1 DEF TypeOK
  <2>3. turn'[t].pc = p /\ turn'[t].ctx = turn[t].ctx
    BY <1>1, <2>2 DEF TurnType
  <2> QED
    BY <1>0, <2>2, <2>3, KeepContext
<1>3. CASE PersistUser(t)
  <2>0. PICK s \in Sessions, text \in BOOLEAN :
        /\ Insert(s, t, "user", text)
        /\ turn' = [turn EXCEPT ![t] =
                       [@ EXCEPT !.pc = "handling", !.ses = s, !.row = last + 1]]
    BY <1>3 DEF PersistUser
  <2>1. turn'[t] = [turn[t] EXCEPT !.pc = "handling", !.ses = s, !.row = last + 1]
        /\ \A u \in Turns : u # t => turn'[u] = turn[u]
    BY <1>0, <2>0 DEF TypeOK
  <2>2. turn'[t].pc = "handling" /\ turn'[t].ctx = turn[t].ctx /\ turn'[t].row = last + 1
    BY <1>1, <2>1 DEF TurnType
  <2>3. last + 1 \in Ids
    BY <1>0, <2>0 DEF TypeOK, Insert, Ids
  <2> QED
    BY <1>0, <2>1, <2>2, <2>3, KeepContext
<1>4. CASE Answer(t)
  BY <1>0, <1>4, AnswerIs DEF TurnOK, NoCtx
<1>5. CASE ReadSession(t)
  BY <1>5, ReadSessionOK
<1>6. CASE ReadRecent(t)
  BY <1>6, ReadRecentOK
<1>7. CASE ReadOlder(t)
  BY <1>7, ReadOlderOK
<1>8. CASE FinishTurn(t)
  <2>1. NoTurnYet \in TurnType /\ NoTurnYet.ctx = NoCtx
    BY DEF NoTurnYet, NoCtx, Ctx, TurnType, TurnPcs
  <2>2. [NoTurnYet EXCEPT !.pc = "done"] \in TurnType
        /\ [NoTurnYet EXCEPT !.pc = "done"].pc = "done"
        /\ [NoTurnYet EXCEPT !.pc = "done"].ctx = NoCtx
    BY <2>1 DEF TurnType, TurnPcs
  <2>3. turn'[t].pc = "done" /\ turn'[t].ctx = NoCtx
        /\ \A u \in Turns : u # t => turn'[u] = turn[u]
    BY <1>0, <1>8, <2>2, TurnSet DEF FinishTurn
  <2> QED
    BY <2>3 DEF TurnOK, NoCtx
<1> QED
  BY <1>2, <1>3, <1>4, <1>5, <1>6, <1>7, <1>8
  DEF Command, LoopWithoutSession, LoopCompacts, LoopLags, LoopPlain

----------------------------------------------------------------------------
(* What is handed to `write`. *)

\* One writer is handed a state that knows its conversation.
LEMMA HandedOK ==
  ASSUME TypeOK, TypeOK', OnlyNewRows, \A v \in Writers : WriterOK(v), NEW w \in Writers,
         NEW s \in Sessions, NEW state, NEW through \in Nat, Knows(s, state, through),
         NEW r, r.ses = s, r.state = state, r.through = through,
         writer' = [writer EXCEPT ![w] = r]
  PROVE  \A v \in Writers : WriterOK(v)'
<1>1. writer'[w] = r /\ \A v \in Writers : v # w => writer'[v] = writer[v]
  BY DEF TypeOK
<1>2. Knows(s, state, through)'
  BY StillKnows
<1>3. WriterOK(w)'
  BY <1>1, <1>2 DEF WriterOK
<1>4. ASSUME NEW v \in Writers, v # w
      PROVE  WriterOK(v)'
  <2>1. writer'[v] = writer[v]
    BY <1>1, <1>4
  <2>2. CASE writer[v].pc = "idle"
    BY <2>1, <2>2, SameWriter
  <2>3. CASE writer[v].pc # "idle"
    BY <2>1, <2>3, SameWriter
  <2> QED
    BY <2>2, <2>3
<1> QED
  BY <1>3, <1>4

\* A compaction's state knows every row its `through` passes: the rows behind
\* the window were read whole, and the window has no gaps.
LEMMA CompactKnows ==
  ASSUME IInv, NEW t \in Turns, LoopCompacts(t)
  PROVE  \E state \in SUBSET Ids, through \in Nat :
           /\ HandOver(t, state, through, TRUE)
           /\ Knows(turn[t].ctx.ses, state, through)
<1> DEFINE T == turn[t]
           s == T.ctx.ses
<1>1. PICK state \in SUBSET Ids, through \in Nat :
        /\ HandOver(t, state, through, TRUE)
        /\ T.ctx.state \subseteq state
        /\ \/ through = T.ctx.through
           \/ /\ T.older \subseteq state
              /\ \A i \in T.window : i <= through => i \in state
              /\ through \in T.window \cup T.older
  BY CompactHands
<1>2. /\ s \in Sessions /\ Knows(s, T.ctx.state, T.ctx.through)
      /\ Gapless(t) /\ OlderFull(t)
  BY DEF IInv, TurnOK, LoopCompacts
<1>3. /\ T.window \subseteq Ids /\ T.older \subseteq Ids /\ T.ctx.through \in Nat
      /\ last \in Nat
  BY DEF IInv, TypeOK, TurnType, Ctx
<1>4. Owed(s) \subseteq RowsOf(s) /\ RowsOf(s) \subseteq Ids /\ \A i \in Ids : i \in Nat
  BY DEF Owed, Worded, RowsOf, Ids
<1>5. CASE through = T.ctx.through
  BY <1>1, <1>2, <1>5 DEF Knows
<1>6. CASE through # T.ctx.through
  <2>1. /\ T.older \subseteq state
        /\ \A i \in T.window : i <= through => i \in state
        /\ through \in T.window \cup T.older
    BY <1>1, <1>6
  <2>2. through <= last
    BY <1>2, <2>1 DEF Gapless, OlderFull
  <2>3. ASSUME NEW j \in Owed(s), j <= through
        PROVE  j \in state
    <3>1. CASE j <= T.ctx.through
      BY <1>1, <1>2, <3>1 DEF Knows
    <3>2. CASE j > T.ctx.through /\ \A k \in T.window : j < k
      BY <1>2, <2>1, <2>3, <3>2 DEF OlderFull
    <3>3. CASE j > T.ctx.through /\ \E k \in T.window : k <= j
      <4>1. PICK i \in T.window : i <= j
        BY <3>3
      <4>2. through \in T.window
        BY <1>2, <1>3, <1>4, <2>1, <2>3, <4>1 DEF OlderFull
      <4>3. j \in T.window
        BY <1>2, <1>3, <1>4, <2>3, <3>3, <4>1, <4>2 DEF Gapless
      <4> QED
        BY <2>1, <2>3, <4>3
    <3> QED
      BY <1>3, <1>4, <3>1, <3>2, <3>3
  <2> QED
    BY <1>1, <2>2, <2>3 DEF Knows
<1> QED
  BY <1>5, <1>6

\* The lag refresh folds in every row behind the window.
LEMMA LagKnows ==
  ASSUME IInv, NEW t \in Turns, LoopLags(t)
  PROVE  \E state \in SUBSET Ids, through \in Nat :
           /\ HandOver(t, state, through, FALSE)
           /\ Knows(turn[t].ctx.ses, state, through)
<1> DEFINE T == turn[t]
           s == T.ctx.ses
           state == T.ctx.state \cup T.older
<1>1. PICK through \in T.older : HandOver(t, state, through, FALSE)
  BY DEF LoopLags
<1>2. /\ Knows(s, T.ctx.state, T.ctx.through) /\ OlderFull(t)
  BY DEF IInv, TurnOK, LoopLags
<1>3. /\ T.window \subseteq Ids /\ T.older \subseteq Ids /\ T.ctx.through \in Nat
      /\ T.ctx.state \subseteq Ids
  BY DEF IInv, TypeOK, TurnType, Ctx
<1>4. Owed(s) \subseteq RowsOf(s) /\ RowsOf(s) \subseteq Ids /\ \A i \in Ids : i \in Nat
  BY DEF Owed, Worded, RowsOf, Ids
<1>5. through <= last /\ \A k \in T.window : through < k
  BY <1>2 DEF OlderFull
<1>6. ASSUME NEW j \in Owed(s), j <= through
      PROVE  j \in state
  <2>1. CASE j <= T.ctx.through
    BY <1>2, <2>1 DEF Knows
  <2>2. CASE j > T.ctx.through
    <3>1. \A k \in T.window : j < k
      BY <1>3, <1>4, <1>5, <1>6
    <3> QED
      BY <1>1, <1>2, <1>6, <2>2, <3>1 DEF OlderFull
  <2> QED
    BY <1>3, <1>4, <2>1, <2>2
<1>7. state \in SUBSET Ids /\ through \in Nat
  BY <1>3, <1>4
<1>8. Knows(s, state, through)
  BY <1>5, <1>6 DEF Knows
<1> HIDE DEF state
<1> QED
  BY <1>1, <1>7, <1>8

\* A close folds in a prefix of the rows past the state.
LEMMA CloseKnows ==
  ASSUME IInv, NEW c \in Closers, close[c].pc = "decide", NEW through \in Settled(c)
  PROVE  through \in Nat
         /\ Knows(close[c].ses, close[c].ctx.state \cup Worded(Settled(c)), through)
<1> DEFINE C == close[c]
<1>1. C.rows \subseteq Ids /\ C.ctx.through \in Nat
  BY DEF IInv, TypeOK, CloseType, Ctx
<1>2. CloseOK(c)
  BY DEF IInv
<1>3. /\ Owed(C.ses) \subseteq RowsOf(C.ses) /\ RowsOf(C.ses) \subseteq Ids
      /\ \A i \in Ids : i \in Nat
      /\ \A i \in Owed(C.ses) : msg[i].text
  BY DEF Owed, Worded, RowsOf, Ids
<1>4. through \in C.rows
  BY DEF Settled
<1>5. ASSUME NEW j \in Owed(C.ses), j <= through
      PROVE  j \in C.ctx.state \cup Worded(Settled(c))
  <2>1. CASE j <= C.ctx.through
    BY <1>2, <2>1 DEF CloseOK, Knows
  <2>2. CASE j > C.ctx.through
    <3>1. j \in C.rows
      BY <1>1, <1>2, <1>3, <1>4, <1>5, <2>2 DEF CloseOK
    <3>2. ASSUME NEW k \in C.rows, msg[k].role = "user", msg[k].turn \in Busy(c)
          PROVE  j < k
      <4>1. through < k
        BY <3>2 DEF Settled
      <4> QED
        BY <1>1, <1>3, <1>4, <1>5, <4>1
    <3>3. j \in Settled(c)
      BY <3>1, <3>2 DEF Settled
    <3> QED
      BY <1>3, <3>3 DEF Worded
  <2> QED
    BY <1>1, <1>3, <2>1, <2>2
<1>6. through <= last
  BY <1>2, <1>4 DEF CloseOK
<1> QED
  BY <1>1, <1>3, <1>4, <1>5, <1>6 DEF Knows

----------------------------------------------------------------------------
(* Every step. *)

\* Writers that keep what they hold, whatever else a step did.
LEMMA WritersKeep ==
  ASSUME TypeOK, TypeOK', OnlyNewRows, \A w \in Writers : WriterOK(w), writer' = writer
  PROVE  \A w \in Writers : WriterOK(w)'
  BY SameWriter

\* Session rows nobody wrote.
LEMMA SessionsKeep ==
  ASSUME TypeOK, TypeOK', OnlyNewRows, \A s \in Sessions : SessionOK(s), sess' = sess
  PROVE  \A s \in Sessions : SessionOK(s)'
  BY SameSession

\* Turns nobody moved.
LEMMA TurnsKeep ==
  ASSUME TypeOK, TypeOK', OnlyNewRows, \A t \in Turns : TurnOK(t), turn' = turn
  PROVE  \A t \in Turns : TurnOK(t)'
  BY SameTurn

\* Closes nobody moved.
LEMMA ClosesKeep ==
  ASSUME TypeOK, TypeOK', OnlyNewRows, \A c \in Closers : CloseOK(c), close' = close
  PROVE  \A c \in Closers : CloseOK(c)'
  BY SameClose

\* The user's steps: a clear resets the state, the others leave it alone.
LEMMA UserStepOK ==
  ASSUME IInv, TypeOK', FreshIds', OnlyNewRows, UserStep
  PROVE  IInv'
<1>0. /\ TypeOK /\ \A s \in Sessions : SessionOK(s)
      /\ \A w \in Writers : WriterOK(w)
      /\ \A t \in Turns : TurnOK(t)
      /\ \A c \in Closers : CloseOK(c)
  BY DEF IInv
<1> PICK s \in Sessions : \/ CreateSession(s) \/ ActivateSession(s) \/ ArchiveSession(s)
                          \/ ClearRows(s) \/ ClearState(s)
  BY DEF UserStep
<1>1. UNCHANGED <<turn, writer, close>>
  BY DEF CreateSession, ActivateSession, ArchiveSession, ClearRows, ClearState
<1>2. \A u \in Sessions : SessionOK(u)'
  <2>1. CASE CreateSession(s)
    <3>1. \A u \in Sessions : /\ sess'[u].state = sess[u].state
                              /\ sess'[u].through = sess[u].through
      BY <1>0, <2>1 DEF CreateSession, TypeOK, SessType
    <3> QED
      BY <1>0, <3>1, SameSession
  <2>2. CASE ClearState(s)
    <3>1. /\ sess'[s].through = 0
          /\ \A u \in Sessions : u # s => sess'[u] = sess[u]
      BY <1>0, <2>2 DEF ClearState, TypeOK, SessType, Unknown
    <3>2. SessionOK(s)'
      <4>1. 0 <= last' /\ \A i \in Ids : ~(i <= 0)
        BY DEF TypeOK, Ids
      <4> QED
        BY <3>1, <4>1 DEF SessionOK, Knows, Owed, Worded, RowsOf
    <3> QED
      BY <1>0, <3>1, <3>2, SameSession
  <2>3. CASE sess' = sess
    BY <1>0, <2>3, SessionsKeep
  <2> QED
    BY <2>1, <2>2, <2>3 DEF ActivateSession, ArchiveSession, ClearRows
<1> QED
  BY <1>0, <1>1, <1>2, TurnsKeep, WritersKeep, ClosesKeep DEF IInv

\* A turn's steps.
LEMMA TurnStepOK ==
  ASSUME IInv, TypeOK', FreshIds', OnlyNewRows, TurnStep
  PROVE  IInv'
<1>0. /\ TypeOK /\ \A s \in Sessions : SessionOK(s)
      /\ \A w \in Writers : WriterOK(w)
      /\ \A c \in Closers : CloseOK(c)
  BY DEF IInv
<1>1. PICK t \in Turns :
       \/ StartTurn(t) \/ PersistUser(t) \/ Command(t)
       \/ ReadSession(t) \/ ReadRecent(t) \/ ReadOlder(t)
       \/ LoopWithoutSession(t) \/ LoopCompacts(t) \/ LoopLags(t) \/ LoopPlain(t)
       \/ PersistAnswer(t) \/ NoAnswer(t) \/ FinishTurn(t)
  BY DEF TurnStep
<1>2. close' = close
  <2>1. CASE \/ StartTurn(t) \/ PersistUser(t) \/ Command(t)
             \/ ReadSession(t) \/ ReadRecent(t) \/ ReadOlder(t)
    BY <2>1 DEF StartTurn, PersistUser, Command, ReadSession, ReadRecent, ReadOlder
  <2>2. CASE \/ LoopWithoutSession(t) \/ LoopCompacts(t) \/ LoopLags(t) \/ LoopPlain(t)
    BY <2>2 DEF LoopWithoutSession, LoopCompacts, LoopLags, LoopPlain
  <2>3. CASE PersistAnswer(t) \/ NoAnswer(t) \/ FinishTurn(t)
    BY <2>3 DEF PersistAnswer, NoAnswer, FinishTurn
  <2> QED
    BY <1>1, <2>1, <2>2, <2>3
<1>3. \A s \in Sessions : SessionOK(s)'
  <2>1. CASE PersistUser(t)
    <3>1. \A s \in Sessions : /\ sess'[s].state = sess[s].state
                              /\ sess'[s].through = sess[s].through
      BY <1>0, <2>1 DEF PersistUser, TypeOK, SessType
    <3> QED
      BY <1>0, <3>1, SameSession
  <2>2. CASE sess' = sess
    BY <1>0, <2>2, SessionsKeep
  <2> QED
    BY <1>1, <2>1, <2>2
    DEF StartTurn, Command, ReadSession, ReadRecent, ReadOlder, LoopWithoutSession,
        LoopCompacts, LoopLags, LoopPlain, PersistAnswer, NoAnswer, FinishTurn
<1>4. ASSUME NEW state \in SUBSET Ids, NEW through \in Nat, NEW b \in BOOLEAN,
             HandOver(t, state, through, b), Knows(turn[t].ctx.ses, state, through),
             turn[t].ctx.ses \in Sessions
      PROVE  \A w \in Writers : WriterOK(w)'
  <2> DEFINE r == [pc |-> "write", ses |-> turn[t].ctx.ses, ver |-> turn[t].ctx.ver,
                   through |-> through, state |-> state, compacted |-> b]
  <2>1. t \in Writers
    BY DEF Writers
  <2>2. r.ses = turn[t].ctx.ses /\ r.state = state /\ r.through = through
    OBVIOUS
  <2>3. writer' = [writer EXCEPT ![t] = r]
    BY <1>4 DEF HandOver
  <2> HIDE DEF r
  <2> QED
    BY <1>0, <1>4, <2>1, <2>2, <2>3, HandedOK
<1>5. turn[t].pc = "loop" => turn[t].ctx.ses \in Sessions
  BY DEF IInv, TurnOK
<1>6. \A w \in Writers : WriterOK(w)'
  <2>1. CASE LoopCompacts(t)
    BY <1>4, <1>5, <2>1, CompactKnows DEF LoopCompacts
  <2>2. CASE LoopLags(t)
    BY <1>4, <1>5, <2>2, LagKnows DEF LoopLags
  <2>3. CASE writer' = writer
    BY <1>0, <2>3, WritersKeep
  <2> QED
    BY <1>1, <2>1, <2>2, <2>3
    DEF StartTurn, PersistUser, Command, ReadSession, ReadRecent, ReadOlder,
        LoopWithoutSession, LoopPlain, PersistAnswer, NoAnswer, FinishTurn
<1> QED
  BY <1>0, <1>2, <1>3, <1>6, TurnStepTurns, ClosesKeep DEF IInv

\* A writer's steps: what lands knows the conversation, stale or not.
LEMMA WriterStepOK ==
  ASSUME IInv, TypeOK', FreshIds', OnlyNewRows, WriterStep
  PROVE  IInv'
<1>0. /\ TypeOK /\ \A s \in Sessions : SessionOK(s)
      /\ \A w \in Writers : WriterOK(w)
      /\ \A t \in Turns : TurnOK(t)
      /\ \A c \in Closers : CloseOK(c)
  BY DEF IInv
<1>1. PICK w \in Writers : \/ WriteLands(w) \/ WriteMisses(w) \/ Reread(w)
                           \/ WriteDiscarded(w) \/ MarkCompacted(w)
  BY DEF WriterStep
<1>2. UNCHANGED <<turn, close>>
  BY <1>1 DEF WriteLands, WriteMisses, Reread, WriteDiscarded, MarkCompacted
<1>3. writer[w] \in WriterType /\ writer[w].pc # "idle"
  BY <1>0, <1>1
  DEF TypeOK, WriteLands, WriteMisses, Reread, WriteDiscarded, MarkCompacted
<1>4. /\ \A v \in Writers : v # w => writer'[v] = writer[v]
      /\ \/ writer'[w].pc = "idle"
         \/ /\ writer'[w].ses = writer[w].ses
            /\ writer'[w].state = writer[w].state
            /\ writer'[w].through = writer[w].through
  <2>1. PICK r : /\ writer' = [writer EXCEPT ![w] = r]
                 /\ \/ r = NoWrite
                    \/ \E p \in {"mark", "reread"} : r = [writer[w] EXCEPT !.pc = p]
                    \/ \E n : r = [writer[w] EXCEPT !.pc = "rewrite", !.ver = n]
    <3>1. CASE WriteLands(w)
      BY <3>1 DEF WriteLands, Landed
    <3>2. CASE WriteMisses(w)
      BY <3>2 DEF WriteMisses
    <3>3. CASE Reread(w)
      BY <3>3 DEF Reread
    <3>4. CASE WriteDiscarded(w) \/ MarkCompacted(w)
      BY <3>4 DEF WriteDiscarded, MarkCompacted
    <3> QED
      BY <1>1, <3>1, <3>2, <3>3, <3>4
  <2>2. writer'[w] = r /\ \A v \in Writers : v # w => writer'[v] = writer[v]
    BY <1>0, <2>1 DEF TypeOK
  <2>3. \/ r.pc = "idle"
        \/ r.ses = writer[w].ses /\ r.state = writer[w].state
           /\ r.through = writer[w].through
    <3>1. CASE r = NoWrite
      BY <3>1 DEF NoWrite
    <3>2. ASSUME NEW p, r = [writer[w] EXCEPT !.pc = p]
          PROVE  r.ses = writer[w].ses /\ r.state = writer[w].state
                 /\ r.through = writer[w].through
      BY <1>3, <3>2 DEF WriterType
    <3>3. ASSUME NEW n, r = [writer[w] EXCEPT !.pc = "rewrite", !.ver = n]
          PROVE  r.ses = writer[w].ses /\ r.state = writer[w].state
                 /\ r.through = writer[w].through
      BY <1>3, <3>3 DEF WriterType
    <3> QED
      BY <2>1, <3>1, <3>2, <3>3
  <2> QED
    BY <2>2, <2>3
<1>5. \A v \in Writers : WriterOK(v)'
  <2>1. WriterOK(w)'
    BY <1>0, <1>3, <1>4, SameWriter
  <2>2. ASSUME NEW v \in Writers, v # w
        PROVE  WriterOK(v)'
    <3>1. writer'[v] = writer[v]
      BY <1>4, <2>2
    <3>2. CASE writer[v].pc = "idle"
      BY <1>0, <3>1, <3>2, SameWriter
    <3>3. CASE writer[v].pc # "idle"
      BY <1>0, <3>1, <3>3, SameWriter
    <3> QED
      BY <3>2, <3>3
  <2> QED
    BY <2>1, <2>2
<1>6. \A s \in Sessions : SessionOK(s)'
  <2>1. CASE WriteLands(w)
    <3>1. PICK s \in Sessions : /\ s = writer[w].ses
                                /\ Knows(s, writer[w].state, writer[w].through)
      BY <1>0, <1>3 DEF WriterOK
    <3>2. /\ sess'[s].state = writer[w].state /\ sess'[s].through = writer[w].through
          /\ \A u \in Sessions : u # s => sess'[u] = sess[u]
      BY <1>0, <2>1, <3>1 DEF WriteLands, Update, TypeOK
    <3>3. msg' = msg /\ last' = last /\ unread' = unread
      BY <2>1 DEF WriteLands
    <3>4. \A u \in Sessions : Owed(u)' = Owed(u)
      BY <3>3 DEF Owed, Worded, RowsOf
    <3>5. SessionOK(s)'
      BY <3>1, <3>2, <3>3, <3>4 DEF SessionOK, Knows
    <3> QED
      BY <1>0, <3>2, <3>5, SameSession
  <2>2. CASE sess' = sess
    BY <1>0, <2>2, SessionsKeep
  <2> QED
    BY <1>1, <2>1, <2>2 DEF WriteMisses, Reread, WriteDiscarded, MarkCompacted
<1> QED
  BY <1>0, <1>2, <1>5, <1>6, TurnsKeep, ClosesKeep DEF IInv

\* A close's steps.
LEMMA CloseStepOK ==
  ASSUME IInv, TypeOK', FreshIds', OnlyNewRows, CloseStep
  PROVE  IInv'
<1>0. /\ TypeOK /\ \A s \in Sessions : SessionOK(s)
      /\ \A w \in Writers : WriterOK(w)
      /\ \A t \in Turns : TurnOK(t)
      /\ \A c \in Closers : CloseOK(c)
  BY DEF IInv
<1>1. PICK c \in Closers : \/ CloseStart(c) \/ CloseReadSession(c) \/ CloseReadRows(c)
                           \/ CloseDecide(c) \/ CloseHeld(c)
  BY DEF CloseStep
<1>2. UNCHANGED <<msg, last, sess, turn, unread>>
  BY <1>1 DEF CloseStart, CloseReadSession, CloseReadRows, CloseDecide, CloseHeld
<1>3. close[c] \in CloseType
  BY <1>0 DEF TypeOK
<1>4. \A s \in Sessions : /\ RowsOf(s)' = RowsOf(s) /\ RowsOf(s) \subseteq Ids
                          /\ Owed(s)' = Owed(s)
  BY <1>2 DEF Owed, Worded, RowsOf
<1>5. NoClose \in CloseType /\ NoClose.pc = "idle"
  BY DEF NoClose, NoCtx, Ctx, CloseType, ClosePcs
<1>6. \A w \in Writers : WriterOK(w)'
  <2>1. CASE CloseDecide(c)
    <3>1. PICK through \in Settled(c) :
            writer' = [writer EXCEPT ![c] =
              [pc |-> "write", ses |-> close[c].ses, ver |-> close[c].ctx.ver,
               through |-> through, state |-> close[c].ctx.state \cup Worded(Settled(c)),
               compacted |-> FALSE]]
      BY <2>1 DEF CloseDecide
    <3>2. close[c].ses \in Sessions /\ through \in Nat /\ c \in Writers
          /\ Knows(close[c].ses, close[c].ctx.state \cup Worded(Settled(c)), through)
      BY <1>0, <2>1, CloseKnows DEF CloseDecide, CloseOK, Writers
    <3> DEFINE r == [pc |-> "write", ses |-> close[c].ses, ver |-> close[c].ctx.ver,
                     through |-> through, state |-> close[c].ctx.state \cup Worded(Settled(c)),
                     compacted |-> FALSE]
    <3>3. /\ r.ses = close[c].ses /\ r.state = close[c].ctx.state \cup Worded(Settled(c))
          /\ r.through = through /\ writer' = [writer EXCEPT ![c] = r]
      BY <3>1
    <3> HIDE DEF r
    <3> QED
      BY <1>0, <3>2, <3>3, HandedOK
  <2>2. CASE writer' = writer
    BY <1>0, <2>2, WritersKeep
  <2> QED
    BY <1>1, <2>1, <2>2 DEF CloseStart, CloseReadSession, CloseReadRows, CloseHeld
<1>7. CloseOK(c)' /\ \A d \in Closers : d # c => close'[d] = close[d]
  <2>1. CASE CloseStart(c)
    <3>1. PICK s \in Sessions :
            close' = [close EXCEPT ![c] =
                        [NoClose EXCEPT !.pc = "session", !.ses = s, !.busy = InFlight]]
      BY <2>1 DEF CloseStart
    <3>2. InFlight \in SUBSET Turns
      BY DEF InFlight
    <3> DEFINE r == [NoClose EXCEPT !.pc = "session", !.ses = s, !.busy = InFlight]
    <3>3. r \in CloseType /\ r.pc = "session" /\ r.ses = s
      BY <1>5, <3>2 DEF CloseType, ClosePcs
    <3>4. close' = [close EXCEPT ![c] = r]
      BY <3>1
    <3> HIDE DEF r
    <3>5. close'[c] = r /\ \A d \in Closers : d # c => close'[d] = close[d]
      BY <1>0, <3>3, <3>4, CloseSet
    <3> QED
      BY <3>3, <3>5 DEF CloseOK
  <2>2. CASE CloseReadSession(c)
    <3>1. close[c].ses \in Sessions
      BY <1>0, <2>2 DEF CloseOK, CloseReadSession
    <3>2. PICK s \in Sessions : s = close[c].ses
      BY <3>1
    <3> DEFINE x == ContextOf(s)
    <3>3. x \in Ctx /\ x.state = sess[s].state /\ x.through = sess[s].through
      BY <1>0 DEF TypeOK, SessType, Ctx, ContextOf
    <3>4. close' = [close EXCEPT ![c] = [@ EXCEPT !.pc = "rows", !.ctx = x]]
      BY <2>2, <3>2 DEF CloseReadSession
    <3> HIDE DEF x
    <3>5. close'[c] = [close[c] EXCEPT !.pc = "rows", !.ctx = x]
          /\ \A d \in Closers : d # c => close'[d] = close[d]
      BY <1>0, <3>4 DEF TypeOK
    <3>6. close'[c].pc = "rows" /\ close'[c].ses = s /\ close'[c].ctx = x
      BY <1>3, <3>2, <3>5 DEF CloseType
    <3>7. Knows(s, sess[s].state, sess[s].through)
      BY <1>0 DEF SessionOK
    <3>8. Knows(close[c].ses, close[c].ctx.state, close[c].ctx.through)'
      BY <1>2, <1>4, <3>3, <3>6, <3>7 DEF Knows
    <3> QED
      BY <3>5, <3>6, <3>8 DEF CloseOK
  <2>3. CASE CloseReadRows(c)
    <3>1. PICK s \in Sessions : s = close[c].ses
      BY <1>0, <2>3 DEF CloseOK, CloseReadRows
    <3> DEFINE taken == FirstN(PastState(c), WindowCap)
               open == {t \in InFlight : turn[t].pc # "finish"}
    <3>2. close'[c] = [close[c] EXCEPT !.pc = "decide", !.rows = taken, !.open = open]
          /\ \A d \in Closers : d # c => close'[d] = close[d]
      BY <1>0, <2>3 DEF TypeOK, CloseReadRows
    <3>3. /\ PastState(c) = {i \in RowsOf(s) : i > close[c].ctx.through}
          /\ PastState(c) \in SUBSET Ids
      BY <1>4, <3>1 DEF PastState
    <3>4. taken \subseteq PastState(c)
      BY DEF FirstN
    <3>5. \A i \in RowsOf(s) : i <= last
      <4>1. last \in Nat /\ \A i \in Ids : i \in Nat /\ (i > last => msg[i].ses = NoSession)
        BY <1>0 DEF IInv, FreshIds, TypeOK, Ids
      <4> QED
        BY <4>1 DEF RowsOf
    <3>6. ASSUME NEW k \in taken, NEW j \in PastState(c), j < k
          PROVE  j \in taken
      <4>1. WindowCap \in Nat /\ j <= k
        BY <3>3, <3>4, <3>6 DEF Ids
      <4> QED
        BY <3>3, <4>1, FirstNDown
    <3> HIDE DEF taken, open
    <3>7. /\ close'[c].pc = "decide" /\ close'[c].ses = s /\ close'[c].ctx = close[c].ctx
          /\ close'[c].rows = taken
      BY <1>3, <3>1, <3>2 DEF CloseType
    <3>8. Knows(s, close[c].ctx.state, close[c].ctx.through)
      BY <1>0, <2>3, <3>1 DEF CloseOK, CloseReadRows
    <3>9. Knows(close[c].ses, close[c].ctx.state, close[c].ctx.through)'
      BY <1>2, <1>4, <3>7, <3>8 DEF Knows
    <3> QED
      BY <1>2, <1>4, <3>2, <3>3, <3>4, <3>5, <3>6, <3>7, <3>9 DEF CloseOK
  <2>4. CASE CloseDecide(c) \/ CloseHeld(c)
    <3>1. close' = [close EXCEPT ![c] = NoClose]
      BY <2>4 DEF CloseDecide, CloseHeld
    <3>2. close'[c] = NoClose /\ \A d \in Closers : d # c => close'[d] = close[d]
      BY <1>0, <1>5, <3>1, CloseSet
    <3> QED
      BY <1>5, <3>2 DEF CloseOK
  <2> QED
    BY <1>1, <2>1, <2>2, <2>3, <2>4
<1>8. \A d \in Closers : CloseOK(d)'
  BY <1>0, <1>7, SameClose
<1> QED
  BY <1>0, <1>2, <1>6, <1>8, SessionsKeep, TurnsKeep DEF IInv

\* The invariant is inductive.
LEMMA NextIInv == IInv /\ [Next]_vars => IInv'
<1> SUFFICES ASSUME IInv, [Next]_vars PROVE IInv'
  OBVIOUS
<1>1. TypeOK' /\ FreshIds' /\ OnlyNewRows
  BY IInvPlaced, NextType, RowsStep
<1>2. CASE UserStep
  BY <1>1, <1>2, UserStepOK
<1>3. CASE TurnStep
  BY <1>1, <1>3, TurnStepOK
<1>4. CASE WriterStep
  BY <1>1, <1>4, WriterStepOK
<1>5. CASE CloseStep
  BY <1>1, <1>5, CloseStepOK
<1>6. CASE UNCHANGED vars
  <2>1. UNCHANGED <<sess, turn, writer, close>>
    BY <1>6 DEF vars
  <2> QED
    BY <1>1, <2>1, SessionsKeep, TurnsKeep, WritersKeep, ClosesKeep DEF IInv
<1> QED
  BY <1>2, <1>3, <1>4, <1>5, <1>6 DEF Next

\* What the invariant says of the state a reader finds.
LEMMA IInvCoverage == IInv => Coverage
  BY DEF IInv, SessionOK, Knows, Coverage

\* However turns, background writers, the blind retry, closes, switches and
\* clears interleave, a working state holds every row of its conversation up to
\* `through` that has a text, but for those that a failed query or its limit
\* kept from a turn, whatever the limits are.
THEOREM ConversationCoverage == Spec => []Coverage
<1>1. Init => IInv
  BY InitIInv
<1>2. IInv /\ [Next]_vars => IInv'
  BY NextIInv
<1>3. IInv => Coverage
  BY IInvCoverage
<1> QED
  BY <1>1, <1>2, <1>3, PTL DEF Spec

----------------------------------------------------------------------------
(* Types and places, whatever the limits. *)

\* A turn's step, by what it leaves of the turn and hands to its writer.
LEMMA TurnPlaced ==
  ASSUME Placed, TypeOK', NEW t \in Turns, close' = close,
         \A u \in Turns : u # t => turn'[u] = turn[u],
         turn'[t].pc \in {"older", "loop"} => turn'[t].ctx.ses \in Sessions,
         turn'[t].pc \in {"handling", "recent", "older", "loop"} => turn'[t].row \in Ids,
         \/ writer' = writer
         \/ \E r : writer' = [writer EXCEPT ![t] = r] /\ r.ses \in Sessions
  PROVE  Placed'
<1>1. \A u \in Turns :
         /\ turn'[u].pc \in {"older", "loop"} => turn'[u].ctx.ses \in Sessions
         /\ turn'[u].pc \in {"handling", "recent", "older", "loop"} => turn'[u].row \in Ids
  BY DEF Placed
<1>2. \A w \in Writers : writer'[w].pc # "idle" => writer'[w].ses \in Sessions
  <2>1. CASE writer' = writer
    BY <2>1 DEF Placed
  <2>2. ASSUME NEW r, writer' = [writer EXCEPT ![t] = r], r.ses \in Sessions
        PROVE  \A w \in Writers : writer'[w].pc # "idle" => writer'[w].ses \in Sessions
    BY <2>2 DEF Placed, TypeOK, Writers
  <2> QED
    BY <2>1, <2>2
<1> QED
  BY <1>1, <1>2 DEF Placed

\* A turn's steps.
LEMMA TurnStepPlaced ==
  ASSUME Placed, TypeOK', NEW t \in Turns,
         \/ StartTurn(t) \/ PersistUser(t) \/ Command(t)
         \/ ReadSession(t) \/ ReadRecent(t) \/ ReadOlder(t)
         \/ LoopWithoutSession(t) \/ LoopCompacts(t) \/ LoopLags(t) \/ LoopPlain(t)
         \/ PersistAnswer(t) \/ NoAnswer(t) \/ FinishTurn(t)
  PROVE  Placed'
<1>0. TypeOK /\ turn \in [Turns -> TurnType] /\ turn[t] \in TurnType /\ turn[t].ctx \in Ctx
  BY DEF Placed, TypeOK, TurnType
<1>1. CASE StartTurn(t) \/ PersistAnswer(t) \/ NoAnswer(t) \/ FinishTurn(t)
  <2>1. /\ close' = close /\ writer' = writer
        /\ turn'[t].pc \in {"started", "finish", "done"}
        /\ \A u \in Turns : u # t => turn'[u] = turn[u]
    BY <1>0, <1>1 DEF StartTurn, PersistAnswer, NoAnswer, FinishTurn, TurnType, NoTurnYet
  <2> QED
    BY <2>1, TurnPlaced
<1>2. CASE PersistUser(t)
  <2>1. /\ close' = close /\ writer' = writer
        /\ turn'[t].pc = "handling" /\ turn'[t].row = last + 1 /\ last < MaxRows
        /\ \A u \in Turns : u # t => turn'[u] = turn[u]
    <3>1. PICK s \in Sessions :
            turn' = [turn EXCEPT ![t] = [@ EXCEPT !.pc = "handling", !.ses = s, !.row = last + 1]]
      BY <1>2 DEF PersistUser
    <3>2. close' = close /\ writer' = writer /\ last < MaxRows
      BY <1>2 DEF PersistUser, Insert
    <3> QED
      BY <1>0, <3>1, <3>2 DEF TurnType
  <2>2. last + 1 \in Ids
    BY <1>0, <2>1 DEF TypeOK, Ids
  <2> QED
    BY <2>1, <2>2, TurnPlaced
<1>3. CASE Command(t) \/ LoopWithoutSession(t) \/ LoopPlain(t)
  <2>1. Answer(t) /\ close' = close /\ writer' = writer
    BY <1>3 DEF Command, LoopWithoutSession, LoopPlain
  <2>2. turn'[t].pc = "answer" /\ \A u \in Turns : u # t => turn'[u] = turn[u]
    BY <1>0, <2>1, AnswerIs
  <2> QED
    BY <2>1, <2>2, TurnPlaced
<1>4. CASE LoopCompacts(t) \/ LoopLags(t)
  <2>1. Answer(t) /\ close' = close /\ turn[t].pc = "loop"
    BY <1>4 DEF LoopCompacts, LoopLags
  <2>2. turn'[t].pc = "answer" /\ \A u \in Turns : u # t => turn'[u] = turn[u]
    BY <1>0, <2>1, AnswerIs
  <2>3. \E state, through, compacted : HandOver(t, state, through, compacted)
    BY <1>4, CompactTyped DEF LoopLags
  <2>4. \E r : writer' = [writer EXCEPT ![t] = r] /\ r.ses \in Sessions
    BY ZenonT(60), <2>1, <2>3 DEF HandOver, Placed
  <2> QED
    BY <2>1, <2>2, <2>4, TurnPlaced
<1>5. CASE ReadSession(t)
  <2>1. /\ close' = close /\ writer' = writer /\ turn[t].pc = "handling"
        /\ turn'[t].pc = "recent" /\ turn'[t].row = turn[t].row
        /\ \A u \in Turns : u # t => turn'[u] = turn[u]
    BY <1>0, <1>5 DEF ReadSession, TurnType
  <2>2. turn[t].row \in Ids
    BY <2>1 DEF Placed
  <2> QED
    BY <2>1, <2>2, TurnPlaced
<1>6. CASE ReadRecent(t) \/ ReadOlder(t)
  <2>1. /\ close' = close /\ writer' = writer /\ turn[t].pc \in {"recent", "older"}
        /\ turn[t].pc = "recent" => turn[t].ctx.ses # NoSession
        /\ turn'[t].row = turn[t].row /\ turn'[t].ctx = turn[t].ctx
        /\ \A u \in Turns : u # t => turn'[u] = turn[u]
    <3>1. CASE ReadRecent(t)
      <4>1. PICK w : turn' = [turn EXCEPT ![t] =
                                [@ EXCEPT !.pc = "older", !.top = last, !.window = w]]
        BY <3>1 DEF ReadRecent
      <4> QED
        BY <1>0, <3>1, <4>1 DEF ReadRecent, TurnType
    <3>2. CASE ReadOlder(t)
      <4>1. PICK o : turn' = [turn EXCEPT ![t] = [@ EXCEPT !.pc = "loop", !.older = o]]
        BY <3>2 DEF ReadOlder
      <4> QED
        BY <1>0, <3>2, <4>1 DEF ReadOlder, TurnType
    <3> QED
      BY <1>6, <3>1, <3>2
  <2>2. turn[t].row \in Ids /\ turn[t].ctx.ses \in Sessions
    BY <1>0, <2>1 DEF Placed, Ctx
  <2> QED
    BY <2>1, <2>2, TurnPlaced
<1> QED
  BY <1>1, <1>2, <1>3, <1>4, <1>5, <1>6

\* A writer and a close keep to their conversation.
LEMMA JobPlaced ==
  ASSUME Placed, TypeOK', WriterStep \/ CloseStep
  PROVE  Placed'
<1>0. TypeOK
  BY DEF Placed
<1>1. CASE WriterStep
  <2> PICK w \in Writers : \/ WriteLands(w) \/ WriteMisses(w) \/ Reread(w) \/ WriteDiscarded(w)
                           \/ MarkCompacted(w)
    BY <1>1 DEF WriterStep
  <2>1. /\ turn' = turn /\ close' = close /\ writer[w].pc # "idle"
        /\ \A v \in Writers : v # w => writer'[v] = writer[v]
    BY <1>0 DEF WriteLands, Landed, WriteMisses, Reread, WriteDiscarded, MarkCompacted, TypeOK
  <2>2. writer'[w].pc = "idle" \/ writer'[w].ses = writer[w].ses
    <3>1. writer \in [Writers -> WriterType] /\ writer[w] \in WriterType
      BY <1>0 DEF TypeOK
    <3>2. \/ writer' = [writer EXCEPT ![w] = NoWrite]
          \/ \E stage : writer' = [writer EXCEPT ![w].pc = stage]
          \/ \E stage, ver : writer' = [writer EXCEPT ![w] = [@ EXCEPT !.pc = stage, !.ver = ver]]
      BY DEF WriteLands, Landed, WriteMisses, Reread, WriteDiscarded, MarkCompacted
    <3>3. CASE writer' = [writer EXCEPT ![w] = NoWrite]
      BY <3>1, <3>3 DEF NoWrite
    <3>4. ASSUME NEW stage, writer' = [writer EXCEPT ![w].pc = stage]
          PROVE  writer'[w].ses = writer[w].ses
      BY <3>1, <3>4 DEF WriterType
    <3>5. ASSUME NEW stage, NEW ver,
                 writer' = [writer EXCEPT ![w] = [@ EXCEPT !.pc = stage, !.ver = ver]]
          PROVE  writer'[w].ses = writer[w].ses
      BY <3>1, <3>5 DEF WriterType
    <3> QED
      BY <3>2, <3>3, <3>4, <3>5
  <2> QED
    BY <2>1, <2>2 DEF Placed
<1>2. CASE CloseStep
  <2> PICK c \in Closers : \/ CloseStart(c) \/ CloseReadSession(c) \/ CloseReadRows(c)
                           \/ CloseDecide(c) \/ CloseHeld(c)
    BY <1>2 DEF CloseStep
  <2>0. close \in [Closers -> CloseType] /\ close[c] \in CloseType
    BY <1>0 DEF TypeOK
  <2>1. turn' = turn /\ \A d \in Closers : d # c => close'[d] = close[d]
    BY <2>0 DEF CloseStart, CloseReadSession, CloseReadRows, CloseDecide, CloseHeld
  <2>2. \/ close'[c].pc = "idle"
        \/ close'[c].ses \in Sessions
        \/ close[c].pc # "idle" /\ close'[c].ses = close[c].ses
    <3>1. CASE CloseStart(c)
      BY <2>0, <3>1 DEF CloseStart, NoClose
    <3>2. CASE CloseReadSession(c)
      <4>1. PICK ctx : close' = [close EXCEPT ![c] = [@ EXCEPT !.pc = "rows", !.ctx = ctx]]
        BY <3>2 DEF CloseReadSession
      <4> QED
        BY <2>0, <3>2, <4>1 DEF CloseReadSession, CloseType
    <3>4. CASE CloseReadRows(c)
      <4>1. PICK taken, open :
               close' = [close EXCEPT ![c] = [@ EXCEPT !.pc = "decide", !.rows = taken,
                                                       !.open = open]]
        BY <3>4 DEF CloseReadRows
      <4> QED
        BY <2>0, <3>4, <4>1 DEF CloseReadRows, CloseType
    <3>3. CASE CloseDecide(c) \/ CloseHeld(c)
      BY <2>0, <3>3 DEF CloseDecide, CloseHeld, NoClose
    <3> QED
      BY <3>1, <3>2, <3>3, <3>4
  <2>3. \A w \in Writers : writer'[w].pc # "idle" => writer'[w].ses \in Sessions
    <3>1. CASE CloseDecide(c)
      <4>1. PICK r : writer' = [writer EXCEPT ![c] = r] /\ r.ses = close[c].ses
        BY <3>1 DEF CloseDecide
      <4>2. close[c].ses \in Sessions
        BY <3>1 DEF CloseDecide, Placed
      <4> QED
        BY <1>0, <4>1, <4>2 DEF Placed, TypeOK, Writers
    <3>2. CASE ~CloseDecide(c)
      <4>1. writer' = writer
        BY <3>2 DEF CloseStart, CloseReadSession, CloseReadRows, CloseHeld
      <4> QED
        BY <4>1 DEF Placed
    <3> QED
      BY <3>1, <3>2
  <2> QED
    BY <2>1, <2>2, <2>3 DEF Placed
<1> QED
  BY <1>1, <1>2

\* Every step keeps types and places.
LEMMA NextPlaced == Placed /\ [Next]_vars => Placed'
<1> SUFFICES ASSUME Placed, [Next]_vars PROVE Placed'
  OBVIOUS
<1>0. TypeOK'
  BY NextType
<1>1. CASE UserStep \/ UNCHANGED vars
  <2>1. turn' = turn /\ writer' = writer /\ close' = close
    BY <1>1 DEF UserStep, CreateSession, ActivateSession, ArchiveSession, ClearRows, ClearState, vars
  <2> QED
    BY <1>0, <2>1 DEF Placed
<1>2. CASE TurnStep
  BY <1>0, <1>2, TurnStepPlaced DEF TurnStep
<1>3. CASE WriterStep \/ CloseStep
  BY <1>0, <1>3, JobPlaced
<1> QED
  BY <1>1, <1>2, <1>3 DEF Next

\* Every variable keeps its type, whatever the limits.
THEOREM ConversationTypes == Spec => []TypeOK
<1>1. Init => Placed
  BY InitIInv, IInvPlaced
<1>2. Placed /\ [Next]_vars => Placed'
  BY NextPlaced
<1>3. Placed => TypeOK
  BY DEF Placed
<1> QED
  BY <1>1, <1>2, <1>3, PTL DEF Spec

----------------------------------------------------------------------------
(* What a turn's three queries read between them. *)

\* Of the rows there were at the second query, those past `through` are in the
\* window from its first row on (or are the question), and behind it before.
ReadsAll(t) ==
    LET T == turn[t] IN
    /\ T.pc \in {"older", "loop"} =>
           /\ T.top <= last
           /\ \A i \in RowsOf(T.ctx.ses) :
                 /\ i > T.ctx.through /\ i <= T.top
                 /\ \E k \in T.window : k <= i
                 => i \in T.window \cup {T.row}
    /\ T.pc = "loop" =>
           \A i \in Owed(T.ctx.ses) :
              /\ i > T.ctx.through /\ i <= T.top
              /\ \A k \in T.window : i < k
              => i \in T.older

ReadInv == IInv /\ \A t \in Turns : ReadsAll(t)

\* A read is not disturbed by rows that come or go later.
LEMMA SameReads ==
  ASSUME IInv, OnlyNewRows, TypeOK', NEW t \in Turns, ReadsAll(t), turn'[t] = turn[t]
  PROVE  ReadsAll(t)'
<1> DEFINE T == turn[t]
<1>1. /\ last \in Nat /\ last' \in Nat /\ last <= last' /\ T.top \in Nat
      /\ \A i \in Ids : i \in Nat
  <2>1. TypeOK
    BY DEF IInv
  <2>2. \A i \in Ids : i \in Nat
    BY DEF Ids
  <2> QED
    BY <2>1, <2>2 DEF TypeOK, OnlyNewRows, TurnType
<1>2. CASE T.pc \notin {"older", "loop"}
  BY <1>2 DEF ReadsAll
<1>3. CASE T.pc \in {"older", "loop"}
  <2>1. PICK s \in Sessions : s = T.ctx.ses
    BY <1>3 DEF IInv, TurnOK
  <2>2. T.top <= last
    BY <1>3 DEF ReadsAll
  <2>3. ASSUME NEW i \in RowsOf(s)', i <= T.top
        PROVE  i \in RowsOf(s)
    <3>1. i \in Nat
      BY <1>1 DEF RowsOf
    <3> QED
      BY <1>1, <2>2, <2>3, <3>1, OldRow
  <2>6. ASSUME NEW i \in Owed(s)', i <= T.top
        PROVE  i \in Owed(s)
    <3>1. i \in Nat
      BY <1>1 DEF Owed, Worded, RowsOf
    <3> QED
      BY <1>1, <2>2, <2>6, <3>1, OldOwed
  <2>4. /\ RowsOf(turn[t].ctx.ses)' = RowsOf(s)' /\ RowsOf(turn[t].ctx.ses) = RowsOf(s)
        /\ Owed(turn[t].ctx.ses)' = Owed(s)' /\ Owed(turn[t].ctx.ses) = Owed(s)
    BY <2>1 DEF Owed, Worded, RowsOf
  <2>5. T.top <= last'
    BY <1>1, <2>2
  <2> QED
    BY <2>3, <2>4, <2>5, <2>6 DEF ReadsAll
<1> QED
  BY <1>2, <1>3

\* The second query: the newest rows, all of them from some row on.
LEMMA ReadRecentAll ==
  ASSUME IInv, TypeOK', NEW t \in Turns, ReadRecent(t)
  PROVE  ReadsAll(t)'
<1> DEFINE T == turn[t]
           R == RowsOf(T.ctx.ses)
           L == LastN(R, RecentLimit)
           W == RecentRows(t)
           V == WindowStart(W, T.ctx)
<1>1. TypeOK /\ T \in TurnType
  BY DEF IInv, TypeOK
<1>2. /\ turn'[t].pc = "older" /\ turn'[t].ctx = T.ctx /\ turn'[t].row = T.row
      /\ turn'[t].window = V /\ turn'[t].top = last
  <2>1. turn'[t] = [T EXCEPT !.pc = "older", !.top = last, !.window = V]
    BY <1>1 DEF TypeOK, ReadRecent
  <2> HIDE DEF V
  <2> QED
    BY <1>1, <2>1 DEF TurnType
<1>3. msg' = msg /\ last' = last /\ last \in Nat
  BY <1>1 DEF ReadRecent, TypeOK
<1>4. /\ R \in SUBSET Ids /\ L \subseteq R /\ W \subseteq L
      /\ \A i \in L : i # T.row => i \in W
  BY DEF RowsOf, RecentRows, LastN
<1>5. V \subseteq W /\ \A i \in W : i > T.ctx.through => i \in V
  BY DEF WindowStart, LastN
<1>6. ASSUME NEW i \in R, i > T.ctx.through, NEW k \in V, k <= i
      PROVE  i \in V \cup {T.row}
  <2>1. k \in L /\ RecentLimit \in Nat
    BY <1>4, <1>5
  <2>2. i \in L
    BY <1>4, <1>6, <2>1, LastNUp
  <2> QED
    BY <1>4, <1>5, <1>6, <2>2
<1>7. RowsOf(turn[t].ctx.ses)' = R
  BY <1>2, <1>3 DEF RowsOf
<1> HIDE DEF R, L, W, V
<1> QED
  BY <1>2, <1>3, <1>6, <1>7 DEF ReadsAll

\* The third query: what is before the window, or is known not to be read.
LEMMA ReadOlderAll ==
  ASSUME IInv, TypeOK', NEW t \in Turns, ReadsAll(t), ReadOlder(t)
  PROVE  ReadsAll(t)'
<1> DEFINE T == turn[t]
           R == RowsOf(T.ctx.ses)
<1>0. PICK found \in {FirstN(Behind(t), OlderCap), {}} :
         /\ turn' = [turn EXCEPT ![t] = [@ EXCEPT !.pc = "loop", !.older = Worded(found)]]
         /\ unread' = unread \cup (Behind(t) \ found)
  BY DEF ReadOlder
<1> DEFINE O == Worded(found)
<1>1. TypeOK /\ T \in TurnType
  BY DEF IInv, TypeOK
<1>2. /\ turn'[t].pc = "loop" /\ turn'[t].ctx = T.ctx /\ turn'[t].row = T.row
      /\ turn'[t].window = T.window /\ turn'[t].older = O /\ turn'[t].top = T.top
  <2>1. turn'[t] = [T EXCEPT !.pc = "loop", !.older = O]
    BY <1>0, <1>1 DEF TypeOK
  <2> HIDE DEF O
  <2> QED
    BY <1>1, <2>1 DEF TurnType
<1>3. \A i \in Behind(t) : msg[i].text => i \in O \cup unread'
  BY <1>0 DEF Worded
<1>4. msg' = msg /\ last' = last /\ T.pc = "older"
  BY DEF ReadOlder
<1>5. RowsOf(turn[t].ctx.ses)' = R /\ Owed(turn[t].ctx.ses)' = Worded(R) \ unread'
  BY <1>2, <1>4 DEF Owed, Worded, RowsOf
<1>6. \A i \in Worded(R) \ unread' :
         i > T.ctx.through /\ (\A k \in T.window : i < k) => i \in O
  BY <1>3 DEF Behind, Worded
<1> HIDE DEF O
<1> QED
  BY <1>2, <1>4, <1>5, <1>6 DEF ReadsAll

\* After any other step of a turn it is outside its loop.
LEMMA LeavesReads ==
  ASSUME IInv, NEW t \in Turns,
         \/ StartTurn(t) \/ PersistUser(t) \/ Command(t) \/ ReadSession(t)
         \/ LoopWithoutSession(t) \/ LoopCompacts(t) \/ LoopLags(t) \/ LoopPlain(t)
         \/ PersistAnswer(t) \/ NoAnswer(t) \/ FinishTurn(t)
  PROVE  turn'[t].pc \notin {"older", "loop"}
<1>0. TypeOK /\ turn[t] \in TurnType
  BY DEF IInv, TypeOK
<1>1. CASE StartTurn(t) \/ PersistAnswer(t) \/ NoAnswer(t)
  <2>1. PICK p \in {"started", "finish"} : turn' = [turn EXCEPT ![t].pc = p]
    BY <1>1 DEF StartTurn, PersistAnswer, NoAnswer
  <2>2. turn'[t] = [turn[t] EXCEPT !.pc = p]
    BY <1>0, <2>1 DEF TypeOK
  <2> QED
    BY <1>0, <2>2 DEF TurnType
<1>2. CASE PersistUser(t)
  <2>1. PICK s \in Sessions :
          turn'[t] = [turn[t] EXCEPT !.pc = "handling", !.ses = s, !.row = last + 1]
    BY <1>0, <1>2 DEF PersistUser, TypeOK
  <2> QED
    BY <1>0, <2>1 DEF TurnType
<1>3. CASE ReadSession(t)
  <2>1. turn'[t] = [turn[t] EXCEPT !.pc = "recent", !.ctx = ActiveContext]
    BY <1>0, <1>3 DEF ReadSession, TypeOK
  <2> QED
    BY <1>0, <2>1 DEF TurnType
<1>4. CASE Answer(t)
  BY <1>0, <1>4, AnswerIs
<1>5. CASE FinishTurn(t)
  <2>1. NoTurnYet \in TurnType
    BY DEF NoTurnYet, NoCtx, Ctx, TurnType, TurnPcs
  <2>2. turn'[t] = [NoTurnYet EXCEPT !.pc = "done"]
    BY <1>0, <1>5 DEF FinishTurn, TypeOK
  <2> QED
    BY <2>1, <2>2 DEF TurnType
<1> QED
  BY <1>1, <1>2, <1>3, <1>4, <1>5
  DEF Command, LoopWithoutSession, LoopCompacts, LoopLags, LoopPlain

\* Only the two queries change what a turn in its loop has read.
LEMMA NextReads == ReadInv /\ [Next]_vars => ReadInv'
<1> SUFFICES ASSUME ReadInv, [Next]_vars PROVE ReadInv'
  OBVIOUS
<1>0. IInv /\ \A t \in Turns : ReadsAll(t)
  BY DEF ReadInv
<1>1. IInv' /\ TypeOK' /\ OnlyNewRows
  BY <1>0, IInvPlaced, NextIInv, NextType, RowsStep
<1>2. CASE turn' = turn
  BY <1>0, <1>1, <1>2, SameReads DEF ReadInv
<1>3. CASE TurnStep
  <2>1. PICK t \in Turns :
         \/ StartTurn(t) \/ PersistUser(t) \/ Command(t)
         \/ ReadSession(t) \/ ReadRecent(t) \/ ReadOlder(t)
         \/ LoopWithoutSession(t) \/ LoopCompacts(t) \/ LoopLags(t) \/ LoopPlain(t)
         \/ PersistAnswer(t) \/ NoAnswer(t) \/ FinishTurn(t)
    BY <1>3 DEF TurnStep
  <2>2. PICK r : turn' = [turn EXCEPT ![t] = r]
    <3>1. CASE ReadSession(t) \/ ReadRecent(t) \/ ReadOlder(t)
      BY <3>1 DEF ReadSession, ReadRecent, ReadOlder
    <3>2. CASE StartTurn(t) \/ PersistAnswer(t) \/ NoAnswer(t) \/ FinishTurn(t)
      BY <3>2 DEF StartTurn, PersistAnswer, NoAnswer, FinishTurn
    <3>3. CASE PersistUser(t)
      BY <3>3 DEF PersistUser
    <3>4. CASE Answer(t)
      BY <3>4 DEF Answer
    <3> QED
      BY <2>1, <3>1, <3>2, <3>3, <3>4
      DEF Command, LoopWithoutSession, LoopCompacts, LoopLags, LoopPlain
  <2>3. \A u \in Turns : u # t => turn'[u] = turn[u]
    BY <1>0, <2>2 DEF IInv, TypeOK
  <2>4. ReadsAll(t)'
    <3>1. CASE ReadRecent(t)
      BY <1>0, <1>1, <3>1, ReadRecentAll
    <3>2. CASE ReadOlder(t)
      BY <1>0, <1>1, <3>2, ReadOlderAll
    <3>3. CASE turn'[t].pc \notin {"older", "loop"}
      BY <3>3 DEF ReadsAll
    <3> QED
      BY <1>0, <2>1, <3>1, <3>2, <3>3, LeavesReads
  <2> QED
    BY <1>0, <1>1, <2>3, <2>4, SameReads DEF ReadInv
<1> QED
  BY <1>2, <1>3
  DEF Next, UserStep, WriterStep, CloseStep, vars, CreateSession, ActivateSession,
      ArchiveSession, ClearRows, ClearState, WriteLands, WriteMisses, Reread,
      WriteDiscarded, MarkCompacted, CloseStart, CloseReadSession, CloseReadRows,
      CloseDecide, CloseHeld

\* A turn's three queries -- the working state, the window and the rows between
\* -- miss no row of the conversation that has a text, whatever writers and
\* clears did between them, but for what the third left out when it failed or
\* ran into its limit.
THEOREM ConversationReads == Spec => []NothingFallsBetween
<1>1. Init => ReadInv
  <2> SUFFICES ASSUME Init PROVE ReadInv
    OBVIOUS
  <2>1. \A t \in Turns : turn[t].pc = "idle"
    BY DEF Init, NoTurnYet
  <2> QED
    BY <2>1, InitIInv DEF ReadInv, ReadsAll
<1>2. ReadInv /\ [Next]_vars => ReadInv'
  BY NextReads
<1>3. ReadInv => NothingFallsBetween
  <2> SUFFICES ASSUME ReadInv, NEW t \in Turns, turn[t].pc = "loop",
                      NEW i \in Owed(turn[t].ctx.ses), i <= turn[t].top
               PROVE  i \in turn[t].ctx.state \cup turn[t].window \cup turn[t].older
                            \cup {turn[t].row}
    BY DEF NothingFallsBetween
  <2>1. /\ Knows(turn[t].ctx.ses, turn[t].ctx.state, turn[t].ctx.through)
        /\ ReadsAll(t)
    BY DEF ReadInv, IInv, TurnOK
  <2>2. /\ turn[t].ctx.through \in Nat /\ turn[t].window \subseteq Ids
        /\ i \in Ids /\ i \in RowsOf(turn[t].ctx.ses) /\ \A k \in Ids : k \in Nat
    <3>1. turn[t].ctx.through \in Nat /\ turn[t].window \subseteq Ids
      BY DEF ReadInv, IInv, TypeOK, TurnType, Ctx
    <3> QED
      BY <3>1 DEF Owed, Worded, RowsOf, Ids
  <2>3. CASE i <= turn[t].ctx.through
    BY <2>1, <2>3 DEF Knows
  <2>4. CASE i > turn[t].ctx.through /\ \E k \in turn[t].window : k <= i
    BY <2>1, <2>2, <2>4 DEF ReadsAll
  <2>5. CASE i > turn[t].ctx.through /\ \A k \in turn[t].window : i < k
    BY <2>1, <2>5 DEF ReadsAll
  <2> QED
    BY <2>2, <2>3, <2>4, <2>5
<1> QED
  BY <1>1, <1>2, <1>3, PTL DEF Spec

----------------------------------------------------------------------------
(* Where a turn's rows land. *)

OpenPcs == {"handling", "recent", "older", "loop", "answer"}

\* A turn that has not asked has no row; while it is open, its rows are in the
\* conversation it was pinned to, or were cleared.
AskedIn ==
    \A i \in Ids : msg[i].turn \in Turns =>
        /\ turn[msg[i].turn].pc \notin {"idle", "started"}
        /\ turn[msg[i].turn].pc \in OpenPcs =>
              msg[i].ses \in {turn[msg[i].turn].ses, NoSession}

AskInv == Placed /\ AskedIn /\ TurnInOneConversation

\* A turn goes on in its conversation, or is over.
GoesOn(t) ==
    /\ turn'[t].pc \in {"idle", "started"} => turn[t].pc \in {"idle", "started"}
    /\ turn'[t].pc \in OpenPcs => turn[t].pc \in OpenPcs /\ turn'[t].ses = turn[t].ses

\* Rows that are cleared at most, and turns that go on.
LEMMA SameAsked ==
  ASSUME AskInv, Placed', \A t \in Turns : GoesOn(t),
         \A i \in Ids : msg'[i].turn = msg[i].turn /\ msg'[i].ses \in {msg[i].ses, NoSession}
  PROVE  AskInv'
<1>1. AskedIn'
  BY DEF AskInv, AskedIn, GoesOn
<1>2. TurnInOneConversation'
  BY DEF AskInv, TurnInOneConversation
<1> QED
  BY <1>1, <1>2 DEF AskInv

\* A turn's steps that write no row.
LEMMA QuietTurn ==
  ASSUME TypeOK, NEW t \in Turns,
         \/ StartTurn(t) \/ Command(t)
         \/ ReadSession(t) \/ ReadRecent(t) \/ ReadOlder(t)
         \/ LoopWithoutSession(t) \/ LoopCompacts(t) \/ LoopLags(t) \/ LoopPlain(t)
         \/ NoAnswer(t) \/ FinishTurn(t)
  PROVE  msg' = msg /\ \A u \in Turns : GoesOn(u)
<1>0. turn \in [Turns -> TurnType] /\ turn[t] \in TurnType
  BY DEF TypeOK
<1>1. msg' = msg
  BY DEF StartTurn, Command, ReadSession, ReadRecent, ReadOlder, LoopWithoutSession,
         LoopCompacts, LoopLags, LoopPlain, NoAnswer, FinishTurn
<1>2. (\A u \in Turns : u # t => turn'[u] = turn[u]) /\ GoesOn(t)
  <2>1. CASE StartTurn(t) \/ NoAnswer(t) \/ FinishTurn(t)
    BY <1>0, <2>1 DEF StartTurn, NoAnswer, FinishTurn, TurnType, NoTurnYet, GoesOn, OpenPcs
  <2>2. CASE Command(t) \/ LoopWithoutSession(t) \/ LoopCompacts(t) \/ LoopLags(t) \/ LoopPlain(t)
    <3>1. Answer(t) /\ turn[t].pc \in OpenPcs
      BY <2>2 DEF Command, LoopWithoutSession, LoopCompacts, LoopLags, LoopPlain, OpenPcs
    <3>2. /\ turn'[t].pc = "answer" /\ turn'[t].ses = turn[t].ses
          /\ \A u \in Turns : u # t => turn'[u] = turn[u]
      BY <1>0, <3>1 DEF Answer, NoTurnYet
    <3> QED
      BY <3>1, <3>2 DEF GoesOn
  <2>3. CASE ReadSession(t)
    <3>1. PICK c : turn' = [turn EXCEPT ![t] = [@ EXCEPT !.pc = "recent", !.ctx = c]]
      BY <2>3 DEF ReadSession
    <3> QED
      BY <1>0, <2>3, <3>1 DEF ReadSession, TurnType, GoesOn, OpenPcs
  <2>4. CASE ReadRecent(t)
    <3>1. PICK w : turn' = [turn EXCEPT ![t] =
                              [@ EXCEPT !.pc = "older", !.top = last, !.window = w]]
      BY <2>4 DEF ReadRecent
    <3> QED
      BY <1>0, <2>4, <3>1 DEF ReadRecent, TurnType, GoesOn, OpenPcs
  <2>5. CASE ReadOlder(t)
    <3>1. PICK o : turn' = [turn EXCEPT ![t] = [@ EXCEPT !.pc = "loop", !.older = o]]
      BY <2>5 DEF ReadOlder
    <3> QED
      BY <1>0, <2>5, <3>1 DEF ReadOlder, TurnType, GoesOn, OpenPcs
  <2> QED
    BY <2>1, <2>2, <2>3, <2>4, <2>5
<1> QED
  BY <1>1, <1>2 DEF GoesOn

\* A question is a turn's first row.
LEMMA QuestionAsked ==
  ASSUME AskInv, Placed', NEW t \in Turns, PersistUser(t)
  PROVE  AskInv'
<1>0. TypeOK /\ turn \in [Turns -> TurnType] /\ turn[t] \in TurnType
  BY DEF AskInv, Placed, TypeOK
<1>1. PICK s \in Sessions, text \in BOOLEAN :
        /\ Insert(s, t, "user", text)
        /\ turn' = [turn EXCEPT ![t] = [@ EXCEPT !.pc = "handling", !.ses = s, !.row = last + 1]]
  BY DEF PersistUser
<1>2. /\ last + 1 \in Ids /\ msg'[last + 1].turn = t /\ msg'[last + 1].ses = s
      /\ \A i \in Ids : i # last + 1 => msg'[i] = msg[i]
  BY SMTT(30), <1>0, <1>1 DEF Insert, TypeOK, Ids
<1>3. /\ turn'[t].pc = "handling" /\ turn'[t].ses = s /\ turn[t].pc = "started"
      /\ \A u \in Turns : u # t => turn'[u] = turn[u]
  BY <1>0, <1>1 DEF PersistUser, TurnType
<1>4. \A i \in Ids : msg[i].turn # t
  BY <1>3 DEF AskInv, AskedIn
<1>5. PICK n \in Ids : n = last + 1
  BY <1>2
<1>6. /\ msg'[n].turn = t /\ msg'[n].ses = s
      /\ \A i \in Ids : i # n => msg'[i] = msg[i]
  BY <1>2, <1>5
<1>7. AskedIn'
  <2> SUFFICES ASSUME NEW i \in Ids, msg'[i].turn \in Turns
               PROVE  /\ turn'[msg'[i].turn].pc \notin {"idle", "started"}
                      /\ turn'[msg'[i].turn].pc \in OpenPcs =>
                            msg'[i].ses \in {turn'[msg'[i].turn].ses, NoSession}
    BY DEF AskedIn
  <2>1. CASE i = n
    BY <1>3, <1>6, <2>1
  <2>2. CASE i # n
    BY <1>3, <1>4, <1>6, <2>2 DEF AskInv, AskedIn
  <2> QED
    BY <2>1, <2>2
<1>8. TurnInOneConversation'
  BY <1>4, <1>6 DEF AskInv, TurnInOneConversation
<1> QED
  BY <1>7, <1>8 DEF AskInv

\* The answer goes where the question went.
LEMMA AnswerAsked ==
  ASSUME AskInv, Placed', NEW t \in Turns, PersistAnswer(t)
  PROVE  AskInv'
<1>0. TypeOK /\ turn \in [Turns -> TurnType] /\ turn[t] \in TurnType
  BY DEF AskInv, Placed, TypeOK
<1>1. PICK n \in Ids : n = last + 1
  BY <1>0 DEF PersistAnswer, Insert, TypeOK, Ids
<1>2. /\ msg'[n].turn = t /\ msg'[n].ses = turn[t].ses
      /\ \A i \in Ids : i # n => msg'[i] = msg[i]
  BY <1>0, <1>1 DEF PersistAnswer, AnswerSession, Insert, TypeOK
<1>3. /\ turn'[t].pc = "finish" /\ turn[t].pc = "answer"
      /\ \A u \in Turns : u # t => turn'[u] = turn[u]
  BY <1>0 DEF PersistAnswer, TurnType
<1>4. \A i \in Ids : msg[i].turn = t => msg[i].ses \in {turn[t].ses, NoSession}
  BY <1>3 DEF AskInv, AskedIn, OpenPcs
<1>5. AskedIn'
  <2> SUFFICES ASSUME NEW i \in Ids, msg'[i].turn \in Turns
               PROVE  /\ turn'[msg'[i].turn].pc \notin {"idle", "started"}
                      /\ turn'[msg'[i].turn].pc \in OpenPcs =>
                            msg'[i].ses \in {turn'[msg'[i].turn].ses, NoSession}
    BY DEF AskedIn
  <2>1. CASE msg'[i].turn = t
    BY <1>3, <2>1 DEF OpenPcs
  <2>2. CASE msg'[i].turn # t
    <3>1. msg'[i] = msg[i] /\ turn'[msg[i].turn] = turn[msg[i].turn]
      BY <1>2, <1>3, <2>2
    <3> QED
      BY <3>1 DEF AskInv, AskedIn
  <2> QED
    BY <2>1, <2>2
<1>6. TurnInOneConversation'
  BY <1>2, <1>4 DEF AskInv, TurnInOneConversation
<1> QED
  BY <1>5, <1>6 DEF AskInv

\* Every step keeps a turn's rows together.
LEMMA NextAsked == AskInv /\ [Next]_vars => AskInv'
<1> SUFFICES ASSUME AskInv, [Next]_vars PROVE AskInv'
  OBVIOUS
<1>0. TypeOK /\ msg \in [Ids -> MsgType] /\ Placed'
  BY NextPlaced DEF AskInv, Placed, TypeOK
<1>1. ASSUME turn' = turn,
             \A i \in Ids : msg'[i].turn = msg[i].turn /\ msg'[i].ses \in {msg[i].ses, NoSession}
      PROVE  AskInv'
  BY <1>0, <1>1, SameAsked DEF GoesOn
<1>2. CASE UserStep
  <2> PICK s \in Sessions : \/ CreateSession(s) \/ ActivateSession(s) \/ ArchiveSession(s)
                            \/ ClearRows(s) \/ ClearState(s)
    BY <1>2 DEF UserStep
  <2>1. turn' = turn
    BY DEF CreateSession, ActivateSession, ArchiveSession, ClearRows, ClearState
  <2>2. \A i \in Ids : msg'[i].turn = msg[i].turn /\ msg'[i].ses \in {msg[i].ses, NoSession}
    <3>1. CASE ClearRows(s)
      BY <1>0, <3>1 DEF ClearRows, MsgType
    <3>2. CASE ~ClearRows(s)
      BY <3>2 DEF CreateSession, ActivateSession, ArchiveSession, ClearState
    <3> QED
      BY <3>1, <3>2
  <2> QED
    BY <1>1, <2>1, <2>2
<1>3. CASE TurnStep
  <2> PICK t \in Turns :
         \/ StartTurn(t) \/ PersistUser(t) \/ Command(t)
         \/ ReadSession(t) \/ ReadRecent(t) \/ ReadOlder(t)
         \/ LoopWithoutSession(t) \/ LoopCompacts(t) \/ LoopLags(t) \/ LoopPlain(t)
         \/ PersistAnswer(t) \/ NoAnswer(t) \/ FinishTurn(t)
    BY <1>3 DEF TurnStep
  <2>1. CASE PersistUser(t)
    BY <1>0, <2>1, QuestionAsked
  <2>2. CASE PersistAnswer(t)
    BY <1>0, <2>2, AnswerAsked
  <2>3. CASE ~PersistUser(t) /\ ~PersistAnswer(t)
    <3>1. msg' = msg /\ \A u \in Turns : GoesOn(u)
      BY <1>0, <2>3, QuietTurn
    <3> QED
      BY <1>0, <3>1, SameAsked
  <2> QED
    BY <2>1, <2>2, <2>3
<1>4. CASE WriterStep \/ CloseStep \/ UNCHANGED vars
  <2>1. turn' = turn /\ msg' = msg
    BY <1>4 DEF WriterStep, WriteLands, WriteMisses, Reread, WriteDiscarded, MarkCompacted,
                CloseStep, CloseStart, CloseReadSession, CloseReadRows, CloseDecide, CloseHeld, vars
  <2> QED
    BY <1>1, <2>1
<1> QED
  BY <1>2, <1>3, <1>4 DEF Next

\* No turn has a row at the start.
LEMMA InitAsked == Init => AskInv
<1> SUFFICES ASSUME Init PROVE AskInv
  OBVIOUS
<1>1. \A i \in Ids : msg[i].turn = NoTurn
  BY DEF Init, NoMsg
<1> QED
  BY <1>1, InitIInv, IInvPlaced DEF AskInv, AskedIn, TurnInOneConversation

\* A turn's question and answer are in one conversation, however the user
\* switched, archived or cleared conversations while the loop ran, and whatever
\* the limits.
THEOREM TurnInOneConversationAlways == Spec => []TurnInOneConversation
<1>1. Init => AskInv
  BY InitAsked
<1>2. AskInv /\ [Next]_vars => AskInv'
  BY NextAsked
<1>3. AskInv => TurnInOneConversation
  BY DEF AskInv
<1> QED
  BY <1>1, <1>2, <1>3, PTL DEF Spec
===========================================================================
