--------------------------- MODULE FollowupProofs ---------------------------
(***************************************************************************)
(* Why a follow-up is claimed once, in turn and never after its cancel, and *)
(* why a turn nobody overtook is where it was promised - for any number of  *)
(* rows, conversations, workflows, turns and crashes.                       *)
(***************************************************************************)
EXTENDS FollowupQueue, TLAPS

USE NamesAssumption, BoundsAssumption

RowStatus  == {"none", "queued", "running", "done", "cancelled"}
TurnPlaces == {"idle", "read", "create", "get", "bind", "open", "reread",
               "insert", "handle", "close", "done"}
FlowPlaces == {"idle", "run", "released", "claim", "spawn", "done"}
AnyRoot    == Roots \cup {NoRoot}
AnySession == Sessions \cup {NoSession}

Held(w, i) == flow[w].pc = "spawn" /\ flow[w].row = i

\* Who has a row in hand, seen from the row: it is running while a claimer
\* holds it, and then its turn has not begun.
Holders ==
    /\ \A w \in Flows : flow[w].pc = "spawn" =>
          /\ flow[w].row \in Rows
          /\ row[flow[w].row].status = "running" /\ turn[flow[w].row].pc = "idle"
    /\ \A v, w \in Flows : \A i \in Rows : Held(v, i) /\ Held(w, i) => v = w

\* A row's turn exists once it was spawned, and not before.
Spawned ==
    \A i \in Rows :
        /\ row[i].status \in {"none", "queued", "cancelled"} => turn[i].pc = "idle"
        /\ begun[i] = IF turn[i].pc = "idle" THEN 0 ELSE 1
        /\ i \in told => row[i].status = "cancelled"

\* Ids are given in order, and what was claimed leaves nothing older waiting.
InTurn ==
    \A i, j \in Rows : j < i =>
        /\ row[i].status # "none" => row[j].status # "none"
        /\ row[i].status \in {"running", "done"} => row[j].status # "queued"

ClaimInv == TypeOK /\ Holders /\ Spawned /\ InTurn /\ InHand

\* A turn with a project reads the lane first; a follow-up's turn has the
\* project of its row.
TurnRoots(t) ==
    /\ turn[t].pc = "read" => turn[t].root # NoRoot
    /\ t \in Rows /\ turn[t].pc # "idle" => turn[t].root = row[t].root

\* A conversation bound to the turn's own project, if it has one.
Own(s, root) == root = NoRoot \/ sess[s].root = root

\* What a turn knows of the lane at each of its awaits, while nobody overtook
\* it: what it is about to use is not another project's.
Fits(t) ==
    t \notin strayed \cup outbid =>
        /\ turn[t].pc = "get" => \A s \in Active : Suits(s, turn[t].root)
        /\ turn[t].pc = "open" => Active = {}
        /\ turn[t].pc = "reread" => \A s \in Active : Own(s, turn[t].root)
        /\ turn[t].pc = "bind" /\ turn[t].ses \in Known => Suits(turn[t].ses, turn[t].root)
        /\ Settled(t) /\ turn[t].ses \in Known => Own(turn[t].ses, turn[t].root)

\* The conversation a row was queued in is the lane's from the claim until the
\* row's turn settles on it, while nobody moves the lane.
Promised(i) ==
    i \notin strayed /\ row[i].ses # NoSession =>
        /\ i \in Resolving => row[i].ses \in Active
        /\ turn[i].pc = "create" => ~Suits(row[i].ses, row[i].root)
        /\ turn[i].pc \in {"bind", "insert", "handle", "close"} =>
              turn[i].ses = row[i].ses \/ ~Suits(row[i].ses, row[i].root)

Placed(t) ==
    /\ turn[t].ses # NoSession => sess[turn[t].ses].status # "none"
    /\ TurnRoots(t)
    /\ Fits(t)
    /\ t \in Rows => Promised(t)

\* A pin names a conversation that is still there.
Pins == \A i \in Rows : row[i].ses # NoSession => row[i].ses \in Known

PlaceInv == OneActive /\ Pins /\ \A t \in Turns : Placed(t)

----------------------------------------------------------------------------
(* Types. *)

RowType  == [status : RowStatus, ses : AnySession, root : AnyRoot]
TurnType == [pc : TurnPlaces, ses : AnySession, root : AnyRoot]
FlowType == [pc : FlowPlaces, ses : AnySession, root : AnyRoot, row : Rows \cup {0}]

\* The types, each table on its own.
Typed ==
    /\ row \in [Rows -> RowType] /\ sess \in [Sessions -> SessType]
    /\ turn \in [Turns -> TurnType] /\ flow \in [Flows -> FlowType]
    /\ drop \in Rows \cup {0} /\ del \in Sessions \cup {NoSession}
    /\ stopping \in BOOLEAN /\ up \in BOOLEAN
    /\ moves \in 0..MaxMoves /\ crashes \in 0..MaxCrashes
    /\ told \subseteq Rows /\ lost \subseteq Rows
    /\ strayed \subseteq Turns /\ outbid \subseteq Turns
    /\ begun \in [Rows -> Nat]

\* TypeOK is its tables' types, in this state and in the next.
LEMMA Tables == (TypeOK <=> Typed) /\ (TypeOK' <=> Typed')
BY DEF Typed, TypeOK, RowType, TurnType, FlowType, RowStatus, TurnPlaces, FlowPlaces, AnyRoot,
       AnySession

\* Archiving keeps every row of the table but its status.
LEMMA ArchiveType ==
  ASSUME NEW table \in [Sessions -> SessType]
  PROVE  /\ ArchiveActive(table) \in [Sessions -> SessType]
         /\ \A s \in Sessions :
               /\ ArchiveActive(table)[s].root = table[s].root
               /\ ArchiveActive(table)[s].status =
                     IF table[s].status = "active" THEN "archived" ELSE table[s].status
BY DEF ArchiveActive, SessType

\* What the session transactions do to one row of the table.
LEMMA ActivatedType ==
  ASSUME TypeOK, NEW s \in Sessions
  PROVE  /\ Activated(s) \in [Sessions -> SessType]
         /\ \A u \in Sessions :
               /\ Activated(s)[u].root = sess[u].root
               /\ Activated(s)[u].status =
                     IF u = s /\ s \in Known THEN "active"
                     ELSE IF sess[u].status = "active" THEN "archived" ELSE sess[u].status
<1>1. sess \in [Sessions -> SessType]
  BY DEF TypeOK
<1> DEFINE table == ArchiveActive(sess)
<1>2. /\ table \in [Sessions -> SessType]
      /\ \A u \in Sessions :
            /\ table[u].root = sess[u].root
            /\ table[u].status = IF sess[u].status = "active" THEN "archived" ELSE sess[u].status
  BY <1>1, ArchiveType
<1>3. Activated(s) = IF s \in Known THEN [table EXCEPT ![s].status = "active"] ELSE table
  BY DEF Activated
<1> HIDE DEF table
<1> QED BY <1>2, <1>3 DEF SessType

\* The new conversation is the active one, every other keeps its project.
LEMMA CreatedType ==
  ASSUME TypeOK, NEW s \in Sessions, NEW root \in AnyRoot
  PROVE  /\ Created(s, root) \in [Sessions -> SessType]
         /\ Created(s, root)[s] = [status |-> "active", root |-> root]
         /\ \A u \in Sessions \ {s} :
               /\ Created(s, root)[u].root = sess[u].root
               /\ Created(s, root)[u].status =
                     IF sess[u].status = "active" THEN "archived" ELSE sess[u].status
<1>1. sess \in [Sessions -> SessType]
  BY DEF TypeOK
<1> DEFINE table == ArchiveActive(sess)
<1>2. /\ table \in [Sessions -> SessType]
      /\ \A u \in Sessions :
            /\ table[u].root = sess[u].root
            /\ table[u].status = IF sess[u].status = "active" THEN "archived" ELSE sess[u].status
  BY <1>1, ArchiveType
<1>3. Created(s, root) = [table EXCEPT ![s] = [status |-> "active", root |-> root]]
  BY DEF Created
<1>4. [status |-> "active", root |-> root] \in SessType
  BY DEF SessType, AnyRoot
<1> HIDE DEF table
<1> QED BY <1>2, <1>3, <1>4

\* Queueing fills the first free row.
LEMMA QueueType ==
  ASSUME TypeOK, NEW root \in AnyRoot, Queue(root)
  PROVE  \E i \in Rows, s \in AnySession :
            /\ row[i].status = "none"
            /\ \A j \in Rows : j < i => row[j].status # "none"
            /\ s # NoSession => s \in Active
            /\ row' = [row EXCEPT ![i] = [status |-> "queued", ses |-> s, root |-> root]]
            /\ row' \in [Rows -> RowType]
<1>1. PICK i \in Rows : /\ row[i].status = "none"
                        /\ \A j \in Rows : j < i => row[j].status # "none"
                        /\ \E s \in IF Active = {} THEN {NoSession} ELSE Active :
                              row' = [row EXCEPT ![i] = [status |-> "queued", ses |-> s,
                                                         root |-> root]]
  BY DEF Queue
<1>2. PICK s \in IF Active = {} THEN {NoSession} ELSE Active :
               row' = [row EXCEPT ![i] = [status |-> "queued", ses |-> s, root |-> root]]
  BY <1>1
<1>3. s \in AnySession /\ (s # NoSession => s \in Active)
  BY <1>2 DEF AnySession, Active
<1>4. row \in [Rows -> RowType]
  BY Tables DEF Typed
<1>5. [status |-> "queued", ses |-> s, root |-> root] \in RowType
  BY <1>3 DEF RowType, RowStatus
<1>6. row' \in [Rows -> RowType]
  BY <1>2, <1>4, <1>5
<1> QED BY <1>1, <1>2, <1>3, <1>6

\* A turn that goes on keeps its project.
LEMMA TurnAtType ==
  ASSUME TypeOK, NEW t \in Turns, NEW pc \in TurnPlaces, NEW s \in AnySession, TurnAt(t, pc, s)
  PROVE  /\ turn' \in [Turns -> TurnType]
         /\ turn'[t].pc = pc /\ turn'[t].ses = s /\ turn'[t].root = turn[t].root
         /\ \A u \in Turns \ {t} : turn'[u] = turn[u]
<1>1. turn \in [Turns -> TurnType]
  BY Tables DEF Typed
<1> QED BY <1>1 DEF TurnAt, TurnType

\* A workflow that goes on keeps the row it names.
LEMMA FlowGotoType ==
  ASSUME TypeOK, NEW w \in Flows, NEW pc \in FlowPlaces, FlowGoto(w, pc)
  PROVE  /\ flow' \in [Flows -> FlowType]
         /\ flow'[w].pc = pc /\ flow'[w].row = flow[w].row
         /\ \A v \in Flows \ {w} : flow'[v] = flow[v]
<1>1. flow \in [Flows -> FlowType]
  BY Tables DEF Typed
<1> QED BY <1>1 DEF FlowGoto, FlowType

\* What is resolving is a turn.
LEMMA ResolvingType == TypeOK /\ Holders => Resolving \subseteq Turns
BY DEF Resolving, Holders, Turns

\* A client's request is counted within its bound.
LEMMA MoveType == TypeOK /\ Move => moves' \in 0..MaxMoves
BY DEF TypeOK, Move

\* Every step keeps the types.
LEMMA TypeStep == TypeOK /\ Holders /\ [Next]_vars => TypeOK'
<1> SUFFICES ASSUME TypeOK, Holders, [Next]_vars PROVE TypeOK'
  OBVIOUS
<1> USE DEF Hist, Env
<1>0. /\ strayed \cup Resolving \subseteq Turns
      /\ \A t \in Turns : strayed \cup (Resolving \ {t}) \subseteq Turns
  BY ResolvingType DEF TypeOK
<1>a. /\ row \in [Rows -> RowType] /\ sess \in [Sessions -> SessType]
      /\ turn \in [Turns -> TurnType] /\ flow \in [Flows -> FlowType]
  BY Tables DEF Typed
<1>1. ASSUME NEW s \in Sessions, ActivateSession(s) PROVE TypeOK'
  BY <1>0, <1>1, ActivatedType, MoveType DEF ActivateSession, Strays, TypeOK
<1>2. ASSUME NEW s \in Sessions, ArchiveSession(s) PROVE TypeOK'
  BY <1>0, <1>2, <1>a, ArchiveType, MoveType DEF ArchiveSession, Strays, TypeOK
<1>3. ASSUME NEW s \in Sessions, DeleteCheck(s) PROVE TypeOK'
  BY <1>3, MoveType DEF DeleteCheck, TypeOK
<1>4. ASSUME NEW s \in Sessions, NEW root \in AnyRoot, CreateSession(s, root) PROVE TypeOK'
  BY <1>0, <1>4, CreatedType, MoveType DEF CreateSession, Strays, TypeOK
<1>5. CASE DeleteSession
  <2>1. [status |-> "gone", root |-> NoRoot] \in SessType
    BY DEF SessType
  <2>2. sess' \in [Sessions -> SessType]
    BY <1>5, <1>a, <2>1 DEF DeleteSession
  <2>3. row' \in [Rows -> RowType]
    BY <1>5, <1>a DEF DeleteSession, RowType, AnySession
  <2> QED BY <1>0, <1>5, <2>2, <2>3, Tables DEF Typed, DeleteSession, Strays
<1>6. ASSUME NEW root \in AnyRoot, PostFollowup(root) PROVE TypeOK'
  <2>1. row' \in [Rows -> RowType]
    BY <1>6, QueueType DEF PostFollowup
  <2> QED BY <1>6, <2>1, MoveType, Tables DEF Typed, PostFollowup
<1>7. ASSUME NEW i \in Rows, DropRead(i) PROVE TypeOK'
  BY <1>7, MoveType DEF DropRead, TypeOK
<1>8. CASE CancelIfQueued
  <2>1. drop \in Rows
    BY <1>8 DEF CancelIfQueued, TypeOK
  <2>2. row' \in [Rows -> RowType]
    BY <1>8, <1>a, <2>1 DEF CancelIfQueued, RowType, RowStatus
  <2>3. told' \subseteq Rows
    BY <1>8, <2>1 DEF CancelIfQueued, TypeOK
  <2> QED BY <1>8, <2>2, <2>3, Tables DEF Typed, CancelIfQueued
<1>9. ASSUME NEW t \in Users, NEW root \in AnyRoot, UserTurn(t, root) PROVE TypeOK'
  <2>1. [pc |-> Entry(root), ses |-> NoSession, root |-> root] \in TurnType
    BY DEF TurnType, TurnPlaces, Entry, AnySession
  <2>2. turn' \in [Turns -> TurnType]
    BY <1>9, <1>a, <2>1 DEF UserTurn
  <2> QED BY <1>9, <2>2, MoveType, Tables DEF Typed, UserTurn
<1> DEFINE TurnOnly(t) == /\ \E p \in TurnPlaces, s \in AnySession : TurnAt(t, p, s)
                          /\ UNCHANGED <<row, flow, drop, del, moves, told, begun, lost, Env>>
<1>10. ASSUME NEW t \in Turns, TurnOnly(t), UNCHANGED <<sess, strayed, outbid>> PROVE TypeOK'
  <2>1. turn' \in [Turns -> TurnType]
    BY <1>10, TurnAtType
  <2> QED BY <1>10, <2>1, Tables DEF Typed
<1>11. ASSUME NEW t \in Turns, TurnReads(t) PROVE TypeOK'
  <2>1. TurnOnly(t) /\ UNCHANGED <<sess, strayed, outbid>>
    BY <1>11 DEF TurnReads, TurnPlaces, AnySession
  <2> QED BY <2>1, <1>10
<1>12. ASSUME NEW t \in Turns, TurnCreates(t) PROVE TypeOK'
  <2>1. PICK s \in Sessions : IsFresh(s) /\ sess' = Created(s, turn[t].root) /\ TurnAt(t, "insert", s)
    BY <1>12 DEF TurnCreates
  <2>2. sess' \in [Sessions -> SessType]
    BY <1>a, <2>1, CreatedType DEF TurnType
  <2>3. turn' \in [Turns -> TurnType]
    BY <2>1, TurnAtType DEF TurnPlaces, AnySession
  <2> QED BY <1>0, <1>12, <2>2, <2>3, Tables DEF Typed, TurnCreates, OthersStray
<1>13. ASSUME NEW t \in Turns, TurnGets(t) PROVE TypeOK'
  <2>1. TurnOnly(t) /\ UNCHANGED <<sess, strayed, outbid>>
    BY <1>13 DEF TurnGets, TurnPlaces, AnySession, Active
  <2> QED BY <2>1, <1>10
<1>14. ASSUME NEW t \in Turns, TurnBinds(t) PROVE TypeOK'
  <2>1. turn[t].root \in AnyRoot /\ turn[t].ses \in AnySession
    BY <1>a DEF TurnType
  <2>2. turn' \in [Turns -> TurnType]
    BY <1>14, <2>1, TurnAtType DEF TurnBinds, TurnPlaces, AnySession
  <2>3. sess' \in [Sessions -> SessType]
    <3>1. \/ sess' = sess
          \/ turn[t].ses \in Sessions /\ sess' = [sess EXCEPT ![turn[t].ses].root = turn[t].root]
      BY <1>14 DEF TurnBinds, Known
    <3> QED BY <3>1, <1>a, <2>1 DEF SessType, AnyRoot
  <2>4. outbid' \subseteq Turns
    BY <1>14 DEF TurnBinds, Rivals, TypeOK
  <2> QED BY <1>14, <2>2, <2>3, <2>4, Tables DEF Typed, TurnBinds
<1>15. ASSUME NEW t \in Turns, TurnOpens(t) PROVE TypeOK'
  <2>1. sess' \in [Sessions -> SessType]
    <3>1. turn[t].root \in AnyRoot
      BY <1>a DEF TurnType
    <3>2. sess' = sess \/ \E s \in Sessions : sess' = Created(s, turn[t].root)
      BY <1>15 DEF TurnOpens
    <3>3. ASSUME NEW s \in Sessions, sess' = Created(s, turn[t].root)
          PROVE  sess' \in [Sessions -> SessType]
      BY <3>1, <3>3, CreatedType
    <3> QED BY <3>2, <3>3, <1>a
  <2>2. turn' \in [Turns -> TurnType]
    BY <1>15, TurnAtType DEF TurnOpens, TurnPlaces, AnySession
  <2>3. strayed' \subseteq Turns
    BY <1>0, <1>15 DEF TurnOpens, OthersStray, TypeOK
  <2> QED BY <1>15, <2>1, <2>2, <2>3, Tables DEF Typed, TurnOpens
<1>16. ASSUME NEW t \in Turns, TurnRereads(t) PROVE TypeOK'
  <2>1. TurnOnly(t) /\ UNCHANGED <<sess, strayed, outbid>>
    BY <1>16 DEF TurnRereads, TurnPlaces, AnySession, Active
  <2> QED BY <2>1, <1>10
<1>17. ASSUME NEW t \in Turns, TurnInserts(t) \/ TurnAnswers(t) PROVE TypeOK'
  <2>1. turn[t].ses \in AnySession
    BY <1>a DEF TurnType
  <2>2. TurnOnly(t) /\ UNCHANGED <<sess, strayed, outbid>>
    BY <1>17, <2>1 DEF TurnInserts, TurnAnswers, TurnPlaces
  <2> QED BY <2>2, <1>10
<1>18. ASSUME NEW t \in Turns, MarkDone(t) PROVE TypeOK'
  <2>1. turn[t].ses \in AnySession
    BY <1>a DEF TurnType
  <2>2. turn' \in [Turns -> TurnType]
    BY <1>18, <2>1, TurnAtType DEF MarkDone, TurnPlaces
  <2>3. row' \in [Rows -> RowType]
    BY <1>18, <1>a DEF MarkDone, RowType, RowStatus
  <2> QED BY <1>18, <2>2, <2>3, Tables DEF Typed, MarkDone
<1>19. ASSUME NEW t \in Turns, TurnQueues(t) PROVE TypeOK'
  <2>1. row' \in [Rows -> RowType]
    BY <1>19, <1>a, QueueType DEF TurnQueues, TurnType
  <2> QED BY <1>19, <2>1, Tables DEF Typed, TurnQueues
<1>20. ASSUME NEW t \in Turns, NEW w \in Flows, TurnDelegates(t, w) PROVE TypeOK'
  <2>1. [pc |-> "run", ses |-> turn[t].ses, root |-> turn[t].root, row |-> 0] \in FlowType
    BY <1>a DEF TurnType, FlowType, FlowPlaces
  <2>2. flow' \in [Flows -> FlowType]
    BY <1>20, <1>a, <2>1 DEF TurnDelegates
  <2> QED BY <1>20, <2>2, Tables DEF Typed, TurnDelegates
<1>21. ASSUME NEW w \in Flows, FlowEnds(w) \/ FlowLooks(w) PROVE TypeOK'
  <2>1. flow' \in [Flows -> FlowType]
    BY <1>21, FlowGotoType DEF FlowEnds, FlowLooks, FlowPlaces
  <2> QED BY <1>21, <2>1, Tables DEF Typed, FlowEnds, FlowLooks
<1>22. ASSUME NEW w \in Flows, ClaimNext(w) PROVE TypeOK'
  <2>1. CASE Queued = {} /\ FlowGoto(w, "done") /\ UNCHANGED <<row, sess, strayed>>
    <3>1. flow' \in [Flows -> FlowType]
      BY <2>1, FlowGotoType DEF FlowPlaces
    <3> QED BY <1>22, <2>1, <3>1, Tables DEF Typed, ClaimNext
  <2>2. CASE \E i \in Rows :
             /\ Oldest(i)
             /\ row' = [row EXCEPT ![i].status = "running"]
             /\ flow' = [flow EXCEPT ![w].pc = "spawn", ![w].row = i]
             /\ sess' = Rehomed(row[i].ses)
             /\ IF row[i].ses = NoSession THEN UNCHANGED strayed ELSE Strays
    <3>1. PICK i \in Rows :
             /\ row' = [row EXCEPT ![i].status = "running"]
             /\ flow' = [flow EXCEPT ![w].pc = "spawn", ![w].row = i]
             /\ sess' = Rehomed(row[i].ses)
             /\ IF row[i].ses = NoSession THEN UNCHANGED strayed ELSE Strays
      BY <2>2
    <3>2. row' \in [Rows -> RowType]
      BY <3>1, <1>a DEF RowType, RowStatus
    <3>3. flow' \in [Flows -> FlowType]
      BY ZenonT(60), <3>1, <1>a DEF FlowType, FlowPlaces
    <3>4. sess' \in [Sessions -> SessType]
      BY <3>1, <1>a, ActivatedType DEF Rehomed, RowType, AnySession
    <3>5. strayed' \subseteq Turns
      BY <1>0, <3>1 DEF Strays, TypeOK
    <3> QED BY <1>22, <3>2, <3>3, <3>4, <3>5, Tables DEF Typed, ClaimNext
  <2> QED BY <1>22, <2>1, <2>2 DEF ClaimNext
<1>23. ASSUME NEW w \in Flows, SpawnFollowup(w) PROVE TypeOK'
  <2> DEFINE i == flow[w].row
  <2>1. i \in Rows
    BY <1>23 DEF SpawnFollowup, Flow, Holders
  <2>2. flow' \in [Flows -> FlowType]
    BY <1>23, FlowGotoType DEF SpawnFollowup, FlowPlaces
  <2>3. CASE i \in Unparseable
    <3>1. row' \in [Rows -> RowType] /\ UNCHANGED <<turn, begun>>
      BY <1>23, <2>1, <2>3, <1>a DEF SpawnFollowup, RowType, RowStatus
    <3> QED BY <1>23, <2>2, <3>1, Tables DEF Typed, SpawnFollowup
  <2>4. CASE i \notin Unparseable
    <3>1. [pc |-> Entry(row[i].root), ses |-> NoSession, root |-> row[i].root] \in TurnType
      BY <2>1, <1>a DEF TurnType, RowType, Entry, TurnPlaces, AnySession
    <3>2. /\ turn' = [turn EXCEPT ![i] = [pc |-> Entry(row[i].root), ses |-> NoSession,
                                          root |-> row[i].root]]
          /\ begun' = [begun EXCEPT ![i] = @ + 1] /\ UNCHANGED row
      BY <1>23, <2>4 DEF SpawnFollowup
    <3>3. turn' \in [Turns -> TurnType]
      BY <3>1, <3>2, <1>a, <2>1 DEF Turns
    <3>4. begun' \in [Rows -> Nat]
      <4>1. begun \in [Rows -> Nat] /\ begun[i] + 1 \in Nat
        BY <2>1, Tables DEF Typed
      <4>2. begun' = [begun EXCEPT ![i] = begun[i] + 1]
        BY <3>2
      <4> HIDE DEF i
      <4> QED BY <4>1, <4>2
    <3> QED BY <1>23, <2>2, <3>2, <3>3, <3>4, Tables DEF Typed, SpawnFollowup
  <2> QED BY <2>3, <2>4
<1>24. ASSUME NEW w \in Flows, FlowQueues(w) PROVE TypeOK'
  <2>1. row' \in [Rows -> RowType]
    BY <1>24, <1>a, QueueType DEF FlowQueues, FlowType
  <2> QED BY <1>24, <2>1, Tables DEF Typed, FlowQueues
<1>25. CASE Shutdown
  BY <1>25 DEF Shutdown, TypeOK
<1>26. CASE Die
  <2>1. turn' \in [Turns -> TurnType]
    BY <1>26, <1>a DEF Die, TurnType, TurnPlaces, NoTurn, AnySession, AnyRoot
  <2>2. flow' \in [Flows -> FlowType]
    BY SMTT(30), <1>26, <1>a DEF Die, FlowType, FlowPlaces, NoFlow, AnySession, AnyRoot
  <2>3. crashes' \in 0..MaxCrashes
    BY <1>26 DEF Die, TypeOK
  <2>4. lost' \subseteq Rows
    BY <1>26 DEF Die, TypeOK
  <2>5. drop' \in Rows \cup {0} /\ del' \in Sessions \cup {NoSession}
        /\ stopping' \in BOOLEAN /\ up' \in BOOLEAN
    BY <1>26 DEF Die
  <2> QED BY <1>26, <2>1, <2>2, <2>3, <2>4, <2>5, Tables DEF Typed, Die
<1>27. CASE Boot
  BY <1>27 DEF Boot, TypeOK
<1>28. CASE UNCHANGED vars
  BY <1>28 DEF vars, TypeOK
<1> QED
  BY <1>1, <1>2, <1>3, <1>4, <1>5, <1>6, <1>7, <1>8, <1>9, <1>11, <1>12, <1>13, <1>14, <1>15,
     <1>16, <1>17, <1>18, <1>19, <1>20, <1>21, <1>22, <1>23, <1>24, <1>25, <1>26, <1>27, <1>28
  DEF Next, TurnStep, FlowStep, AnyRoot

----------------------------------------------------------------------------
(* Claims. *)

Under == {"idle", "done"}

\* A step that claims, spawns, settles and queues nothing.
Quiet ==
    /\ UNCHANGED <<begun, told, lost>>
    /\ \A i \in Rows : row'[i].status = row[i].status
    /\ \A i \in Rows : turn'[i].pc = turn[i].pc \/ (turn[i].pc \notin Under /\ turn'[i].pc \notin Under)
    /\ \A w \in Flows : flow'[w] = flow[w] \/ (flow[w].pc # "spawn" /\ flow'[w].pc # "spawn")

\* A quiet step keeps the claims' invariant.
LEMMA QuietStep ==
  ASSUME ClaimInv, TypeOK', Quiet
  PROVE  ClaimInv'
<1> USE DEF Under
<1>1. \A w \in Flows : \A i \in Rows : Held(w, i)' <=> Held(w, i)
  BY DEF Quiet, Held
<1>2. Holders'
  BY <1>1 DEF ClaimInv, Holders, Quiet, Held
<1>3. Spawned'
  BY DEF ClaimInv, Spawned, Quiet
<1>4. InTurn'
  BY DEF ClaimInv, InTurn, Quiet
<1>5. InHand'
  BY <1>1 DEF ClaimInv, InHand, Quiet, Held
<1> QED BY <1>2, <1>3, <1>4, <1>5 DEF ClaimInv

\* A row that is queued, in any of the three ways.
LEMMA QueueStep ==
  ASSUME ClaimInv, TypeOK', NEW root \in AnyRoot, Queue(root), UNCHANGED <<turn, flow, begun, told, lost>>
  PROVE  ClaimInv'
<1>1. PICK i \in Rows, s \in AnySession :
            /\ row[i].status = "none"
            /\ \A j \in Rows : j < i => row[j].status # "none"
            /\ row' = [row EXCEPT ![i] = [status |-> "queued", ses |-> s, root |-> root]]
  BY QueueType DEF ClaimInv
<1>2. row'[i].status = "queued" /\ \A j \in Rows \ {i} : row'[j] = row[j]
  BY <1>1, Tables DEF ClaimInv, Typed
<1>3. Holders'
  BY <1>1, <1>2 DEF ClaimInv, Holders, Held
<1>4. Spawned'
  BY <1>1, <1>2 DEF ClaimInv, Spawned
<1>5. InTurn'
  <2> SUFFICES ASSUME NEW k \in Rows, NEW j \in Rows, j < k
               PROVE  /\ row'[k].status # "none" => row'[j].status # "none"
                      /\ row'[k].status \in {"running", "done"} => row'[j].status # "queued"
    BY DEF InTurn
  <2>1. /\ row[k].status # "none" => row[j].status # "none"
        /\ row[k].status \in {"running", "done"} => row[j].status # "queued"
    BY DEF ClaimInv, InTurn
  <2>2. CASE k = i
    BY <2>2, <1>1, <1>2
  <2>3. CASE k # i
    BY <2>1, <2>3, <1>1, <1>2
  <2> QED BY <2>2, <2>3
<1>6. InHand'
  BY <1>2 DEF ClaimInv, InHand
<1> QED BY <1>3, <1>4, <1>5, <1>6 DEF ClaimInv

\* A row leaves the queue, a claimer's hand or its turn for good.
LEMMA SettleTurn ==
  ASSUME ClaimInv, NEW i \in Rows, NEW st \in {"done", "cancelled"},
         row[i].status # "none", st = "done" => row[i].status \in {"running", "done"},
         row' = [row EXCEPT ![i].status = st]
  PROVE  InTurn' /\ row'[i].status = st /\ \A j \in Rows \ {i} : row'[j] = row[j]
<1>1. row'[i].status = st /\ \A j \in Rows \ {i} : row'[j] = row[j]
  BY Tables DEF ClaimInv, Typed, RowType
<1>2. row[i].status \in RowStatus
  BY Tables DEF ClaimInv, Typed, RowType
<1>3. InTurn'
  <2> SUFFICES ASSUME NEW k \in Rows, NEW j \in Rows, j < k
               PROVE  /\ row'[k].status # "none" => row'[j].status # "none"
                      /\ row'[k].status \in {"running", "done"} => row'[j].status # "queued"
    BY DEF InTurn
  <2>1. /\ row[k].status # "none" => row[j].status # "none"
        /\ row[k].status \in {"running", "done"} => row[j].status # "queued"
    BY DEF ClaimInv, InTurn
  <2>2. CASE k = i
    <3>1. j # i
      BY <2>2 DEF Rows
    <3> QED BY <2>1, <2>2, <3>1, <1>1, <1>2 DEF RowStatus
  <2>3. CASE k # i
    BY <2>1, <2>3, <1>1
  <2> QED BY <2>2, <2>3
<1> QED BY <1>1, <1>3

\* The claims' invariant is inductive.
LEMMA ClaimStep == ClaimInv /\ [Next]_vars => ClaimInv'
<1> SUFFICES ASSUME ClaimInv, [Next]_vars PROVE ClaimInv'
  OBVIOUS
<1> USE DEF Hist, Env
<1>t. TypeOK'
  BY TypeStep DEF ClaimInv
<1>a. /\ row \in [Rows -> RowType] /\ turn \in [Turns -> TurnType] /\ flow \in [Flows -> FlowType]
      /\ begun \in [Rows -> Nat]
  BY Tables DEF ClaimInv, Typed
<1>b. TypeOK /\ Rows \subseteq Turns
  BY DEF ClaimInv, Turns
<1>1. ASSUME NEW s \in Sessions, ActivateSession(s) \/ ArchiveSession(s) \/ DeleteCheck(s) PROVE ClaimInv'
  BY <1>1, <1>t, QuietStep DEF ActivateSession, ArchiveSession, DeleteCheck, Quiet
<1>2. ASSUME NEW s \in Sessions, NEW root, CreateSession(s, root) PROVE ClaimInv'
  BY <1>2, <1>t, QuietStep DEF CreateSession, Quiet
<1>3. CASE DeleteSession
  <2>1. \A i \in Rows : row'[i].status = row[i].status
    BY <1>3, <1>a DEF DeleteSession, RowType
  <2> QED BY <1>3, <2>1, <1>t, QuietStep DEF DeleteSession, Quiet
<1>4. ASSUME NEW root \in AnyRoot, PostFollowup(root) PROVE ClaimInv'
  BY <1>4, <1>t, QueueStep DEF PostFollowup
<1>5. ASSUME NEW i \in Rows, DropRead(i) PROVE ClaimInv'
  BY <1>5, <1>t, QuietStep DEF DropRead, Quiet
<1>6. CASE CancelIfQueued
  <2>1. CASE row[drop].status = "queued"
    <3>1. drop \in Rows
      BY <1>6, <1>b DEF CancelIfQueued, TypeOK
    <3>2. /\ row' = [row EXCEPT ![drop].status = "cancelled"] /\ told' = told \cup {drop}
          /\ UNCHANGED <<turn, flow, begun, lost>>
      BY <1>6, <2>1 DEF CancelIfQueued
    <3>3. InTurn' /\ row'[drop].status = "cancelled" /\ \A j \in Rows \ {drop} : row'[j] = row[j]
      BY <2>1, <3>1, <3>2, SettleTurn
    <3>4. Holders'
      BY <2>1, <3>1, <3>2, <3>3 DEF ClaimInv, Holders, Held
    <3>5. Spawned'
      BY <2>1, <3>1, <3>2, <3>3 DEF ClaimInv, Spawned
    <3>6. InHand'
      BY <3>1, <3>2, <3>3 DEF ClaimInv, InHand
    <3> QED BY <1>t, <3>3, <3>4, <3>5, <3>6 DEF ClaimInv
  <2>2. CASE row[drop].status # "queued"
    BY <1>6, <2>2, <1>t, QuietStep DEF CancelIfQueued, Quiet
  <2> QED BY <2>1, <2>2
<1>7. ASSUME NEW t \in Users, NEW root, UserTurn(t, root) PROVE ClaimInv'
  <2>1. \A i \in Rows : turn'[i] = turn[i]
    BY <1>7, <1>a, <1>b DEF UserTurn
  <2> QED BY <1>7, <2>1, <1>t, QuietStep DEF UserTurn, Quiet
<1>8. ASSUME NEW t \in Turns, NEW p \in TurnPlaces, NEW s \in AnySession, TurnAt(t, p, s),
             turn[t].pc \notin Under, t \in Rows => p \notin Under,
             UNCHANGED <<row, flow, begun, told, lost>>
      PROVE  ClaimInv'
  <2>1. turn'[t].pc = p /\ \A u \in Turns \ {t} : turn'[u] = turn[u]
    BY <1>8, <1>b, TurnAtType
  <2> QED BY <1>8, <2>1, <1>b, <1>t, QuietStep DEF Quiet
<1> DEFINE Walks(t) == \E p \in TurnPlaces, s \in AnySession :
               /\ TurnAt(t, p, s) /\ turn[t].pc \notin Under
               /\ t \in Rows => p \notin Under
               /\ UNCHANGED <<row, flow, begun, told, lost>>
<1>9. ASSUME NEW t \in Turns,
             TurnReads(t) \/ TurnGets(t) \/ TurnOpens(t) \/ TurnRereads(t)
      PROVE  ClaimInv'
  <2>1. Walks(t)
    BY <1>9 DEF TurnReads, TurnGets, TurnOpens, TurnRereads, Turn, TurnPlaces, AnySession, Active, Under
  <2> QED BY <2>1, <1>8
<1>10. ASSUME NEW t \in Turns, TurnCreates(t) PROVE ClaimInv'
  <2>1. Walks(t)
    BY <1>10 DEF TurnCreates, Turn, TurnPlaces, AnySession, Under
  <2> QED BY <2>1, <1>8
<1>11. ASSUME NEW t \in Turns, TurnBinds(t) \/ TurnInserts(t) \/ TurnAnswers(t) PROVE ClaimInv'
  <2>1. turn[t].ses \in AnySession
    BY <1>a DEF TurnType
  <2>2. Walks(t)
    BY <1>11, <2>1 DEF TurnBinds, TurnInserts, TurnAnswers, Turn, TurnPlaces, AnySession, Under
  <2> QED BY <2>2, <1>8
<1>12. ASSUME NEW t \in Turns, MarkDone(t) PROVE ClaimInv'
  <2>1. turn[t].ses \in AnySession /\ "done" \in TurnPlaces /\ turn[t].pc = "close"
    BY <1>12, <1>a DEF TurnType, TurnPlaces, MarkDone, Turn
  <2>2. turn'[t].pc = "done" /\ \A u \in Turns \ {t} : turn'[u] = turn[u]
    BY <1>12, <1>b, <2>1, TurnAtType DEF MarkDone
  <2>3. CASE t \in Rows
    <3>1. row[t].status \in {"running", "done"}
      BY <2>1, <2>3, <1>a DEF ClaimInv, Spawned, RowType, RowStatus
    <3>2. row' = [row EXCEPT ![t].status = "done"] /\ UNCHANGED <<flow, begun, told, lost>>
      BY <1>12 DEF MarkDone
    <3>3. InTurn' /\ row'[t].status = "done" /\ \A j \in Rows \ {t} : row'[j] = row[j]
      BY <2>3, <3>1, <3>2, SettleTurn
    <3>4. Holders'
      BY <2>1, <2>2, <2>3, <3>2, <3>3, <1>b DEF ClaimInv, Holders, Held
    <3>5. Spawned'
      BY <2>1, <2>2, <2>3, <3>1, <3>2, <3>3, <1>b DEF ClaimInv, Spawned
    <3>6. InHand'
      BY <2>1, <2>2, <2>3, <3>2, <3>3, <1>b DEF ClaimInv, InHand
    <3> QED BY <1>t, <3>3, <3>4, <3>5, <3>6 DEF ClaimInv
  <2>4. CASE t \notin Rows
    <3>1. row' = row
      BY <1>12, <1>a, <2>4 DEF MarkDone
    <3> QED BY <1>12, <2>2, <2>4, <3>1, <1>b, <1>t, QuietStep DEF MarkDone, Quiet
  <2> QED BY <2>3, <2>4
<1>13. ASSUME NEW t \in Turns, TurnQueues(t) PROVE ClaimInv'
  <2>1. turn[t].root \in AnyRoot
    BY <1>a DEF TurnType
  <2> QED BY <1>13, <2>1, <1>t, QueueStep DEF TurnQueues
<1>14. ASSUME NEW t \in Turns, NEW w \in Flows, TurnDelegates(t, w) PROVE ClaimInv'
  <2>1. flow[w].pc # "spawn" /\ flow'[w].pc # "spawn" /\ \A v \in Flows \ {w} : flow'[v] = flow[v]
    BY <1>14, <1>a DEF TurnDelegates
  <2> QED BY <1>14, <2>1, <1>t, QuietStep DEF TurnDelegates, Quiet
<1>15. ASSUME NEW w \in Flows, NEW p \in FlowPlaces, FlowGoto(w, p), p # "spawn", flow[w].pc # "spawn",
             UNCHANGED <<row, turn, begun, told, lost>>
      PROVE  ClaimInv'
  BY <1>15, <1>b, <1>t, FlowGotoType, QuietStep DEF Quiet
<1>16. ASSUME NEW w \in Flows, FlowEnds(w) \/ FlowLooks(w) PROVE ClaimInv'
  <2>1. PICK p \in {"released", "done", "claim"} : FlowGoto(w, p)
    BY <1>16 DEF FlowEnds, FlowLooks
  <2>2. p \in FlowPlaces /\ p # "spawn"
    BY DEF FlowPlaces
  <2> QED BY <1>16, <2>1, <2>2, <1>15 DEF FlowEnds, FlowLooks, Flow
<1>17. ASSUME NEW w \in Flows, ClaimNext(w) PROVE ClaimInv'
  <2>0. flow[w].pc = "claim" /\ UNCHANGED <<turn, begun, told, lost>>
    BY <1>17 DEF ClaimNext, Flow
  <2>1. CASE FlowGoto(w, "done") /\ UNCHANGED row
    BY <2>0, <2>1, <1>15 DEF FlowPlaces
  <2>2. ASSUME NEW i \in Rows, Oldest(i),
               row' = [row EXCEPT ![i].status = "running"],
               flow' = [flow EXCEPT ![w].pc = "spawn", ![w].row = i]
        PROVE  ClaimInv'
    <3>1. row[i].status = "queued" /\ \A j \in Rows : row[j].status = "queued" => i <= j
      BY <2>2 DEF Oldest, Queued
    <3>2. row'[i].status = "running" /\ \A j \in Rows \ {i} : row'[j] = row[j]
      BY <2>2, <1>a DEF RowType
    <3>3. /\ flow'[w].pc = "spawn" /\ flow'[w].row = i
          /\ \A v \in Flows \ {w} : flow'[v] = flow[v]
      BY <2>2, <1>a DEF FlowType
    <3>4. \A v \in Flows : ~Held(v, i)
      BY <3>1 DEF ClaimInv, Holders, Held
    <3>5. Holders'
      BY <2>0, <3>1, <3>2, <3>3, <3>4 DEF ClaimInv, Holders, Held, Spawned
    <3>6. Spawned'
      BY <2>0, <3>1, <3>2 DEF ClaimInv, Spawned
    <3>7. InTurn'
      <4> SUFFICES ASSUME NEW k \in Rows, NEW j \in Rows, j < k
                   PROVE  /\ row'[k].status # "none" => row'[j].status # "none"
                          /\ row'[k].status \in {"running", "done"} => row'[j].status # "queued"
        BY DEF InTurn
      <4>1. /\ row[k].status # "none" => row[j].status # "none"
            /\ row[k].status \in {"running", "done"} => row[j].status # "queued"
        BY DEF ClaimInv, InTurn
      <4>2. k \in Int /\ j \in Int /\ ~(k <= j)
        BY DEF Rows
      <4>3. CASE k = i
        BY <4>1, <4>2, <4>3, <3>1, <3>2
      <4>4. CASE k # i
        BY <4>1, <4>4, <3>1, <3>2
      <4> QED BY <4>3, <4>4
    <3>8. InHand'
      BY ZenonT(60), <2>0, <2>2, <3>2, <3>3 DEF ClaimInv, InHand
    <3> QED BY <1>t, <3>5, <3>6, <3>7, <3>8 DEF ClaimInv
  <2> QED BY <1>17, <2>1, <2>2 DEF ClaimNext
<1>18. ASSUME NEW w \in Flows, SpawnFollowup(w) PROVE ClaimInv'
  <2>0. PICK i \in Rows : i = flow[w].row
    BY <1>18 DEF SpawnFollowup, Flow, ClaimInv, Holders
  <2>1. /\ flow[w].pc = "spawn" /\ i \in Rows /\ row[i].status = "running" /\ turn[i].pc = "idle"
        /\ Held(w, i)
    BY <1>18, <2>0 DEF SpawnFollowup, Flow, ClaimInv, Holders, Held
  <2>2. flow'[w].pc = "done" /\ \A v \in Flows \ {w} : flow'[v] = flow[v]
    BY <1>18, <1>b, FlowGotoType DEF SpawnFollowup, FlowPlaces
  <2>3. UNCHANGED <<told, lost>>
    BY <1>18 DEF SpawnFollowup
  <2>4. /\ \A v \in Flows : ~Held(v, i)'
        /\ \A v \in Flows : \A j \in Rows \ {i} : Held(v, j)' <=> Held(v, j)
    <3>1. \A v \in Flows : Held(v, i) => v = w
      BY <2>1 DEF ClaimInv, Holders
    <3>3. ASSUME NEW v \in Flows, v # w, NEW j \in Rows PROVE Held(v, j)' <=> Held(v, j)
      BY <2>2, <3>3 DEF Held
    <3>4. \A j \in Rows : ~Held(w, j)' /\ (Held(w, j) => j = i)
      BY <2>0, <2>2 DEF Held
    <3> QED BY <2>1, <3>1, <3>3, <3>4
  <2>a. \A v \in Flows : flow'[v].pc = "spawn" =>
           /\ flow'[v].row \in Rows \ {i} /\ row[flow'[v].row].status = "running"
           /\ turn[flow'[v].row].pc = "idle"
    <3> SUFFICES ASSUME NEW v \in Flows, flow'[v].pc = "spawn"
                 PROVE  /\ flow'[v].row \in Rows \ {i} /\ row[flow'[v].row].status = "running"
                        /\ turn[flow'[v].row].pc = "idle"
      OBVIOUS
    <3>1. v # w /\ flow'[v] = flow[v]
      BY <2>2
    <3>2. flow[v].row # i
      BY <2>4, <3>1 DEF Held
    <3> QED BY <3>1, <3>2 DEF ClaimInv, Holders
  <2>b. \A u, v \in Flows : \A j \in Rows : Held(u, j)' /\ Held(v, j)' => u = v
    BY <2>2 DEF ClaimInv, Holders, Held
  <2>5. CASE i \in Unparseable
    <3>1. row' = [row EXCEPT ![i].status = "cancelled"] /\ UNCHANGED <<turn, begun>>
      BY <1>18, <2>0, <2>5 DEF SpawnFollowup
    <3>2. InTurn' /\ row'[i].status = "cancelled" /\ \A j \in Rows \ {i} : row'[j] = row[j]
      BY <2>1, <3>1, SettleTurn
    <3>3. Holders'
      BY <2>a, <2>b, <3>1, <3>2 DEF Holders
    <3>4. Spawned'
      BY <2>1, <2>3, <3>1, <3>2 DEF ClaimInv, Spawned
    <3>5. InHand'
      BY <2>3, <2>4, <3>1, <3>2 DEF ClaimInv, InHand, Held
    <3> QED BY <1>t, <3>2, <3>3, <3>4, <3>5 DEF ClaimInv
  <2>6. CASE i \notin Unparseable
    <3>1. /\ turn' = [turn EXCEPT ![i] = [pc |-> Entry(row[i].root), ses |-> NoSession,
                                          root |-> row[i].root]]
          /\ begun' = [begun EXCEPT ![i] = @ + 1] /\ UNCHANGED row
      BY <1>18, <2>0, <2>6 DEF SpawnFollowup
    <3>2. turn'[i].pc \notin Under /\ \A j \in Rows \ {i} : turn'[j] = turn[j]
      BY <2>1, <3>1, <1>a, <1>b DEF Entry, Under
    <3>3. begun'[i] = 1 /\ \A j \in Rows \ {i} : begun'[j] = begun[j]
      BY <2>1, <3>1, <1>a DEF ClaimInv, Spawned
    <3>4. Holders'
      BY <2>a, <2>b, <3>1, <3>2 DEF Holders
    <3>5. Spawned'
      BY <2>1, <2>3, <3>1, <3>2, <3>3 DEF ClaimInv, Spawned, Under
    <3>6. InTurn'
      BY <3>1 DEF ClaimInv, InTurn
    <3>7. InHand'
      BY <2>3, <2>4, <3>1, <3>2 DEF ClaimInv, InHand, Held, Under
    <3> QED BY <1>t, <3>4, <3>5, <3>6, <3>7 DEF ClaimInv
  <2> QED BY <2>5, <2>6
<1>19. ASSUME NEW w \in Flows, FlowQueues(w) PROVE ClaimInv'
  <2>1. flow[w].root \in AnyRoot
    BY <1>a DEF FlowType
  <2> QED BY <1>19, <2>1, <1>t, QueueStep DEF FlowQueues
<1>20. CASE Shutdown \/ Boot
  BY <1>20, <1>t, QuietStep DEF Shutdown, Boot, Quiet
<1>21. CASE Die
  <2>1. \A w \in Flows : flow'[w].pc # "spawn"
    BY <1>21, <1>a DEF Die, NoFlow, FlowType
  <2>2. \A i \in Rows : turn'[i].pc = IF turn[i].pc = "idle" THEN "idle" ELSE "done"
    BY <1>21, <1>a, <1>b DEF Die, NoTurn, TurnType
  <2>3. UNCHANGED <<row, told, begun>> /\ lost' = lost \cup {i \in Rows : row[i].status = "running"}
    BY <1>21 DEF Die
  <2>4. Holders'
    BY <2>1 DEF Holders, Held
  <2>5. Spawned'
    BY <2>2, <2>3 DEF ClaimInv, Spawned
  <2>6. InTurn' /\ InHand'
    BY <2>3 DEF ClaimInv, InTurn, InHand
  <2> QED BY <1>t, <2>4, <2>5, <2>6 DEF ClaimInv
<1>22. CASE UNCHANGED vars
  BY <1>22, <1>t, QuietStep DEF vars, Quiet
<1> QED
  BY <1>1, <1>2, <1>3, <1>4, <1>5, <1>6, <1>7, <1>9, <1>10, <1>11, <1>12, <1>13, <1>14,
     <1>16, <1>17, <1>18, <1>19, <1>20, <1>21, <1>22
  DEF Next, TurnStep, FlowStep, AnyRoot

----------------------------------------------------------------------------
(* Places. *)

\* Who is resolving: a turn at one of its reads, or a row in a claimer's hand.
LEMMA ResolvingIs ==
  /\ \A t \in Turns : t \in Resolving <=>
        \/ turn[t].pc \in {"read", "get", "open", "reread"}
        \/ \E w \in Flows : Held(w, t)
  /\ \A t \in Turns : t \in Resolving' <=>
        \/ turn'[t].pc \in {"read", "get", "open", "reread"}
        \/ \E w \in Flows : Held(w, t)'
BY DEF Resolving, Held

\* The lane's table changes by a move: what it shows afterwards is what it
\* showed before, less what was deleted, and perhaps one new conversation.
Moved ==
    /\ \A s \in Sessions : s \in Known' => \/ s \in Known /\ sess'[s].root = sess[s].root
                                           \/ sess[s].status = "none"
    /\ \A s \in Sessions : sess[s].status # "none" => sess'[s].status # "none"

Binds(s, root) ==
    /\ s \in Known /\ sess[s].root = NoRoot
    /\ sess' = [sess EXCEPT ![s].root = root]
    /\ Rivals(s, root) \subseteq outbid'

\* What any step does to a turn that does not act in it.
LaneStep(t) ==
    /\ strayed \subseteq strayed' /\ outbid \subseteq outbid'
    /\ \/ sess' = sess
       \/ Moved /\ (t \in Resolving => t \in strayed')
       \/ \E s \in Sessions, root \in AnyRoot : Binds(s, root)

\* A binding touches the project of one conversation only.
LEMMA BindsTable ==
  ASSUME TypeOK, NEW s \in Sessions, NEW root \in AnyRoot, Binds(s, root)
  PROVE  /\ sess'[s].root = root /\ sess'[s].status = sess[s].status
         /\ \A u \in Sessions \ {s} : sess'[u] = sess[u]
         /\ Active' = Active /\ Known' = Known
<1>1. sess \in [Sessions -> SessType]
  BY Tables DEF Typed
<1>2. /\ sess'[s].root = root /\ sess'[s].status = sess[s].status
      /\ \A u \in Sessions \ {s} : sess'[u] = sess[u]
  BY <1>1 DEF Binds, SessType
<1> QED BY <1>2 DEF Active, Known

\* A bystander keeps what it knows of the lane.
LEMMA FitsKept ==
  ASSUME TypeOK, TypeOK', NEW t \in Turns, Placed(t), turn'[t] = turn[t], LaneStep(t)
  PROVE  Fits(t)' /\ (turn'[t].ses # NoSession => sess'[turn'[t].ses].status # "none")
<1> DEFINE s == turn[t].ses
           r == turn[t].root
<1>1. s \in Sessions \cup {NoSession} /\ NoSession \notin Known /\ NoSession \notin Known'
  BY Tables DEF Typed, TurnType, AnySession, Known, NoSession, Sessions
<1>2. CASE sess' = sess
  BY <1>2 DEF LaneStep, Placed, Fits, Active, Known, Suits, Own, Settled
<1>3. CASE Moved /\ (t \in Resolving => t \in strayed')
  <2>1. s # NoSession => sess[s].status # "none"
    BY DEF Placed
  <2>2. s \in Known' => s \in Known /\ sess'[s].root = sess[s].root
    BY <1>1, <1>3, <2>1 DEF Moved
  <2>3. turn[t].pc \in {"get", "open", "reread"} => t \in strayed'
    BY <1>3, ResolvingIs
  <2>4. Fits(t)'
    BY <2>2, <2>3 DEF LaneStep, Placed, Fits, Suits, Own, Settled
  <2> QED BY <1>1, <1>3, <2>1, <2>4 DEF Moved
<1>4. ASSUME NEW u \in Sessions, NEW root \in AnyRoot, Binds(u, root)
      PROVE  Fits(t)' /\ (turn'[t].ses # NoSession => sess'[turn'[t].ses].status # "none")
  <2>1. /\ sess'[u].root = root /\ sess[u].root = NoRoot
        /\ \A v \in Sessions : sess'[v].status = sess[v].status
        /\ \A v \in Sessions \ {u} : sess'[v] = sess[v]
        /\ Active' = Active /\ Known' = Known
    BY <1>4, BindsTable DEF Binds
  <2>2. t \notin outbid' => \/ r = root
                           \/ /\ turn[t].pc = "get" => u \notin Active
                              /\ turn[t].pc = "bind" => s # u
    BY <1>4 DEF Binds, Rivals
  <2>3. Active \subseteq Sessions /\ Known \subseteq Sessions
    BY DEF Active, Known
  <2>4. t \notin strayed' \cup outbid' => t \notin strayed \cup outbid
    BY DEF LaneStep
  <2> SUFFICES ASSUME t \notin strayed' \cup outbid'
               PROVE  Fits(t)' /\ (s # NoSession => sess'[s].status # "none")
    BY <1>1, <2>1 DEF Placed, Fits
  <2>5. turn[t].pc = "get" => \A v \in Active : Suits(v, r)'
    BY <2>1, <2>2, <2>3, <2>4 DEF Placed, Fits, Suits
  <2>6. turn[t].pc = "open" => Active = {}
    BY <2>4 DEF Placed, Fits
  <2>7. turn[t].pc = "reread" => \A v \in Active : Own(v, r)'
    BY <2>1, <2>3, <2>4 DEF Placed, Fits, Own
  <2>8. turn[t].pc = "bind" /\ s \in Known => Suits(s, r)'
    BY <2>1, <2>2, <2>3, <2>4 DEF Placed, Fits, Suits
  <2>9. Settled(t) /\ s \in Known => Own(s, r)'
    BY <2>1, <2>3, <2>4 DEF Placed, Fits, Own
  <2>10. Fits(t)'
    BY <2>1, <2>5, <2>6, <2>7, <2>8, <2>9 DEF Fits, Suits, Own, Settled
  <2> QED BY <1>1, <2>1, <2>10 DEF Placed
<1> QED BY <1>2, <1>3, <1>4 DEF LaneStep

\* A conversation of another project stays one.
LEMMA UnsuitedKept ==
  ASSUME TypeOK, NEW s \in Known, s \in Known', NEW root, ~Suits(s, root),
         \/ sess' = sess
         \/ Moved
         \/ \E u \in Sessions, r \in AnyRoot : Binds(u, r)
  PROVE  ~Suits(s, root)'
<1>1. s \in Sessions /\ sess[s].status # "none"
  BY DEF Known
<1>2. CASE sess' = sess
  BY <1>2 DEF Suits
<1>3. CASE Moved
  BY <1>1, <1>3 DEF Moved, Suits
<1>4. ASSUME NEW u \in Sessions, NEW r \in AnyRoot, Binds(u, r) PROVE ~Suits(s, root)'
  <2>1. s # u
    BY <1>4 DEF Binds, Suits
  <2> QED BY <1>1, <1>4, <2>1, BindsTable DEF Suits
<1> QED BY <1>2, <1>3, <1>4

\* A bystander row keeps its promise.
LEMMA PromiseKept ==
  ASSUME TypeOK, Pins, Pins', NEW i \in Rows, Promised(i), turn'[i] = turn[i], LaneStep(i),
         row'[i].ses \in {row[i].ses, NoSession}, row'[i].root = row[i].root,
         i \in Resolving' => i \in Resolving
  PROVE  Promised(i)'
<1> SUFFICES ASSUME i \notin strayed', row'[i].ses # NoSession
             PROVE  Promised(i)'
  BY DEF Promised
<1>1. row'[i].ses = row[i].ses /\ row[i].ses \in Known /\ row[i].ses \in Known'
  BY DEF Pins
<1>2. i \notin strayed
  BY DEF LaneStep
<1>3. i \in Resolving' => row[i].ses \in Active'
  <2> SUFFICES ASSUME i \in Resolving' PROVE row[i].ses \in Active'
    OBVIOUS
  <2>1. row[i].ses \in Active
    BY <1>1, <1>2 DEF Promised
  <2>2. CASE sess' = sess
    BY <2>1, <2>2 DEF Active
  <2>3. ASSUME NEW u \in Sessions, NEW r \in AnyRoot, Binds(u, r) PROVE row[i].ses \in Active'
    BY <2>1, <2>3, BindsTable
  <2> QED BY <2>2, <2>3 DEF LaneStep
<1>4. PICK a, b : a = row[i].ses /\ b = row[i].root
  OBVIOUS
<1>5. ~Suits(a, b) => ~Suits(a, b)'
  BY <1>1, <1>4, UnsuitedKept DEF LaneStep
<1>6. ~Suits(row[i].ses, row[i].root) => ~Suits(row[i].ses, row[i].root)'
  BY <1>1, <1>4, <1>5 DEF Suits
<1> QED BY <1>1, <1>2, <1>3, <1>6 DEF Promised

\* Nobody begins to resolve without acting or being claimed.
LEMMA ResolvingKept ==
  ASSUME NEW t \in Turns, turn'[t] = turn[t],
         \A w \in Flows : flow'[w] = flow[w] \/ flow'[w].pc # "spawn"
  PROVE  t \in Resolving' => t \in Resolving
BY ResolvingIs DEF Held

\* What a step does to the row of a follow-up whose turn does not act in it.
RowKept(i) ==
    /\ row'[i].ses \in {row[i].ses, NoSession} /\ row'[i].root = row[i].root
    /\ i \in Resolving' => i \in Resolving

\* A bystander stays where it is.
LEMMA PlacedKept ==
  ASSUME TypeOK, TypeOK', Pins, Pins', NEW t \in Turns, Placed(t),
         turn'[t] = turn[t], LaneStep(t), t \in Rows => RowKept(t)
  PROVE  Placed(t)'
<1>1. Fits(t)' /\ (turn'[t].ses # NoSession => sess'[turn'[t].ses].status # "none")
  BY FitsKept
<1>2. TurnRoots(t)'
  BY DEF Placed, TurnRoots, RowKept
<1>3. t \in Rows => Promised(t)'
  BY PromiseKept DEF Placed, RowKept
<1> QED BY <1>1, <1>2, <1>3 DEF Placed

\* A step in which no turn acts keeps every place, ...
LEMMA FrameAll ==
  ASSUME TypeOK, TypeOK', PlaceInv, OneActive', Pins',
         \A t \in Turns : turn'[t] = turn[t] /\ LaneStep(t), \A i \in Rows : RowKept(i)
  PROVE  PlaceInv'
BY PlacedKept DEF PlaceInv

\* ... and one in which x acts, if x has its place afterwards.
LEMMA Frame ==
  ASSUME TypeOK, TypeOK', PlaceInv, OneActive', Pins', NEW x \in Turns, Placed(x)',
         \A t \in Turns \ {x} : turn'[t] = turn[t] /\ LaneStep(t),
         \A i \in Rows \ {x} : RowKept(i)
  PROVE  PlaceInv'
BY PlacedKept DEF PlaceInv

\* What the three session transactions do to the lane.
LEMMA CreateMoves ==
  ASSUME TypeOK, NEW s \in Sessions, IsFresh(s), NEW root \in AnyRoot, sess' = Created(s, root)
  PROVE  /\ Moved /\ OneActive' /\ Known \subseteq Known' /\ Active' = {s}
         /\ sess'[s].root = root
<1>1. /\ sess'[s] = [status |-> "active", root |-> root] /\ sess[s].status = "none"
      /\ \A u \in Sessions \ {s} :
               /\ sess'[u].root = sess[u].root
               /\ sess'[u].status = IF sess[u].status = "active" THEN "archived" ELSE sess[u].status
  BY CreatedType DEF IsFresh
<1>2. Active' = {s}
  BY <1>1 DEF Active
<1>3. Known \subseteq Known'
  BY <1>1 DEF Known
<1>4. Moved
  BY <1>1 DEF Moved, Known
<1> QED BY <1>1, <1>2, <1>3, <1>4 DEF OneActive

\* An activation leaves the chosen conversation active, if it is still there.
LEMMA ActivateMoves ==
  ASSUME TypeOK, NEW s \in Sessions, sess' = Activated(s)
  PROVE  /\ Moved /\ OneActive' /\ Known \subseteq Known' /\ (s \in Known => s \in Active')
<1>1. \A u \in Sessions :
               /\ sess'[u].root = sess[u].root
               /\ sess'[u].status = IF u = s /\ s \in Known THEN "active"
                     ELSE IF sess[u].status = "active" THEN "archived" ELSE sess[u].status
  BY ActivatedType
<1>2. Active' \subseteq {s} /\ (s \in Known => s \in Active')
  BY <1>1 DEF Active
<1>3. Known \subseteq Known'
  BY <1>1 DEF Known
<1>4. Moved
  BY <1>1 DEF Moved, Known
<1> QED BY <1>2, <1>3, <1>4 DEF OneActive

\* Archiving leaves no conversation active.
LEMMA ArchiveMoves ==
  ASSUME TypeOK, sess' = ArchiveActive(sess)
  PROVE  /\ Moved /\ OneActive' /\ Known \subseteq Known'
<1>1. sess \in [Sessions -> SessType]
  BY Tables DEF Typed
<1>2. \A u \in Sessions :
               /\ sess'[u].root = sess[u].root
               /\ sess'[u].status = IF sess[u].status = "active" THEN "archived" ELSE sess[u].status
  BY <1>1, ArchiveType
<1>3. Active' = {}
  BY <1>2 DEF Active
<1>4. Known \subseteq Known'
  BY <1>2 DEF Known
<1>5. Moved
  BY <1>2 DEF Moved, Known
<1> QED BY <1>3, <1>4, <1>5 DEF OneActive

\* No pin is lost while no conversation goes.
LEMMA PinsKept ==
  ASSUME Pins, Known \subseteq Known', \A i \in Rows : row'[i].ses \in {row[i].ses, NoSession}
  PROVE  Pins'
BY DEF Pins

\* A client moves the lane, under everybody who is resolving it.
LEMMA ClientMoves ==
  ASSUME ClaimInv, TypeOK', PlaceInv, Moved, OneActive', Pins', Strays,
         UNCHANGED <<turn, flow, outbid>>,
         \A i \in Rows : row'[i].ses \in {row[i].ses, NoSession} /\ row'[i].root = row[i].root
  PROVE  PlaceInv'
<1>1. \A t \in Turns : turn'[t] = turn[t] /\ LaneStep(t)
  BY DEF LaneStep, Strays
<1>2. \A i \in Rows : i \in Resolving' => i \in Resolving
  BY ResolvingKept DEF Turns
<1> QED BY <1>1, <1>2, FrameAll DEF ClaimInv, RowKept

\* One turn goes on, and the lane is left alone.
LEMMA TurnWalks ==
  ASSUME ClaimInv, TypeOK', PlaceInv, NEW t \in Turns, NEW p \in TurnPlaces, NEW s \in AnySession,
         TurnAt(t, p, s), UNCHANGED <<sess, flow, strayed, outbid>>,
         \A i \in Rows : row'[i].ses = row[i].ses /\ row'[i].root = row[i].root,
         Placed(t)'
  PROVE  PlaceInv'
<1>1. TypeOK
  BY DEF ClaimInv
<1>2. \A u \in Turns \ {t} : turn'[u] = turn[u] /\ LaneStep(u)
  BY <1>1, TurnAtType DEF LaneStep
<1>3. OneActive' /\ Pins'
  BY DEF PlaceInv, OneActive, Pins, Active, Known
<1>4. \A i \in Rows \ {t} : i \in Resolving' => i \in Resolving
  BY <1>2, ResolvingKept DEF Turns
<1>5. \A i \in Rows \ {t} : RowKept(i)
  BY <1>4 DEF RowKept
<1> QED BY <1>1, <1>2, <1>3, <1>5, Frame

\* A row is queued, pinned to the lane's conversation.
LEMMA QueuePlaces ==
  ASSUME ClaimInv, ClaimInv', PlaceInv, NEW root \in AnyRoot, Queue(root),
         UNCHANGED <<sess, turn, flow, strayed, outbid>>
  PROVE  PlaceInv'
<1>1. PICK i \in Rows, s \in AnySession :
            /\ row[i].status = "none"
            /\ s # NoSession => s \in Active
            /\ row' = [row EXCEPT ![i] = [status |-> "queued", ses |-> s, root |-> root]]
  BY QueueType DEF ClaimInv
<1>2. /\ row'[i].status = "queued" /\ row'[i].ses = s
      /\ \A j \in Rows \ {i} : row'[j] = row[j]
  BY <1>1, Tables DEF ClaimInv, Typed
<1>3. OneActive' /\ Pins'
  BY <1>1, <1>2 DEF PlaceInv, OneActive, Pins, Active, Known
<1>4. \A t \in Turns \ {i} : turn'[t] = turn[t] /\ LaneStep(t)
  BY DEF LaneStep
<1>5. \A j \in Rows \ {i} : j \in Resolving' => j \in Resolving
  BY ResolvingKept DEF Turns
<1>6. Placed(i)'
  <2>1. turn[i].pc = "idle" /\ turn'[i].pc = "idle" /\ i \in Turns
    BY <1>1 DEF ClaimInv, Spawned, Turns
  <2>2. i \notin Resolving'
    BY <1>2, <2>1, ResolvingIs DEF ClaimInv, Holders, Held
  <2>3. Promised(i)' /\ Fits(i)' /\ TurnRoots(i)'
    BY <2>1, <2>2 DEF Promised, Fits, TurnRoots, Settled
  <2> QED BY <2>1, <2>3 DEF PlaceInv, Placed
<1>7. \A j \in Rows \ {i} : RowKept(j)
  BY <1>2, <1>5 DEF RowKept
<1>8. TypeOK /\ TypeOK' /\ i \in Turns
  BY DEF ClaimInv, Turns
<1> QED BY <1>3, <1>4, <1>6, <1>7, <1>8, Frame

\* Every place is kept by every step.
LEMMA PlaceStep == ClaimInv /\ PlaceInv /\ [Next]_vars => PlaceInv'
<1> SUFFICES ASSUME ClaimInv, PlaceInv, [Next]_vars PROVE PlaceInv'
  OBVIOUS
<1> USE DEF Hist, Env
<1>c. ClaimInv' /\ TypeOK' /\ TypeOK
  BY ClaimStep DEF ClaimInv
<1>a. /\ row \in [Rows -> RowType] /\ turn \in [Turns -> TurnType] /\ flow \in [Flows -> FlowType]
      /\ sess \in [Sessions -> SessType]
  BY <1>c, Tables DEF Typed
<1>b. Rows \subseteq Turns /\ Active \subseteq Known /\ Known \subseteq Sessions /\ NoSession \notin Sessions
  BY DEF Turns, Active, Known, Sessions, NoSession
<1>o. OneActive /\ Pins /\ \A t \in Turns : Placed(t)
  BY DEF PlaceInv
<1>s. ASSUME UNCHANGED <<turn, sess, strayed, outbid>>,
             \A i \in Rows : row'[i].ses = row[i].ses /\ row'[i].root = row[i].root,
             \A w \in Flows : flow'[w] = flow[w] \/ flow'[w].pc # "spawn"
      PROVE  PlaceInv'
  <2>1. \A t \in Turns : turn'[t] = turn[t] /\ LaneStep(t)
    BY <1>s DEF LaneStep
  <2>2. OneActive' /\ Pins'
    BY <1>s, <1>o DEF OneActive, Pins, Active, Known
  <2>3. \A i \in Rows : i \in Resolving' => i \in Resolving
    BY <1>s, <1>b, ResolvingKept
  <2>4. \A i \in Rows : RowKept(i)
    BY <1>s, <2>3 DEF RowKept
  <2> QED BY <1>c, <2>1, <2>2, <2>4, FrameAll
<1>1. ASSUME NEW s \in Sessions, ActivateSession(s) PROVE PlaceInv'
  <2>1. sess' = Activated(s) /\ Strays /\ UNCHANGED <<turn, flow, outbid, row>>
    BY <1>1 DEF ActivateSession
  <2>2. Moved /\ OneActive' /\ Known \subseteq Known'
    BY <1>c, <2>1, ActivateMoves
  <2> QED BY <1>c, <1>o, <2>1, <2>2, PinsKept, ClientMoves
<1>2. ASSUME NEW s \in Sessions, ArchiveSession(s) PROVE PlaceInv'
  <2>1. sess' = ArchiveActive(sess) /\ Strays /\ UNCHANGED <<turn, flow, outbid, row>>
    BY <1>2 DEF ArchiveSession
  <2>2. Moved /\ OneActive' /\ Known \subseteq Known'
    BY <1>c, <2>1, ArchiveMoves
  <2> QED BY <1>c, <1>o, <2>1, <2>2, PinsKept, ClientMoves
<1>3. ASSUME NEW s \in Sessions, DeleteCheck(s) PROVE PlaceInv'
  BY <1>3, <1>s DEF DeleteCheck
<1>4. ASSUME NEW s \in Sessions, NEW root \in AnyRoot, CreateSession(s, root) PROVE PlaceInv'
  <2>1. IsFresh(s) /\ sess' = Created(s, root) /\ Strays /\ UNCHANGED <<turn, flow, outbid, row>>
    BY <1>4 DEF CreateSession
  <2>2. Moved /\ OneActive' /\ Known \subseteq Known'
    BY <1>c, <2>1, CreateMoves
  <2> QED BY <1>c, <1>o, <2>1, <2>2, PinsKept, ClientMoves
<1>5. CASE DeleteSession
  <2>1. /\ sess' = [sess EXCEPT ![del] = [status |-> "gone", root |-> NoRoot]]
        /\ row' = [i \in Rows |-> IF row[i].ses = del
                              THEN [row[i] EXCEPT !.ses = NoSession] ELSE row[i]]
        /\ Strays /\ UNCHANGED <<turn, flow, outbid>>
    BY <1>5 DEF DeleteSession
  <2>2. del \in Sessions
    BY <1>5, <1>c DEF DeleteSession, TypeOK
  <2>3. sess'[del].status = "gone" /\ \A s \in Sessions \ {del} : sess'[s] = sess[s]
    BY <2>1, <2>2, <1>a
  <2>4. \A i \in Rows : /\ row'[i].ses = IF row[i].ses = del THEN NoSession ELSE row[i].ses
                        /\ row'[i].root = row[i].root
    BY <2>1, <1>a DEF RowType
  <2>5. Moved /\ OneActive'
    BY <2>3, <1>o DEF Moved, OneActive, Known, Active
  <2>6. Pins'
    BY <2>3, <2>4, <1>o DEF Pins, Known
  <2>7. \A i \in Rows : row'[i].ses \in {row[i].ses, NoSession} /\ row'[i].root = row[i].root
    BY <2>4
  <2> QED BY <1>c, <2>1, <2>5, <2>6, <2>7, ClientMoves
<1>6. ASSUME NEW root \in AnyRoot, PostFollowup(root) PROVE PlaceInv'
  BY <1>6, <1>c, QueuePlaces DEF PostFollowup
<1>7. ASSUME NEW i \in Rows, DropRead(i) PROVE PlaceInv'
  BY <1>7, <1>s DEF DropRead
<1>8. CASE CancelIfQueued
  <2>1. \A i \in Rows : row'[i].ses = row[i].ses /\ row'[i].root = row[i].root
    BY <1>8, <1>a DEF CancelIfQueued, RowType
  <2> QED BY <1>8, <2>1, <1>s DEF CancelIfQueued
<1>9. ASSUME NEW t \in Users, NEW root \in AnyRoot, UserTurn(t, root) PROVE PlaceInv'
  <2>1. /\ t \in Turns /\ t \notin Rows
        /\ turn'[t] = [pc |-> Entry(root), ses |-> NoSession, root |-> root]
        /\ \A u \in Turns \ {t} : turn'[u] = turn[u]
        /\ UNCHANGED <<sess, row, flow, strayed, outbid>>
    BY <1>9, <1>a DEF UserTurn, Turns
  <2>2. Placed(t)'
    BY <2>1 DEF Placed, TurnRoots, Fits, Entry, Suits, Settled
  <2>3. \A u \in Turns \ {t} : turn'[u] = turn[u] /\ LaneStep(u)
    BY <2>1 DEF LaneStep
  <2>4. OneActive' /\ Pins'
    BY <2>1, <1>o DEF OneActive, Pins, Active, Known
  <2>5. \A i \in Rows : i \in Resolving' => i \in Resolving
    BY <2>1, <1>b, ResolvingKept
  <2>6. \A i \in Rows \ {t} : RowKept(i)
    BY <2>1, <2>5 DEF RowKept
  <2> QED BY <1>c, <2>1, <2>2, <2>3, <2>4, <2>6, Frame
<1>10. ASSUME NEW w \in Flows, FlowEnds(w) \/ FlowLooks(w) PROVE PlaceInv'
  <2>1. PICK p \in {"released", "done", "claim"} : FlowGoto(w, p)
    BY <1>10 DEF FlowEnds, FlowLooks
  <2>2. p \in FlowPlaces /\ p # "spawn"
    BY DEF FlowPlaces
  <2>3. \A v \in Flows : flow'[v] = flow[v] \/ flow'[v].pc # "spawn"
    BY <1>c, <2>1, <2>2, FlowGotoType
  <2> QED BY <1>10, <2>3, <1>s DEF FlowEnds, FlowLooks
<1>11. ASSUME NEW t \in Turns, NEW w \in Flows, TurnDelegates(t, w) PROVE PlaceInv'
  <2>1. \A v \in Flows : flow'[v] = flow[v] \/ flow'[v].pc # "spawn"
    BY <1>11, <1>a DEF TurnDelegates
  <2> QED BY <1>11, <2>1, <1>s DEF TurnDelegates
<1>12. ASSUME NEW w \in Flows, FlowQueues(w) PROVE PlaceInv'
  <2>1. flow[w].root \in AnyRoot
    BY <1>a DEF FlowType
  <2> QED BY <1>12, <1>c, <2>1, QueuePlaces DEF FlowQueues
<1>13. ASSUME NEW t \in Turns, TurnQueues(t) PROVE PlaceInv'
  <2>1. turn[t].root \in AnyRoot
    BY <1>a DEF TurnType
  <2> QED BY <1>13, <1>c, <2>1, QueuePlaces DEF TurnQueues
<1>14. CASE Shutdown \/ Boot
  BY <1>14, <1>s DEF Shutdown, Boot
<1>15. CASE Die
  <2>1. /\ \A w \in Flows : flow'[w].pc # "spawn"
        /\ \A t \in Turns : /\ turn'[t].pc \in {"idle", "done"}
                            /\ turn'[t].ses \in {turn[t].ses, NoSession}
                            /\ turn'[t].pc # "idle" => turn[t].pc # "idle" /\ turn'[t].root = turn[t].root
        /\ UNCHANGED <<row, sess>>
    BY <1>15, <1>a DEF Die, NoFlow, NoTurn, FlowType, TurnType
  <2>2. \A t \in Turns : t \notin Resolving'
    BY <2>1, ResolvingIs DEF Held
  <2>3. ASSUME NEW t \in Turns PROVE Placed(t)'
    <3>1. Fits(t)' /\ Promised(t)'
      BY <2>1, <2>2 DEF Fits, Promised, Settled
    <3>2. TurnRoots(t)'
      BY <2>1, <1>o DEF TurnRoots, Placed
    <3>3. turn'[t].ses # NoSession => sess'[turn'[t].ses].status # "none"
      BY <2>1, <1>o DEF Placed
    <3> QED BY <3>1, <3>2, <3>3 DEF Placed
  <2> QED BY <2>1, <2>3, <1>o DEF PlaceInv, OneActive, Pins, Active, Known
<1>16. CASE UNCHANGED vars
  BY <1>16, <1>s DEF vars
<1>17. ASSUME NEW t \in Turns, TurnReads(t) PROVE PlaceInv'
  <2> DEFINE other == \E s \in Active : sess[s].root \notin {NoRoot, turn[t].root}
  <2>1. /\ turn[t].pc = "read" /\ TurnAt(t, IF other THEN "create" ELSE "get", NoSession)
        /\ UNCHANGED <<row, sess, flow, strayed, outbid>>
    BY <1>17 DEF TurnReads, Turn
  <2>2. PICK p \in {"create", "get"} : (p = "create" <=> other) /\ TurnAt(t, p, NoSession)
    BY <2>1
  <2>3. p \in TurnPlaces /\ NoSession \in AnySession
    BY DEF TurnPlaces, AnySession
  <2>4. turn'[t].pc = p /\ turn'[t].ses = NoSession /\ turn'[t].root = turn[t].root
    BY <1>c, <2>2, <2>3, TurnAtType
  <2>5. Active' = Active /\ turn[t].root # NoRoot
    BY <2>1, <1>o DEF Active, Placed, TurnRoots
  <2>6. Fits(t)'
    BY <2>1, <2>2, <2>4, <2>5 DEF Fits, Suits, Settled
  <2>7. ASSUME t \in Rows PROVE Promised(t)'
    <3> SUFFICES ASSUME t \notin strayed, row[t].ses # NoSession PROVE Promised(t)'
      BY <2>1 DEF Promised
    <3>1. row[t].ses \in Active
      BY <2>1, <2>7, <1>o, ResolvingIs DEF Placed, Promised
    <3>2. turn[t].root = row[t].root
      BY <2>1, <2>7, <1>o DEF Placed, TurnRoots
    <3>3. p = "create" => ~Suits(row[t].ses, row[t].root)
      BY <2>2, <2>5, <3>1, <3>2, <1>o DEF OneActive, Suits
    <3> QED BY <2>1, <2>4, <2>5, <3>1, <3>3 DEF Promised, Suits
  <2>8. Placed(t)'
    BY <2>1, <2>4, <2>6, <2>7, <1>o DEF Placed, TurnRoots
  <2> QED BY <1>c, <2>1, <2>2, <2>3, <2>8, TurnWalks
<1>18. ASSUME NEW t \in Turns, TurnGets(t) PROVE PlaceInv'
  <2>0. turn[t].pc = "get" /\ UNCHANGED <<row, sess, flow, strayed, outbid>> /\ Active' = Active /\ Known' = Known
    BY <1>18 DEF TurnGets, Turn, Active, Known
  <2>p. ASSUME t \in Rows, t \notin strayed, row[t].ses # NoSession
        PROVE  row[t].ses \in Active
    BY <2>0, <2>p, <1>o, ResolvingIs DEF Placed, Promised
  <2>r. TurnRoots(t) /\ Fits(t)
    BY <1>o DEF Placed
  <2>1. ASSUME NEW s \in Active, NEW p \in {"bind", "insert"}, TurnAt(t, p, s),
               p = "bind" <=> sess[s].root = NoRoot /\ turn[t].root # NoRoot
        PROVE  PlaceInv'
    <3>1. p \in TurnPlaces /\ s \in AnySession /\ s \in Sessions
      BY <1>b DEF TurnPlaces, AnySession
    <3>2. turn'[t].pc = p /\ turn'[t].ses = s /\ turn'[t].root = turn[t].root
      BY <1>c, <2>1, <3>1, TurnAtType
    <3>3. Fits(t)'
      BY <2>0, <2>1, <2>r, <3>2 DEF Fits, Suits, Own, Settled
    <3>4. ASSUME t \in Rows PROVE Promised(t)'
      BY <2>0, <2>p, <3>2, <3>4, <1>o, <1>b, ResolvingIs DEF Promised, OneActive, Holders, Held, ClaimInv
    <3>5. sess'[s].status # "none"
      BY <2>0 DEF Active
    <3>6. Placed(t)'
      BY <2>0, <2>r, <3>2, <3>3, <3>4, <3>5 DEF Placed, TurnRoots
    <3> QED BY <1>c, <2>0, <2>1, <3>1, <3>6, TurnWalks
  <2>2. CASE Active = {} /\ TurnAt(t, "open", NoSession)
    <3>1. "open" \in TurnPlaces /\ NoSession \in AnySession
      BY DEF TurnPlaces, AnySession
    <3>2. turn'[t].pc = "open" /\ turn'[t].ses = NoSession /\ turn'[t].root = turn[t].root
      BY <1>c, <2>2, <3>1, TurnAtType
    <3>3. Fits(t)'
      BY <2>0, <2>2, <3>2 DEF Fits, Settled
    <3>4. ASSUME t \in Rows PROVE Promised(t)'
      BY <2>0, <2>2, <2>p, <3>2, <3>4 DEF Promised
    <3>5. Placed(t)'
      BY <2>0, <2>r, <3>2, <3>3, <3>4 DEF Placed, TurnRoots
    <3> QED BY <1>c, <2>0, <2>2, <3>1, <3>5, TurnWalks
  <2>3. \/ \E s \in Active : \E p \in {"bind", "insert"} :
              /\ TurnAt(t, p, s)
              /\ p = "bind" <=> sess[s].root = NoRoot /\ turn[t].root # NoRoot
        \/ Active = {} /\ TurnAt(t, "open", NoSession)
    BY <1>18 DEF TurnGets
  <2> QED BY <2>1, <2>2, <2>3
<1>19. ASSUME NEW t \in Turns, TurnRereads(t) PROVE PlaceInv'
  <2>0. /\ turn[t].pc = "reread" /\ UNCHANGED <<row, sess, flow, strayed, outbid>>
        /\ Active' = Active /\ Known' = Known
    BY <1>19 DEF TurnRereads, Turn, Active, Known
  <2>p. ASSUME t \in Rows, t \notin strayed, row[t].ses # NoSession
        PROVE  row[t].ses \in Active
    BY <2>0, <2>p, <1>o, ResolvingIs DEF Placed, Promised
  <2>r. TurnRoots(t) /\ Fits(t)
    BY <1>o DEF Placed
  <2>1. PICK s \in AnySession, p \in {"insert", "handle"} :
           /\ TurnAt(t, p, s)
           /\ \/ s \in Active /\ p = "insert"
              \/ s = NoSession /\ p = "handle" /\ Active = {}
    BY <1>19, <1>b DEF TurnRereads, AnySession
  <2>2. p \in TurnPlaces /\ (s # NoSession => s \in Active)
    BY <2>1 DEF TurnPlaces
  <2>3. turn'[t].pc = p /\ turn'[t].ses = s /\ turn'[t].root = turn[t].root
    BY <1>c, <2>1, <2>2, TurnAtType
  <2>4. Fits(t)'
    BY <2>0, <2>2, <2>r, <2>3, <1>b DEF Fits, Settled, Own
  <2>5. t \notin Resolving' \/ t \notin Rows
    <3>1. t \in Rows => \A w \in Flows : ~Held(w, t)
      BY <2>0 DEF ClaimInv, Holders, Held
    <3> QED BY <2>0, <2>3, <3>1, ResolvingIs DEF Held
  <2>6. ASSUME t \in Rows PROVE Promised(t)'
    BY <2>0, <2>1, <2>p, <2>3, <2>5, <2>6, <1>o DEF Promised, OneActive
  <2>7. s # NoSession => sess'[s].status # "none"
    BY <2>0, <2>2 DEF Active
  <2>8. Placed(t)'
    BY <2>0, <2>r, <2>3, <2>4, <2>6, <2>7 DEF Placed, TurnRoots
  <2> QED BY <1>c, <2>0, <2>1, <2>2, <2>8, TurnWalks
<1>20. ASSUME NEW t \in Turns, TurnInserts(t) \/ TurnAnswers(t) \/ MarkDone(t) PROVE PlaceInv'
  <2>0. /\ turn[t].pc \in {"insert", "handle", "close"}
        /\ UNCHANGED <<sess, flow, strayed, outbid>> /\ Known' = Known /\ Active' = Active
    BY <1>20 DEF TurnInserts, TurnAnswers, MarkDone, Turn, Active, Known
  <2>1. \A i \in Rows : row'[i].ses = row[i].ses /\ row'[i].root = row[i].root
    BY <1>20, <1>a DEF TurnInserts, TurnAnswers, MarkDone, RowType
  <2>2. PICK p \in {"handle", "close", "done"} : TurnAt(t, p, turn[t].ses)
    BY <1>20 DEF TurnInserts, TurnAnswers, MarkDone
  <2>3. p \in TurnPlaces /\ turn[t].ses \in AnySession
    BY <1>a DEF TurnPlaces, TurnType
  <2>4. turn'[t].pc = p /\ turn'[t].ses = turn[t].ses /\ turn'[t].root = turn[t].root
    BY <1>c, <2>2, <2>3, TurnAtType
  <2>5. TurnRoots(t) /\ Fits(t) /\ (t \in Rows => Promised(t))
        /\ (turn[t].ses # NoSession => sess[turn[t].ses].status # "none")
    BY <1>o DEF Placed
  <2>6. Fits(t)'
    BY <2>0, <2>4, <2>5 DEF Fits, Settled, Own
  <2>7. t \notin Resolving' \/ t \notin Rows
    <3>1. t \in Rows => \A w \in Flows : ~Held(w, t)
      BY <2>0 DEF ClaimInv, Holders, Held
    <3> QED BY <2>0, <2>4, <3>1, ResolvingIs DEF Held
  <2>8. ASSUME t \in Rows PROVE Promised(t)'
    BY <2>0, <2>1, <2>4, <2>5, <2>7, <2>8 DEF Promised, Suits
  <2>9. Placed(t)'
    BY <2>0, <2>1, <2>4, <2>5, <2>6, <2>8 DEF Placed, TurnRoots
  <2> QED BY <1>c, <2>0, <2>1, <2>2, <2>3, <2>9, TurnWalks
\* A turn that opens a conversation, in either of the two ways.
<1>21. ASSUME NEW t \in Turns, NEW s \in Sessions, IsFresh(s), sess' = Created(s, turn[t].root),
              NEW p \in TurnPlaces, NEW z \in AnySession, TurnAt(t, p, z), OthersStray(t),
              UNCHANGED <<row, flow, outbid>>, Placed(t)'
       PROVE  PlaceInv'
  <2>1. turn[t].root \in AnyRoot
    BY <1>a DEF TurnType
  <2>2. Moved /\ OneActive' /\ Known \subseteq Known'
    BY <1>c, <1>21, <2>1, CreateMoves
  <2>3. \A u \in Turns \ {t} : turn'[u] = turn[u] /\ LaneStep(u)
    <3>1. strayed \subseteq strayed' /\ \A u \in Turns \ {t} : u \in Resolving => u \in strayed'
      BY <1>21 DEF OthersStray
    <3> QED BY <1>c, <1>21, <2>2, <3>1, TurnAtType DEF LaneStep
  <2>4. Pins'
    BY <1>o, <1>21, <2>2, PinsKept
  <2>5. \A i \in Rows \ {t} : RowKept(i)
    BY <1>21, <1>b, <2>3, ResolvingKept DEF RowKept
  <2> QED BY <1>c, <1>21, <2>2, <2>3, <2>4, <2>5, Frame
<1>22. ASSUME NEW t \in Turns, TurnCreates(t) PROVE PlaceInv'
  <2>1. PICK s \in Sessions : IsFresh(s) /\ sess' = Created(s, turn[t].root) /\ TurnAt(t, "insert", s)
    BY <1>22 DEF TurnCreates
  <2>2. /\ turn[t].pc = "create" /\ OthersStray(t) /\ UNCHANGED <<row, flow, outbid>>
        /\ "insert" \in TurnPlaces /\ s \in AnySession /\ turn[t].root \in AnyRoot
    BY <1>22, <1>a DEF TurnCreates, Turn, TurnPlaces, AnySession, TurnType
  <2>3. turn'[t].pc = "insert" /\ turn'[t].ses = s /\ turn'[t].root = turn[t].root
    BY <1>c, <2>1, <2>2, TurnAtType
  <2>4. Moved /\ Active' = {s} /\ Known \subseteq Known' /\ sess'[s].root = turn[t].root
    BY <1>c, <2>1, <2>2, CreateMoves
  <2>5. Fits(t)'
    BY <2>3, <2>4 DEF Fits, Settled, Own
  <2>6. t \notin Resolving' \/ t \notin Rows
    <3>1. t \in Rows => \A w \in Flows : ~Held(w, t)
      BY <2>2 DEF ClaimInv, Holders, Held
    <3> QED BY <2>2, <2>3, <3>1, ResolvingIs DEF Held
  <2>7. ASSUME t \in Rows PROVE Promised(t)'
    <3> SUFFICES ASSUME t \notin strayed', row[t].ses # NoSession PROVE Promised(t)'
      BY <2>2 DEF Promised
    <3>1. t \notin strayed
      BY <2>2 DEF OthersStray
    <3>2. PICK a, b : a = row[t].ses /\ b = row[t].root
      OBVIOUS
    <3>3. a \in Known /\ a \in Known' /\ ~Suits(a, b)
      BY <1>o, <2>2, <2>4, <2>7, <3>1, <3>2 DEF Pins, Placed, Promised
    <3>4. ~Suits(a, b)'
      BY <1>c, <2>4, <3>3, UnsuitedKept
    <3> QED BY <2>2, <2>3, <2>6, <2>7, <3>2, <3>4 DEF Promised, Suits
  <2>8. sess'[s].status # "none"
    BY <2>4 DEF Active
  <2>9. Placed(t)'
    BY <1>o, <2>2, <2>3, <2>5, <2>7, <2>8 DEF Placed, TurnRoots
  <2> QED BY <2>1, <2>2, <2>9, <1>21
<1>23. ASSUME NEW t \in Turns, TurnOpens(t) PROVE PlaceInv'
  <2>0. /\ turn[t].pc = "open" /\ TurnAt(t, "reread", NoSession) /\ UNCHANGED <<row, flow, outbid>>
        /\ "reread" \in TurnPlaces /\ NoSession \in AnySession /\ turn[t].root \in AnyRoot
    BY <1>23, <1>a DEF TurnOpens, Turn, TurnPlaces, AnySession, TurnType
  <2>1. turn'[t].pc = "reread" /\ turn'[t].ses = NoSession /\ turn'[t].root = turn[t].root
    BY <1>c, <2>0, TurnAtType
  <2>p. ASSUME t \in Rows, t \notin strayed, row[t].ses # NoSession
        PROVE  row[t].ses \in Active
    BY <2>0, <2>p, <1>o, ResolvingIs DEF Placed, Promised
  <2>r. TurnRoots(t) /\ Fits(t)
    BY <1>o DEF Placed
  <2>2. CASE Active = {}
    <3>1. PICK s \in Sessions : IsFresh(s) /\ sess' = Created(s, turn[t].root)
      BY <1>23, <2>2 DEF TurnOpens
    <3>2. OthersStray(t)
      BY <1>23, <2>2 DEF TurnOpens
    <3>3. Active' = {s} /\ sess'[s].root = turn[t].root
      BY <1>c, <2>0, <3>1, CreateMoves
    <3>4. Fits(t)'
      BY <2>1, <3>3 DEF Fits, Settled, Own
    <3>5. ASSUME t \in Rows PROVE Promised(t)'
      BY <2>0, <2>1, <2>2, <2>p, <3>2, <3>5 DEF Promised, OthersStray
    <3>6. Placed(t)'
      BY <2>0, <2>1, <2>r, <3>4, <3>5 DEF Placed, TurnRoots
    <3> QED BY <2>0, <3>1, <3>2, <3>6, <1>21
  <2>3. CASE Active # {}
    <3>1. UNCHANGED <<sess, strayed>> /\ Active' = Active
      BY <1>23, <2>3 DEF TurnOpens, Active
    <3>2. t \in strayed' \cup outbid'
      BY <2>0, <2>3, <2>r, <3>1 DEF Fits
    <3>3. Fits(t)'
      BY <3>2 DEF Fits
    <3>4. ASSUME t \in Rows PROVE Promised(t)'
      BY <2>0, <2>1, <2>p, <3>1, <3>4 DEF Promised
    <3>5. Placed(t)'
      BY <2>0, <2>1, <2>r, <3>3, <3>4 DEF Placed, TurnRoots
    <3> QED BY <1>c, <2>0, <3>1, <3>5, TurnWalks
  <2> QED BY <2>2, <2>3
<1>24. ASSUME NEW t \in Turns, TurnBinds(t) PROVE PlaceInv'
  <2>0. /\ turn[t].pc = "bind" /\ UNCHANGED <<row, flow, strayed>>
        /\ turn[t].ses \in AnySession /\ turn[t].root \in AnyRoot
    BY <1>24, <1>a DEF TurnBinds, Turn, TurnType
  <2>r. /\ TurnRoots(t) /\ Fits(t) /\ (t \in Rows => Promised(t))
        /\ turn[t].ses # NoSession => sess[turn[t].ses].status # "none"
    BY <1>o DEF Placed
  <2>h. t \in Rows => \A w \in Flows : ~Held(w, t)
    BY <2>0 DEF ClaimInv, Holders, Held
  <2>1. CASE turn[t].ses \in Known /\ sess[turn[t].ses].root = NoRoot
    <3>1. PICK s \in Sessions, r \in AnyRoot : s = turn[t].ses /\ r = turn[t].root
      BY <2>0, <2>1, <1>b
    <3>2. /\ Binds(s, r) /\ TurnAt(t, "insert", s) /\ outbid \subseteq outbid'
          /\ "insert" \in TurnPlaces /\ s \in AnySession
      BY <1>24, <2>1, <3>1 DEF TurnBinds, Binds, TurnPlaces, AnySession
    <3>3. /\ turn'[t].pc = "insert" /\ turn'[t].ses = s /\ turn'[t].root = r
          /\ \A u \in Turns \ {t} : turn'[u] = turn[u]
      BY <1>c, <3>1, <3>2, TurnAtType
    <3>4. /\ sess'[s].root = r /\ sess'[s].status = sess[s].status
          /\ Active' = Active /\ Known' = Known
      BY <1>c, <3>2, BindsTable
    <3>5. Fits(t)'
      BY <3>3, <3>4 DEF Fits, Settled, Own
    <3>6. t \notin Resolving' \/ t \notin Rows
      BY <2>0, <2>h, <3>3, ResolvingIs DEF Held
    <3>7. ASSUME t \in Rows PROVE Promised(t)'
      <4> SUFFICES ASSUME t \notin strayed, row[t].ses # NoSession PROVE Promised(t)'
        BY <2>0 DEF Promised
      <4>1. PICK a, b : a = row[t].ses /\ b = row[t].root
        OBVIOUS
      <4>2. a \in Known /\ a \in Known' /\ (a = s \/ ~Suits(a, b))
        BY <1>o, <2>0, <2>r, <3>1, <3>4, <3>7, <4>1 DEF Pins, Promised
      <4>3. a = s \/ ~Suits(a, b)'
        BY <1>c, <3>2, <4>2, UnsuitedKept
      <4> QED BY <2>0, <3>3, <3>6, <3>7, <4>1, <4>3 DEF Promised, Suits
    <3>8. Placed(t)'
      BY <2>0, <2>r, <3>1, <3>3, <3>4, <3>5, <3>7 DEF Placed, TurnRoots
    <3>9. \A u \in Turns \ {t} : turn'[u] = turn[u] /\ LaneStep(u)
      BY <2>0, <3>2, <3>3 DEF LaneStep
    <3>10. OneActive' /\ Pins'
      BY <1>o, <2>0, <3>4 DEF OneActive, Pins
    <3>11. \A i \in Rows \ {t} : RowKept(i)
      BY <1>b, <2>0, <3>3, ResolvingKept DEF RowKept
    <3> QED BY <1>c, <3>8, <3>9, <3>10, <3>11, Frame
  <2>2. CASE \/ turn[t].ses \in Known /\ sess[turn[t].ses].root # NoRoot
             \/ turn[t].ses \notin Known
    <3>1. PICK s \in AnySession, p \in {"insert", "handle"} :
             /\ TurnAt(t, p, s)
             /\ \/ turn[t].ses \in Known /\ s = turn[t].ses /\ sess[s].root # NoRoot
                \/ turn[t].ses \notin Known /\ s = NoSession
      BY <1>24, <2>0, <2>2 DEF TurnBinds, AnySession
    <3>2. UNCHANGED <<sess, outbid>> /\ Active' = Active /\ Known' = Known /\ p \in TurnPlaces
      BY <1>24, <2>2 DEF TurnBinds, Active, Known, TurnPlaces
    <3>3. turn'[t].pc = p /\ turn'[t].ses = s /\ turn'[t].root = turn[t].root
      BY <1>c, <3>1, <3>2, TurnAtType
    <3>4. Fits(t)'
      BY <2>0, <2>r, <3>1, <3>2, <3>3, <1>b DEF Fits, Settled, Own, Suits
    <3>5. t \notin Resolving' \/ t \notin Rows
      BY <2>0, <2>h, <3>3, ResolvingIs DEF Held
    <3>6. ASSUME t \in Rows PROVE Promised(t)'
      <4> SUFFICES ASSUME t \notin strayed, row[t].ses # NoSession PROVE Promised(t)'
        BY <2>0 DEF Promised
      <4>1. row[t].ses \in Known /\ (turn[t].ses = row[t].ses \/ ~Suits(row[t].ses, row[t].root))
        BY <1>o, <2>0, <2>r, <3>6 DEF Pins, Promised
      <4>2. s = row[t].ses \/ ~Suits(row[t].ses, row[t].root)
        BY <3>1, <4>1
      <4> QED BY <2>0, <3>2, <3>3, <3>5, <3>6, <4>2 DEF Promised, Suits
    <3>7. Placed(t)'
      BY <2>0, <2>r, <3>1, <3>2, <3>3, <3>4, <3>6 DEF Placed, TurnRoots
    <3> QED BY <1>c, <2>0, <3>1, <3>2, <3>7, TurnWalks
  <2> QED BY <2>1, <2>2
<1>25. ASSUME NEW w \in Flows, ClaimNext(w) PROVE PlaceInv'
  <2>0. flow[w].pc = "claim" /\ UNCHANGED <<turn, outbid>>
    BY <1>25 DEF ClaimNext, Flow
  <2>1. CASE FlowGoto(w, "done") /\ UNCHANGED <<row, sess, strayed>>
    <3>1. \A v \in Flows : flow'[v] = flow[v] \/ flow'[v].pc # "spawn"
      BY <1>c, <2>1, FlowGotoType DEF FlowPlaces
    <3> QED BY <2>0, <2>1, <3>1, <1>s
  <2>2. ASSUME NEW i \in Rows, Oldest(i),
               row' = [row EXCEPT ![i].status = "running"],
               flow' = [flow EXCEPT ![w].pc = "spawn", ![w].row = i],
               sess' = Rehomed(row[i].ses),
               IF row[i].ses = NoSession THEN UNCHANGED strayed ELSE Strays
        PROVE  PlaceInv'
    <3>1. \A j \in Rows : row'[j].ses = row[j].ses /\ row'[j].root = row[j].root
      BY <2>2, <1>a DEF RowType
    <3>2. turn[i].pc = "idle" /\ i \in Turns
      BY <2>2, <1>b DEF Oldest, Queued, ClaimInv, Spawned
    <3>3. \A j \in Rows \ {i} : RowKept(j)
      <4>1. flow'[w].row = i /\ \A v \in Flows \ {w} : flow'[v] = flow[v]
        BY <2>2, <1>a DEF FlowType
      <4>2. \A j \in Rows \ {i} : \A v \in Flows : Held(v, j)' => Held(v, j)
        BY <4>1 DEF Held
      <4> QED BY <1>b, <2>0, <3>1, <4>2, ResolvingIs DEF RowKept
    <3>4. CASE row[i].ses = NoSession
      <4>1. UNCHANGED <<sess, strayed>>
        BY <2>2, <3>4 DEF Rehomed
      <4>2. Placed(i)'
        BY <1>o, <2>0, <3>1, <3>2, <3>4, <4>1 DEF Placed, TurnRoots, Fits, Promised, Settled
      <4>3. \A t \in Turns \ {i} : turn'[t] = turn[t] /\ LaneStep(t)
        BY <2>0, <4>1 DEF LaneStep
      <4>4. OneActive' /\ Pins'
        BY <1>o, <3>1, <4>1 DEF OneActive, Pins, Active, Known
      <4> QED BY <1>c, <3>2, <3>3, <4>2, <4>3, <4>4, Frame
    <3>5. CASE row[i].ses # NoSession
      <4>1. PICK s \in Sessions : s = row[i].ses
        BY <3>5, <1>a DEF RowType, AnySession
      <4>2. sess' = Activated(s) /\ Strays /\ s \in Known
        BY <2>2, <3>5, <4>1, <1>o DEF Rehomed, Pins
      <4>3. Moved /\ OneActive' /\ Known \subseteq Known' /\ s \in Active'
        BY <1>c, <4>2, ActivateMoves
      <4>4. Pins'
        BY <1>o, <3>1, <4>3, PinsKept
      <4>5. \A t \in Turns \ {i} : turn'[t] = turn[t] /\ LaneStep(t)
        BY <2>0, <4>2, <4>3 DEF LaneStep, Strays
      <4>6. Promised(i)'
        BY <2>0, <3>1, <3>2, <4>1, <4>3 DEF Promised
      <4>7. turn'[i].ses # NoSession => sess'[turn'[i].ses].status # "none"
        <5>1. turn[i].ses \in AnySession /\ (turn[i].ses # NoSession => sess[turn[i].ses].status # "none")
          BY <1>o, <1>a, <3>2 DEF Placed, TurnType
        <5> QED BY <2>0, <4>3, <5>1 DEF Moved, AnySession
      <4>8. Placed(i)'
        BY <1>o, <2>0, <3>1, <3>2, <4>6, <4>7 DEF Placed, TurnRoots, Fits, Settled
      <4> QED BY <1>c, <3>2, <3>3, <4>3, <4>4, <4>5, <4>8, Frame
    <3> QED BY <3>4, <3>5
  <2> QED BY <1>25, <2>1, <2>2 DEF ClaimNext
<1>26. ASSUME NEW w \in Flows, SpawnFollowup(w) PROVE PlaceInv'
  <2>0. PICK i \in Rows : i = flow[w].row /\ Held(w, i)
    BY <1>26 DEF SpawnFollowup, Flow, ClaimInv, Holders, Held
  <2>1. /\ FlowGoto(w, "done") /\ UNCHANGED <<sess, strayed, outbid>>
        /\ i \in Turns /\ "done" \in FlowPlaces
    BY <1>26, <1>b DEF SpawnFollowup, FlowPlaces
  <2>2. \A v \in Flows : flow'[v] = flow[v] \/ flow'[v].pc # "spawn"
    BY <1>c, <2>1, FlowGotoType
  <2>3. CASE i \in Unparseable
    <3>1. row' = [row EXCEPT ![i].status = "cancelled"] /\ UNCHANGED turn
      BY <1>26, <2>0, <2>3 DEF SpawnFollowup
    <3>2. \A j \in Rows : row'[j].ses = row[j].ses /\ row'[j].root = row[j].root
      BY <3>1, <1>a DEF RowType
    <3> QED BY <2>1, <2>2, <3>1, <3>2, <1>s
  <2>4. CASE i \notin Unparseable
    <3>1. /\ turn' = [turn EXCEPT ![i] = [pc |-> Entry(row[i].root), ses |-> NoSession,
                                          root |-> row[i].root]]
          /\ UNCHANGED row
      BY <1>26, <2>0, <2>4 DEF SpawnFollowup
    <3>2. /\ turn'[i].pc = Entry(row[i].root) /\ turn'[i].ses = NoSession
          /\ turn'[i].root = row[i].root
          /\ \A t \in Turns \ {i} : turn'[t] = turn[t]
      BY <2>1, <3>1, <1>a
    <3>3. i \in Resolving /\ Active' = Active
      BY <2>0, <2>1, ResolvingIs DEF Active
    <3>4. Fits(i)' /\ TurnRoots(i)'
      BY <3>1, <3>2 DEF Fits, TurnRoots, Entry, Suits, Settled
    <3>5. Promised(i)'
      BY <1>o, <2>1, <3>1, <3>2, <3>3 DEF Placed, Promised, Entry
    <3>6. Placed(i)'
      BY <3>2, <3>4, <3>5 DEF Placed
    <3>7. \A t \in Turns \ {i} : turn'[t] = turn[t] /\ LaneStep(t)
      BY <2>1, <3>2 DEF LaneStep
    <3>8. OneActive' /\ Pins'
      BY <1>o, <2>1, <3>1 DEF OneActive, Pins, Active, Known
    <3>9. \A j \in Rows \ {i} : RowKept(j)
      BY <1>b, <2>2, <3>1, <3>2, ResolvingKept DEF RowKept
    <3> QED BY <1>c, <2>1, <3>6, <3>7, <3>8, <3>9, Frame
  <2> QED BY <2>3, <2>4
<1> QED
  BY <1>1, <1>2, <1>3, <1>4, <1>5, <1>6, <1>7, <1>8, <1>9, <1>10, <1>11, <1>12, <1>13, <1>14,
     <1>15, <1>16, <1>17, <1>18, <1>19, <1>20, <1>22, <1>23, <1>24, <1>25, <1>26
  DEF Next, TurnStep, FlowStep, AnyRoot

----------------------------------------------------------------------------
(* The theorems. *)

\* The first state: one conversation, nothing queued, nobody at work.
LEMMA FollowupInit == Init => ClaimInv /\ PlaceInv
<1> SUFFICES ASSUME Init PROVE ClaimInv /\ PlaceInv
  OBVIOUS
<1> USE DEF Init
<1>1. /\ \A i \in Rows : row[i] = NoRow
      /\ \A t \in Turns : turn[t] = NoTurn
      /\ \A w \in Flows : flow[w] = NoFlow
  OBVIOUS
<1>2. TypeOK
  <2>1. /\ row \in [Rows -> RowType] /\ turn \in [Turns -> TurnType] /\ flow \in [Flows -> FlowType]
    BY DEF NoRow, NoTurn, NoFlow, RowType, TurnType, FlowType, RowStatus, TurnPlaces, FlowPlaces,
           AnySession, AnyRoot
  <2>2. sess \in [Sessions -> SessType]
    BY DEF NoSess, SessType
  <2>3. moves \in 0..MaxMoves /\ crashes \in 0..MaxCrashes /\ begun \in [Rows -> Nat]
    OBVIOUS
  <2> QED BY <2>1, <2>2, <2>3, Tables DEF Typed
<1>3. ClaimInv
  <2>1. Rows \subseteq Turns
    BY DEF Turns
  <2> QED BY <1>1, <1>2, <2>1 DEF ClaimInv, Holders, Held, Spawned, InTurn, InHand, NoRow, NoTurn, NoFlow
<1>4. OneActive /\ Pins
  BY <1>1 DEF OneActive, Active, NoSess, Pins, NoRow
<1>5. ASSUME NEW t \in Turns PROVE Placed(t)
  BY <1>1 DEF Placed, TurnRoots, Fits, Promised, Settled, NoTurn, NoRow
<1> QED BY <1>3, <1>4, <1>5 DEF PlaceInv

\* Claims and places together are an invariant of every behaviour.
LEMMA FollowupInvariant == Spec => [](ClaimInv /\ PlaceInv)
<1>1. ClaimInv /\ PlaceInv /\ [Next]_vars => ClaimInv' /\ PlaceInv'
  BY ClaimStep, PlaceStep
<1> QED BY <1>1, FollowupInit, PTL DEF Spec

\* For any number of rows, workflows, clients and crashes: a follow-up is
\* started at most once, in the order of the queue, never after a cancel that
\* was answered 200, and is `running` only in somebody's hand (claim_next,
\* cancel_if_queued, the dispatcher's tail).
THEOREM ClaimDisciplineAlways == Spec => []ClaimDiscipline
<1>1. ClaimInv => ClaimDiscipline
  <2> SUFFICES ASSUME ClaimInv PROVE ClaimDiscipline
    OBVIOUS
  <2>1. RunsOnce
    BY DEF ClaimInv, Spawned, RunsOnce
  <2>2. \A i \in Rows : begun[i] > 0 => row[i].status \in {"running", "done"}
    BY Tables DEF ClaimInv, Spawned, Typed, RowType, RowStatus
  <2>3. OldestFirst
    BY <2>2 DEF ClaimInv, InTurn, OldestFirst
  <2> QED BY <2>1, <2>3 DEF ClaimDiscipline, ClaimInv
<1> QED BY <1>1, FollowupInvariant, PTL

\* For any number of turns, claims and clients moving the lane at once: the lane
\* has at most one active conversation, and a turn that nobody overtook is in
\* the conversation it was promised and in its own project (claim_next,
\* resolve_turn_session, get_or_create_active_session).
THEOREM RightPlaceAlways == Spec => []RightPlace
<1>1. ClaimInv /\ PlaceInv => RightPlace
  <2> SUFFICES ASSUME ClaimInv, PlaceInv PROVE RightPlace
    OBVIOUS
  <2>1. Rows \subseteq Turns
    BY DEF Turns
  <2>2. RunsWherePromised
    BY <2>1 DEF PlaceInv, Placed, Promised, RunsWherePromised, Settled
  <2>3. InItsProject
    BY DEF PlaceInv, Placed, Fits, InItsProject, Own, Suits
  <2> QED BY <2>2, <2>3 DEF RightPlace, ClaimInv, PlaceInv
<1> QED BY <1>1, FollowupInvariant, PTL
============================================================================
