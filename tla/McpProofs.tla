----------------------------- MODULE McpProofs -----------------------------
(***************************************************************************)
(* Why a switch is clean and what serves is one whole load, for any number *)
(* of loads, calls, edits and reconnects.  What holds the mutex moves the  *)
(* row, the handle and the seal; what does not hold it can only touch a    *)
(* client that is still open or mark the row of its own generation.        *)
(***************************************************************************)
EXTENDS McpExtension, FiniteSetTheorems, TLAPS

USE McpAssumption

Looking == {"idle", "reconcile", "drop", "reload"}
Building == {"epre", "connect", "list", "commit"}
Down == {"t1", "t3", "t4", "seal", "take", "then"}
Settled == {"Disabled", "Enabled", "Failed"}

\* What the holder of the mutex may rely on of the row, whatever marks come
\* in between: only Enabled and Failed are taken into one another.
OpRow ==
    /\ op.pc = "idle" => row.state \in Settled \cup {"none"}
    /\ op.pc \in {"reconcile", "drop", "reload"} =>
          /\ op.snap \in Settled /\ row.state \in Settled
          /\ op.snap = "Disabled" <=> row.state = "Disabled"
    /\ op.pc = "reload" => op.snap # "Disabled"
    /\ op.pc \in Building => op.then = "build"
    /\ op.pc \in Down =>
          /\ op.then # "-"
          /\ op.then \in {"off", "again"} => row.state = "Disabling"
          /\ op.then = "gone" => row.state \in {"Disabling", "Disabled", "Failed"} /\ ~row.awaiting
          /\ op.then = "reaped" => row.state \in {"Enabled", "Failed"}
          /\ op.then = "failed" => op.pc \in {"seal", "take", "then"}
    /\ op.pc \in Building \cup Down /\ op.then \in {"build", "failed"} => row.state = "Enabling"
    /\ op.pc = "t3" \/ op.drain \/ op.drained => op.pc \in Down /\ row.state = "Disabling"
    /\ op.drained => op.pc \notin {"t1", "t3"}
    /\ row.awaiting => row.state = "Failed"
    /\ row.state = "Enabling" => row.gen # 0 /\ op.pc \in Building \cup Down /\ op.then \in {"build", "failed"}

\* Loads are numbered as they begin, the one under way is the last, and an
\* operation that will load has room for it.
Numbers ==
    /\ row.gen <= begun
    /\ op.pc \in Building \cup Down /\ op.then \in {"build", "failed"} => op.new = begun /\ begun # 0
    /\ op.pc = "reconcile" /\ op.wants => begun < MaxLoads
    /\ op.pc = "reload" => begun < MaxLoads
    /\ op.pc \in Down /\ op.then = "again" => begun < MaxLoads
    /\ \A l \in Loads : client[l].made => l <= begun /\ client[l].gen # 0
    /\ \A l \in Loads : ~client[l].made => client[l] = NoClient

Fresh == op.pc \in {"list", "commit"}
\* The handle: whose it is, and when there is none.
Handles ==
    /\ handle # 0 => client[handle].made
    /\ handle # 0 /\ client[handle].sealed => op.pc = "take"
    /\ op.pc \in {"connect", "list", "commit", "then"} => handle = 0
    /\ row.state \in {"none", "Disabled"} => handle = 0
    /\ op.pc \in Building \cup Down /\ op.then = "build" /\ ~Fresh => ~client[op.new].made
    /\ Fresh => /\ client[op.new].made /\ ~client[op.new].sealed
                /\ client[op.new].conn = "Connected"
    /\ op.pc \in Down /\ op.then = "failed" => handle = 0
    /\ op.pc \in {"seal", "take"} =>
          /\ op.down # 0 /\ client[op.down].made
          /\ op.down = IF op.then = "failed" THEN op.new ELSE handle
    /\ op.pc = "take" => client[op.down].sealed

\* A client that is not sealed is the handle's, or the one being built or
\* about to be sealed; one that was sealed and taken is down for good.
Seals ==
    /\ \A l \in Loads :
          client[l].made /\ ~client[l].sealed =>
              \/ l = handle
              \/ Fresh /\ l = op.new
              \/ op.pc = "seal" /\ l = op.down
    /\ \A l \in Loads :
          client[l].sealed /\ ~(op.pc = "take" /\ l = op.down) =>
              client[l].svc = "none" /\ client[l].conn \in {"Disconnected", "Reconnecting"}

\* A call is on a client that was made, never on one that is not published
\* yet, and the record that admitted it to the present load counts it.
CallsKnown ==
    \A c \in Calls : call[c].pc # "idle" =>
        /\ call[c].load # 0 /\ client[call[c].load].made
        /\ Fresh => call[c].load # op.new
        /\ call[c].load = handle => call[c].born = row.born

\* A list that waits for the mutex was fetched from a client.
ListKnown == listed # NoList => listed.load # 0 /\ client[listed.load].made

SwitchInv == TypeOK /\ OpRow /\ Numbers /\ Handles /\ Seals /\ CallsKnown /\ DrainedIsQuiet

\* The server was not removed and added again while the daemon ran.
OneRecord == records <= 1

\* Generations within one record: a client has its own, none is ahead of the
\* row's, and a crash the reaper was told of does not serve again.
Generations ==
    /\ records = 0 => row.state = "none" /\ reapQ = {} /\ \A l \in Loads : ~client[l].made
    /\ row.state # "none" => \A l \in Loads : client[l].made => client[l].gen <= row.gen
    /\ row.state = "Enabling" =>
          \A l \in Loads : client[l].made /\ l # op.new => client[l].gen < row.gen
    /\ \A l, k \in Loads : client[l].made /\ client[k].made /\ client[l].gen = client[k].gen => l = k
    /\ handle # 0 /\ row.state # "Enabling" => client[handle].gen = row.gen
    /\ Fresh => client[op.new].gen = row.gen
    /\ row.state # "none" =>
          \A g \in reapQ : \/ g < row.gen
                           \/ g = row.gen /\ ~Serves(row) /\ row.state # "Enabling"
    /\ op.pc \in Down /\ op.then = "reaped" => ~Serves(row)

\* The registry holds names of the handle's load alone, and none once they
\* were taken back.
Registry ==
    /\ op.pc \in Looking /\ Serves(row) =>
          handle # 0 /\ \A t \in Tools : reg[t] = IF t \in names \ flagged THEN handle ELSE 0
    /\ handle = 0 /\ op.pc # "commit" => \A t \in Tools : reg[t] = 0
    /\ op.pc \in Down \ {"t1"} => \A t \in Tools : reg[t] = 0
    /\ handle # 0 => \A t \in Tools : reg[t] # 0 => t \in names
    /\ op.pc = "commit" => \A t \in Tools : reg[t] = IF t \in client[op.new].pub THEN op.new ELSE 0

Loaded == Generations /\ Registry /\ DeadClientNoticed

LoadInv == SwitchInv /\ ListKnown /\ Loaded

-----------------------------------------------------------------------------
(* Types. *)

RowType == [state : States, reason : Reasons, gen : 0 .. MaxLoads, awaiting : BOOLEAN,
            want : BOOLEAN, born : 0 .. MaxRecords]
ClientType == [made : BOOLEAN, gen : 0 .. MaxLoads, sealed : BOOLEAN,
               conn : {"Connected", "Reconnecting", "Failed", "Disconnected"},
               svc : {"none", "live", "dead"}, spawned : BOOLEAN, stray : BOOLEAN,
               tries : 0 .. MaxAttempts, pub : SUBSET Tools]
OpType == [pc : {"idle", "reconcile", "drop", "reload", "epre", "t1", "t3", "t4", "seal", "take",
                 "then", "connect", "list", "commit"},
           snap : States, wants : BOOLEAN, drain : BOOLEAN, drained : BOOLEAN,
           then : {"-", "off", "again", "gone", "reaped", "build", "failed"},
           down : 0 .. MaxLoads, new : 0 .. MaxLoads]
CallType == [pc : {"idle", "admitted", "sent", "exhausted", "unauthorized"} \cup Reconnecting,
             load : 0 .. MaxLoads, tool : Tools \cup {"-"}, born : 0 .. MaxRecords]

\* The ledger's compare-and-set steps keep a row a row.
LEMMA RowTypes ==
  ASSUME NEW r \in RowType, records \in 0 .. MaxRecords
  PROVE  /\ NoRow \in RowType
         /\ r.state # "none" /\ r.gen < MaxLoads => BeginEnabling(r) \in RowType
         /\ r.state = "none" /\ records < MaxRecords => BeginEnabling(r) \in RowType
         /\ BeginDisabling(r) \in RowType
         /\ \A to \in States, why \in Reasons : Commit(r, to, why) \in RowType
         /\ \A w \in BOOLEAN : records < MaxRecords => Upsert(w) \in RowType
         /\ \A w \in BOOLEAN : [r EXCEPT !.want = w] \in RowType
         /\ \A g : \A why \in Reasons : MarkFailed(r, g, why) \in RowType
         /\ \A g : MarkExited(r, g) \in RowType
         /\ \A g : MarkRecovered(r, g) \in RowType
<1>1. NoRow \in RowType
  BY DEF RowType, NoRow, States, Reasons
<1>2. ASSUME r.state # "none", r.gen < MaxLoads PROVE BeginEnabling(r) \in RowType
  <2>1. PICK g \in 0 .. MaxLoads : g = r.gen + 1
    BY <1>2 DEF RowType
  <2>2. BeginEnabling(r) = [r EXCEPT !.state = "Enabling", !.gen = g, !.awaiting = FALSE, !.reason = "-"]
    BY <1>2, <2>1 DEF BeginEnabling
  <2> QED BY <2>2 DEF RowType, States, Reasons
<1>3. ASSUME r.state = "none", records < MaxRecords PROVE BeginEnabling(r) \in RowType
  <2>1. PICK b \in 0 .. MaxRecords : b = records + 1
    BY <1>3
  <2>2. PICK g \in 0 .. MaxLoads : g = 1
    OBVIOUS
  <2>3. BeginEnabling(r) = [NoRow EXCEPT !.state = "Enabling", !.gen = g, !.want = TRUE, !.born = b]
    BY <1>3, <2>1, <2>2 DEF BeginEnabling
  <2> QED BY <1>1, <2>3 DEF RowType, States
<1>4. BeginDisabling(r) \in RowType
  BY DEF RowType, BeginDisabling, States, Reasons
<1>5. \A to \in States, why \in Reasons : Commit(r, to, why) \in RowType
  BY DEF RowType, Commit
<1>6. ASSUME NEW w \in BOOLEAN, records < MaxRecords PROVE Upsert(w) \in RowType
  <2>1. PICK b \in 0 .. MaxRecords : b = records + 1
    BY <1>6
  <2>2. Upsert(w) = [NoRow EXCEPT !.state = "Disabled", !.want = w, !.born = b]
    BY <2>1 DEF Upsert
  <2> QED BY <1>1, <2>2 DEF RowType, States
<1>7. \A w \in BOOLEAN : [r EXCEPT !.want = w] \in RowType
  BY DEF RowType
<1>8. \A g : \A why \in Reasons : MarkFailed(r, g, why) \in RowType
  BY DEF RowType, MarkFailed, States
<1>9. \A g : MarkExited(r, g) \in RowType
  BY DEF RowType, MarkExited, States, Reasons
<1>10. \A g : MarkRecovered(r, g) \in RowType
  BY DEF RowType, MarkRecovered, States, Reasons
<1> QED BY <1>1, <1>2, <1>3, <1>4, <1>5, <1>6, <1>7, <1>8, <1>9, <1>10

\* TypeOK by its parts.
LEMMA TypeParts ==
  TypeOK <=> /\ transport \in {"stdio", "http"}
             /\ disk \in {"on", "off", "gone"} /\ seen \in {"none", "on", "off", "gone"}
             /\ edits \in 0 .. MaxEdits /\ dirty \in BOOLEAN /\ known \in BOOLEAN /\ records \in 0 .. MaxRecords
             /\ row \in RowType /\ names \subseteq Tools /\ flagged \subseteq names
             /\ reg \in [Tools -> 0 .. MaxLoads] /\ handle \in 0 .. MaxLoads /\ begun \in 0 .. MaxLoads
             /\ client \in [Loads -> ClientType]
             /\ listed \in [load : 0 .. MaxLoads, names : SUBSET Tools]
             /\ reapQ \subseteq 1 .. MaxLoads /\ op \in OpType /\ call \in [Calls -> CallType]
BY DEF TypeOK, RowType, ClientType, OpType, CallType

\* The same of the next state.
LEMMA TypeNext ==
  ASSUME /\ transport' \in {"stdio", "http"}
         /\ disk' \in {"on", "off", "gone"} /\ seen' \in {"none", "on", "off", "gone"}
         /\ edits' \in 0 .. MaxEdits /\ dirty' \in BOOLEAN /\ known' \in BOOLEAN /\ records' \in 0 .. MaxRecords
         /\ row' \in RowType /\ names' \subseteq Tools /\ flagged' \subseteq names'
         /\ reg' \in [Tools -> 0 .. MaxLoads] /\ handle' \in 0 .. MaxLoads /\ begun' \in 0 .. MaxLoads
         /\ client' \in [Loads -> ClientType]
         /\ listed' \in [load : 0 .. MaxLoads, names : SUBSET Tools]
         /\ reapQ' \subseteq 1 .. MaxLoads /\ op' \in OpType /\ call' \in [Calls -> CallType]
  PROVE  TypeOK'
BY DEF TypeOK, RowType, ClientType, OpType, CallType

\* What an operation becomes is an operation.
LEMMA OpTypes ==
  ASSUME op \in OpType, begun \in 0 .. MaxLoads, handle \in 0 .. MaxLoads
  PROVE  /\ Idle \in OpType
         /\ \A s \in States, w \in BOOLEAN :
              /\ [Idle EXCEPT !.pc = "reconcile", !.snap = s, !.wants = w] \in OpType
              /\ [Idle EXCEPT !.pc = "drop", !.snap = s] \in OpType
              /\ [Idle EXCEPT !.pc = "reload", !.snap = s] \in OpType
         /\ begun < MaxLoads =>
              [Idle EXCEPT !.pc = "epre", !.then = "build", !.new = begun + 1] \in OpType
         /\ \A t \in {"off", "again", "gone", "reaped"} :
              /\ \A d \in BOOLEAN : [Idle EXCEPT !.pc = "t1", !.then = t, !.drain = d] \in OpType
              /\ [Idle EXCEPT !.pc = "t1", !.then = t] \in OpType
              /\ [Idle EXCEPT !.pc = "then", !.then = t] \in OpType
         /\ \A p \in {"t1", "t3", "t4", "take", "then", "connect", "list", "commit"} :
              /\ [op EXCEPT !.pc = p] \in OpType
              /\ \A d \in BOOLEAN : [op EXCEPT !.pc = p, !.drained = d] \in OpType
         /\ \A p \in {"then", "seal"} : [op EXCEPT !.pc = p, !.down = handle] \in OpType
         /\ [op EXCEPT !.pc = "seal", !.then = "failed", !.down = op.new] \in OpType
<1>1. Idle \in OpType
  BY DEF OpType, Idle, States
<1>2. \A s \in States, w \in BOOLEAN :
        /\ [Idle EXCEPT !.pc = "reconcile", !.snap = s, !.wants = w] \in OpType
        /\ [Idle EXCEPT !.pc = "drop", !.snap = s] \in OpType
        /\ [Idle EXCEPT !.pc = "reload", !.snap = s] \in OpType
  BY ZenonT(60), <1>1 DEF OpType
<1>3. ASSUME begun < MaxLoads
      PROVE  [Idle EXCEPT !.pc = "epre", !.then = "build", !.new = begun + 1] \in OpType
  <2>1. PICK n \in 0 .. MaxLoads : n = begun + 1
    BY <1>3
  <2> QED BY <1>1, <2>1 DEF OpType
<1>4. \A t \in {"off", "again", "gone", "reaped"} :
        /\ \A d \in BOOLEAN : [Idle EXCEPT !.pc = "t1", !.then = t, !.drain = d] \in OpType
        /\ [Idle EXCEPT !.pc = "t1", !.then = t] \in OpType
        /\ [Idle EXCEPT !.pc = "then", !.then = t] \in OpType
  BY ZenonT(60), <1>1 DEF OpType
<1>5. \A p \in {"t1", "t3", "t4", "take", "then", "connect", "list", "commit"} :
        /\ [op EXCEPT !.pc = p] \in OpType
        /\ \A d \in BOOLEAN : [op EXCEPT !.pc = p, !.drained = d] \in OpType
  BY ZenonT(60) DEF OpType
<1>6. \A p \in {"then", "seal"} : [op EXCEPT !.pc = p, !.down = handle] \in OpType
  BY DEF OpType
<1>7. [op EXCEPT !.pc = "seal", !.then = "failed", !.down = op.new] \in OpType
  BY DEF OpType
<1> QED BY <1>1, <1>2, <1>3, <1>4, <1>5, <1>6, <1>7

\* Starting a load or a teardown leaves an operation and a count of loads.
LEMMA StartTypes ==
  ASSUME TypeOK
  PROVE  /\ CanLoad /\ StartLoad => op' \in OpType /\ begun' \in 0 .. MaxLoads
         /\ \A t \in {"off", "again", "gone"}, d \in BOOLEAN :
              StartTeardown(t, d) => op' \in OpType /\ begun' \in 0 .. MaxLoads
<1>1. op \in OpType /\ begun \in 0 .. MaxLoads /\ handle \in 0 .. MaxLoads
  BY TypeParts
<1>2. CanLoad => begun + 1 \in 0 .. MaxLoads
  BY <1>1 DEF CanLoad
<1>3. CanLoad => [Idle EXCEPT !.pc = "epre", !.then = "build", !.new = begun + 1] \in OpType
  BY <1>1, OpTypes DEF CanLoad
<1>4. \A t \in {"off", "again", "gone"}, d \in BOOLEAN :
        [Idle EXCEPT !.pc = "t1", !.then = t, !.drain = d] \in OpType
  BY <1>1, OpTypes
<1>5. CanLoad /\ StartLoad => op' \in OpType /\ begun' \in 0 .. MaxLoads
  BY <1>2, <1>3 DEF StartLoad
<1>6. ASSUME NEW t \in {"off", "again", "gone"}, NEW d \in BOOLEAN, StartTeardown(t, d)
      PROVE  op' \in OpType /\ begun' \in 0 .. MaxLoads
  BY <1>1, <1>4, <1>6 DEF StartTeardown
<1> QED BY <1>5, <1>6

\* Who has the mutex to start with, or takes it, leaves a typed row and operation.
LEMMA TypeVerbs ==
  ASSUME SwitchInv,
         \/ Reconcile \/ Enable \/ Disable \/ Reload \/ Remove
         \/ \E changed \in BOOLEAN : ReconcileAct(changed)
         \/ DropAct \/ ReloadAct \/ \E g \in reapQ : Reap(g)
  PROVE  TypeOK'
<1> USE DEF SwitchInv
<1>0. /\ row \in RowType /\ op \in OpType /\ begun \in 0 .. MaxLoads /\ handle \in 0 .. MaxLoads
      /\ records \in 0 .. MaxRecords /\ row.gen <= begun /\ row.state \in States
      /\ reapQ \subseteq 1 .. MaxLoads
  BY TypeParts DEF Numbers, RowType
<1>1. /\ CanLoad /\ row.state # "none" => BeginEnabling(row) \in RowType
      /\ \A w \in BOOLEAN : CanLoad /\ row.state # "none" =>
            BeginEnabling([row EXCEPT !.want = w]) \in RowType
      /\ BeginDisabling(row) \in RowType
      /\ \A w \in BOOLEAN : BeginDisabling([row EXCEPT !.want = w]) \in RowType
      /\ \A w \in BOOLEAN : [row EXCEPT !.want = w] \in RowType
  <2>1. ASSUME NEW w \in BOOLEAN
        PROVE  /\ [row EXCEPT !.want = w] \in RowType
               /\ [row EXCEPT !.want = w].state = row.state /\ [row EXCEPT !.want = w].gen = row.gen
    BY <1>0 DEF RowType
  <2>2. CanLoad => row.gen < MaxLoads
    BY <1>0 DEF CanLoad, RowType
  <2> QED BY <1>0, <2>1, <2>2, RowTypes
<1>2. /\ records + 1 <= MaxRecords /\ row.state = "none" => BeginEnabling(row) \in RowType
      /\ records + 1 <= MaxRecords => \A w \in BOOLEAN : Upsert(w) \in RowType
  BY <1>0, RowTypes
<1>3. Counted => records' \in 0 .. MaxRecords
  BY <1>0 DEF Counted
<1>4. CASE Reconcile
  <2>1. /\ seen' \in {"none", "on", "off", "gone"} /\ records' \in 0 .. MaxRecords
    BY <1>3, <1>4 DEF Reconcile
  <2>2. CASE seen = "gone" /\ UNCHANGED <<row, begun>>
                /\ op' = IF row.state = "none" THEN op ELSE [Idle EXCEPT !.pc = "drop", !.snap = row.state]
    <3>1. op' \in OpType
      BY <1>0, <2>2, OpTypes
    <3> QED BY <1>4, <2>1, <2>2, <3>1, TypeParts, TypeNext DEF Reconcile, tools
  <2>3. CASE seen = "on" /\ row.state = "none" /\ row' = BeginEnabling(row) /\ StartLoad
    <3>1. row'.state # "none"
      BY <2>3 DEF BeginEnabling, NoRow
    <3>2. row' \in RowType
      BY <1>0, <1>2, <2>3, <3>1, <1>4 DEF Reconcile, Counted
    <3>3. op' \in OpType /\ begun' \in 0 .. MaxLoads
      BY <1>4, <2>3, StartTypes DEF Reconcile
    <3> QED BY <1>4, <2>1, <3>2, <3>3, TypeParts, TypeNext DEF Reconcile, tools
  <2>4. CASE row.state = "none" /\ row' = Upsert(FALSE) /\ UNCHANGED <<op, begun>>
    <3>1. row'.state # "none"
      BY <2>4 DEF Upsert, NoRow
    <3>2. row' \in RowType
      BY <1>0, <1>2, <2>4, <3>1, <1>4 DEF Reconcile, Counted
    <3> QED BY <1>4, <2>1, <3>2, <2>4, TypeParts, TypeNext DEF Reconcile, tools
  <2>5. CASE /\ row' = [row EXCEPT !.want = (seen = "on")]
             /\ op' = [Idle EXCEPT !.pc = "reconcile", !.snap = row.state, !.wants = (seen = "on")]
             /\ UNCHANGED begun
    <3>1. PICK w \in BOOLEAN : w = (seen = "on")
      OBVIOUS
    <3>2. row' \in RowType
      BY <1>1, <2>5, <3>1
    <3>3. op' \in OpType
      BY <1>0, <2>5, <3>1, OpTypes
    <3> QED BY <1>4, <2>1, <3>2, <3>3, <2>5, TypeParts, TypeNext DEF Reconcile, tools
  <2> QED BY <1>4, <2>2, <2>3, <2>4, <2>5 DEF Reconcile
<1>5. CASE Enable
  <2>1. /\ disk' \in {"on", "off", "gone"} /\ records' \in 0 .. MaxRecords
    BY <1>3, <1>5, TypeParts DEF Enable, WriteBit
  <2>2. row' \in RowType /\ op' \in OpType /\ begun' \in 0 .. MaxLoads
    <3>1. CASE row.state = "none"
      <4>1. row' = BeginEnabling(row) /\ StartLoad /\ CanLoad
        BY <1>5, <3>1 DEF Enable, CanEnable
      <4>2. row'.state # "none"
        BY <4>1, <3>1 DEF BeginEnabling, NoRow
      <4> QED BY <1>0, <1>2, <1>5, <3>1, <4>1, <4>2, StartTypes DEF Enable, Counted
    <3>2. CASE row.state # "none"
      <4>1. \/ row' = BeginEnabling([row EXCEPT !.want = TRUE]) /\ StartLoad /\ CanLoad
            \/ row' = [row EXCEPT !.want = TRUE] /\ UNCHANGED <<op, begun>>
        BY <1>5, <3>2 DEF Enable
      <4> QED BY <1>0, <1>1, <3>2, <4>1, StartTypes
    <3> QED BY <3>1, <3>2
  <2> QED BY <1>5, <2>1, <2>2, TypeParts, TypeNext DEF Enable, tools
<1>6. CASE Disable
  <2>1. /\ disk' \in {"on", "off", "gone"} /\ records' \in 0 .. MaxRecords
    BY <1>3, <1>6, TypeParts DEF Disable, WriteBit
  <2>2. row' \in RowType /\ op' \in OpType /\ begun' \in 0 .. MaxLoads
    <3>1. CASE row.state = "none" /\ row' = Upsert(FALSE) /\ UNCHANGED <<op, begun>>
      <4>1. row'.state # "none"
        BY <3>1 DEF Upsert, NoRow
      <4> QED BY <1>0, <1>2, <1>6, <3>1, <4>1 DEF Disable, Counted
    <3>2. CASE row' = BeginDisabling([row EXCEPT !.want = FALSE]) /\ StartTeardown("off", TRUE)
      BY <1>1, <3>2, StartTypes
    <3>3. CASE row' = [row EXCEPT !.want = FALSE] /\ UNCHANGED <<op, begun>>
      BY <1>0, <1>1, <3>3
    <3> QED BY <1>6, <3>1, <3>2, <3>3 DEF Disable
  <2> QED BY <1>6, <2>1, <2>2, TypeParts, TypeNext DEF Disable, tools
<1>7. CASE Reload
  <2>1. op' \in OpType
    BY <1>0, <1>7, OpTypes DEF Reload
  <2> QED BY <1>7, <2>1, TypeParts, TypeNext DEF Reload, file, ledger, tools
<1>8. CASE Remove
  <2>1. op' \in OpType
    BY <1>0, <1>8, OpTypes DEF Remove
  <2> QED BY <1>8, <2>1, TypeParts, TypeNext DEF Remove, ledger, tools
<1>9. CASE \E changed \in BOOLEAN : ReconcileAct(changed)
  <2>1. /\ row.state # "none" /\ (op.wants => CanLoad)
    BY <1>9 DEF ReconcileAct, OpRow, Numbers, Settled, CanLoad
  <2>2. \/ row' = BeginDisabling(row) /\ StartTeardown("off", TRUE)
        \/ op.wants /\ row' = BeginEnabling(row) /\ StartLoad
        \/ op' = Idle /\ UNCHANGED <<row, begun>>
    BY <1>9 DEF ReconcileAct
  <2>3. row' \in RowType /\ op' \in OpType /\ begun' \in 0 .. MaxLoads
    BY <1>0, <1>1, <2>1, <2>2, StartTypes, OpTypes
  <2> QED BY <1>9, <2>3, TypeParts, TypeNext DEF ReconcileAct, file, tools
<1>10. CASE DropAct
  <2>1. row' \in RowType /\ op' \in OpType /\ begun' \in 0 .. MaxLoads
    BY <1>0, <1>1, <1>10, StartTypes, OpTypes DEF DropAct
  <2> QED BY <1>10, <2>1, TypeParts, TypeNext DEF DropAct, file, tools
<1>11. CASE ReloadAct
  <2>1. row.state # "none" /\ CanLoad
    BY <1>11 DEF ReloadAct, OpRow, Numbers, Settled, CanLoad
  <2>2. row' \in RowType /\ op' \in OpType /\ begun' \in 0 .. MaxLoads
    BY <1>0, <1>1, <1>11, <2>1, StartTypes, OpTypes DEF ReloadAct
  <2> QED BY <1>11, <2>2, TypeParts, TypeNext DEF ReloadAct, file, tools
<1>12. CASE \E g \in reapQ : Reap(g)
  <2>1. op' \in OpType /\ reapQ' \subseteq 1 .. MaxLoads
    BY <1>0, <1>12, OpTypes DEF Reap
  <2> QED BY <1>12, <2>1, TypeParts, TypeNext DEF Reap, file, ledger, tools
<1> QED BY <1>4, <1>5, <1>6, <1>7, <1>8, <1>9, <1>10, <1>11, <1>12

\* A client's fields change within their types.
LEMMA ClientTypes ==
  ASSUME TypeOK, NEW l \in Loads
  PROVE  /\ client[l] \in ClientType
         /\ \A k \in ClientType : [client EXCEPT ![l] = k] \in [Loads -> ClientType]
         /\ NoClient \in ClientType
BY TypeParts DEF ClientType, NoClient

\* So do the updates the actions make of one client.
LEMMA FieldTypes ==
  ASSUME NEW k \in ClientType
  PROVE  /\ [k EXCEPT !.sealed = TRUE] \in ClientType
         /\ [k EXCEPT !.svc = "none", !.conn = "Disconnected"] \in ClientType
         /\ \A b \in BOOLEAN : [k EXCEPT !.spawned = b] \in ClientType
         /\ \A b \in BOOLEAN : [k EXCEPT !.spawned = FALSE, !.stray = b] \in ClientType
         /\ [k EXCEPT !.stray = FALSE] \in ClientType
         /\ \A conn \in {"Failed", "Reconnecting"} : [k EXCEPT !.conn = conn] \in ClientType
         /\ \A n \in 0 .. MaxAttempts :
              /\ [k EXCEPT !.tries = n, !.svc = "none"] \in ClientType
              /\ [k EXCEPT !.tries = n] \in ClientType
         /\ [k EXCEPT !.spawned = FALSE, !.svc = "live", !.conn = "Connected"] \in ClientType
         /\ [k EXCEPT !.svc = "dead"] \in ClientType
         /\ \A ts \in SUBSET Tools : [k EXCEPT !.pub = ts] \in ClientType
BY DEF ClientType

\* The steps of a teardown and of a load keep the types.
LEMMA TypeOps ==
  ASSUME SwitchInv,
         \/ T1 \/ T3 \/ T4 \/ Seal \/ Take \/ Then
         \/ EPre \/ Connect \/ PublishFails \/ Commit5
         \/ \E ts \in SUBSET Tools : Publish(ts)
  PROVE  TypeOK'
<1> USE DEF SwitchInv
<1>0. /\ row \in RowType /\ op \in OpType /\ begun \in 0 .. MaxLoads /\ handle \in 0 .. MaxLoads
      /\ records \in 0 .. MaxRecords /\ row.gen <= begun /\ row.state \in States
      /\ reg \in [Tools -> 0 .. MaxLoads] /\ client \in [Loads -> ClientType]
  BY TypeParts DEF Numbers, RowType
<1>1. op.pc \in Building => op.new \in Loads /\ row.state = "Enabling"
  BY <1>0 DEF OpRow, Numbers, Building, Loads
<1>2. op.pc \in {"seal", "take"} => op.down \in Loads
  BY <1>0 DEF Handles, OpType, Loads
<1>3. CASE T1
  <2>1. reg' \in [Tools -> 0 .. MaxLoads]
    BY <1>0, <1>3 DEF T1, Forget
  <2>2. op' \in OpType
    BY <1>0, <1>3, OpTypes DEF T1
  <2> QED BY <1>3, <2>1, <2>2, TypeParts, TypeNext DEF T1, file
<1>4. CASE T3
  <2>1. op' \in OpType
    BY <1>0, <1>4, OpTypes DEF T3
  <2> QED BY <1>4, <2>1, TypeParts, TypeNext DEF T3, file, ledger, tools
<1>5. CASE T4
  <2>1. op' \in OpType
    BY <1>0, <1>5, OpTypes DEF T4
  <2> QED BY <1>5, <2>1, TypeParts, TypeNext DEF T4, file, ledger, tools
<1>6. CASE Seal
  <2>1. op' \in OpType
    BY <1>0, <1>6, OpTypes DEF Seal
  <2>2. [client[op.down] EXCEPT !.sealed = TRUE] \in ClientType
    BY <1>2, <1>6, ClientTypes, FieldTypes DEF Seal
  <2>3. client' \in [Loads -> ClientType]
    BY <1>2, <1>6, <2>2, ClientTypes DEF Seal
  <2> QED BY <1>6, <2>1, <2>3, TypeParts, TypeNext DEF Seal, file, ledger, tools
<1>7. CASE Take
  <2>1. op' \in OpType
    BY <1>0, <1>7, OpTypes DEF Take
  <2>2. [client[op.down] EXCEPT !.svc = "none", !.conn = "Disconnected"] \in ClientType
    BY <1>2, <1>7, ClientTypes, FieldTypes DEF Take
  <2>3. client' = [client EXCEPT ![op.down] = [client[op.down] EXCEPT !.svc = "none", !.conn = "Disconnected"]]
    BY <1>0, <1>2, <1>7 DEF Take
  <2>4. client' \in [Loads -> ClientType]
    BY <1>2, <1>7, <2>2, <2>3, ClientTypes DEF Take
  <2>5. handle' \in 0 .. MaxLoads
    BY <1>0, <1>7 DEF Take
  <2> QED BY <1>7, <2>1, <2>4, <2>5, TypeParts, TypeNext DEF Take, file, ledger, tools
<1>8. CASE Then
  <2>1. /\ row.state # "none" /\ row.gen < MaxLoads => BeginEnabling(row) \in RowType
        /\ Commit(row, "Disabled", "-") \in RowType /\ Commit(row, "Failed", "bringup") \in RowType
        /\ NoRow \in RowType
    BY <1>0, RowTypes DEF States, Reasons
  <2>2. op.then = "again" => CanLoad /\ row.state # "none" /\ row.gen < MaxLoads
    BY <1>0, <1>8 DEF Then, OpRow, Numbers, Down, CanLoad, RowType
  <2>3. [op EXCEPT !.pc = "connect"] \in OpType /\ Idle \in OpType
    BY <1>0, OpTypes
  <2>4. op.then = "again" /\ StartLoad => op' \in OpType /\ begun' \in 0 .. MaxLoads
    BY <2>2, StartTypes
  <2>5. row' \in RowType
    BY <1>0, <1>8, <2>1, <2>2 DEF Then
  <2>6. op' \in OpType /\ begun' \in 0 .. MaxLoads
    <3>1. \/ op.then = "again" /\ StartLoad
          \/ (op' = Idle \/ op' = [op EXCEPT !.pc = "connect"]) /\ UNCHANGED begun
      BY <1>8 DEF Then
    <3> QED BY <1>0, <2>3, <2>4, <3>1
  <2>7. /\ names' \subseteq Tools /\ flagged' \subseteq names' /\ handle' \in 0 .. MaxLoads
        /\ known' \in BOOLEAN
    <3>1. \/ UNCHANGED <<names, flagged, handle, known>>
          \/ names' = {} /\ flagged' = {} /\ handle' = 0 /\ known' = FALSE
      BY <1>8 DEF Then
    <3>2. names \subseteq Tools /\ flagged \subseteq names /\ known \in BOOLEAN
      BY TypeParts
    <3>3. names' \subseteq Tools /\ flagged' \subseteq names'
      BY <3>1, <3>2
    <3>4. handle' \in 0 .. MaxLoads
      BY <1>0, <3>1
    <3>5. known' \in BOOLEAN
      BY <3>1, <3>2, Zenon
    <3> QED BY <3>3, <3>4, <3>5
  <2> QED BY <1>8, <2>5, <2>6, <2>7, TypeParts, TypeNext DEF Then
<1>9. CASE EPre
  <2>1. op' \in OpType
    BY <1>0, <1>9, OpTypes DEF EPre
  <2> QED BY <1>9, <2>1, TypeParts, TypeNext DEF EPre, file, ledger, tools
<1>10. CASE Connect
  <2>1. row' \in RowType /\ op' \in OpType
    BY <1>0, <1>10, RowTypes, OpTypes DEF Connect, States, Reasons
  <2>2. PICK g \in 0 .. MaxLoads : g = row.gen
    BY <1>0 DEF RowType
  <2>3. Client(g) \in ClientType
    BY <1>1, <1>10, ClientTypes DEF Connect, Client, ClientType, Building, NoClient
  <2>4. client' \in [Loads -> ClientType]
    BY <1>0, <1>1, <1>10, <2>2, <2>3, ClientTypes DEF Connect, Building
  <2> QED BY <1>10, <2>1, <2>4, TypeParts, TypeNext DEF Connect, file, tools
<1>11. CASE PublishFails
  <2>1. op' \in OpType
    BY <1>0, <1>11, OpTypes DEF PublishFails
  <2> QED BY <1>11, <2>1, TypeParts, TypeNext DEF PublishFails, file, ledger, tools
<1>12. CASE Commit5
  <2>1. row' \in RowType /\ op' \in OpType
    BY <1>0, <1>12, RowTypes, OpTypes DEF Commit5, States, Reasons
  <2>2. client[op.new].pub \subseteq Tools /\ op.new \in 0 .. MaxLoads
    BY <1>1, <1>12, ClientTypes DEF Commit5, Building, ClientType, Loads
  <2> QED BY <1>12, <2>1, <2>2, TypeParts, TypeNext DEF Commit5, file
<1>13. ASSUME NEW ts \in SUBSET Tools, Publish(ts) PROVE TypeOK'
  <2>1. op' \in OpType
    BY <1>0, <1>13, OpTypes DEF Publish
  <2>2. [client[op.new] EXCEPT !.pub = ts] \in ClientType
    BY SMTT(30), <1>1, <1>13, ClientTypes DEF Publish, ClientType, Building
  <2>3. client' \in [Loads -> ClientType]
    BY <1>1, <1>13, <2>2, ClientTypes DEF Publish, Building
  <2>4. reg' \in [Tools -> 0 .. MaxLoads]
    BY <1>0, <1>1, <1>13 DEF Publish, Loads, Building
  <2> QED BY <1>13, <2>1, <2>3, <2>4, TypeParts, TypeNext DEF Publish, file
<1> QED BY <1>3, <1>4, <1>5, <1>6, <1>7, <1>8, <1>9, <1>10, <1>11, <1>12, <1>13

-----------------------------------------------------------------------------
(* What happens without the mutex. *)

\* What such a step may do to a client.
Touched(l) ==
    /\ client'[l].made = client[l].made /\ client'[l].gen = client[l].gen
    /\ client'[l].sealed = client[l].sealed /\ client'[l].pub = client[l].pub
    /\ ~client[l].made => client'[l] = client[l]
    /\ client[l].sealed => /\ client'[l].conn \in {client[l].conn, "Reconnecting"}
                           /\ client[l].svc = "none" => client'[l].svc = "none"
    /\ client'[l].conn # client[l].conn =>
          \E c \in Calls : call[c].pc # "idle" /\ call[c].load = l

\* What it may do to the row and tell the reaper.
Marked ==
    /\ \/ row' = row
       \/ /\ Serves(row) /\ row'.state \in {"Enabled", "Failed"} /\ row'.gen = row.gen
          /\ row'.born = row.born /\ (row'.awaiting => row'.state = "Failed")
    /\ reapQ' = reapQ \/ (reapQ' = reapQ \cup {row.gen} /\ Serves(row) /\ row'.gen = row.gen /\ ~Serves(row'))

\* What it may do to a call.
Moved(c) ==
    call'[c].pc # "idle" =>
        \/ call[c].pc # "idle" /\ call'[c].load = call[c].load /\ call'[c].born = call[c].born
        \/ /\ call'[c].load \in Loads /\ client[call'[c].load].made /\ call'[c].born = row.born
           /\ row.state = "none" \/ Serves(row)

Aside ==
    /\ UNCHANGED <<op, handle, begun, records, names, flagged, reg>>
    /\ Marked
    /\ \A l \in Loads : Touched(l)
    /\ \A c \in Calls : Moved(c)

\* Nothing was touched.
LEMMA Untouched ==
  ASSUME UNCHANGED client
  PROVE  \A l \in Loads : Touched(l)
BY DEF Touched

\* One client was touched, which had been made.
LEMMA OneTouched ==
  ASSUME TypeOK, NEW l \in Loads, NEW k \in ClientType, client' = [client EXCEPT ![l] = k],
         client[l].made, k.made, k.gen = client[l].gen, k.sealed = client[l].sealed, k.pub = client[l].pub,
         client[l].sealed => /\ k.conn \in {client[l].conn, "Reconnecting"}
                             /\ client[l].svc = "none" => k.svc = "none",
         k.conn # client[l].conn => \E c \in Calls : call[c].pc # "idle" /\ call[c].load = l
  PROVE  (\A j \in Loads : Touched(j)) /\ client' \in [Loads -> ClientType]
<1>1. client \in [Loads -> ClientType]
  BY TypeParts
<1>2. client' \in [Loads -> ClientType]
  BY <1>1
<1>3. ASSUME NEW j \in Loads PROVE Touched(j)
  <2>1. CASE j = l
    BY <1>1, <2>1 DEF Touched, ClientType
  <2>2. CASE j # l
    BY <1>1, <2>2 DEF Touched
  <2> QED BY <2>1, <2>2
<1> QED BY <1>2, <1>3

\* A call goes on or comes to its end.
LEMMA CallGoes ==
  ASSUME TypeOK, NEW c \in Calls, call[c].pc # "idle",
         End(c) \/ \E p \in {"admitted", "sent", "exhausted", "unauthorized"} \cup Reconnecting : Goto(c, p)
  PROVE  (\A d \in Calls : Moved(d)) /\ call' \in [Calls -> CallType]
<1>1. call \in [Calls -> CallType]
  BY TypeParts
<1>2. CASE End(c)
  <2>1. NoCall \in CallType
    BY DEF NoCall, CallType
  <2> QED BY <1>1, <1>2, <2>1 DEF End, Moved, NoCall
<1>3. ASSUME NEW p \in {"admitted", "sent", "exhausted", "unauthorized"} \cup Reconnecting, Goto(c, p)
      PROVE  (\A d \in Calls : Moved(d)) /\ call' \in [Calls -> CallType]
  <2>1. [call[c] EXCEPT !.pc = p] \in CallType
    BY <1>1 DEF CallType
  <2>2. call' = [call EXCEPT ![c] = [call[c] EXCEPT !.pc = p]]
    BY <1>3 DEF Goto
  <2>3. call' \in [Calls -> CallType]
    BY <1>1, <2>1, <2>2
  <2>4. /\ [call[c] EXCEPT !.pc = p].load = call[c].load
        /\ [call[c] EXCEPT !.pc = p].born = call[c].born
    BY <1>1 DEF CallType
  <2> QED BY <1>1, <2>2, <2>3, <2>4 DEF Moved
<1> QED BY <1>2, <1>3

\* The three marks.
LEMMA Marks ==
  ASSUME SwitchInv, NEW g, UNCHANGED reapQ,
         row' = MarkExited(row, g) \/ row' = MarkRecovered(row, g) \/ row' = row
  PROVE  Marked /\ row' \in RowType
<1>1. row \in RowType /\ (row.awaiting => row.state = "Failed")
  BY TypeParts DEF SwitchInv, OpRow
<1>2. row' \in RowType
  BY <1>1, RowTypes, TypeParts DEF SwitchInv
<1>3. CASE row' = row
  BY <1>2, <1>3 DEF Marked
<1>4. CASE row' = MarkExited(row, g)
  BY <1>1, <1>2, <1>4 DEF Marked, MarkExited, Serves, RowType
<1>5. CASE row' = MarkRecovered(row, g)
  BY <1>1, <1>2, <1>5 DEF Marked, MarkRecovered, Serves, RowType
<1> QED BY <1>2, <1>3, <1>4, <1>5

\* Marking a load failed tells the reaper of the row's generation.
LEMMA FailsMarks ==
  ASSUME SwitchInv, NEW l \in Loads, client[l].made, NEW why \in Reasons, Fails(l, why)
  PROVE  Marked /\ row' \in RowType /\ reapQ' \subseteq 1 .. MaxLoads
<1>1. /\ row \in RowType /\ reapQ \subseteq 1 .. MaxLoads /\ client[l].gen # 0
      /\ client[l].gen \in 0 .. MaxLoads
  BY TypeParts, ClientTypes DEF SwitchInv, Numbers, ClientType
<1>2. row' \in RowType
  BY <1>1, RowTypes, TypeParts DEF SwitchInv, Fails
<1>3. CASE Serves(row) /\ row.gen = client[l].gen
  <2>1. row'.state = "Failed" /\ ~row'.awaiting /\ row'.gen = row.gen /\ row'.born = row.born
    BY <1>1, <1>3 DEF Fails, MarkFailed, RowType
  <2>2. reapQ' = reapQ \/ reapQ' = reapQ \cup {row.gen}
    BY <1>3 DEF Fails
  <2>3. ~Serves(row')
    BY <2>1 DEF Serves
  <2>4. reapQ' \subseteq 1 .. MaxLoads
    <3>1. PICK g \in 1 .. MaxLoads : g = row.gen
      BY <1>1, <1>3
    <3> QED BY <1>1, <2>2, <3>1
  <2>5. Marked
    BY <1>3, <2>1, <2>2, <2>3 DEF Marked
  <2> QED BY <1>2, <2>4, <2>5
<1>4. CASE ~(Serves(row) /\ row.gen = client[l].gen)
  BY <1>1, <1>2, <1>4 DEF Fails, MarkFailed, Marked
<1> QED BY <1>3, <1>4

Bystander ==
    \/ \E d \in {"on", "off", "gone"} : Edit(d)
    \/ ReadDeclaration
    \/ \E l \in Loads :
        \/ \E ts \in SUBSET Tools : Fetch(l, ts)
        \/ FetchFails(l) \/ Exit(l) \/ Ended(l)
    \/ \E c \in Calls :
        \/ \E t \in Tools, l \in Loads : Admit(c, t, l)
        \/ CallStep(c)

\* Every step that does not take the mutex stays aside of it, and keeps the types.
LEMMA BystanderAside ==
  ASSUME SwitchInv, Bystander
  PROVE  Aside /\ TypeOK'
<1> USE DEF SwitchInv
<1>0. \A c \in Calls : call[c].pc # "idle" => call[c].load \in Loads /\ client[call[c].load].made
  BY TypeParts DEF CallsKnown, CallType, Loads
<1>1. \A l \in Loads : /\ client[l] \in ClientType
                       /\ client[l].svc # "none" \/ client[l].stray \/ client[l].pub # {} => client[l].made
  BY ClientTypes DEF Numbers, NoClient
<1>2. UNCHANGED row /\ UNCHANGED reapQ => Marked /\ row' \in RowType
  BY Marks
<1>3. UNCHANGED call => \A c \in Calls : Moved(c)
  BY DEF Moved
<1>4. ASSUME NEW d \in {"on", "off", "gone"}, Edit(d) PROVE Aside /\ TypeOK'
  <2>1. edits' \in 0 .. MaxEdits
    BY <1>4, TypeParts DEF Edit
  <2>2. Aside
    BY <1>2, <1>3, <1>4, Untouched DEF Edit, Aside, ledger, tools
  <2> QED BY <1>4, <2>1, <2>2, TypeParts, TypeNext DEF Edit, ledger, tools
<1>5. CASE ReadDeclaration
  <2>1. Aside
    BY <1>2, <1>3, <1>5, Untouched DEF ReadDeclaration, Aside, ledger, tools
  <2>2. seen' \in {"none", "on", "off", "gone"} /\ known' \in BOOLEAN /\ dirty' \in BOOLEAN
    BY <1>5, TypeParts DEF ReadDeclaration
  <2> QED BY <1>5, <2>1, <2>2, TypeParts, TypeNext DEF ReadDeclaration, ledger, tools
<1>6. ASSUME NEW l \in Loads, NEW ts \in SUBSET Tools, Fetch(l, ts) PROVE Aside /\ TypeOK'
  <2>1. Aside
    BY <1>2, <1>3, <1>6, Untouched DEF Fetch, Aside, ledger, tools
  <2>2. listed' \in [load : 0 .. MaxLoads, names : SUBSET Tools]
    BY <1>6 DEF Fetch, Loads
  <2> QED BY <1>6, <2>1, <2>2, TypeParts, TypeNext DEF Fetch, file, ledger, tools
<1>7. ASSUME NEW l \in Loads, FetchFails(l) PROVE Aside /\ TypeOK'
  <2>1. Marked /\ row' \in RowType /\ reapQ' \subseteq 1 .. MaxLoads
    BY <1>7, FailsMarks DEF FetchFails, Reasons
  <2>2. Aside
    BY <1>3, <1>7, <2>1, Untouched DEF FetchFails, Aside, tools
  <2> QED BY <1>7, <2>1, <2>2, TypeParts, TypeNext DEF FetchFails, file, tools
<1>8. ASSUME NEW l \in Loads, Exit(l) \/ Ended(l) PROVE Aside /\ TypeOK'
  <2>1. /\ UNCHANGED <<transport, file, records, tools, handle, begun, listed, reapQ, op, call>>
        /\ client[l].made
        /\ row' = row \/ row' = MarkExited(row, client[l].gen)
        /\ \/ client' = [client EXCEPT ![l].svc = "dead"] /\ client[l].svc = "live"
           \/ client' = [client EXCEPT ![l].stray = FALSE]
    BY <1>1, <1>8 DEF Exit, Ended, Live
  <2>2. Marked /\ row' \in RowType
    BY <2>1, Marks
  <2>3. (\A j \in Loads : Touched(j)) /\ client' \in [Loads -> ClientType]
    <3>1. /\ [client[l] EXCEPT !.svc = "dead"] \in ClientType
          /\ [client[l] EXCEPT !.stray = FALSE] \in ClientType
      BY <1>1, FieldTypes
    <3>2. CASE client' = [client EXCEPT ![l].svc = "dead"] /\ client[l].svc = "live"
      <4>1. client' = [client EXCEPT ![l] = [client[l] EXCEPT !.svc = "dead"]]
        BY <3>2
      <4> DEFINE k == [client[l] EXCEPT !.svc = "dead"]
      <4>2. /\ k.made /\ k.gen = client[l].gen /\ k.sealed = client[l].sealed /\ k.pub = client[l].pub
            /\ k.conn = client[l].conn
        BY <1>1, <2>1 DEF ClientType
      <4>3. client[l].svc # "none"
        BY <3>2
      <4>4. k \in ClientType /\ client' = [client EXCEPT ![l] = k]
        BY <3>1, <4>1
      <4> HIDE DEF k
      <4> QED BY <2>1, <4>2, <4>3, <4>4, OneTouched
    <3>3. CASE client' = [client EXCEPT ![l].stray = FALSE]
      <4>1. client' = [client EXCEPT ![l] = [client[l] EXCEPT !.stray = FALSE]]
        BY <3>3
      <4> DEFINE k == [client[l] EXCEPT !.stray = FALSE]
      <4>2. /\ k.made /\ k.gen = client[l].gen /\ k.sealed = client[l].sealed /\ k.pub = client[l].pub
            /\ k.conn = client[l].conn /\ k.svc = client[l].svc
        BY <1>1, <2>1 DEF ClientType
      <4>4. k \in ClientType /\ client' = [client EXCEPT ![l] = k]
        BY <3>1, <4>1
      <4> HIDE DEF k
      <4> QED BY <2>1, <4>2, <4>4, OneTouched
    <3> QED BY <2>1, <3>2, <3>3
  <2>4. Aside
    BY <1>3, <2>1, <2>2, <2>3 DEF Aside, tools
  <2> QED BY <2>1, <2>2, <2>3, <2>4, TypeParts, TypeNext DEF file, tools
<1>9. ASSUME NEW c \in Calls, NEW t \in Tools, NEW l \in Loads, Admit(c, t, l) PROVE Aside /\ TypeOK'
  <2>1. call \in [Calls -> CallType] /\ row \in RowType
    BY TypeParts
  <2> DEFINE k == [pc |-> "admitted", load |-> l, tool |-> t, born |-> row.born]
  <2>2. k \in CallType
    BY <2>1 DEF CallType, RowType, Loads
  <2>3. call' = [call EXCEPT ![c] = k] /\ k.load = l /\ k.born = row.born
    BY <1>9 DEF Admit
  <2>4. client[l].made /\ (row.state = "none" \/ Serves(row))
    BY <1>1, <1>9 DEF Admit
  <2> HIDE DEF k
  <2>5. call' \in [Calls -> CallType]
    BY <2>1, <2>2, <2>3
  <2>6. \A d \in Calls : Moved(d)
    BY <2>1, <2>3, <2>4 DEF Moved
  <2>7. Aside
    BY <1>2, <1>9, <2>6, Untouched DEF Admit, Aside, ledger, tools
  <2> QED BY <1>9, <2>5, <2>7, TypeParts, TypeNext DEF Admit, file, ledger, tools
<1>10. ASSUME NEW c \in Calls, Send(c) \/ Announce(c) \/ Verdict(c) PROVE Aside /\ TypeOK'
  <2>1. call[c].pc # "idle" /\ UNCHANGED <<transport, file, records, tools, handle, begun, client, listed, op>>
    BY <1>10 DEF Send, Announce, Verdict, ledger
  <2>2. (\A d \in Calls : Moved(d)) /\ call' \in [Calls -> CallType]
    BY <1>10, <2>1, CallGoes DEF Send, Announce, Verdict
  <2>3. Marked /\ row' \in RowType /\ reapQ' \subseteq 1 .. MaxLoads
    <3>1. CASE Send(c)
      BY <1>2, <3>1, TypeParts DEF Send, ledger
    <3>2. CASE Announce(c)
      BY <3>2, Marks, TypeParts DEF Announce
    <3>3. CASE Verdict(c)
      BY <1>0, <2>1, <3>3, FailsMarks DEF Verdict, Load, Reasons
    <3> QED BY <1>10, <3>1, <3>2, <3>3
  <2>4. Aside
    BY <2>1, <2>2, <2>3, Untouched DEF Aside, tools
  <2> QED BY <2>1, <2>2, <2>3, <2>4, TypeParts, TypeNext DEF file, tools
<1>11. ASSUME NEW c \in Calls, Reconnect(c) \/ Closed(c) \/ Handshake(c) \/ Install(c) \/ GiveUp(c)
                              \/ Answer(c) \/ Unauthorized(c)
       PROVE  Aside /\ TypeOK'
  <2>1. call[c].pc # "idle" /\ UNCHANGED <<transport, file, ledger, handle, begun, listed, reapQ, op>>
    BY <1>11 DEF Reconnect, Closed, Handshake, Install, GiveUp, Answer, Unauthorized
  <2>2. (\A d \in Calls : Moved(d)) /\ call' \in [Calls -> CallType]
    BY <1>11, <2>1, CallGoes DEF Reconnect, Closed, Handshake, Install, GiveUp, Answer, Unauthorized, Reconnecting
  <2>3. PICK l \in Loads : l = Load(c) /\ client[l].made /\ l = call[c].load
    BY <1>0, <2>1 DEF Load
  <2>4. \/ UNCHANGED client
        \/ \E k \in ClientType :
             /\ client' = [client EXCEPT ![l] = k]
             /\ k.made /\ k.gen = client[l].gen /\ k.sealed = client[l].sealed /\ k.pub = client[l].pub
             /\ client[l].sealed => k.conn \in {client[l].conn, "Reconnecting"} /\ k.svc = client[l].svc
    <3>0. client[l] \in ClientType
      BY <1>1
    <3>1. CASE Reconnect(c)
      <4>1. \/ UNCHANGED client
            \/ client' = [client EXCEPT ![l].conn = "Failed"] /\ ~client[l].sealed
            \/ /\ client' = [client EXCEPT ![l].tries = @ + 1, ![l].svc = "none"]
               /\ ~client[l].sealed /\ ~Exhausted(l)
        BY <2>3, <3>1 DEF Reconnect
      <4>2. ASSUME client' = [client EXCEPT ![l].conn = "Failed"], ~client[l].sealed
            PROVE  \E k \in ClientType :
                     /\ client' = [client EXCEPT ![l] = k]
                     /\ k.made /\ k.gen = client[l].gen /\ k.sealed = client[l].sealed /\ k.pub = client[l].pub
                     /\ client[l].sealed => k.conn \in {client[l].conn, "Reconnecting"} /\ k.svc = client[l].svc
        <5>1. PICK k \in ClientType : k = [client[l] EXCEPT !.conn = "Failed"]
          BY <3>0, FieldTypes
        <5>2. client' = [client EXCEPT ![l] = k]
          BY <4>2, <5>1
        <5>3. k.made /\ k.gen = client[l].gen /\ k.sealed = client[l].sealed /\ k.pub = client[l].pub
          BY <2>3, <3>0, <5>1 DEF ClientType
        <5> QED BY <4>2, <5>2, <5>3
      <4>3. ASSUME client' = [client EXCEPT ![l].tries = @ + 1, ![l].svc = "none"],
                   ~client[l].sealed, ~Exhausted(l)
            PROVE  \E k \in ClientType :
                     /\ client' = [client EXCEPT ![l] = k]
                     /\ k.made /\ k.gen = client[l].gen /\ k.sealed = client[l].sealed /\ k.pub = client[l].pub
                     /\ client[l].sealed => k.conn \in {client[l].conn, "Reconnecting"} /\ k.svc = client[l].svc
        <5>1. PICK n \in 0 .. MaxAttempts : n = client[l].tries + 1
          BY <3>0, <4>3 DEF Exhausted, ClientType
        <5>2. PICK k \in ClientType : k = [client[l] EXCEPT !.tries = n, !.svc = "none"]
          BY <3>0, FieldTypes
        <5>3. client' = [client EXCEPT ![l] = k]
          BY <4>3, <5>1, <5>2
        <5>4. k.made /\ k.gen = client[l].gen /\ k.sealed = client[l].sealed /\ k.pub = client[l].pub
          BY <2>3, <3>0, <5>2 DEF ClientType
        <5> QED BY <4>3, <5>3, <5>4
      <4> QED BY <4>1, <4>2, <4>3
    <3>2. CASE Handshake(c)
      <4>1. PICK k \in ClientType : k = [client[l] EXCEPT !.spawned = TRUE]
        BY <3>0, FieldTypes
      <4>2. client' = [client EXCEPT ![l] = k]
        BY <2>3, <3>2, <4>1 DEF Handshake
      <4>3. /\ k.made /\ k.gen = client[l].gen /\ k.sealed = client[l].sealed /\ k.pub = client[l].pub
            /\ k.conn = client[l].conn /\ k.svc = client[l].svc
        BY <2>3, <3>0, <4>1 DEF ClientType
      <4> QED BY <4>2, <4>3
    <3>3. CASE Install(c)
      <4>1. PICK k \in ClientType :
              k = IF client[l].sealed THEN [client[l] EXCEPT !.spawned = FALSE]
                  ELSE [client[l] EXCEPT !.spawned = FALSE, !.svc = "live", !.conn = "Connected"]
        BY <3>0, FieldTypes
      <4>2. client' = [client EXCEPT ![l] = k]
        BY <2>3, <3>3, <4>1 DEF Install
      <4>3. /\ k.made /\ k.gen = client[l].gen /\ k.sealed = client[l].sealed /\ k.pub = client[l].pub
            /\ client[l].sealed => k.conn \in {client[l].conn, "Reconnecting"} /\ k.svc = client[l].svc
        BY <2>3, <3>0, <4>1 DEF ClientType
      <4> QED BY <4>2, <4>3
    <3>4. CASE GiveUp(c)
      <4>1. PICK b \in BOOLEAN : b = (transport = "stdio")
        OBVIOUS
      <4>2. PICK k \in ClientType : k = [client[l] EXCEPT !.spawned = FALSE, !.stray = b]
        BY <3>0, FieldTypes
      <4>3. client' = client \/ client' = [client EXCEPT ![l] = k]
        BY <2>3, <3>4, <4>1, <4>2 DEF GiveUp
      <4>4. /\ k.made /\ k.gen = client[l].gen /\ k.sealed = client[l].sealed /\ k.pub = client[l].pub
            /\ k.conn = client[l].conn /\ k.svc = client[l].svc
        BY <2>3, <3>0, <4>2 DEF ClientType
      <4> QED BY <4>3, <4>4
    <3>5. CASE Answer(c)
      <4>0. PICK n \in 0 .. MaxAttempts : n = 0
        OBVIOUS
      <4>1. PICK k \in ClientType : k = [client[l] EXCEPT !.tries = 0]
        BY <3>0, <4>0, FieldTypes
      <4>2. client' = [client EXCEPT ![l] = k]
        BY <2>3, <3>5, <4>1 DEF Answer
      <4>3. /\ k.made /\ k.gen = client[l].gen /\ k.sealed = client[l].sealed /\ k.pub = client[l].pub
            /\ k.conn = client[l].conn /\ k.svc = client[l].svc
        BY <2>3, <3>0, <4>1 DEF ClientType
      <4> QED BY <4>2, <4>3
    <3>6. CASE Unauthorized(c)
      <4>1. PICK k \in ClientType : k = [client[l] EXCEPT !.spawned = FALSE]
        BY <3>0, FieldTypes
      <4>2. client' = [client EXCEPT ![l] = k]
        BY <2>3, <3>6, <4>1 DEF Unauthorized
      <4>3. /\ k.made /\ k.gen = client[l].gen /\ k.sealed = client[l].sealed /\ k.pub = client[l].pub
            /\ k.conn = client[l].conn /\ k.svc = client[l].svc
        BY <2>3, <3>0, <4>1 DEF ClientType
      <4> QED BY <4>2, <4>3
    <3>7. CASE Closed(c)
      <4>1. PICK k \in ClientType : k = [client[l] EXCEPT !.conn = "Reconnecting"]
        BY <3>0, FieldTypes
      <4>2. client' = [client EXCEPT ![l] = k]
        BY <2>3, <3>7, <4>1 DEF Closed
      <4>3. /\ k.made /\ k.gen = client[l].gen /\ k.sealed = client[l].sealed /\ k.pub = client[l].pub
            /\ k.conn = "Reconnecting" /\ k.svc = client[l].svc
        BY <2>3, <3>0, <4>1 DEF ClientType
      <4> QED BY <4>2, <4>3
    <3> QED BY <1>11, <3>1, <3>2, <3>3, <3>4, <3>5, <3>6, <3>7
  <2>5. (\A j \in Loads : Touched(j)) /\ client' \in [Loads -> ClientType]
    <3>1. CASE UNCHANGED client
      BY <3>1, Untouched, TypeParts
    <3>2. ASSUME NEW k \in ClientType,
                 client' = [client EXCEPT ![l] = k],
                 k.made, k.gen = client[l].gen, k.sealed = client[l].sealed, k.pub = client[l].pub,
                 client[l].sealed => k.conn \in {client[l].conn, "Reconnecting"} /\ k.svc = client[l].svc
          PROVE  (\A j \in Loads : Touched(j)) /\ client' \in [Loads -> ClientType]
      <4>1. client[l].sealed => /\ k.conn \in {client[l].conn, "Reconnecting"}
                                 /\ client[l].svc = "none" => k.svc = "none"
        BY <3>2
      <4>2. \E d \in Calls : call[d].pc # "idle" /\ call[d].load = l
        BY <2>1, <2>3
      <4> QED BY <2>3, <3>2, <4>1, <4>2, OneTouched
    <3> QED BY <2>4, <3>1, <3>2
  <2>6. Aside
    BY <1>2, <2>1, <2>2, <2>5 DEF Aside, ledger, tools
  <2> QED BY <2>1, <2>2, <2>5, <2>6, TypeParts, TypeNext DEF file, ledger, tools
<1> QED BY <1>4, <1>5, <1>6, <1>7, <1>8, <1>9, <1>10, <1>11 DEF Bystander, CallStep

\* A step aside of the mutex leaves its holder what it relies on.
LEMMA AsideKeeps ==
  ASSUME SwitchInv, Aside, TypeOK'
  PROVE  SwitchInv'
<1> USE DEF SwitchInv
<1>0. /\ row \in RowType /\ op \in OpType /\ begun \in 0 .. MaxLoads /\ handle \in 0 .. MaxLoads
      /\ client \in [Loads -> ClientType]
  BY TypeParts
<1>1. /\ op' = op /\ handle' = handle /\ begun' = begun
      /\ \A l \in Loads : Touched(l)
      /\ \A c \in Calls : Moved(c)
  BY DEF Aside
<1>2. row'.gen = row.gen /\ row'.born = row.born
  BY DEF Aside, Marked
<1>3. \/ row'.state = row.state /\ row'.awaiting = row.awaiting
      \/ /\ row.state \in {"Enabled", "Failed"} /\ row'.state \in {"Enabled", "Failed"}
         /\ Serves(row) /\ (row'.awaiting => row'.state = "Failed")
  BY DEF Aside, Marked, Serves, OpRow
<1>4. OpRow'
  BY <1>1, <1>2, <1>3 DEF OpRow, Serves, Settled, Building, Down
<1>5. Numbers'
  <2>1. \A l \in Loads : client'[l].made => l <= begun /\ client'[l].gen # 0
    BY <1>1 DEF Numbers, Touched
  <2>2. \A l \in Loads : ~client'[l].made => client'[l] = NoClient
    BY <1>1 DEF Numbers, Touched
  <2> QED BY <1>1, <1>2, <2>1, <2>2 DEF Numbers
<1>6. Handles'
  <2>1. handle # 0 => handle \in Loads
    BY <1>0 DEF Loads
  <2>2. op.pc \in Building \cup Down /\ op.then = "build" => op.new \in Loads
    BY <1>0 DEF Numbers, Loads
  <2>3. op.pc \in {"seal", "take"} => op.down \in Loads
    BY <1>0 DEF Handles, OpType, Loads
  <2>4. Fresh => op.pc \in Building /\ op.then = "build" /\ row.state = "Enabling"
    BY DEF Fresh, OpRow, Building
  <2>5. Fresh => client'[op.new].conn = client[op.new].conn
    BY <1>1, <2>2, <2>4 DEF Touched, CallsKnown
  <2>6. /\ handle # 0 => client'[handle].made
        /\ handle # 0 /\ client'[handle].sealed => op.pc = "take"
    BY <1>1, <2>1 DEF Handles, Touched
  <2>7. row'.state \in {"none", "Disabled"} => handle = 0
    BY <1>3 DEF Handles
  <2>8. op.pc \in Building \cup Down /\ op.then = "build" /\ ~Fresh => ~client'[op.new].made
    BY <1>1, <2>2 DEF Handles, Touched
  <2>9. Fresh => /\ client'[op.new].made /\ ~client'[op.new].sealed
                 /\ client'[op.new].conn = "Connected"
    BY <1>1, <2>2, <2>4, <2>5 DEF Handles, Touched
  <2>10. /\ op.pc \in {"seal", "take"} => client'[op.down].made
         /\ op.pc = "take" => client'[op.down].sealed
    BY <1>1, <2>3 DEF Handles, Touched
  <2> QED BY <1>1, <2>6, <2>7, <2>8, <2>9, <2>10 DEF Handles, Fresh
<1>7. Seals'
  BY <1>1 DEF Seals, Touched, Fresh
<1>8. CallsKnown'
  <2> SUFFICES ASSUME NEW c \in Calls, call'[c].pc # "idle"
               PROVE  /\ call'[c].load # 0 /\ client'[call'[c].load].made
                      /\ Fresh' => call'[c].load # op'.new
                      /\ call'[c].load = handle' => call'[c].born = row'.born
    BY DEF CallsKnown
  <2>1. CASE call[c].pc # "idle" /\ call'[c].load = call[c].load /\ call'[c].born = call[c].born
    <3>1. call[c].load \in Loads
      BY <2>1, TypeParts DEF CallsKnown, CallType, Loads
    <3> QED BY <1>1, <1>2, <2>1, <3>1 DEF CallsKnown, Fresh, Touched
  <2>2. CASE /\ call'[c].load \in Loads /\ client[call'[c].load].made /\ call'[c].born = row.born
             /\ row.state = "none" \/ Serves(row)
    <3>1. ~Fresh
      BY <2>2 DEF Fresh, OpRow, Building, Serves
    <3> QED BY <1>1, <1>2, <2>2, <3>1 DEF Fresh, Touched, Loads
  <2> QED BY <1>1, <2>1, <2>2 DEF Moved
<1>9. DrainedIsQuiet'
  <2> SUFFICES ASSUME op'.pc \in {"t4", "seal", "take"}, op'.drained, NEW c \in Calls, call'[c].pc # "idle"
               PROVE  call'[c].load # handle'
    BY DEF DrainedIsQuiet
  <2>1. ~Serves(row) /\ row.state # "none"
    BY <1>1 DEF OpRow, Serves
  <2> QED BY <1>1, <2>1 DEF Moved, DrainedIsQuiet
<1> QED BY <1>4, <1>5, <1>6, <1>7, <1>8, <1>9

-----------------------------------------------------------------------------
(* What happens under the mutex. *)

\* An operation that has only looked begins a load.
LEMMA LoadBegins ==
  ASSUME SwitchInv, TypeOK', op.pc \in Looking, StartLoad, UNCHANGED <<handle, client, call>>,
         row'.state = "Enabling", ~row'.awaiting, row'.gen # 0, row'.gen <= begun + 1,
         row.state = "none" \/ row'.born = row.born
  PROVE  SwitchInv'
<1> USE DEF SwitchInv
<1>0. begun \in Nat /\ begun' = begun + 1 /\ handle' = handle /\ client' = client /\ call' = call
  BY TypeParts DEF StartLoad
<1>1. /\ op'.pc = "epre" /\ op'.then = "build" /\ op'.new = begun + 1
      /\ op'.drain = FALSE /\ op'.drained = FALSE
  BY DEF StartLoad, Idle
<1>2. ~Fresh /\ ~Fresh' /\ op.pc \notin {"seal", "take"}
  BY <1>1 DEF Fresh, Looking
<1>3. OpRow'
  BY <1>1 DEF OpRow, Building, Down
<1>4. Numbers'
  <2>1. op'.pc \in Building \cup Down /\ op'.then \in {"build", "failed"} => op'.new = begun' /\ begun' # 0
    BY <1>0, <1>1
  <2>2. \A l \in Loads : client[l].made => l <= begun'
    BY <1>0 DEF Numbers, Loads
  <2> QED BY <1>0, <1>1, <2>1, <2>2 DEF Numbers, Down
<1>5. Handles'
  <2>1. ~client'[op'.new].made
    <3>1. begun + 1 \in Loads
      BY <1>0, <1>1, TypeNext DEF Loads, TypeOK
    <3> QED BY <1>0, <1>1, <3>1 DEF Numbers
  <2>2. /\ handle' # 0 => client'[handle'].made
        /\ handle' # 0 /\ client'[handle'].sealed => op'.pc = "take"
    BY <1>0, <1>2 DEF Handles
  <2> QED BY <1>1, <1>2, <2>1, <2>2 DEF Handles, Down
<1>6. Seals'
  BY <1>0, <1>1, <1>2 DEF Seals
<1>7. CallsKnown'
  BY <1>0, <1>2 DEF CallsKnown, Handles
<1>8. DrainedIsQuiet'
  BY <1>1 DEF DrainedIsQuiet
<1> QED BY <1>3, <1>4, <1>5, <1>6, <1>7, <1>8

\* An operation that has only looked begins a teardown.
LEMMA TeardownBegins ==
  ASSUME SwitchInv, TypeOK', op.pc \in Looking, UNCHANGED <<handle, client, call, begun>>,
         NEW t \in {"off", "again", "gone", "reaped"},
         op'.pc = "t1", op'.then = t, op'.drained = FALSE, op'.drain => row'.state = "Disabling",
         row'.gen = row.gen, row'.born = row.born, row'.awaiting => row'.state = "Failed",
         t \in {"off", "again"} => row'.state = "Disabling",
         t = "gone" => row'.state \in {"Disabling", "Failed"} /\ ~row'.awaiting,
         t = "reaped" => row'.state = "Failed",
         t = "again" => begun < MaxLoads
  PROVE  SwitchInv'
<1> USE DEF SwitchInv
<1>0. handle' = handle /\ client' = client /\ call' = call /\ begun' = begun
  OBVIOUS
<1>1. /\ op'.pc = "t1" /\ op'.then = t /\ op'.drained = FALSE
  OBVIOUS
<1>2. ~Fresh /\ ~Fresh' /\ op.pc \notin {"seal", "take"}
  BY <1>1 DEF Fresh, Looking
<1>3. OpRow'
  BY <1>1 DEF OpRow, Building, Down
<1>4. Numbers'
  BY <1>0, <1>1 DEF Numbers, Building, Down
<1>5. Handles'
  BY <1>0, <1>1, <1>2 DEF Handles, Building, Down
<1>6. Seals'
  BY <1>0, <1>1, <1>2 DEF Seals
<1>7. CallsKnown'
  BY <1>0, <1>2 DEF CallsKnown
<1>8. DrainedIsQuiet'
  BY <1>1 DEF DrainedIsQuiet
<1> QED BY <1>3, <1>4, <1>5, <1>6, <1>7, <1>8

\* An operation that has only looked ends, or another one looks.
LEMMA Looks ==
  ASSUME SwitchInv, TypeOK', op.pc \in Looking, op'.pc \in Looking, UNCHANGED <<handle, client, call, begun>>,
         op'.drained = FALSE, op'.drain = FALSE,
         row'.gen <= begun, row.state = "none" \/ row'.born = row.born, row'.awaiting => row'.state = "Failed",
         row'.state \in Settled \cup {"none"},
         row'.state \in {"none", "Disabled"} => row.state \in {"none", "Disabled"},
         op'.pc # "idle" => op'.snap = row'.state /\ row'.state # "none",
         op'.pc = "reload" => row'.state # "Disabled" /\ begun < MaxLoads,
         op'.pc = "reconcile" /\ op'.wants => begun < MaxLoads
  PROVE  SwitchInv'
<1> USE DEF SwitchInv
<1>0. handle' = handle /\ client' = client /\ call' = call /\ begun' = begun
  OBVIOUS
<1>1. op'.pc \notin Building /\ op'.pc \notin Down
  BY DEF Looking, Building, Down
<1>2. ~Fresh /\ ~Fresh' /\ op.pc \notin {"seal", "take"} /\ op'.pc \notin {"t4", "seal", "take", "then", "connect", "list", "commit"}
  BY DEF Fresh, Looking
<1>3. OpRow'
  BY <1>1 DEF OpRow, Looking, Settled
<1>4. Numbers'
  BY <1>0, <1>1 DEF Numbers
<1>5. Handles'
  BY <1>0, <1>1, <1>2 DEF Handles
<1>6. Seals'
  BY <1>0, <1>2 DEF Seals
<1>7. CallsKnown'
  BY <1>0, <1>2 DEF CallsKnown, Handles
<1>8. DrainedIsQuiet'
  BY <1>2 DEF DrainedIsQuiet
<1> QED BY <1>3, <1>4, <1>5, <1>6, <1>7, <1>8

\* What the ledger's steps make of a row's fields.
LEMMA RowSteps ==
  ASSUME NEW r \in RowType
  PROVE  /\ /\ BeginEnabling(r).state = "Enabling" /\ ~BeginEnabling(r).awaiting
            /\ BeginEnabling(r).gen = IF r.state = "none" THEN 1 ELSE r.gen + 1
            /\ r.state = "none" \/ BeginEnabling(r).born = r.born
         /\ /\ BeginDisabling(r).state = "Disabling" /\ ~BeginDisabling(r).awaiting
            /\ BeginDisabling(r).gen = r.gen /\ BeginDisabling(r).born = r.born
         /\ \A w : /\ Upsert(w).state = "Disabled" /\ Upsert(w).gen = 0 /\ ~Upsert(w).awaiting
         /\ \A w : /\ [r EXCEPT !.want = w].state = r.state /\ [r EXCEPT !.want = w].gen = r.gen
                   /\ [r EXCEPT !.want = w].born = r.born /\ [r EXCEPT !.want = w].awaiting = r.awaiting
                   /\ [r EXCEPT !.want = w].reason = r.reason
         /\ \A to, why : /\ Commit(r, to, why).state = to /\ ~Commit(r, to, why).awaiting
                         /\ Commit(r, to, why).gen = r.gen /\ Commit(r, to, why).born = r.born
         /\ NoRow.state = "none" /\ NoRow.gen = 0 /\ ~NoRow.awaiting
BY DEF RowType, BeginEnabling, BeginDisabling, Upsert, Commit, NoRow

\* Where a teardown begins.
LEMMA Teardowns ==
  ASSUME NEW t, NEW d, StartTeardown(t, d)
  PROVE  op'.pc = "t1" /\ op'.then = t /\ op'.drained = FALSE /\ op'.drain = d /\ begun' = begun
BY DEF StartTeardown, Idle

\* The four things a verb, a reconcile or the reaper's start can come to: a load
\* begins, a teardown begins, nothing but a look at the row (which may be made
\* or lose its bit by it), or the row is dropped at once.
BeginsLoad ==
    /\ op.pc \in Looking /\ StartLoad /\ row'.state = "Enabling" /\ ~row'.awaiting
    /\ row'.gen = IF row.state = "none" THEN 1 ELSE row.gen + 1
    /\ row.state = "none" \/ row'.born = row.born

BeginsTeardown(t) ==
    /\ op.pc \in Looking /\ op'.pc = "t1" /\ op'.then = t /\ op'.drained = FALSE
    /\ op'.drain => row'.state = "Disabling"
    /\ begun' = begun /\ row'.gen = row.gen /\ row'.born = row.born
    /\ row.state # "none" /\ (row'.awaiting => row'.state = "Failed")
    /\ t \in {"off", "again"} => row'.state = "Disabling"
    /\ t = "gone" => row'.state \in {"Disabling", "Failed"} /\ ~row'.awaiting
    /\ t = "reaped" => row' = row /\ row'.state = "Failed" /\ row.gen \in reapQ
    /\ t = "again" => begun < MaxLoads

LooksOn ==
    /\ op.pc \in Looking /\ op'.pc \in Looking /\ begun' = begun
    /\ op'.drained = FALSE /\ op'.drain = FALSE
    /\ \/ /\ row'.state = row.state /\ row'.awaiting = row.awaiting /\ row'.gen = row.gen
          /\ row'.born = row.born
       \/ row.state = "none" /\ row'.state = "Disabled" /\ row'.gen = 0 /\ ~row'.awaiting
    /\ row'.state \in Settled \cup {"none"}
    /\ op'.pc # "idle" => op'.snap = row'.state /\ row'.state # "none"
    /\ op'.pc = "reload" => row'.state # "Disabled" /\ begun < MaxLoads
    /\ op'.pc = "reconcile" /\ op'.wants => begun < MaxLoads

DropsAtOnce ==
    /\ op.pc \in Looking /\ op'.pc = "then" /\ op'.then = "gone" /\ op'.drained = FALSE /\ op'.drain = FALSE
    /\ row' = row /\ row.state = "Disabled" /\ ~row.awaiting /\ begun' = begun

Verb ==
    \/ Reconcile \/ Enable \/ Disable \/ Reload \/ Remove
    \/ \E changed \in BOOLEAN : ReconcileAct(changed)
    \/ DropAct \/ ReloadAct \/ \E g \in reapQ : Reap(g)

\* Every verb is of one of these kinds.
LEMMA VerbKinds ==
  ASSUME SwitchInv, Verb
  PROVE  BeginsLoad \/ (\E t \in {"off", "again", "gone", "reaped"} : BeginsTeardown(t)) \/ LooksOn \/ DropsAtOnce
<1> USE DEF SwitchInv
<1>1. /\ row \in RowType /\ begun \in Nat /\ row.gen \in Nat /\ row.gen <= begun
      /\ row.awaiting => row.state = "Failed"
  BY TypeParts DEF Numbers, OpRow, RowType
<1>2. PICK wr \in RowType : wr = [row EXCEPT !.want = TRUE]
  BY <1>1, RowTypes, TypeParts
<1>3. PICK wf \in RowType : wf = [row EXCEPT !.want = FALSE]
  BY <1>1, RowTypes, TypeParts
<1>4. /\ wr.state = row.state /\ wr.gen = row.gen /\ wr.born = row.born /\ wr.awaiting = row.awaiting
      /\ wf.state = row.state /\ wf.gen = row.gen /\ wf.born = row.born /\ wf.awaiting = row.awaiting
  BY <1>1, <1>2, <1>3, RowSteps
<1>5. Free => op.pc \in Looking /\ row.state \in Settled \cup {"none"} /\ op.drained = FALSE /\ op.drain = FALSE
  BY TypeParts DEF Free, Looking, OpRow, Down, OpType
<1>6. \A p, s, w : /\ [Idle EXCEPT !.pc = p, !.snap = s, !.wants = w].pc = p
                   /\ [Idle EXCEPT !.pc = p, !.snap = s, !.wants = w].snap = s
                   /\ [Idle EXCEPT !.pc = p, !.snap = s, !.wants = w].wants = w
                   /\ [Idle EXCEPT !.pc = p, !.snap = s, !.wants = w].drained = FALSE
                   /\ [Idle EXCEPT !.pc = p, !.snap = s, !.wants = w].drain = FALSE
                   /\ [Idle EXCEPT !.pc = p, !.snap = s].pc = p
                   /\ [Idle EXCEPT !.pc = p, !.snap = s].snap = s
                   /\ [Idle EXCEPT !.pc = p, !.snap = s].drained = FALSE
                   /\ [Idle EXCEPT !.pc = p, !.snap = s].drain = FALSE
                   /\ Idle.pc = "idle" /\ Idle.drained = FALSE /\ Idle.drain = FALSE
  BY DEF Idle
<1>7. op \in OpType
  BY TypeParts
<1>17. ASSUME NEW t \in {"off", "again", "gone", "reaped"}, BeginsTeardown(t)
       PROVE  \E u \in {"off", "again", "gone", "reaped"} : BeginsTeardown(u)
  BY <1>17
<1>18. ASSUME row.state = "none", row' = Upsert(FALSE), op' = op, begun' = begun, Free PROVE LooksOn
  <2>1. row'.state = "Disabled" /\ row'.gen = 0 /\ ~row'.awaiting
    BY <1>1, <1>18, RowSteps
  <2>2. op.pc = "idle" /\ op'.pc = "idle" /\ op'.drained = FALSE /\ op'.drain = FALSE
    BY <1>5, <1>18 DEF Free
  <2> QED BY <1>18, <2>1, <2>2 DEF LooksOn, Looking, Settled
<1>8. CASE Reconcile
  <2>0. UNCHANGED <<handle, client, call>> /\ Free
    BY <1>8 DEF Reconcile
  <2>1. CASE row.state = "none" /\ row' = row /\ begun' = begun /\ op' = op
    BY <1>1, <1>5, <2>0, <2>1 DEF LooksOn, Free, Looking, Settled
  <2>2. CASE row.state # "none" /\ row' = row /\ begun' = begun
             /\ op' = [Idle EXCEPT !.pc = "drop", !.snap = row.state]
    <3>1. op'.pc = "drop" /\ op'.snap = row.state /\ op'.drained = FALSE /\ op'.drain = FALSE
      BY <1>6, <2>2
    <3> QED BY <1>1, <1>5, <2>0, <2>2, <3>1 DEF LooksOn, Looking
  <2>3. CASE row.state = "none" /\ row' = BeginEnabling(row) /\ StartLoad
    BY <1>1, <1>5, <2>0, <2>3, RowSteps DEF BeginsLoad
  <2>4. CASE row.state = "none" /\ row' = Upsert(FALSE) /\ op' = op /\ begun' = begun
    BY <1>18, <2>0, <2>4
  <2>5. CASE /\ row.state # "none" /\ row' = [row EXCEPT !.want = (seen = "on")]
             /\ op' = [Idle EXCEPT !.pc = "reconcile", !.snap = row.state, !.wants = (seen = "on")]
             /\ begun' = begun
    <3>1. /\ row'.state = row.state /\ row'.gen = row.gen /\ row'.born = row.born
          /\ row'.awaiting = row.awaiting
      BY <1>1, <2>5, RowSteps
    <3>2. op'.pc = "reconcile" /\ op'.snap = row.state /\ op'.wants = (seen = "on") /\ op'.drained = FALSE /\ op'.drain = FALSE
      BY <1>6, <2>5
    <3>3. op'.wants => begun < MaxLoads
      BY <1>8, <3>2 DEF Reconcile, CanLoad
    <3> QED BY <1>1, <1>5, <2>0, <2>5, <3>1, <3>2, <3>3 DEF LooksOn, Looking
  <2> QED BY <1>8, <2>1, <2>2, <2>3, <2>4, <2>5 DEF Reconcile
<1>9. CASE Enable
  <2>0. UNCHANGED <<handle, client, call>> /\ Free
    BY <1>9 DEF Enable
  <2>1. CASE row.state = "none"
    <3>1. row' = BeginEnabling(row) /\ StartLoad
      BY <1>9, <2>1 DEF Enable, CanEnable
    <3> QED BY <1>1, <1>5, <2>0, <2>1, <3>1, RowSteps DEF BeginsLoad
  <2>2. CASE row.state # "none" /\ row' = BeginEnabling(wr) /\ StartLoad
    <3>1. /\ row'.state = "Enabling" /\ ~row'.awaiting /\ row'.gen = row.gen + 1 /\ row'.born = row.born
      BY <1>4, <2>2, RowSteps
    <3> QED BY <1>1, <1>5, <2>0, <2>2, <3>1 DEF BeginsLoad
  <2>3. CASE row.state # "none" /\ row' = wr /\ op' = op /\ begun' = begun
    BY <1>1, <1>4, <1>5, <2>0, <2>3 DEF LooksOn, Free, Looking, Settled
  <2> QED BY <1>2, <1>9, <2>1, <2>2, <2>3 DEF Enable
<1>10. CASE Disable
  <2>0. UNCHANGED <<handle, client, call>> /\ Free
    BY <1>10 DEF Disable
  <2>1. CASE row.state = "none" /\ row' = Upsert(FALSE) /\ op' = op /\ begun' = begun
    BY <1>18, <2>0, <2>1
  <2>2. CASE row' = BeginDisabling(wf) /\ StartTeardown("off", TRUE)
    <3>1. /\ row'.state = "Disabling" /\ ~row'.awaiting /\ row'.gen = row.gen /\ row'.born = row.born
      BY <1>4, <2>2, RowSteps
    <3>2. op'.pc = "t1" /\ op'.then = "off" /\ op'.drained = FALSE /\ begun' = begun
      BY <2>2, Teardowns
    <3>3. op.pc \in Looking /\ row.state # "none"
      BY <1>3, <1>4, <1>5, <1>10, <2>0, <2>2, <3>1, RowSteps DEF Disable, CanDisable
    <3>4. BeginsTeardown("off")
      BY <3>1, <3>2, <3>3 DEF BeginsTeardown
    <3> QED BY <1>17, <3>4
  <2>3. CASE row.state # "none" /\ row' = wf /\ op' = op /\ begun' = begun
    <3>1. /\ op.pc = "idle" /\ op'.pc = "idle" /\ op'.drained = FALSE /\ op'.drain = FALSE
          /\ row.state \in Settled \cup {"none"}
      BY <1>5, <2>0, <2>3 DEF Free
    <3>2. row'.state = row.state /\ row'.gen = row.gen /\ row'.born = row.born /\ row'.awaiting = row.awaiting
      BY <1>4, <2>3
    <3> QED BY <2>3, <3>1, <3>2 DEF LooksOn, Looking
  <2> QED BY <1>3, <1>10, <2>1, <2>2, <2>3 DEF Disable
<1>11. CASE Reload
  <2>1. /\ UNCHANGED <<handle, client, call, begun>> /\ row' = row /\ Free /\ begun < MaxLoads
        /\ row.state \in {"Enabled", "Failed"} /\ op' = [Idle EXCEPT !.pc = "reload", !.snap = row.state]
    BY <1>11 DEF Reload, ledger, CanLoad
  <2>2. op'.pc = "reload" /\ op'.snap = row.state /\ op'.drained = FALSE /\ op'.drain = FALSE
    BY <1>6, <2>1
  <2> QED BY <1>1, <1>5, <2>1, <2>2 DEF LooksOn, Looking
<1>12. CASE Remove
  <2>1. /\ UNCHANGED <<handle, client, call, begun>> /\ row' = row /\ Free
        /\ op' = IF row.state = "none" THEN op ELSE [Idle EXCEPT !.pc = "drop", !.snap = row.state]
    BY <1>12 DEF Remove, ledger
  <2>2. \/ row.state = "none" /\ op' = op
        \/ row.state # "none" /\ op'.pc = "drop" /\ op'.snap = row.state /\ op'.drained = FALSE /\ op'.drain = FALSE
    BY <1>6, <2>1
  <2>3. op.pc = "idle" /\ op.drained = FALSE /\ op.drain = FALSE /\ row.state \in Settled \cup {"none"}
    BY <1>5, <2>1 DEF Free
  <2> QED BY <2>1, <2>2, <2>3 DEF LooksOn, Looking
<1>13. CASE \E changed \in BOOLEAN : ReconcileAct(changed)
  <2>0. UNCHANGED <<handle, client, call>> /\ op.pc \in Looking
    BY <1>13 DEF ReconcileAct, Looking
  <2>1. row.state \in Settled
    BY <1>13 DEF ReconcileAct, OpRow
  <2>2. CASE row' = BeginDisabling(row) /\ StartTeardown("off", TRUE)
    <3>1. BeginsTeardown("off")
      BY <1>1, <2>0, <2>1, <2>2, RowSteps, Teardowns DEF BeginsTeardown, Settled
    <3> QED BY <1>17, <3>1
  <2>3. CASE row' = BeginEnabling(row) /\ StartLoad
    <3>1. /\ row'.state = "Enabling" /\ ~row'.awaiting /\ row'.gen = row.gen + 1 /\ row'.born = row.born
      BY <1>1, <2>1, <2>3, RowSteps DEF Settled
    <3> QED BY <2>0, <2>1, <2>3, <3>1 DEF BeginsLoad, Settled
  <2>4. CASE op' = Idle /\ row' = row /\ begun' = begun
    <3>1. op'.pc = "idle" /\ op'.drained = FALSE /\ op'.drain = FALSE
      BY <1>6, <2>4
    <3> QED BY <1>1, <2>0, <2>1, <2>4, <3>1 DEF LooksOn, Looking
  <2> QED BY <1>13, <2>2, <2>3, <2>4 DEF ReconcileAct
<1>14. CASE DropAct
  <2>0. UNCHANGED <<handle, client, call>> /\ op.pc \in Looking
    BY <1>14 DEF DropAct, Looking
  <2>1. row.state \in Settled /\ (op.snap = "Disabled" <=> row.state = "Disabled") /\ op.snap \in Settled
    BY <1>14 DEF DropAct, OpRow
  <2>2. CASE row' = BeginDisabling(row) /\ StartTeardown("gone", TRUE)
    <3>1. BeginsTeardown("gone")
      BY <1>1, <2>0, <2>1, <2>2, RowSteps, Teardowns DEF BeginsTeardown, Settled
    <3> QED BY <1>17, <3>1
  <2>3. CASE row' = row /\ ~Serves(row) /\ op.snap \in {"Enabled", "Failed"} /\ StartTeardown("gone", FALSE)
    <3>1. row.state = "Failed" /\ ~row.awaiting
      BY <2>1, <2>3 DEF Serves, Settled
    <3>2. BeginsTeardown("gone")
      BY <1>1, <2>0, <2>3, <3>1, Teardowns DEF BeginsTeardown
    <3> QED BY <1>17, <3>2
  <2>4. CASE /\ ~Serves(row) /\ op.snap \notin {"Enabled", "Failed"} /\ row' = row /\ begun' = begun
             /\ op' = [Idle EXCEPT !.pc = "then", !.then = "gone"]
    <3>1. op'.pc = "then" /\ op'.then = "gone" /\ op'.drained = FALSE /\ op'.drain = FALSE
      BY <2>4 DEF Idle
    <3>2. row.state = "Disabled" /\ ~row.awaiting
      BY <2>1, <2>4 DEF Settled, Serves
    <3> QED BY <2>0, <2>4, <3>1, <3>2 DEF DropsAtOnce
  <2> QED BY <1>14, <2>2, <2>3, <2>4 DEF DropAct
<1>15. CASE ReloadAct
  <2>0. UNCHANGED <<handle, client, call>> /\ op.pc \in Looking
    BY <1>15 DEF ReloadAct, Looking
  <2>1. row.state \in Settled /\ begun < MaxLoads
    BY <1>15 DEF ReloadAct, OpRow, Numbers
  <2>2. CASE row' = BeginDisabling(row) /\ StartTeardown("again", TRUE)
    <3>1. BeginsTeardown("again")
      BY <1>1, <2>0, <2>1, <2>2, RowSteps, Teardowns DEF BeginsTeardown, Settled
    <3> QED BY <1>17, <3>1
  <2>3. CASE row' = BeginEnabling(row) /\ StartLoad
    <3>1. /\ row'.state = "Enabling" /\ ~row'.awaiting /\ row'.gen = row.gen + 1 /\ row'.born = row.born
      BY <1>1, <2>1, <2>3, RowSteps DEF Settled
    <3> QED BY <2>0, <2>1, <2>3, <3>1 DEF BeginsLoad, Settled
  <2>4. CASE op' = Idle /\ row' = row /\ begun' = begun
    <3>1. op'.pc = "idle" /\ op'.drained = FALSE /\ op'.drain = FALSE
      BY <1>6, <2>4
    <3> QED BY <1>1, <2>0, <2>1, <2>4, <3>1 DEF LooksOn, Looking
  <2> QED BY <1>15, <2>2, <2>3, <2>4 DEF ReloadAct
<1>16. CASE \E g \in reapQ : Reap(g)
  <2>1. /\ UNCHANGED <<handle, client, call, begun>> /\ row' = row /\ Free
        /\ \/ op' = op
           \/ op' = [Idle EXCEPT !.pc = "t1", !.then = "reaped"] /\ row.state = "Failed" /\ row.gen \in reapQ
    BY <1>16 DEF Reap, ledger
  <2>2. CASE op' = op
    <3>1. /\ op.pc = "idle" /\ op'.pc = "idle" /\ op'.drained = FALSE /\ op'.drain = FALSE
          /\ row.state \in Settled \cup {"none"}
      BY <1>5, <2>1, <2>2 DEF Free
    <3> QED BY <2>1, <2>2, <3>1 DEF LooksOn, Looking
  <2>3. CASE op' = [Idle EXCEPT !.pc = "t1", !.then = "reaped"] /\ row.state = "Failed" /\ row.gen \in reapQ
    <3>1. op'.pc = "t1" /\ op'.then = "reaped" /\ op'.drained = FALSE /\ op'.drain = FALSE
      BY <2>3 DEF Idle
    <3>2. BeginsTeardown("reaped")
      BY <1>1, <1>5, <2>1, <2>3, <3>1 DEF BeginsTeardown
    <3> QED BY <1>17, <3>2
  <2> QED BY <2>1, <2>2, <2>3
<1> QED BY <1>8, <1>9, <1>10, <1>11, <1>12, <1>13, <1>14, <1>15, <1>16 DEF Verb

\* A verb leaves clients, calls, handle and registry alone, and only takes
\* messages from the reaper's channel.
LEMMA VerbFrame ==
  ASSUME SwitchInv, Verb
  PROVE  /\ UNCHANGED <<handle, client, call, names, flagged, reg, listed>>
         /\ reapQ' \subseteq reapQ
         /\ records' = records \/ (records' = records + 1 /\ records' <= MaxRecords)
         /\ row.state = "none" /\ row'.state # "none" => records' = records + 1 /\ records' <= MaxRecords
<1>1. CASE Reconcile
  BY <1>1 DEF Reconcile, Counted, tools
<1>2. CASE Enable
  BY <1>2 DEF Enable, Counted, tools
<1>3. CASE Disable
  BY <1>3 DEF Disable, Counted, tools
<1>4. CASE Reload
  BY <1>4 DEF Reload, ledger, tools
<1>5. CASE Remove
  BY <1>5 DEF Remove, ledger, tools
<1>0. op.pc \in {"reconcile", "drop", "reload"} => row.state # "none"
  BY DEF SwitchInv, OpRow, Settled
<1>6. CASE \E changed \in BOOLEAN : ReconcileAct(changed)
  BY <1>0, <1>6 DEF ReconcileAct, tools
<1>7. CASE DropAct
  BY <1>0, <1>7 DEF DropAct, tools
<1>8. CASE ReloadAct
  BY <1>0, <1>8 DEF ReloadAct, tools
<1>9. CASE \E g \in reapQ : Reap(g)
  BY <1>9 DEF Reap, ledger, tools
<1> QED BY <1>1, <1>2, <1>3, <1>4, <1>5, <1>6, <1>7, <1>8, <1>9 DEF Verb

\* The switch's invariant over the verbs, the reconcile and the reaper's start.
LEMMA VerbsKeep ==
  ASSUME SwitchInv, Verb
  PROVE  SwitchInv'
<1> USE DEF SwitchInv
<1>0. TypeOK' /\ handle' = handle /\ client' = client /\ call' = call
  BY TypeVerbs, VerbFrame DEF Verb
<1>1. /\ row \in RowType /\ begun \in Nat /\ row.gen \in Nat /\ row.gen <= begun
      /\ row.awaiting => row.state = "Failed"
  BY TypeParts DEF Numbers, OpRow, RowType
<1>2. CASE BeginsLoad
  BY <1>0, <1>1, <1>2, LoadBegins DEF BeginsLoad
<1>3. ASSUME NEW t \in {"off", "again", "gone", "reaped"}, BeginsTeardown(t) PROVE SwitchInv'
  BY <1>0, <1>1, <1>3, TeardownBegins DEF BeginsTeardown
<1>4. CASE LooksOn
  <2>1. /\ row'.gen <= begun /\ (row.state = "none" \/ row'.born = row.born)
        /\ row'.awaiting => row'.state = "Failed"
        /\ row'.state \in {"none", "Disabled"} => row.state \in {"none", "Disabled"}
    BY <1>1, <1>4 DEF LooksOn
  <2> QED BY <1>0, <1>4, <2>1, Looks DEF LooksOn
<1>5. CASE DropsAtOnce
  <2>1. op'.pc = "then" /\ op'.then = "gone" /\ op'.drained = FALSE /\ op'.drain = FALSE /\ begun' = begun
    BY <1>5 DEF DropsAtOnce
  <2>2. row' = row /\ row.state = "Disabled" /\ ~row.awaiting /\ handle = 0
    BY <1>5 DEF DropsAtOnce, Handles
  <2>3. ~Fresh /\ ~Fresh' /\ op.pc \notin {"seal", "take"}
    BY <1>5, <2>1 DEF Fresh, Looking, DropsAtOnce
  <2>4. OpRow'
    BY <2>1, <2>2 DEF OpRow, Building, Down
  <2>5. Numbers'
    BY <1>0, <2>1, <2>2 DEF Numbers, Building, Down
  <2>6. Handles'
    BY <1>0, <2>1, <2>2, <2>3 DEF Handles, Building, Down
  <2>7. Seals'
    BY <1>0, <2>1, <2>3 DEF Seals
  <2>8. CallsKnown'
    BY <1>0, <2>2, <2>3 DEF CallsKnown
  <2>9. DrainedIsQuiet'
    BY <2>1 DEF DrainedIsQuiet
  <2> QED BY <1>0, <2>4, <2>5, <2>6, <2>7, <2>8, <2>9
<1> QED BY <1>2, <1>3, <1>4, <1>5, VerbKinds

\* The switch's invariant over the steps of a teardown up to the seal.
LEMMA DownKeeps ==
  ASSUME SwitchInv, T1 \/ T3 \/ T4 \/ EPre
  PROVE  SwitchInv'
<1> USE DEF SwitchInv
<1>0. TypeOK'
  BY TypeOps
<1>1. row \in RowType /\ op \in OpType /\ handle \in 0 .. MaxLoads
  BY TypeParts
<1>2. /\ row' = row /\ handle' = handle /\ client' = client /\ call' = call /\ begun' = begun
      /\ op'.then = op.then /\ op'.new = op.new /\ op'.drain = op.drain
      /\ op.pc \in {"t1", "t3", "t4", "epre"}
      /\ op.pc = "t1" => op'.pc = IF op.drain THEN "t3" ELSE "t4"
      /\ op.pc = "t3" => op'.pc = "t4"
      /\ op.pc = "t4" => op'.pc = (IF handle = 0 THEN "then" ELSE "seal") /\ op'.down = handle
      /\ op.pc = "epre" => op'.pc = (IF handle = 0 THEN "connect" ELSE "t1")
  <2>1. CASE T1
    BY <1>1, <2>1 DEF T1, OpType
  <2>2. CASE T3
    BY <1>1, <2>2 DEF T3, OpType, ledger
  <2>3. CASE T4
    BY <1>1, <2>3 DEF T4, OpType, ledger
  <2>4. CASE EPre
    BY <1>1, <2>4 DEF EPre, OpType, ledger
  <2> QED BY <2>1, <2>2, <2>3, <2>4
<1>3. op'.drained => op.drained \/ (op.pc = "t3" /\ InFlight = {})
  BY <1>1 DEF T1, T3, T4, EPre, OpType
<1>4. /\ op.pc = "epre" => op.then = "build"
      /\ op.pc # "epre" => op.pc \in Down /\ op.then \notin {"-", "failed"}
      /\ op'.pc \in Down \cup {"connect"} /\ op'.pc # "take" /\ (op'.pc = "connect" => op.then = "build")
      /\ op.then = "build" => row.state = "Enabling"
  BY <1>2 DEF OpRow, Building, Down
<1>5. ~Fresh /\ ~Fresh'
  BY <1>2, <1>4 DEF Fresh, Down
<1>6. OpRow'
  BY <1>2, <1>3, <1>4 DEF OpRow, Building, Down
<1>7. Numbers'
  BY <1>2, <1>4 DEF Numbers, Building, Down
<1>8. Handles'
  <2>1. op'.pc \in {"then", "connect"} => handle = 0
    BY <1>2
  <2>2. op'.pc = "seal" => op'.down = handle /\ handle # 0
    BY <1>2
  <2> QED BY <1>2, <1>4, <1>5, <2>1, <2>2 DEF Handles, Building, Down
<1>9. Seals'
  BY <1>2, <1>4, <1>5 DEF Seals
<1>10. CallsKnown'
  BY <1>2, <1>5 DEF CallsKnown
<1>11. DrainedIsQuiet'
  <2> SUFFICES ASSUME op'.pc \in {"t4", "seal", "take"}, op'.drained, NEW c \in Calls, call[c].pc # "idle"
               PROVE  call[c].load # handle
    BY <1>2 DEF DrainedIsQuiet
  <2>1. CASE op.pc = "t3" /\ InFlight = {}
    BY <2>1 DEF InFlight, CallsKnown
  <2>2. CASE op.drained
    <3>1. op.pc = "t4"
      BY <1>2, <2>2 DEF OpRow, Down
    <3> QED BY <2>2, <3>1 DEF DrainedIsQuiet
  <2> QED BY <1>3, <2>1, <2>2
<1> QED BY <1>0, <1>6, <1>7, <1>8, <1>9, <1>10, <1>11

\* The switch's invariant over the seal and the close of a client.
LEMMA CloseKeeps ==
  ASSUME SwitchInv, Seal \/ Take
  PROVE  SwitchInv'
<1> USE DEF SwitchInv
<1>0. TypeOK'
  BY TypeOps
<1>1. /\ row \in RowType /\ op \in OpType /\ handle \in 0 .. MaxLoads /\ begun \in 0 .. MaxLoads
      /\ client \in [Loads -> ClientType]
  BY TypeParts
<1>2. PICK d \in Loads : d = op.down
  BY <1>1 DEF Seal, Take, Handles, OpType, Loads
<1>3. /\ op.pc \in Down /\ op.then # "-" /\ ~Fresh /\ row' = row /\ call' = call /\ begun' = begun
      /\ op'.then = op.then /\ op'.new = op.new /\ op'.drain = op.drain /\ op'.drained = op.drained
      /\ client[d].made /\ d = IF op.then = "failed" THEN op.new ELSE handle
      /\ op'.down = d
  BY <1>1, <1>2 DEF Seal, Take, ledger, Down, Fresh, Handles, OpRow, OpType
<1>4. op.then \in {"build", "failed"} => op.new = begun /\ begun # 0
  BY <1>3 DEF Numbers
<1>5. CASE Seal
  <2>1. /\ op.pc = "seal" /\ op'.pc = "take" /\ handle' = handle
        /\ client' = [client EXCEPT ![d] = [client[d] EXCEPT !.sealed = TRUE]]
    BY <1>1, <1>2, <1>5 DEF Seal, OpType
  <2>2. /\ client'[d].made = client[d].made /\ client'[d].gen = client[d].gen /\ client'[d].sealed
        /\ \A l \in Loads : l # d => client'[l] = client[l]
    BY <1>1, <1>2, <2>1 DEF ClientType
  <2>3. OpRow'
    BY <1>3, <2>1 DEF OpRow, Building, Down
  <2>4. Numbers'
    BY <1>3, <2>1, <2>2 DEF Numbers, Building, Down
  <2>5. Handles'
    <3>1. handle # 0 => handle \in Loads
      BY <1>1 DEF Loads
    <3>2. op.then = "build" => op.new \in Loads /\ op.new # d
      BY <1>1, <1>3, <1>4 DEF Loads, Handles, Fresh
    <3> QED BY <1>2, <1>3, <2>1, <2>2, <3>1, <3>2 DEF Handles, Fresh, Building, Down
  <2>6. Seals'
    BY <1>2, <1>3, <2>1, <2>2 DEF Seals, Fresh
  <2>7. CallsKnown'
    <3>1. \A l \in Loads : client'[l].made = client[l].made
      BY <2>2
    <3>2. \A c \in Calls : call[c].pc # "idle" => call[c].load \in Loads
      BY TypeParts DEF CallsKnown, CallType, Loads
    <3> QED BY <1>3, <2>1, <3>1, <3>2 DEF CallsKnown, Fresh
  <2>8. DrainedIsQuiet'
    BY <1>3, <2>1 DEF DrainedIsQuiet
  <2> QED BY <1>0, <2>3, <2>4, <2>5, <2>6, <2>7, <2>8
<1>6. CASE Take
  <2>1. /\ op.pc = "take" /\ op'.pc = "then"
        /\ handle' = (IF handle = d THEN 0 ELSE handle)
        /\ client' = [client EXCEPT ![d] = [client[d] EXCEPT !.svc = "none", !.conn = "Disconnected"]]
    BY <1>1, <1>2, <1>6 DEF Take, OpType
  <2>2. /\ client'[d].made = client[d].made /\ client'[d].gen = client[d].gen
        /\ client'[d].sealed = client[d].sealed /\ client'[d].svc = "none" /\ client'[d].conn = "Disconnected"
        /\ \A l \in Loads : l # d => client'[l] = client[l]
    BY <1>1, <1>2, <2>1 DEF ClientType
  <2>3. handle' = 0
    BY <1>3, <2>1 DEF Handles
  <2>4. OpRow'
    BY <1>3, <2>1 DEF OpRow, Building, Down
  <2>5. Numbers'
    BY <1>3, <2>1, <2>2 DEF Numbers, Building, Down
  <2>6. Handles'
    <3>1. op.then = "build" => op.new \in Loads /\ op.new # d
      BY <1>1, <1>3, <1>4 DEF Loads, Handles, Fresh
    <3> QED BY <1>2, <1>3, <2>1, <2>2, <2>3, <3>1 DEF Handles, Fresh, Building, Down
  <2>7. Seals'
    <3>1. client[d].sealed
      BY <1>2, <2>1 DEF Handles
    <3> QED BY <1>2, <1>3, <2>1, <2>2, <3>1 DEF Seals, Fresh
  <2>8. CallsKnown'
    <3>1. \A l \in Loads : client'[l].made = client[l].made
      BY <2>2
    <3>2. \A c \in Calls : call[c].pc # "idle" => call[c].load \in Loads
      BY TypeParts DEF CallsKnown, CallType, Loads
    <3> QED BY <1>3, <2>1, <2>3, <3>1, <3>2 DEF CallsKnown, Fresh, Loads
  <2>9. DrainedIsQuiet'
    BY <2>1 DEF DrainedIsQuiet
  <2> QED BY <1>0, <2>4, <2>5, <2>6, <2>7, <2>8, <2>9
<1> QED BY <1>5, <1>6

\* The switch's invariant over the end of a teardown.
LEMMA ThenKeeps ==
  ASSUME SwitchInv, Then
  PROVE  SwitchInv'
<1> USE DEF SwitchInv
<1>0. TypeOK'
  BY TypeOps
<1>1. /\ row \in RowType /\ op \in OpType /\ row.gen \in Nat /\ row.gen <= begun
      /\ begun \in Nat
  BY TypeParts DEF RowType, Numbers
<1>2. /\ op.pc = "then" /\ op.pc \in Down /\ handle = 0 /\ handle' = 0 /\ ~Fresh /\ client' = client /\ call' = call
      /\ op.then # "-"
  BY DEF Then, Handles, Fresh, Down, OpRow
<1>3. CASE \/ op.then = "off" /\ row' = Commit(row, "Disabled", "-")
           \/ op.then = "gone" /\ row' = NoRow
           \/ op.then = "reaped" /\ row' = row
           \/ op.then = "failed" /\ row' = Commit(row, "Failed", "bringup")
  <2>1. op' = Idle /\ begun' = begun
    BY <1>3 DEF Then
  <2>2. op'.pc = "idle" /\ op'.drained = FALSE /\ op'.drain = FALSE
    BY <2>1 DEF Idle
  <2>3. /\ row'.gen <= begun /\ row'.state \in Settled \cup {"none"}
        /\ row'.awaiting => row'.state = "Failed"
    BY <1>1, <1>2, <1>3, RowSteps DEF Settled, OpRow
  <2>4. ~Fresh'
    BY <2>2 DEF Fresh
  <2>5. OpRow'
    BY <2>2, <2>3 DEF OpRow, Building, Down, Settled
  <2>6. Numbers'
    BY <1>2, <2>1, <2>2, <2>3 DEF Numbers, Building, Down
  <2>7. Handles'
    BY <1>2, <2>2, <2>4 DEF Handles, Building, Down
  <2>8. Seals'
    BY <1>2, <2>2 DEF Seals, Fresh
  <2>9. CallsKnown'
    BY <1>2, <2>4 DEF CallsKnown
  <2>10. DrainedIsQuiet'
    BY <2>2 DEF DrainedIsQuiet
  <2> QED BY <1>0, <2>5, <2>6, <2>7, <2>8, <2>9, <2>10
<1>4. CASE op.then = "again" /\ row' = BeginEnabling(row) /\ StartLoad
  <2>1. /\ op'.pc = "epre" /\ op'.then = "build" /\ op'.new = begun + 1 /\ op'.drained = FALSE
        /\ op'.drain = FALSE /\ begun' = begun + 1
    BY <1>4 DEF StartLoad, Idle
  <2>2. /\ row'.state = "Enabling" /\ ~row'.awaiting /\ row'.gen = row.gen + 1
    BY <1>1, <1>2, <1>4, RowSteps DEF OpRow
  <2>3. ~Fresh' /\ begun + 1 \in Loads
    BY <1>0, <1>1, <2>1 DEF Fresh, TypeOK, Loads
  <2>4. OpRow'
    BY <1>1, <2>1, <2>2 DEF OpRow, Building, Down
  <2>5. Numbers'
    <3>1. \A l \in Loads : client[l].made => l <= begun'
      BY <1>1, <2>1 DEF Numbers, Loads
    <3> QED BY <1>1, <1>2, <2>1, <2>2, <3>1 DEF Numbers, Building, Down
  <2>6. Handles'
    <3>1. ~client[begun + 1].made
      BY <1>1, <2>3 DEF Numbers
    <3> QED BY <1>2, <2>1, <2>2, <2>3, <3>1 DEF Handles, Building, Down
  <2>7. Seals'
    BY <1>2, <2>1 DEF Seals, Fresh
  <2>8. CallsKnown'
    BY <1>2, <2>3 DEF CallsKnown
  <2>9. DrainedIsQuiet'
    BY <2>1 DEF DrainedIsQuiet
  <2> QED BY <1>0, <2>4, <2>5, <2>6, <2>7, <2>8, <2>9
<1>5. CASE op.then = "build" /\ op' = [op EXCEPT !.pc = "connect"] /\ row' = row /\ begun' = begun
  <2>1. /\ op'.pc = "connect" /\ op'.then = "build" /\ op'.new = op.new /\ op'.drained = op.drained
        /\ op'.drain = op.drain
    BY <1>1, <1>5 DEF OpType
  <2>2. row.state = "Enabling" /\ ~op.drained /\ ~op.drain /\ ~Fresh'
    BY <1>2, <1>5, <2>1 DEF OpRow, Fresh
  <2>3. OpRow'
    BY <1>5, <2>1, <2>2 DEF OpRow, Building, Down
  <2>4. Numbers'
    BY <1>2, <1>5, <2>1 DEF Numbers, Building, Down
  <2>5. Handles'
    BY <1>2, <1>5, <2>1, <2>2 DEF Handles, Building, Down
  <2>6. Seals'
    BY <1>2, <2>1 DEF Seals, Fresh
  <2>7. CallsKnown'
    BY <1>2, <2>2 DEF CallsKnown
  <2>8. DrainedIsQuiet'
    BY <2>1 DEF DrainedIsQuiet
  <2> QED BY <1>0, <2>3, <2>4, <2>5, <2>6, <2>7, <2>8
<1> QED BY <1>3, <1>4, <1>5 DEF Then

\* The switch's invariant over the steps of a load.
LEMMA BuildKeeps ==
  ASSUME SwitchInv,
         Connect \/ PublishFails \/ Commit5 \/ \E ts \in SUBSET Tools : Publish(ts)
  PROVE  SwitchInv'
<1> USE DEF SwitchInv
<1>0. TypeOK'
  BY TypeOps
<1>1. /\ row \in RowType /\ op \in OpType /\ handle \in 0 .. MaxLoads /\ begun \in 0 .. MaxLoads
      /\ client \in [Loads -> ClientType] /\ row.gen <= begun
  BY TypeParts DEF Numbers
<1>2. /\ op.pc \in {"connect", "list", "commit"} /\ op.pc \in Building /\ call' = call /\ begun' = begun
      /\ op.then = "build" /\ row.state = "Enabling" /\ ~row.awaiting /\ row.gen # 0
      /\ handle = 0 /\ op.new = begun /\ begun # 0 /\ op.drain = FALSE /\ op.drained = FALSE
  <2>1. op.pc \in {"connect", "list", "commit"} /\ op.pc \in Building /\ call' = call /\ begun' = begun
    BY DEF Connect, PublishFails, Commit5, Publish, Building
  <2>2. op.then = "build" /\ row.state = "Enabling" /\ ~row.awaiting /\ row.gen # 0 /\ ~op.drain /\ ~op.drained
    BY <2>1 DEF OpRow
  <2>3. handle = 0 /\ op.new = begun /\ begun # 0
    BY <2>1, <2>2 DEF Handles, Numbers
  <2> QED BY <1>1, <2>1, <2>2, <2>3 DEF OpType
<1>3. PICK n \in Loads : n = op.new
  BY <1>1, <1>2 DEF Loads
<1>4. \A c \in Calls : call[c].pc # "idle" => call[c].load \in Loads
  BY TypeParts DEF CallsKnown, CallType, Loads
<1>5. CASE /\ Connect /\ client' = [client EXCEPT ![op.new] = Client(row.gen)]
           /\ op' = [op EXCEPT !.pc = "list"] /\ row' = row
  <2>1. /\ op.pc = "connect" /\ row' = row /\ handle' = handle
        /\ op'.pc = "list" /\ op'.then = "build" /\ op'.new = n /\ op'.drained = FALSE /\ op'.drain = FALSE
    BY <1>1, <1>2, <1>3, <1>5 DEF Connect, OpType
  <2>2. /\ client'[n].made /\ client'[n].gen = row.gen /\ ~client'[n].sealed
        /\ client'[n].conn = "Connected"
        /\ \A l \in Loads : l # n => client'[l] = client[l]
    <3>1. PICK k : k = Client(row.gen)
      OBVIOUS
    <3>2. k.made /\ k.gen = row.gen /\ ~k.sealed /\ k.conn = "Connected"
      BY <3>1 DEF Client, NoClient
    <3>3. client' = [client EXCEPT ![n] = k]
      BY <1>3, <1>5, <3>1
    <3> QED BY <1>1, <1>3, <3>2, <3>3
  <2>3. ~client[n].made /\ ~Fresh
    BY <1>2, <1>3, <2>1 DEF Handles, Fresh
  <2>4. OpRow'
    BY <1>2, <2>1 DEF OpRow, Building, Down
  <2>5. Numbers'
    BY <1>1, <1>2, <1>3, <2>1, <2>2 DEF Numbers, Building, Down
  <2>6. Handles'
    BY <1>2, <2>1, <2>2 DEF Handles, Building, Down, Fresh
  <2>7. Seals'
    BY <1>2, <2>1, <2>2, <2>3 DEF Seals, Fresh
  <2>8. CallsKnown'
    <3>1. \A c \in Calls : call[c].pc # "idle" => call[c].load # n /\ client'[call[c].load].made
      BY <1>4, <2>2, <2>3 DEF CallsKnown
    <3> QED BY <1>2, <2>1, <3>1 DEF CallsKnown
  <2>9. DrainedIsQuiet'
    BY <2>1 DEF DrainedIsQuiet
  <2> QED BY <1>0, <2>4, <2>5, <2>6, <2>7, <2>8, <2>9
<1>6. CASE Connect /\ row' = Commit(row, "Failed", "bringup") /\ op' = Idle /\ client' = client
  <2>1. /\ op.pc = "connect" /\ handle' = handle
        /\ op'.pc = "idle" /\ op'.drained = FALSE /\ op'.drain = FALSE
    BY <1>6 DEF Connect, Idle
  <2>2. row'.state = "Failed" /\ ~row'.awaiting /\ row'.gen = row.gen /\ row'.born = row.born
    BY <1>1, <1>6, RowSteps
  <2>3. ~Fresh /\ ~Fresh'
    BY <2>1 DEF Fresh
  <2>4. OpRow'
    BY <2>1, <2>2 DEF OpRow, Building, Down, Settled
  <2>5. Numbers'
    BY <1>2, <1>6, <2>1, <2>2 DEF Numbers, Building, Down
  <2>6. Handles'
    BY <1>2, <2>1, <2>2, <2>3 DEF Handles, Building, Down
  <2>7. Seals'
    BY <1>2, <1>6, <2>1, <2>3 DEF Seals
  <2>8. CallsKnown'
    BY <1>2, <1>6, <2>1, <2>2, <2>3 DEF CallsKnown
  <2>9. DrainedIsQuiet'
    BY <2>1 DEF DrainedIsQuiet
  <2> QED BY <1>0, <2>4, <2>5, <2>6, <2>7, <2>8, <2>9
<1>7. CASE PublishFails
  <2>1. /\ op.pc = "list" /\ row' = row /\ handle' = handle /\ client' = client
        /\ op'.pc = "seal" /\ op'.then = "failed" /\ op'.new = n /\ op'.down = n
        /\ op'.drained = FALSE /\ op'.drain = FALSE
    BY <1>1, <1>2, <1>3, <1>7 DEF PublishFails, OpType, ledger
  <2>2. ~Fresh' /\ client[n].made /\ ~client[n].sealed /\ n # 0
    BY <1>3, <2>1 DEF Fresh, Handles, Loads
  <2>4. OpRow'
    BY <1>2, <2>1 DEF OpRow, Building, Down
  <2>5. Numbers'
    BY <1>2, <1>3, <2>1 DEF Numbers, Building, Down
  <2>6. Handles'
    BY <1>2, <2>1, <2>2 DEF Handles, Building, Down
  <2>7. Seals'
    BY <1>2, <1>3, <2>1, <2>2 DEF Seals, Fresh
  <2>8. CallsKnown'
    BY <1>2, <2>1, <2>2 DEF CallsKnown
  <2>9. DrainedIsQuiet'
    BY <2>1 DEF DrainedIsQuiet
  <2> QED BY <1>0, <2>4, <2>5, <2>6, <2>7, <2>8, <2>9
<1>8. ASSUME NEW ts \in SUBSET Tools, Publish(ts) PROVE SwitchInv'
  <2>1. /\ op.pc = "list" /\ row' = row /\ handle' = handle
        /\ client' = [client EXCEPT ![n] = [client[n] EXCEPT !.pub = ts]]
        /\ op'.pc = "commit" /\ op'.then = "build" /\ op'.new = n
        /\ op'.drained = FALSE /\ op'.drain = FALSE
    BY <1>1, <1>2, <1>3, <1>8 DEF Publish, OpType
  <2>2. /\ Fresh /\ client[n].made /\ ~client[n].sealed /\ client[n].conn = "Connected"
    BY <1>3, <2>1 DEF Fresh, Handles
  <2>3. /\ client'[n].made /\ client'[n].gen = client[n].gen /\ ~client'[n].sealed
        /\ client'[n].conn = "Connected"
        /\ \A l \in Loads : l # n => client'[l] = client[l]
    BY <1>1, <1>3, <2>1, <2>2 DEF ClientType
  <2>4. OpRow'
    BY <1>2, <2>1 DEF OpRow, Building, Down
  <2>5. Numbers'
    BY <1>1, <1>2, <1>3, <2>1, <2>2, <2>3 DEF Numbers, Building, Down
  <2>6. Handles'
    BY <1>2, <2>1, <2>3 DEF Handles, Building, Down, Fresh
  <2>7. Seals'
    BY <1>2, <1>3, <2>1, <2>2, <2>3 DEF Seals, Fresh
  <2>8. CallsKnown'
    <3>1. \A l \in Loads : client[l].made => client'[l].made
      BY <2>2, <2>3
    <3> QED BY <1>2, <1>3, <1>4, <2>1, <2>2, <3>1 DEF CallsKnown
  <2>9. DrainedIsQuiet'
    BY <2>1 DEF DrainedIsQuiet
  <2> QED BY <1>0, <2>4, <2>5, <2>6, <2>7, <2>8, <2>9
<1>9. CASE Commit5
  <2>1. /\ op.pc = "commit" /\ handle' = n /\ client' = client /\ row' = Commit(row, "Enabled", "-")
        /\ op'.pc = "idle" /\ op'.drained = FALSE /\ op'.drain = FALSE
    BY <1>3, <1>9 DEF Commit5, Idle
  <2>2. row'.state = "Enabled" /\ ~row'.awaiting /\ row'.gen = row.gen /\ row'.born = row.born
    BY <1>1, <2>1, RowSteps
  <2>3. Fresh /\ ~Fresh' /\ client[n].made /\ ~client[n].sealed
    BY <1>3, <2>1 DEF Fresh, Handles
  <2>4. OpRow'
    BY <2>1, <2>2 DEF OpRow, Building, Down, Settled
  <2>5. Numbers'
    BY <1>2, <2>1, <2>2 DEF Numbers, Building, Down
  <2>6. Handles'
    BY <1>3, <2>1, <2>2, <2>3 DEF Handles, Building, Down
  <2>7. Seals'
    BY <1>2, <1>3, <2>1, <2>3 DEF Seals, Fresh, Loads
  <2>8. CallsKnown'
    BY <1>2, <1>3, <2>1, <2>2, <2>3 DEF CallsKnown
  <2>9. DrainedIsQuiet'
    BY <2>1 DEF DrainedIsQuiet
  <2> QED BY <1>0, <2>4, <2>5, <2>6, <2>7, <2>8, <2>9
<1> QED BY <1>5, <1>6, <1>7, <1>8, <1>9 DEF Connect

\* A client that was made stays made.
LEMMA MadeStays ==
  ASSUME SwitchInv, OpStep, NEW l \in Loads, client[l].made
  PROVE  client'[l].made
<1> USE DEF SwitchInv
<1>1. client \in [Loads -> ClientType]
  BY TypeParts
<1>2. CASE UNCHANGED client
  BY <1>2
<1>3. CASE Seal
  BY <1>1, <1>3 DEF Seal, ClientType
<1>4. CASE Take
  BY <1>1, <1>4 DEF Take, ClientType
<1>5. CASE client' = [client EXCEPT ![op.new] = Client(row.gen)]
  <2>1. Client(row.gen).made
    BY DEF Client, NoClient
  <2> QED BY <1>1, <1>5, <2>1
<1>6. ASSUME NEW ts \in SUBSET Tools, Publish(ts) PROVE client'[l].made
  BY <1>1, <1>6 DEF Publish, ClientType
<1>7. \/ UNCHANGED client \/ Seal \/ Take
      \/ client' = [client EXCEPT ![op.new] = Client(row.gen)]
      \/ \E ts \in SUBSET Tools : Publish(ts)
  BY DEF OpStep, ReconcileAct, DropAct, ReloadAct, T1, T3, T4, Then, EPre, Connect, PublishFails, Commit5
<1> QED BY <1>2, <1>3, <1>4, <1>5, <1>6, <1>7

\* A refresh publishes under the load it was fetched from, whose client was made.
LEMMA RefreshTypes ==
  ASSUME SwitchInv, ListKnown, Refresh
  PROVE  /\ TypeOK' /\ ListKnown'
         /\ UNCHANGED <<row, records, handle, begun, reapQ, op, call>> /\ Free
         /\ \A l \in Loads : /\ client'[l].made = client[l].made /\ client'[l].gen = client[l].gen
                             /\ client'[l].sealed = client[l].sealed /\ client'[l].conn = client[l].conn
                             /\ client'[l].svc = client[l].svc
                             /\ ~client[l].made => client'[l] = client[l]
<1> USE DEF SwitchInv
<1>0. /\ client \in [Loads -> ClientType] /\ names \subseteq Tools /\ flagged \subseteq names
      /\ reg \in [Tools -> 0 .. MaxLoads] /\ listed \in [load : 0 .. MaxLoads, names : SUBSET Tools]
  BY TypeParts
<1>1. /\ UNCHANGED <<transport, file, row, records, handle, begun, reapQ, op, call>> /\ Free
      /\ listed # NoList /\ listed' = NoList
  BY DEF Refresh
<1>2. PICK l \in Loads : l = listed.load /\ client[l].made
  BY <1>0, <1>1 DEF ListKnown, Loads
<1>3. listed' \in [load : 0 .. MaxLoads, names : SUBSET Tools] /\ ListKnown'
  BY <1>1 DEF NoList, ListKnown
<1>4. CASE UNCHANGED <<client, tools>>
  <2>1. TypeOK'
    BY <1>1, <1>3, <1>4, TypeParts, TypeNext DEF file, tools
  <2> QED BY <1>1, <1>3, <1>4, <2>1
<1>5. CASE ~UNCHANGED <<client, tools>>
  <2>1. Current(l)
    BY <1>2, <1>5 DEF Refresh
  <2>2. PICK before, removed, added :
          /\ before = names \ flagged /\ removed = before \ listed.names /\ added = listed.names \ before
    OBVIOUS
  <2>3. /\ reg' = [t \in Tools |-> IF t \in removed THEN 0 ELSE IF t \in added THEN l ELSE reg[t]]
        /\ client' = [client EXCEPT ![l].pub = @ \cup added]
        /\ flagged' = (flagged \cup removed) \ added
        /\ names' = listed.names \cup flagged'
    BY <1>2, <2>1, <2>2 DEF Refresh
  <2>4. /\ flagged' \subseteq names' /\ names' \subseteq Tools /\ added \subseteq Tools
    BY <1>0, <2>2, <2>3
  <2>5. reg' \in [Tools -> 0 .. MaxLoads]
    BY <1>0, <2>3 DEF Loads
  <2>6. PICK ts \in SUBSET Tools : ts = client[l].pub \cup added
    BY <1>0, <2>4 DEF ClientType
  <2>7. PICK k \in ClientType : k = [client[l] EXCEPT !.pub = ts]
    BY <1>0, FieldTypes
  <2>8. client' = [client EXCEPT ![l] = k]
    BY <2>3, <2>6, <2>7
  <2>9. /\ k.made = client[l].made /\ k.gen = client[l].gen /\ k.sealed = client[l].sealed
        /\ k.conn = client[l].conn /\ k.svc = client[l].svc
    BY <1>0, <2>7 DEF ClientType
  <2>10. client' \in [Loads -> ClientType]
    BY <1>0, <2>8
  <2>11. TypeOK'
    BY <1>1, <1>3, <2>4, <2>5, <2>10, TypeParts, TypeNext DEF file
  <2> QED BY <1>0, <1>1, <1>2, <1>3, <2>8, <2>9, <2>11
<1> QED BY <1>4, <1>5

\* The switch's invariant over a refresh.
LEMMA RefreshKeeps ==
  ASSUME SwitchInv, ListKnown, Refresh
  PROVE  SwitchInv' /\ ListKnown'
<1> USE DEF SwitchInv
<1>0. /\ TypeOK' /\ ListKnown'
      /\ UNCHANGED <<row, records, handle, begun, reapQ, op, call>> /\ Free
      /\ \A l \in Loads : /\ client'[l].made = client[l].made /\ client'[l].gen = client[l].gen
                          /\ client'[l].sealed = client[l].sealed /\ client'[l].conn = client[l].conn
                          /\ client'[l].svc = client[l].svc
                          /\ ~client[l].made => client'[l] = client[l]
  BY RefreshTypes
<1>1. /\ op' = op /\ op.pc = "idle" /\ row' = row /\ handle' = handle /\ begun' = begun /\ call' = call
      /\ handle \in 0 .. MaxLoads /\ ~Fresh /\ ~Fresh'
  BY <1>0, TypeParts DEF Free, Fresh
<1>2. \A c \in Calls : call[c].pc # "idle" => call[c].load \in Loads
  BY TypeParts DEF CallsKnown, CallType, Loads
<1>3. OpRow'
  BY <1>1 DEF OpRow
<1>4. Numbers'
  BY <1>0, <1>1 DEF Numbers
<1>5. Handles'
  BY <1>0, <1>1 DEF Handles, Building, Down, Loads
<1>6. Seals'
  BY <1>0, <1>1 DEF Seals
<1>7. CallsKnown'
  BY <1>0, <1>1, <1>2 DEF CallsKnown
<1>8. DrainedIsQuiet'
  BY <1>1 DEF DrainedIsQuiet
<1> QED BY <1>0, <1>3, <1>4, <1>5, <1>6, <1>7, <1>8

\* Every step keeps the switch's invariant.
LEMMA SwitchStep == SwitchInv /\ ListKnown /\ [Next]_vars => SwitchInv' /\ ListKnown'
<1> SUFFICES ASSUME SwitchInv, ListKnown, [Next]_vars PROVE SwitchInv' /\ ListKnown'
  OBVIOUS
<1>0. listed # NoList => listed.load \in Loads
  BY TypeParts DEF ListKnown, Loads, SwitchInv
<1>1. CASE Refresh
  BY <1>1, RefreshKeeps
<1>2. CASE Bystander
  <2>1. Aside /\ SwitchInv'
    BY <1>2, BystanderAside, AsideKeeps
  <2>2. \A l \in Loads : client'[l].made = client[l].made
    BY <2>1 DEF Aside, Touched
  <2>3. CASE UNCHANGED listed
    BY <1>0, <2>1, <2>2, <2>3 DEF ListKnown
  <2>4. ASSUME NEW l \in Loads, NEW ts \in SUBSET Tools, Fetch(l, ts) PROVE ListKnown'
    <3>1. client[l].made
      BY <2>4 DEF Fetch, Live, SwitchInv, Numbers, NoClient
    <3>2. listed'.load = l
      BY <2>4 DEF Fetch
    <3> QED BY <2>2, <3>1, <3>2 DEF ListKnown, Loads
  <2>5. UNCHANGED listed \/ \E l \in Loads, ts \in SUBSET Tools : Fetch(l, ts)
    BY <1>2 DEF Bystander, Edit, ReadDeclaration, FetchFails, Exit, Ended, Admit, CallStep,
                Send, Reconnect, Closed, Handshake, Install, Announce, GiveUp, Answer, Unauthorized,
                Verdict
  <2> QED BY <2>1, <2>3, <2>4, <2>5
<1>3. CASE Reconcile \/ Enable \/ Disable \/ Reload \/ Remove \/ \E g \in reapQ : Reap(g)
  <2>1. SwitchInv'
    BY <1>3, VerbsKeep DEF Verb
  <2>2. UNCHANGED <<client, listed>>
    BY <1>3 DEF Reconcile, Enable, Disable, Reload, Remove, Reap
  <2> QED BY <2>1, <2>2 DEF ListKnown
<1>4. CASE OpStep
  <2>1. SwitchInv'
    BY <1>4, VerbsKeep, DownKeeps, CloseKeeps, ThenKeeps, BuildKeeps DEF OpStep, Verb
  <2>2. UNCHANGED listed
    BY <1>4 DEF OpStep, ReconcileAct, DropAct, ReloadAct, T1, T3, T4, Seal, Take, Then, EPre, Connect,
                PublishFails, Commit5, Publish
  <2>3. listed # NoList => client'[listed.load].made
    BY <1>0, <1>4, MadeStays DEF ListKnown
  <2> QED BY <2>1, <2>2, <2>3 DEF ListKnown
<1>5. CASE UNCHANGED vars
  <2>1. /\ SwitchInv' <=> SwitchInv
        /\ ListKnown' <=> ListKnown
    BY <1>5 DEF vars, file, ledger, tools, SwitchInv, ListKnown, TypeOK, OpRow, Numbers, Handles, Seals, CallsKnown,
                DrainedIsQuiet, Fresh
  <2> QED BY <2>1
<1> QED BY <1>1, <1>2, <1>3, <1>4, <1>5 DEF Next, Bystander

\* A server that is off has nothing behind it.
LEMMA SwitchMeans == SwitchInv => SwitchIsClean
<1> SUFFICES ASSUME SwitchInv, Free, row.state \in {"none", "Disabled"},
                    NEW l \in Loads, client[l].made
             PROVE  client[l].sealed /\ client[l].svc = "none"
  BY DEF SwitchIsClean, NothingBehindOff, SwitchInv
<1> QED BY DEF SwitchInv, Seals, Handles, Free, Fresh, Loads

\* The invariant holds at the start.
LEMMA SwitchStart == Init => SwitchInv /\ ListKnown
<1> SUFFICES ASSUME Init PROVE SwitchInv /\ ListKnown
  OBVIOUS
<1>1. NoClient \in ClientType /\ NoRow \in RowType /\ Idle \in OpType /\ NoCall \in CallType
  BY DEF NoClient, ClientType, NoRow, RowType, Idle, OpType, NoCall, CallType, States, Reasons
<1>2. TypeOK
  <2>1. /\ client \in [Loads -> ClientType] /\ call \in [Calls -> CallType]
        /\ row \in RowType /\ op \in OpType
    BY <1>1 DEF Init
  <2>2. /\ reg \in [Tools -> 0 .. MaxLoads] /\ listed \in [load : 0 .. MaxLoads, names : SUBSET Tools]
    <3>1. 0 \in 0 .. MaxLoads /\ {} \in SUBSET Tools
      OBVIOUS
    <3>2. reg = [t \in Tools |-> 0] /\ listed = [load |-> 0, names |-> {}]
      BY DEF Init, NoList
    <3> QED BY <3>1, <3>2
  <2>3. /\ edits \in 0 .. MaxEdits /\ records \in 0 .. MaxRecords /\ handle \in 0 .. MaxLoads
        /\ begun \in 0 .. MaxLoads
    BY DEF Init
  <2>5. dirty \in BOOLEAN /\ known \in BOOLEAN
    BY Zenon DEF Init
  <2>4. /\ names \subseteq Tools /\ flagged \subseteq names /\ reapQ \subseteq 1 .. MaxLoads
        /\ transport \in {"stdio", "http"} /\ disk \in {"on", "off", "gone"}
        /\ seen \in {"none", "on", "off", "gone"}
    BY DEF Init
  <2> QED BY <2>1, <2>2, <2>3, <2>4, <2>5, TypeParts
<1>3. /\ op.pc = "idle" /\ op.drain = FALSE /\ op.drained = FALSE /\ row.state = "none" /\ ~row.awaiting
      /\ row.gen = 0 /\ begun = 0 /\ handle = 0 /\ ~Fresh
  BY DEF Init, Idle, NoRow, Fresh
<1>4. /\ \A l \in Loads : client[l] = NoClient
      /\ \A c \in Calls : call[c].pc = "idle"
      /\ ~NoClient.made /\ ~NoClient.sealed
  BY DEF Init, NoClient, NoCall
<1>5. OpRow /\ Numbers
  BY <1>3, <1>4 DEF OpRow, Numbers, Building, Down
<1>6. Handles /\ Seals
  BY <1>3, <1>4 DEF Handles, Seals, Building, Down
<1>7. CallsKnown /\ DrainedIsQuiet /\ ListKnown
  BY <1>3, <1>4 DEF CallsKnown, DrainedIsQuiet, ListKnown, Init
<1> QED BY <1>2, <1>5, <1>6, <1>7 DEF SwitchInv

\* Off means off: whatever reconnects, late exits and verdicts are in flight when
\* a server is switched off or removed, no client of it is left that has or could
\* start a process, and a drain that ended with its calls cut off none -- for any
\* number of loads, calls, records and edits (disable, teardown, install_service).
THEOREM SwitchIsCleanAlways == Spec => []SwitchIsClean
<1>1. SwitchInv /\ ListKnown /\ [Next]_vars => (SwitchInv /\ ListKnown)'
  BY SwitchStep
<1> QED BY SwitchStart, <1>1, SwitchMeans, PTL DEF Spec

-----------------------------------------------------------------------------
(* One load at a time. *)

\* A client uses up its reconnects only where a call has found out, and that
\* call says so before it returns.
LEMMA Notices ==
  ASSUME SwitchInv, Bystander
  PROVE  /\ \A l \in Loads : client'[l].conn = "Failed" =>
              client[l].conn = "Failed" \/ \E c \in Calls : call'[c].pc = "exhausted" /\ call'[c].load = l
         /\ \A c \in Calls : call[c].pc = "exhausted" =>
              \/ call'[c].pc = "exhausted" /\ call'[c].load = call[c].load
              \/ ~(Serves(row') /\ row'.gen = client[call[c].load].gen)
<1> USE DEF SwitchInv
<1>0. client \in [Loads -> ClientType] /\ call \in [Calls -> CallType] /\ row \in RowType
  BY TypeParts
<1>1. \A c \in Calls : call[c].pc # "idle" => call[c].load \in Loads
  BY <1>0 DEF CallsKnown, CallType, Loads
<1>2. ASSUME call' = call, \A l \in Loads : client'[l].conn = client[l].conn
      PROVE  /\ \A l \in Loads : client'[l].conn = "Failed" => client[l].conn = "Failed"
             /\ \A c \in Calls : call[c].pc = "exhausted" =>
                  call'[c].pc = "exhausted" /\ call'[c].load = call[c].load
  BY <1>2
<1>3. CASE UNCHANGED <<client, call>>
  BY <1>2, <1>3
<1>4. ASSUME NEW l \in Loads, Exit(l) \/ Ended(l)
      PROVE  call' = call /\ \A k \in Loads : client'[k].conn = client[k].conn
  BY <1>0, <1>4 DEF Exit, Ended, ClientType
<1>5. ASSUME NEW c \in Calls, call' = [call EXCEPT ![c] = call'[c]], call[c].pc # "exhausted"
      PROVE  \A d \in Calls : call[d].pc = "exhausted" =>
                call'[d].pc = "exhausted" /\ call'[d].load = call[d].load
  BY <1>0, <1>5
<1>6. ASSUME NEW c \in Calls, NEW p, Goto(c, p) \/ End(c) PROVE call' = [call EXCEPT ![c] = call'[c]]
  BY <1>0, <1>6 DEF Goto, End
<1>7. ASSUME NEW c \in Calls, NEW t \in Tools, NEW l \in Loads, Admit(c, t, l)
      PROVE  client' = client /\ call[c].pc # "exhausted" /\ call' = [call EXCEPT ![c] = call'[c]]
  BY <1>0, <1>7 DEF Admit
<1>8. ASSUME NEW c \in Calls, Send(c) \/ Closed(c) \/ Handshake(c) \/ Install(c) \/ Announce(c) \/ GiveUp(c)
                              \/ Answer(c) \/ Unauthorized(c)
      PROVE  /\ call[c].pc # "exhausted" /\ call' = [call EXCEPT ![c] = call'[c]]
             /\ \A l \in Loads : client'[l].conn = "Failed" => client[l].conn = "Failed"
  <2>1. call[c].pc # "exhausted" /\ call[c].pc # "idle"
    BY <1>8 DEF Send, Closed, Handshake, Install, Announce, GiveUp, Answer, Unauthorized
  <2>2. call' = [call EXCEPT ![c] = call'[c]]
    BY <1>6, <1>8 DEF Send, Closed, Handshake, Install, Announce, GiveUp, Answer, Unauthorized
  <2>3. PICK l \in Loads : l = Load(c)
    BY <1>1, <2>1 DEF Load
  <2>4. CASE Send(c) \/ Announce(c)
    BY <2>1, <2>2, <2>4 DEF Send, Announce
  <2>5. CASE Handshake(c) \/ Answer(c) \/ Unauthorized(c) \/ GiveUp(c)
    BY <1>0, <2>1, <2>2, <2>3, <2>5 DEF Handshake, Answer, Unauthorized, GiveUp, ClientType
  <2>6. CASE Install(c)
    BY <1>0, <2>1, <2>2, <2>3, <2>6 DEF Install, ClientType
  <2>7. CASE Closed(c)
    BY <1>0, <2>1, <2>2, <2>3, <2>7 DEF Closed, ClientType
  <2> QED BY <1>8, <2>4, <2>5, <2>6, <2>7
<1>9. ASSUME NEW c \in Calls, Reconnect(c)
      PROVE  /\ call[c].pc # "exhausted" /\ call' = [call EXCEPT ![c] = call'[c]]
             /\ \A l \in Loads : client'[l].conn = "Failed" =>
                   client[l].conn = "Failed" \/ \E d \in Calls : call'[d].pc = "exhausted" /\ call'[d].load = l
  <2>1. call[c].pc = "admitted" /\ call' = [call EXCEPT ![c] = call'[c]]
    BY <1>6, <1>9 DEF Reconnect
  <2>2. PICK l \in Loads : l = Load(c) /\ l = call[c].load
    BY <1>1, <2>1 DEF Load
  <2>3. CASE UNCHANGED client
    BY <2>1, <2>3
  <2>4. CASE client' = [client EXCEPT ![l].conn = "Failed"] /\ Goto(c, "exhausted")
    <3>1. \A k \in Loads : k # l => client'[k] = client[k]
      BY <1>0, <2>4
    <3>2. call'[c].pc = "exhausted" /\ call'[c].load = l
      BY <1>0, <2>2, <2>4 DEF Goto, CallType
    <3> QED BY <2>1, <3>1, <3>2
  <2>5. CASE client' = [client EXCEPT ![l].tries = @ + 1, ![l].svc = "none"]
    <3>1. client'[l].conn = client[l].conn /\ \A k \in Loads : k # l => client'[k] = client[k]
      BY <1>0, <2>5 DEF ClientType
    <3> QED BY <2>1, <3>1
  <2> QED BY <1>9, <2>2, <2>3, <2>4, <2>5 DEF Reconnect
<1>10. ASSUME NEW c \in Calls, Verdict(c)
       PROVE  /\ client' = client
              /\ \A d \in Calls : call[d].pc = "exhausted" =>
                   \/ call'[d].pc = "exhausted" /\ call'[d].load = call[d].load
                   \/ ~(Serves(row') /\ row'.gen = client[call[d].load].gen)
  <2>1. client' = client /\ call' = [call EXCEPT ![c] = call'[c]]
    BY <1>6, <1>10 DEF Verdict
  <2>2. ASSUME call[c].pc = "exhausted" PROVE ~(Serves(row') /\ row'.gen = client[call[c].load].gen)
    <3>1. row' = MarkFailed(row, client[call[c].load].gen, "Crashed")
      BY <1>10, <2>2 DEF Verdict, Fails, Load
    <3>2. CASE Serves(row) /\ row.gen = client[call[c].load].gen
      <4>1. row'.state = "Failed" /\ ~row'.awaiting
        BY <1>0, <3>1, <3>2 DEF MarkFailed, RowType
      <4> QED BY <4>1 DEF Serves
    <3>3. CASE ~(Serves(row) /\ row.gen = client[call[c].load].gen)
      BY <3>1, <3>3 DEF MarkFailed
    <3> QED BY <3>2, <3>3
  <2> QED BY <1>0, <2>1, <2>2
<1>11. UNCHANGED <<client, call>> \/ (\E l \in Loads : Exit(l) \/ Ended(l))
       \/ \E c \in Calls : (\E t \in Tools, l \in Loads : Admit(c, t, l)) \/ CallStep(c)
  BY DEF Bystander, Edit, ReadDeclaration, Fetch, FetchFails
<1> QED BY <1>2, <1>3, <1>4, <1>5, <1>7, <1>8, <1>9, <1>10, <1>11 DEF CallStep

\* A step aside of the mutex leaves one load.
LEMMA AsideLoads ==
  ASSUME SwitchInv, Loaded, Bystander
  PROVE  Loaded'
<1> USE DEF SwitchInv, Loaded
<1>0. Aside /\ SwitchInv'
  BY BystanderAside, AsideKeeps
<1>1. /\ row \in RowType /\ op \in OpType /\ handle \in 0 .. MaxLoads /\ begun \in 0 .. MaxLoads
      /\ row.awaiting => row.state = "Failed"
  BY TypeParts DEF OpRow
<1>2. /\ op' = op /\ handle' = handle /\ records' = records /\ names' = names /\ flagged' = flagged /\ reg' = reg
      /\ \A l \in Loads : /\ client'[l].made = client[l].made /\ client'[l].gen = client[l].gen
                          /\ client'[l].pub = client[l].pub
  BY <1>0 DEF Aside, Touched
<1>3. /\ row'.gen = row.gen /\ (Serves(row') => Serves(row)) /\ (row' # row => Serves(row))
      /\ row'.state = row.state \/ {row.state, row'.state} \subseteq {"Enabled", "Failed"}
  BY <1>0, <1>1 DEF Aside, Marked, Serves
<1>4. \A g \in reapQ' : g \in reapQ \/ (g = row.gen /\ Serves(row) /\ ~Serves(row'))
  BY <1>0 DEF Aside, Marked
<1>9. Serves(row) => row.state \in {"Enabled", "Failed"}
  BY <1>1 DEF Serves
<1>5. Fresh => op.new \in Loads
  BY <1>1 DEF Fresh, Numbers, OpRow, Building, Loads
<1>6. Generations'
  <2>1. records = 0 => row'.state = "none" /\ reapQ' = {} /\ \A l \in Loads : ~client'[l].made
    BY <1>2, <1>3, <1>4, <1>9 DEF Generations
  <2>2. row'.state # "none" => \A l \in Loads : client'[l].made => client'[l].gen <= row'.gen
    BY <1>2, <1>3 DEF Generations
  <2>3. row'.state = "Enabling" => \A l \in Loads : client'[l].made /\ l # op.new => client'[l].gen < row'.gen
    BY <1>2, <1>3 DEF Generations
  <2>4. \A l, k \in Loads : client'[l].made /\ client'[k].made /\ client'[l].gen = client'[k].gen => l = k
    BY <1>2 DEF Generations
  <2>5. handle # 0 /\ row'.state # "Enabling" => client'[handle].gen = row'.gen
    BY <1>1, <1>2, <1>3 DEF Generations, Loads
  <2>6. Fresh => client'[op.new].gen = row'.gen
    BY <1>2, <1>3, <1>5 DEF Generations
  <2>7. row'.state # "none" =>
          \A g \in reapQ' : g < row'.gen \/ (g = row'.gen /\ ~Serves(row') /\ row'.state # "Enabling")
    BY <1>3, <1>4, <1>9 DEF Generations
  <2>8. op.pc \in Down /\ op.then = "reaped" => ~Serves(row')
    BY <1>3 DEF Generations
  <2> QED BY <1>2, <2>1, <2>2, <2>3, <2>4, <2>5, <2>6, <2>7, <2>8 DEF Generations, Fresh
<1>7. Registry'
  BY <1>2, <1>3, <1>5 DEF Registry, Fresh
<1>8. DeadClientNoticed'
  <2> SUFFICES ASSUME NEW l \in Loads, client'[l].made, client'[l].conn = "Failed", Serves(row'),
                      row'.gen = client'[l].gen
               PROVE  \E c \in Calls : call'[c].pc = "exhausted" /\ call'[c].load = l
    BY DEF DeadClientNoticed
  <2>1. CASE client[l].conn = "Failed"
    <3>1. PICK c \in Calls : call[c].pc = "exhausted" /\ call[c].load = l
      BY <1>2, <1>3, <2>1 DEF DeadClientNoticed
    <3> QED BY <1>2, <3>1, Notices
  <2> QED BY <2>1, Notices
<1> QED BY <1>6, <1>7, <1>8

\* The first record finds nothing of an earlier one.
LEMMA FirstRecord ==
  ASSUME SwitchInv, Loaded, Verb, OneRecord'
  PROVE  /\ row.state # "none" => records # 0 /\ records' # 0
         /\ row.state = "none" /\ row'.state # "none" =>
              records' # 0 /\ reapQ' = {} /\ handle = 0 /\ \A l \in Loads : ~client[l].made
<1>1. records \in Nat
  BY TypeParts DEF SwitchInv
<1>2. /\ reapQ' \subseteq reapQ
      /\ records' = records \/ records' = records + 1
      /\ row.state = "none" /\ row'.state # "none" => records' = records + 1 /\ records' <= 1
  BY VerbFrame DEF OneRecord
<1>3. row.state # "none" => records # 0
  BY DEF Loaded, Generations
<1>4. ASSUME row.state = "none", row'.state # "none"
      PROVE  records' # 0 /\ reapQ' = {} /\ handle = 0 /\ \A l \in Loads : ~client[l].made
  <2>1. records = 0 /\ records' # 0
    BY <1>1, <1>2, <1>4
  <2>2. reapQ = {} /\ \A l \in Loads : ~client[l].made
    BY <2>1 DEF Loaded, Generations
  <2>3. handle = 0
    BY <1>4 DEF SwitchInv, Handles
  <2> QED BY <1>2, <2>1, <2>2, <2>3
<1> QED BY <1>1, <1>2, <1>3, <1>4

\* One load, over the verbs, the reconcile and the reaper's start.
LEMMA VerbsLoad ==
  ASSUME SwitchInv, Loaded, Verb, OneRecord'
  PROVE  Loaded'
<1> USE DEF SwitchInv, Loaded
<1>0. /\ handle' = handle /\ client' = client /\ call' = call /\ names' = names /\ flagged' = flagged /\ reg' = reg
      /\ reapQ' \subseteq reapQ
  BY VerbFrame
<1>1. /\ row.gen \in Nat /\ reapQ \subseteq Nat
      /\ row.awaiting => row.state = "Failed"
      /\ \A l \in Loads : client[l].gen \in Nat
  BY TypeParts, ClientTypes DEF OpRow, RowType, ClientType
<1>2. /\ row.state # "none" => records # 0 /\ records' # 0
      /\ row.state = "none" /\ row'.state # "none" =>
           records' # 0 /\ reapQ' = {} /\ handle = 0 /\ \A l \in Loads : ~client[l].made
  BY FirstRecord
<1>3. op.pc \in Looking => ~Fresh /\ row.state # "Enabling" /\ op.pc # "commit"
  BY DEF Looking, Fresh, OpRow, Building, Down
<1>4. handle = 0 /\ op.pc \in Looking => \A t \in Tools : reg[t] = 0
  BY <1>3 DEF Registry
<1>5. CASE BeginsLoad
  <2>1. /\ op.pc \in Looking /\ op'.pc = "epre" /\ op'.then = "build" /\ row'.state = "Enabling" /\ ~row'.awaiting
        /\ row'.gen = IF row.state = "none" THEN 1 ELSE row.gen + 1
    BY <1>5 DEF BeginsLoad, StartLoad, Idle
  <2>2. ~Fresh' /\ ~Serves(row') /\ op'.pc \notin Looking /\ op'.pc \notin Down
    BY <2>1 DEF Fresh, Serves, Looking, Down
  <2>3. \A l \in Loads : client[l].made => client[l].gen < row'.gen
    BY <1>1, <1>2, <2>1 DEF Generations
  <2>4. \A g \in reapQ' : g < row'.gen
    <3>1. CASE row.state = "none"
      BY <1>2, <2>1, <3>1
    <3>2. CASE row.state # "none"
      <4>1. \A g \in reapQ : g <= row.gen
        BY <1>1, <3>2 DEF Generations
      <4>2. row'.gen = row.gen + 1
        BY <2>1, <3>2
      <4>3. \A g \in reapQ' : g \in Nat /\ g <= row.gen
        BY <1>0, <1>1, <4>1
      <4> QED BY <1>1, <4>2, <4>3
    <3> QED BY <3>1, <3>2
  <2>5. Generations'
    <3>1. row'.gen \in Nat
      BY <1>1, <2>1
    <3>2. records' # 0
      BY <1>2, <2>1
    <3>3. \A l \in Loads : client[l].made => client[l].gen <= row'.gen
      BY <1>1, <2>3, <3>1
    <3> QED BY <1>0, <2>1, <2>2, <2>3, <2>4, <3>2, <3>3 DEF Generations
  <2>6. Registry'
    BY <1>0, <1>4, <2>1, <2>2 DEF Registry
  <2>7. DeadClientNoticed'
    BY <2>2 DEF DeadClientNoticed
  <2> QED BY <2>5, <2>6, <2>7
<1>6. ASSUME NEW t \in {"off", "again", "gone", "reaped"}, BeginsTeardown(t) PROVE Loaded'
  <2>1. /\ op.pc \in Looking /\ op'.pc = "t1" /\ row.state # "none" /\ row'.gen = row.gen
        /\ row'.state \in {"Disabling", "Failed"}
    BY <1>6 DEF BeginsTeardown
  <2>2. ~Serves(row')
    <3>1. CASE t = "reaped"
      <4>1. row' = row /\ row.gen \in reapQ /\ ~(row.gen < row.gen)
        BY <1>1, <1>6, <3>1 DEF BeginsTeardown
      <4> QED BY <2>1, <4>1 DEF Generations
    <3>2. CASE t # "reaped"
      BY <1>6, <3>2 DEF BeginsTeardown, Serves
    <3> QED BY <3>1, <3>2
  <2>3. ~Fresh' /\ op'.pc \notin Looking
    BY <2>1 DEF Fresh, Looking
  <2>4. Generations'
    BY <1>0, <1>2, <1>3, <2>1, <2>2, <2>3 DEF Generations
  <2>5. Registry'
    BY <1>0, <1>4, <2>1, <2>3 DEF Registry
  <2>6. DeadClientNoticed'
    BY <2>2 DEF DeadClientNoticed
  <2> QED BY <2>4, <2>5, <2>6
<1>7. CASE LooksOn
  <2>1. op.pc \in Looking /\ op'.pc \in Looking /\ ~Fresh' /\ op'.pc \notin Down /\ op'.pc # "commit"
    BY <1>7 DEF LooksOn, Fresh, Looking, Down
  <2>2. CASE row'.state = row.state /\ row'.awaiting = row.awaiting /\ row'.gen = row.gen
    <3>1. Serves(row') <=> Serves(row)
      BY <2>2 DEF Serves
    <3>2. records' = 0 => records = 0
      BY <1>1, VerbFrame, TypeParts
    <3>3. Generations'
      BY <1>0, <1>3, <2>1, <2>2, <3>1, <3>2 DEF Generations
    <3>4. Registry'
      BY <1>0, <1>4, <2>1, <3>1 DEF Registry
    <3>5. DeadClientNoticed'
      BY <1>0, <2>2, <3>1 DEF DeadClientNoticed
    <3> QED BY <3>3, <3>4, <3>5
  <2>3. CASE row.state = "none" /\ row'.state = "Disabled" /\ row'.gen = 0 /\ ~row'.awaiting
    <3>1. ~Serves(row')
      BY <2>3 DEF Serves
    <3>2. Generations'
      BY <1>0, <1>2, <2>1, <2>3 DEF Generations
    <3>3. Registry'
      BY <1>0, <1>2, <1>4, <2>1, <2>3, <3>1 DEF Registry
    <3>4. DeadClientNoticed'
      BY <3>1 DEF DeadClientNoticed
    <3> QED BY <3>2, <3>3, <3>4
  <2> QED BY <1>7, <2>2, <2>3 DEF LooksOn
<1>8. CASE DropsAtOnce
  <2>1. /\ op.pc \in Looking /\ op'.pc = "then" /\ op'.then = "gone" /\ row' = row /\ row.state = "Disabled"
        /\ ~row.awaiting /\ handle = 0
    BY <1>8 DEF DropsAtOnce, Handles
  <2>2. ~Serves(row') /\ ~Fresh' /\ op'.pc \notin Looking
    BY <2>1 DEF Serves, Fresh, Looking
  <2>3. Generations'
    BY <1>0, <1>2, <1>3, <2>1, <2>2 DEF Generations
  <2>4. Registry'
    BY <1>0, <1>4, <2>1, <2>2 DEF Registry
  <2>5. DeadClientNoticed'
    BY <2>2 DEF DeadClientNoticed
  <2> QED BY <2>3, <2>4, <2>5
<1> QED BY <1>5, <1>6, <1>7, <1>8, VerbKinds

\* One load, over a teardown: the names leave the registry before the client is sealed.
LEMMA DownLoads ==
  ASSUME SwitchInv, Loaded, T1 \/ T3 \/ T4 \/ EPre
  PROVE  Loaded'
<1> USE DEF SwitchInv, Loaded
<1>1. op \in OpType /\ handle \in 0 .. MaxLoads /\ reg \in [Tools -> 0 .. MaxLoads]
  BY TypeParts
<1>2. /\ row' = row /\ handle' = handle /\ client' = client /\ call' = call /\ records' = records
      /\ reapQ' = reapQ /\ names' = names /\ flagged' = flagged
      /\ op'.then = op.then /\ op'.new = op.new
      /\ op.pc \in {"t1", "t3", "t4", "epre"}
      /\ \/ op.pc \in Down /\ op'.pc \in Down \ {"t1"}
         \/ op.pc = "epre" /\ op'.pc = (IF handle = 0 THEN "connect" ELSE "t1") /\ op.then = "build"
  <2>1. CASE T1
    BY <1>1, <2>1 DEF T1, OpType, Down
  <2>2. CASE T3
    BY <1>1, <2>2 DEF T3, OpType, ledger, tools, Down
  <2>3. CASE T4
    BY <1>1, <2>3 DEF T4, OpType, ledger, tools, Down
  <2>4. CASE EPre
    BY <1>1, <2>4 DEF EPre, OpType, ledger, tools, OpRow, Building
  <2> QED BY <2>1, <2>2, <2>3, <2>4
<1>3. ~Fresh /\ ~Fresh' /\ op'.pc \notin Looking /\ op'.pc # "commit" /\ op.pc # "commit"
  BY <1>2 DEF Fresh, Looking, Down
<1>4. op.pc = "t1" => \A t \in Tools : reg'[t] = 0
  <2> SUFFICES ASSUME op.pc = "t1", NEW t \in Tools PROVE reg'[t] = 0
    OBVIOUS
  <2>1. reg' = [u \in Tools |-> IF u \in names THEN 0 ELSE reg[u]]
    BY DEF T1, T3, T4, EPre, Forget
  <2>2. t \notin names => reg[t] = 0
    BY <1>3 DEF Registry
  <2> QED BY <2>1, <2>2
<1>5. op.pc # "t1" => reg' = reg
  BY DEF T1, T3, T4, EPre, ledger, tools
<1>6. Generations'
  BY <1>2, <1>3 DEF Generations, Down
<1>7. Registry'
  <2>1. op'.pc \in Down \ {"t1"} => \A t \in Tools : reg'[t] = 0
    BY <1>2, <1>4, <1>5 DEF Registry
  <2>2. handle = 0 => \A t \in Tools : reg'[t] = 0
    BY <1>3, <1>4, <1>5 DEF Registry
  <2>3. handle # 0 => \A t \in Tools : reg'[t] # 0 => t \in names
    BY <1>4, <1>5 DEF Registry
  <2> QED BY <1>2, <1>3, <2>1, <2>2, <2>3 DEF Registry
<1>8. DeadClientNoticed'
  BY <1>2 DEF DeadClientNoticed
<1> QED BY <1>6, <1>7, <1>8

\* One load, over the seal and the close.
LEMMA CloseLoads ==
  ASSUME SwitchInv, Loaded, Seal \/ Take
  PROVE  Loaded'
<1> USE DEF SwitchInv, Loaded
<1>1. op \in OpType /\ handle \in 0 .. MaxLoads /\ client \in [Loads -> ClientType]
  BY TypeParts
<1>2. PICK d \in Loads : d = op.down
  BY <1>1 DEF Seal, Take, Handles, OpType, Loads
<1>3. /\ row' = row /\ call' = call /\ records' = records /\ reapQ' = reapQ /\ names' = names
      /\ flagged' = flagged /\ reg' = reg /\ op'.then = op.then /\ op'.new = op.new
      /\ op.pc \in Down \ {"t1"} /\ op'.pc \in Down \ {"t1"} /\ (handle' = handle \/ handle' = 0)
  BY <1>1 DEF Seal, Take, ledger, tools, OpType, Down
<1>4. \A l \in Loads : /\ client'[l].made = client[l].made /\ client'[l].gen = client[l].gen
                       /\ client'[l].conn = "Failed" => client[l].conn = "Failed"
  BY <1>1, <1>2 DEF Seal, Take, ClientType
<1>5. ~Fresh /\ ~Fresh' /\ op'.pc \notin Looking /\ op'.pc # "commit"
  BY <1>3 DEF Fresh, Looking, Down
<1>6. Generations'
  <2>1. handle' # 0 /\ row'.state # "Enabling" => client'[handle'].gen = row'.gen
    BY <1>1, <1>3, <1>4 DEF Generations, Loads
  <2> QED BY <1>3, <1>4, <1>5, <2>1 DEF Generations
<1>7. Registry'
  BY <1>3, <1>5 DEF Registry
<1>8. DeadClientNoticed'
  BY <1>3, <1>4 DEF DeadClientNoticed
<1> QED BY <1>6, <1>7, <1>8

\* One load, over the end of a teardown.
LEMMA ThenLoads ==
  ASSUME SwitchInv, Loaded, Then
  PROVE  Loaded'
<1> USE DEF SwitchInv, Loaded
<1>1. /\ row \in RowType /\ op \in OpType /\ row.gen \in Nat /\ reapQ \subseteq Nat
      /\ \A l \in Loads : client[l].gen \in Nat
  BY TypeParts, ClientTypes DEF RowType, ClientType
<1>2. /\ op.pc = "then" /\ op.pc \in Down /\ handle = 0 /\ handle' = 0 /\ client' = client /\ call' = call
      /\ records' = records /\ reapQ' = reapQ /\ reg' = reg /\ op.then # "-"
  BY DEF Then, Handles, Down, OpRow
<1>3. row.state # "none" /\ records # 0
  BY <1>2 DEF OpRow, Generations, Then
<1>4. /\ \A l \in Loads : client[l].made => client[l].gen <= row.gen
      /\ \A g \in reapQ : g <= row.gen
      /\ row.state = "Enabling" => \A g \in reapQ : g < row.gen
  BY <1>1, <1>3 DEF Generations
<1>5. \A t \in Tools : reg[t] = 0
  BY <1>2 DEF Registry
<1>6. CASE \/ op.then = "off" /\ row' = Commit(row, "Disabled", "-")
           \/ op.then = "gone" /\ row' = NoRow
           \/ op.then = "reaped" /\ row' = row
           \/ op.then = "failed" /\ row' = Commit(row, "Failed", "bringup")
  <2>1. op'.pc = "idle"
    BY <1>6 DEF Then, Idle
  <2>2. ~Serves(row') /\ row'.state # "Enabling" /\ (row'.state # "none" => row'.gen = row.gen)
    <3>1. CASE op.then = "reaped" /\ row' = row
      BY <1>2, <3>1 DEF Generations, OpRow
    <3>2. CASE op.then # "reaped"
      BY <1>1, <1>6, <3>2, RowSteps DEF Serves, NoRow
    <3> QED BY <1>6, <3>1, <3>2
  <2>3. ~Fresh' /\ op'.pc \notin Down /\ op'.pc # "commit"
    BY <2>1 DEF Fresh, Down
  <2>4. Generations'
    <3>1. row'.state # "none" => \A l \in Loads : client[l].made => client[l].gen <= row'.gen
      BY <1>4, <2>2
    <3>3. \A g \in reapQ : g < row.gen \/ g = row.gen
      BY <1>3 DEF Generations
    <3>2. row'.state # "none" => \A g \in reapQ : g < row'.gen \/ g = row'.gen
      BY <2>2, <3>3
    <3> QED BY <1>2, <1>3, <2>2, <2>3, <3>1, <3>2 DEF Generations
  <2>5. Registry'
    BY <1>2, <1>5, <2>2, <2>3 DEF Registry
  <2>6. DeadClientNoticed'
    BY <2>2 DEF DeadClientNoticed
  <2> QED BY <2>4, <2>5, <2>6
<1>7. CASE op.then = "again" /\ row' = BeginEnabling(row) /\ StartLoad
  <2>1. op'.pc = "epre" /\ op'.then = "build"
    BY <1>7 DEF StartLoad, Idle
  <2>2. row'.state = "Enabling" /\ ~row'.awaiting /\ row'.gen = row.gen + 1
    BY <1>1, <1>2, <1>7, RowSteps DEF OpRow
  <2>3. ~Fresh' /\ op'.pc \notin Down /\ op'.pc # "commit" /\ op'.pc \notin Looking /\ ~Serves(row')
    BY <2>1, <2>2 DEF Fresh, Down, Looking, Serves
  <2>4. Generations'
    <3>1. \A l \in Loads : client[l].made => client[l].gen <= row'.gen /\ client[l].gen < row'.gen
      BY <1>1, <1>4, <2>2
    <3>2. \A g \in reapQ : g < row'.gen
      BY <1>1, <1>4, <2>2
    <3> QED BY <1>2, <1>3, <2>2, <2>3, <3>1, <3>2 DEF Generations
  <2>5. Registry'
    BY <1>2, <1>5, <2>3 DEF Registry
  <2>6. DeadClientNoticed'
    BY <2>3 DEF DeadClientNoticed
  <2> QED BY <2>4, <2>5, <2>6
<1>8. CASE op.then = "build" /\ op' = [op EXCEPT !.pc = "connect"] /\ row' = row
  <2>1. op'.pc = "connect" /\ op'.then = "build" /\ op'.new = op.new
    BY <1>1, <1>8 DEF OpType
  <2>2. ~Fresh' /\ op'.pc \notin Down /\ op'.pc # "commit" /\ op'.pc \notin Looking
    BY <2>1 DEF Fresh, Down, Looking
  <2>3. Generations'
    BY <1>2, <1>8, <2>1, <2>2 DEF Generations
  <2>4. Registry'
    BY <1>2, <1>5, <2>2 DEF Registry
  <2>5. DeadClientNoticed'
    BY <1>2, <1>8 DEF DeadClientNoticed
  <2> QED BY <2>3, <2>4, <2>5
<1> QED BY <1>6, <1>7, <1>8 DEF Then

\* One load, over a load's own steps: its client has a generation no other has.
LEMMA BuildLoads ==
  ASSUME SwitchInv, Loaded,
         Connect \/ PublishFails \/ Commit5 \/ \E ts \in SUBSET Tools : Publish(ts)
  PROVE  Loaded'
<1> USE DEF SwitchInv, Loaded
<1>1. /\ row \in RowType /\ op \in OpType /\ begun \in 0 .. MaxLoads /\ client \in [Loads -> ClientType]
      /\ row.gen \in Nat /\ \A l \in Loads : client[l].gen \in Nat
  BY TypeParts, ClientTypes DEF RowType, ClientType
<1>2. /\ op.pc \in {"connect", "list", "commit"} /\ op.pc \in Building /\ call' = call
      /\ records' = records /\ reapQ' = reapQ
  BY DEF Connect, PublishFails, Commit5, Publish, Building, ledger
<1>3. /\ op.then = "build" /\ row.state = "Enabling" /\ ~row.awaiting /\ handle = 0 /\ op.new = begun /\ begun # 0
      /\ records # 0
  BY <1>2 DEF OpRow, Handles, Numbers, Generations
<1>4. PICK n \in Loads : n = op.new
  BY <1>1, <1>3 DEF Loads
<1>5. /\ \A l \in Loads : client[l].made /\ l # n => client[l].gen < row.gen
      /\ \A l \in Loads : client[l].made => client[l].gen <= row.gen
      /\ \A g \in reapQ : g < row.gen
  BY <1>3, <1>4 DEF Generations
<1>6. op.pc # "commit" => \A t \in Tools : reg[t] = 0
  BY <1>3 DEF Registry
<1>7. ~Serves(row)
  BY <1>3 DEF Serves
<1>8. CASE /\ Connect /\ client' = [client EXCEPT ![op.new] = Client(row.gen)]
           /\ op' = [op EXCEPT !.pc = "list"] /\ row' = row
  <2>1. op'.pc = "list" /\ op'.new = n /\ handle' = 0 /\ reg' = reg /\ op.pc = "connect"
    BY <1>1, <1>3, <1>4, <1>8 DEF Connect, OpType, tools
  <2>2. client'[n].made /\ client'[n].gen = row.gen /\ \A l \in Loads : l # n => client'[l] = client[l]
    <3>1. PICK k : k = Client(row.gen)
      OBVIOUS
    <3>2. k.made /\ k.gen = row.gen
      BY <3>1 DEF Client, NoClient
    <3>3. client' = [client EXCEPT ![n] = k]
      BY <1>4, <1>8, <3>1
    <3> QED BY <1>1, <3>2, <3>3
  <2>3. op'.pc \notin Down /\ op'.pc \notin Looking /\ op'.pc # "commit"
    BY <2>1 DEF Down, Looking
  <2>4. Generations'
    <3>1. \A l \in Loads : client'[l].made => client'[l].gen <= row.gen
      BY <1>1, <1>5, <2>2
    <3>2. \A l \in Loads : client'[l].made /\ l # n => client'[l].gen < row.gen
      BY <1>5, <2>2
    <3>3. ASSUME NEW l \in Loads, NEW k \in Loads, client'[l].made, client'[k].made, client'[l].gen = client'[k].gen
          PROVE  l = k
      <4>1. CASE l # n /\ k # n
        BY <2>2, <3>3, <4>1 DEF Generations
      <4>2. ~(row.gen < row.gen)
        BY <1>1
      <4> QED BY <2>2, <3>2, <3>3, <4>1, <4>2
    <3> QED BY <1>2, <1>3, <1>5, <1>8, <2>1, <2>2, <2>3, <3>1, <3>2, <3>3 DEF Generations
  <2>5. Registry'
    BY <1>6, <2>1, <2>3 DEF Registry
  <2>6. DeadClientNoticed'
    BY <1>7, <1>8 DEF DeadClientNoticed
  <2> QED BY <2>4, <2>5, <2>6
<1>9. CASE Connect /\ row' = Commit(row, "Failed", "bringup") /\ op' = Idle /\ client' = client
  <2>1. op'.pc = "idle" /\ handle' = 0 /\ reg' = reg /\ op.pc = "connect"
    BY <1>3, <1>9 DEF Connect, Idle, tools
  <2>2. row'.state = "Failed" /\ ~row'.awaiting /\ row'.gen = row.gen
    BY <1>1, <1>9, RowSteps
  <2>3. ~Fresh' /\ op'.pc \notin Down /\ op'.pc # "commit" /\ ~Serves(row')
    BY <2>1, <2>2 DEF Fresh, Down, Serves
  <2>4. Generations'
    BY <1>2, <1>3, <1>5, <1>9, <2>1, <2>2, <2>3 DEF Generations
  <2>5. Registry'
    BY <1>6, <2>1, <2>3 DEF Registry
  <2>6. DeadClientNoticed'
    BY <2>3 DEF DeadClientNoticed
  <2> QED BY <2>4, <2>5, <2>6
<1>10. CASE PublishFails
  <2>1. /\ op.pc = "list" /\ row' = row /\ handle' = 0 /\ client' = client /\ reg' = reg
        /\ op'.pc = "seal" /\ op'.then = "failed" /\ op'.new = n
    BY <1>1, <1>3, <1>4, <1>10 DEF PublishFails, OpType, ledger, tools
  <2>2. ~Fresh' /\ op'.pc \notin Looking /\ op'.pc # "commit"
    BY <2>1 DEF Fresh, Looking
  <2>3. Generations'
    BY <1>2, <1>3, <1>4, <2>1, <2>2 DEF Generations
  <2>4. Registry'
    BY <1>6, <2>1, <2>2 DEF Registry
  <2>5. DeadClientNoticed'
    BY <1>7, <2>1 DEF DeadClientNoticed
  <2> QED BY <2>3, <2>4, <2>5
<1>11. ASSUME NEW ts \in SUBSET Tools, Publish(ts) PROVE Loaded'
  <2>1. /\ op.pc = "list" /\ row' = row /\ handle' = 0 /\ op'.pc = "commit" /\ op'.new = n
        /\ client' = [client EXCEPT ![n] = [client[n] EXCEPT !.pub = ts]]
        /\ reg' = [t \in Tools |-> IF t \in ts THEN n ELSE reg[t]]
    BY <1>1, <1>3, <1>4, <1>11 DEF Publish, OpType
  <2>2. /\ client'[n].made = client[n].made /\ client'[n].gen = client[n].gen /\ client'[n].pub = ts
        /\ \A l \in Loads : l # n => client'[l] = client[l]
    BY <1>1, <2>1 DEF ClientType
  <2>3. \A l \in Loads : client'[l].made = client[l].made /\ client'[l].gen = client[l].gen
    BY <2>2
  <2>4. Fresh /\ op'.pc \notin Down /\ op'.pc \notin Looking
    BY <2>1 DEF Fresh, Down, Looking
  <2>5. Generations'
    BY <1>2, <1>3, <1>4, <2>1, <2>3, <2>4 DEF Generations
  <2>6. Registry'
    BY <1>6, <2>1, <2>2, <2>4 DEF Registry
  <2>7. DeadClientNoticed'
    BY <1>7, <2>1 DEF DeadClientNoticed
  <2> QED BY <2>5, <2>6, <2>7
<1>12. CASE Commit5
  <2>1. /\ op.pc = "commit" /\ handle' = n /\ client' = client /\ row' = Commit(row, "Enabled", "-")
        /\ reg' = reg /\ names' = client[n].pub /\ flagged' = {} /\ op'.pc = "idle"
    BY <1>4, <1>12 DEF Commit5, Idle
  <2>2. row'.state = "Enabled" /\ ~row'.awaiting /\ row'.gen = row.gen
    BY <1>1, <2>1, RowSteps
  <2>3. /\ Fresh /\ ~Fresh' /\ op'.pc \notin Down /\ op'.pc # "commit" /\ n # 0
        /\ client[n].gen = row.gen /\ client[n].conn = "Connected"
    BY <1>4, <2>1 DEF Fresh, Down, Generations, Handles, Loads
  <2>4. Generations'
    BY <1>2, <1>3, <1>5, <2>1, <2>2, <2>3 DEF Generations
  <2>5. Registry'
    <3>1. \A t \in Tools : reg[t] = IF t \in client[n].pub THEN n ELSE 0
      BY <1>4, <2>1 DEF Registry
    <3>2. names' \ flagged' = client[n].pub
      BY <2>1
    <3> QED BY <2>1, <2>3, <3>1, <3>2 DEF Registry
  <2>6. DeadClientNoticed'
    <3>1. ~(row.gen < row.gen)
      BY <1>1
    <3> QED BY <1>5, <2>1, <2>2, <2>3, <3>1 DEF DeadClientNoticed
  <2> QED BY <2>4, <2>5, <2>6
<1> QED BY <1>8, <1>9, <1>10, <1>11, <1>12 DEF Connect

\* One load, over a refresh: a list that is published is the handle's own.
LEMMA RefreshLoads ==
  ASSUME SwitchInv, ListKnown, Loaded, Refresh
  PROVE  Loaded'
<1> USE DEF SwitchInv, Loaded
<1>0. /\ UNCHANGED <<row, records, handle, begun, reapQ, op, call>> /\ Free
      /\ \A l \in Loads : /\ client'[l].made = client[l].made /\ client'[l].gen = client[l].gen
                          /\ client'[l].conn = client[l].conn
  BY RefreshTypes
<1>1. /\ op' = op /\ op.pc = "idle" /\ row' = row /\ handle' = handle /\ records' = records /\ reapQ' = reapQ
      /\ call' = call /\ handle \in 0 .. MaxLoads /\ ~Fresh /\ ~Fresh' /\ op.pc \in Looking /\ op.pc \notin Down
  BY <1>0, TypeParts DEF Free, Fresh, Looking, Down
<1>2. Generations'
  <2>1. handle # 0 /\ row.state # "Enabling" => client'[handle].gen = row.gen
    BY <1>0, <1>1 DEF Generations, Loads
  <2> QED BY <1>0, <1>1, <2>1 DEF Generations
<1>3. DeadClientNoticed'
  BY <1>0, <1>1 DEF DeadClientNoticed
<1>4. Registry'
  <2>1. CASE UNCHANGED <<client, tools>>
    BY <1>1, <2>1 DEF Registry, tools
  <2>2. CASE ~UNCHANGED <<client, tools>>
    <3>1. PICK l \in Loads : l = listed.load /\ client[l].made
      BY TypeParts DEF ListKnown, Refresh, Loads
    <3>2. Current(l)
      BY <2>2, <3>1 DEF Refresh
    <3>3. Serves(row) /\ row.gen = client[l].gen /\ row.state # "Enabling"
      BY <3>2 DEF Current, Serves
    <3>4. handle # 0 /\ \A t \in Tools : reg[t] = IF t \in names \ flagged THEN handle ELSE 0
      BY <1>1, <3>3 DEF Registry
    <3>5. l = handle
      <4>1. handle \in Loads /\ client[handle].made /\ client[handle].gen = row.gen
        BY <1>1, <3>3, <3>4 DEF Generations, Handles, Loads
      <4> QED BY <3>1, <3>3, <4>1 DEF Generations
    <3>6. PICK before, removed, added :
            /\ before = names \ flagged /\ removed = before \ listed.names /\ added = listed.names \ before
      OBVIOUS
    <3>7. /\ reg' = [t \in Tools |-> IF t \in removed THEN 0 ELSE IF t \in added THEN l ELSE reg[t]]
          /\ flagged' = (flagged \cup removed) \ added
          /\ names' = listed.names \cup flagged'
      BY <3>1, <3>2, <3>6 DEF Refresh
    <3>8. \A t : t \in names' \ flagged' <=> t \in listed.names
      BY <3>6, <3>7
    <3>9. \A t \in Tools : reg'[t] = IF t \in listed.names THEN handle ELSE 0
      BY <3>4, <3>5, <3>6, <3>7
    <3>10. \A t \in listed.names : t \in names'
      BY <3>7
    <3> QED BY <1>1, <3>4, <3>8, <3>9, <3>10 DEF Registry
  <2> QED BY <2>1, <2>2
<1> QED BY <1>2, <1>3, <1>4

\* Every step keeps it that does not make a second record.
LEMMA LoadStep == LoadInv /\ [Next]_vars /\ OneRecord' => LoadInv'
<1> SUFFICES ASSUME SwitchInv, ListKnown, Loaded, [Next]_vars, OneRecord' PROVE Loaded'
  BY SwitchStep DEF LoadInv
<1>1. CASE Refresh
  BY <1>1, RefreshLoads
<1>2. CASE Bystander
  BY <1>2, AsideLoads
<1>3. CASE Reconcile \/ Enable \/ Disable \/ Reload \/ Remove \/ \E g \in reapQ : Reap(g)
  BY <1>3, VerbsLoad DEF Verb
<1>4. CASE OpStep
  BY <1>4, VerbsLoad, DownLoads, CloseLoads, ThenLoads, BuildLoads DEF OpStep, Verb
<1>5. CASE UNCHANGED vars
  BY <1>5 DEF vars, ledger, tools, Loaded, Generations, Registry, DeadClientNoticed, Fresh
<1> QED BY <1>1, <1>2, <1>3, <1>4, <1>5 DEF Next, Bystander

\* It holds at the start.
LEMMA LoadStart == Init => Loaded
<1> SUFFICES ASSUME Init PROVE Loaded
  OBVIOUS
<1>1. /\ op.pc = "idle" /\ row.state = "none" /\ ~row.awaiting /\ handle = 0 /\ reapQ = {} /\ records = 0
      /\ \A t \in Tools : reg[t] = 0
      /\ \A l \in Loads : ~client[l].made
  BY DEF Init, Idle, NoRow, NoClient
<1>2. ~Serves(row) /\ ~Fresh /\ op.pc \notin Down
  BY <1>1 DEF Serves, Fresh, Down
<1>3. Generations
  BY <1>1, <1>2 DEF Generations
<1>4. Registry /\ DeadClientNoticed
  BY <1>1, <1>2 DEF Registry, DeadClientNoticed
<1> QED BY <1>3, <1>4 DEF Loaded

\* Two open clients are one.
LEMMA OneOpen == SwitchInv => OneOpenClient
<1> SUFFICES ASSUME SwitchInv PROVE OneOpenClient
  OBVIOUS
<1> DEFINE Open == {l \in Loads : client[l].made /\ ~client[l].sealed}
<1>1. \A l, k \in Open : l = k
  <2>1. \A l \in Loads : l # 0
    BY DEF Loads
  <2>2. Fresh => handle = 0 /\ op.pc # "seal"
    BY DEF SwitchInv, Handles, Fresh
  <2>3. op.pc = "seal" => op.down = handle \/ handle = 0
    BY DEF SwitchInv, Handles, Down
  <2> QED BY <2>1, <2>2, <2>3 DEF SwitchInv, Seals
<1>2. CASE Open = {}
  BY <1>2, FS_EmptySet DEF OneOpenClient
<1>3. CASE Open # {}
  <2>1. PICK l : Open = {l}
    BY <1>1, <1>3
  <2>2. Cardinality({l}) = 1
    BY FS_Singleton
  <2> QED BY <2>1, <2>2 DEF OneOpenClient
<1> QED BY <1>2, <1>3

\* What serves is whole.
LEMMA LoadMeans == SwitchInv /\ Loaded => OneLoad
<1> SUFFICES ASSUME SwitchInv, Loaded PROVE OneLoad
  OBVIOUS
<1>1. ServingIsWhole
  <2> SUFFICES ASSUME Free, Serves(row)
               PROVE  /\ handle # 0 /\ client[handle].gen = row.gen /\ ~client[handle].sealed
                      /\ \A t \in Tools : reg[t] = IF t \in names \ flagged THEN handle ELSE 0
    BY DEF ServingIsWhole
  <2>1. op.pc = "idle" /\ op.pc \in Looking /\ row.state # "Enabling"
    BY DEF Free, Looking, SwitchInv, OpRow, Settled
  <2>2. handle # 0 /\ \A t \in Tools : reg[t] = IF t \in names \ flagged THEN handle ELSE 0
    BY <2>1 DEF Loaded, Registry
  <2>3. client[handle].gen = row.gen
    BY <2>1, <2>2 DEF Loaded, Generations
  <2>4. ~client[handle].sealed
    BY <2>1, <2>2 DEF SwitchInv, Handles
  <2> QED BY <2>2, <2>3, <2>4
<1> QED BY <1>1, OneOpen DEF OneLoad, SwitchInv, Loaded

\* One load at a time, in every behaviour in which the ledger makes one record for
\* the server: whatever late reap, refresh, reconnect, exit or verdict of an
\* earlier load comes by, a row that serves has its own load behind it, the
\* registry holds that load's names and no other, no two clients could both run a
\* process, and a client with no reconnects left is noticed (begin_enabling's
\* generations, the re-checks under the mutex).  Generations restart with a new
\* record, and with a second one the statement is false.
THEOREM OneLoadAlways == Spec /\ []OneRecord => []OneLoad
<1>1. Init => LoadInv
  BY SwitchStart, LoadStart DEF LoadInv
<1>2. LoadInv => OneLoad
  BY LoadMeans DEF LoadInv
<1> QED BY <1>1, <1>2, LoadStep, PTL DEF Spec

=============================================================================
