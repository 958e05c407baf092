---------------------------- MODULE McpExtension ----------------------------
(***************************************************************************)
(* One MCP server, from its block in config/mcp.toml to the calls that     *)
(* reach its process: the extension ledger's row and gate                  *)
(* (tools/extensions/ledger.rs), the supervisor's transitions, refreshes   *)
(* and reaper (apps/openalpacad/src/managers/mcp.rs), the client with its  *)
(* reconnects and its seal (crates/openalpaca_mcp/src/client.rs) and the   *)
(* dispatch of a call (tools/registry/mod.rs).                             *)
(*                                                                         *)
(* Every transition runs under the extension's mutex, so there is one      *)
(* operation at a time and `op` is where it stands.  Everything else does  *)
(* not take the mutex and interleaves with it: calls, also on handles that *)
(* a run's copy of the registry kept from an earlier load; exits of the    *)
(* process; tool-list fetches; the file's edits; the reading of the file.  *)
(***************************************************************************)
EXTENDS Naturals, FiniteSets

CONSTANTS
    Calls,          \* dispatches in progress
    Tools,          \* tool names the server may list
    MaxAttempts,    \* max_reconnect_attempts
    MaxLoads,       \* bound: loads begun in a behaviour
    MaxEdits,       \* bound: hand edits of the file and added declarations
    MaxRecords      \* bound: times the ledger makes a record for the server

ASSUME McpAssumption ==
    /\ MaxAttempts \in Nat /\ MaxEdits \in Nat /\ MaxLoads \in Nat \ {0} /\ MaxRecords \in Nat \ {0}

VARIABLES
    transport,  \* how the server is reached: a child process, or http
    disk,       \* its block in the file: on, off, gone
    edits,      \* edits made
    dirty,      \* the watcher (or add_server) has a reconcile to start
    seen,       \* what a reconcile that waits for the mutex read of the file
    known,      \* the supervisor's cached declared set holds the server
    row,        \* the ledger's record
    records,    \* records made; each has a number, and a counter of calls
    names,      \* the tool names the record retains
    flagged,    \* of those, the ones the server withdrew
    reg,        \* the live registry: the load behind each name, 0 for none
    handle,     \* the supervisor's handle: the load it holds, 0 for none
    begun,      \* loads begun; each has a number of its own
    client,     \* the client of each load
    listed,     \* a refresh that waits for the mutex: its load and its list
    reapQ,      \* the crash reaper's channel: generations
    op,         \* the operation that holds the mutex
    call        \* each dispatch

file == <<disk, edits, dirty, seen, known>>
tools == <<names, flagged, reg>>
ledger == <<row, records, tools>>
vars == <<transport, file, ledger, handle, begun, client, listed, reapQ, op, call>>

Loads == 1 .. MaxLoads
States == {"none", "Enabling", "Enabled", "Disabling", "Disabled", "Failed"}
\* "bringup" stands for every reason a load can fail with.
Reasons == {"-", "bringup", "Crashed", "NeedsAuthorization"}
NoRow == [state |-> "none", reason |-> "-", gen |-> 0, awaiting |-> FALSE, want |-> FALSE, born |-> 0]

NoClient == [made |-> FALSE, gen |-> 0, sealed |-> FALSE, conn |-> "Disconnected", svc |-> "none",
             spawned |-> FALSE, stray |-> FALSE, tries |-> 0, pub |-> {}]
Client(g) == [NoClient EXCEPT !.made = TRUE, !.gen = g, !.conn = "Connected", !.svc = "live"]

NoList == [load |-> 0, names |-> {}]
NoCall == [pc |-> "idle", load |-> 0, tool |-> "-", born |-> 0]
Idle == [pc |-> "idle", snap |-> "none", wants |-> FALSE, drain |-> FALSE, drained |-> FALSE,
         then |-> "-", down |-> 0, new |-> 0]
Free == op.pc = "idle"

\* `serves`: what the gate admits.
Serves(r) == r.state = "Enabled" \/ r.awaiting
Live(l) == client[l].svc = "live"
\* A process of this load that has not ended, or will not by itself: a close
\* once begun is bounded by rmcp's timers and its drop guard.
HasChild(l) == Live(l) \/ client[l].spawned \/ client[l].stray

Init ==
    /\ transport \in {"stdio", "http"}
    /\ disk \in {"on", "off"} /\ edits = 0 /\ dirty = TRUE /\ seen = "none" /\ known = FALSE
    /\ row = NoRow /\ records = 0 /\ names = {} /\ flagged = {} /\ reg = [t \in Tools |-> 0]
    /\ handle = 0 /\ begun = 0 /\ client = [l \in Loads |-> NoClient]
    /\ listed = NoList /\ reapQ = {} /\ op = Idle /\ call = [c \in Calls |-> NoCall]

-----------------------------------------------------------------------------
(* The ledger's compare-and-set steps, as functions of the row.            *)

CanEnable(r) == r.state \in {"none", "Disabled", "Failed", "Disabling"}
\* A record made from nothing starts at generation one.
BeginEnabling(r) ==
    IF r.state = "none"
    THEN [NoRow EXCEPT !.state = "Enabling", !.gen = 1, !.want = TRUE, !.born = records + 1]
    ELSE [r EXCEPT !.state = "Enabling", !.gen = @ + 1, !.awaiting = FALSE, !.reason = "-"]

CanDisable(r) == r.state \in {"Enabled", "Failed"}
BeginDisabling(r) == [r EXCEPT !.state = "Disabling", !.awaiting = FALSE, !.reason = "-"]

Commit(r, to, why) == [r EXCEPT !.state = to, !.reason = why, !.awaiting = FALSE]
Upsert(want) == [NoRow EXCEPT !.state = "Disabled", !.want = want, !.born = records + 1]

MarkFailed(r, g, why) ==
    IF Serves(r) /\ r.gen = g
    THEN [r EXCEPT !.state = "Failed", !.reason = why, !.awaiting = FALSE] ELSE r

MarkExited(r, g) ==
    IF r.state = "Enabled" /\ r.gen = g
    THEN [r EXCEPT !.state = "Failed", !.reason = "Crashed", !.awaiting = TRUE] ELSE r

MarkRecovered(r, g) ==
    IF r.awaiting /\ r.gen = g
    THEN [r EXCEPT !.state = "Enabled", !.reason = "-", !.awaiting = FALSE] ELSE r

\* Mutant of Fails: the reaper is not told.
FailsSilently(l, why) ==
    /\ row' = MarkFailed(row, client[l].gen, why)
    /\ UNCHANGED reapQ
\* What marking a load failed does: the row, and a message for the reaper.
Fails(l, why) ==
    /\ row' = MarkFailed(row, client[l].gen, why)
    /\ reapQ' = IF row' # row THEN reapQ \cup {client[l].gen} ELSE reapQ

-----------------------------------------------------------------------------
(* The declaration and the reconcile that follows it.                      *)

\* A hand edit of the file, or add_server's block.
Edit(d) ==
    /\ d # disk /\ edits < MaxEdits
    /\ disk' = d /\ dirty' = TRUE /\ edits' = edits + 1
    /\ UNCHANGED <<transport, seen, known, ledger, handle, begun, client, listed, reapQ, op, call>>

\* read_declaration: before the mutex.
ReadDeclaration ==
    /\ dirty /\ seen = "none"
    /\ seen' = disk /\ known' = (disk # "gone") /\ dirty' = FALSE
    /\ UNCHANGED <<transport, disk, edits, ledger, handle, begun, client, listed, reapQ, op, call>>

CanLoad == begun < MaxLoads
\* E0 taken: what is left is E-PRE and the load.
StartLoad == /\ begun' = begun + 1
             /\ op' = [Idle EXCEPT !.pc = "epre", !.then = "build", !.new = begun + 1]
StartTeardown(then, drain) ==
    /\ op' = [Idle EXCEPT !.pc = "t1", !.then = then, !.drain = drain]
    /\ UNCHANGED begun

\* A step that may make a record.
Counted == /\ records' = IF row.state = "none" /\ row'.state # "none" THEN records + 1 ELSE records
           /\ records' <= MaxRecords

\* The start of reconcile_declared and drop_declaration, up to the snapshot.
Reconcile ==
    /\ Free /\ seen # "none" /\ (seen = "on" => CanLoad) /\ seen' = "none"
    /\ \/ /\ seen = "gone"
          /\ op' = IF row.state = "none" THEN op ELSE [Idle EXCEPT !.pc = "drop", !.snap = row.state]
          /\ UNCHANGED <<row, begun>>
       \/ /\ seen = "on" /\ row.state = "none"
          /\ row' = BeginEnabling(row) /\ StartLoad
       \/ /\ seen = "off" /\ row.state = "none"
          /\ row' = Upsert(FALSE) /\ UNCHANGED <<op, begun>>
       \/ /\ seen # "gone" /\ row.state # "none"
          /\ row' = [row EXCEPT !.want = (seen = "on")]
          /\ op' = [Idle EXCEPT !.pc = "reconcile", !.snap = row.state, !.wants = (seen = "on")]
          /\ UNCHANGED begun
    /\ Counted
    /\ UNCHANGED <<transport, disk, edits, dirty, known, tools, handle, client, listed, reapQ, call>>

\* Mutant of ReconcileAct: it waits until the row is what the snapshot was.
ReconcileActWaits(changed) ==
    /\ op.pc = "reconcile"
    /\ \/ /\ ~op.wants /\ op.snap \in {"Enabled", "Failed"} /\ row.state = op.snap
          /\ row' = BeginDisabling(row) /\ StartTeardown("off", TRUE)
       \/ /\ op.wants /\ op.snap = "Disabled" /\ row.state = op.snap
          /\ row' = BeginEnabling(row) /\ StartLoad
       \/ /\ op.wants \/ op.snap \notin {"Enabled", "Failed"}
          /\ op' = Idle /\ UNCHANGED <<row, begun>>
    /\ UNCHANGED <<transport, file, records, tools, handle, client, listed, reapQ, call>>
\* The rest of reconcile_declared, on the snapshot of the row; `changed` says
\* whether the block's fingerprint differs from the row's.
ReconcileAct(changed) ==
    /\ op.pc = "reconcile"
    /\ LET off == op.snap \in {"Enabled", "Failed"} /\ ~op.wants
           load == op.wants /\ (op.snap = "Disabled" \/ (op.snap = "Failed" /\ changed))
       IN \/ /\ off /\ CanDisable(row)
             /\ row' = BeginDisabling(row) /\ StartTeardown("off", TRUE)
          \/ /\ load /\ CanEnable(row)
             /\ row' = BeginEnabling(row) /\ StartLoad
          \/ /\ ~(off /\ CanDisable(row)) /\ ~(load /\ CanEnable(row))
             /\ op' = Idle /\ UNCHANGED <<row, begun>>
    /\ UNCHANGED <<transport, file, records, tools, handle, client, listed, reapQ, call>>

\* drop_declaration_locked, from its own snapshot.
DropAct ==
    /\ op.pc = "drop"
    /\ \/ /\ Serves(row)
          /\ row' = BeginDisabling(row) /\ StartTeardown("gone", TRUE)
       \/ /\ ~Serves(row) /\ op.snap \in {"Enabled", "Failed"}
          /\ StartTeardown("gone", FALSE) /\ UNCHANGED row
       \/ /\ ~Serves(row) /\ op.snap \notin {"Enabled", "Failed"}
          /\ op' = [Idle EXCEPT !.pc = "then", !.then = "gone"] /\ UNCHANGED <<row, begun>>
    /\ UNCHANGED <<transport, file, records, tools, handle, client, listed, reapQ, call>>

-----------------------------------------------------------------------------
(* The owner's verbs.                                                      *)

\* W is skipped when the row's bit already matches, and fails without a block.
WriteBit(want) ==
    IF row.state # "none" /\ row.want = want THEN disk' = disk
    ELSE disk # "gone" /\ disk' = IF want THEN "on" ELSE "off"

Enable ==
    /\ Free /\ known /\ CanLoad
    /\ WriteBit(TRUE) /\ disk' # "gone"
    /\ LET r == IF row.state = "none" THEN row ELSE [row EXCEPT !.want = TRUE]
       IN IF CanEnable(r) THEN row' = BeginEnabling(r) /\ StartLoad
          ELSE row' = r /\ UNCHANGED <<op, begun>>
    /\ Counted
    /\ UNCHANGED <<transport, edits, dirty, seen, known, tools, handle, client, listed, reapQ, call>>

Disable ==
    /\ Free /\ known
    /\ WriteBit(FALSE)
    /\ LET r == [row EXCEPT !.want = FALSE]
       IN \/ /\ row.state = "none"
             /\ row' = Upsert(FALSE) /\ UNCHANGED <<op, begun>>
          \/ /\ CanDisable(r)
             /\ row' = BeginDisabling(r) /\ StartTeardown("off", TRUE)
          \/ /\ row.state # "none" /\ ~CanDisable(r)
             /\ row' = r /\ UNCHANGED <<op, begun>>
    /\ Counted
    /\ UNCHANGED <<transport, edits, dirty, seen, known, tools, handle, client, listed, reapQ, call>>

\* reload reads the row, then acts on what it read.
Reload ==
    /\ Free /\ known /\ disk # "gone" /\ CanLoad /\ row.state \in {"Enabled", "Failed"}
    /\ op' = [Idle EXCEPT !.pc = "reload", !.snap = row.state]
    /\ UNCHANGED <<transport, file, ledger, handle, begun, client, listed, reapQ, call>>

ReloadAct ==
    /\ op.pc = "reload"
    /\ \/ /\ op.snap = "Enabled" /\ CanDisable(row)
          /\ row' = BeginDisabling(row) /\ StartTeardown("again", TRUE)
       \/ /\ op.snap = "Failed" /\ CanEnable(row)
          /\ row' = BeginEnabling(row) /\ StartLoad
       \* The row recovered under the snapshot: E0 is refused.
       \/ /\ op.snap = "Failed" /\ ~CanEnable(row)
          /\ op' = Idle /\ UNCHANGED <<row, begun>>
    /\ UNCHANGED <<transport, file, records, tools, handle, client, listed, reapQ, call>>

\* remove_server: only a server that is off.
Remove ==
    /\ Free /\ known /\ row.state \in {"none", "Disabled"} /\ disk # "gone"
    /\ disk' = "gone"
    /\ op' = IF row.state = "none" THEN op ELSE [Idle EXCEPT !.pc = "drop", !.snap = row.state]
    /\ UNCHANGED <<transport, edits, dirty, seen, known, ledger, handle, begun, client, listed, reapQ, call>>

-----------------------------------------------------------------------------
(* Teardown and load, the caller holding the mutex.                        *)

Forget(ts) == reg' = [t \in Tools |-> IF t \in ts THEN 0 ELSE reg[t]]

\* T1: the names leave the registry.
T1 ==
    /\ op.pc = "t1"
    /\ Forget(names)
    /\ op' = [op EXCEPT !.pc = IF op.drain THEN "t3" ELSE "t4"]
    /\ UNCHANGED <<transport, file, row, records, names, flagged, handle, begun, client, listed, reapQ, call>>

\* The calls the row's counter counts.
InFlight == {c \in Calls : call[c].pc # "idle" /\ call[c].born = row.born}

\* T3: the drain ends with the calls or with its timer.
T3 ==
    /\ op.pc = "t3"
    /\ \E clean \in BOOLEAN :
        /\ clean => InFlight = {}
        /\ op' = [op EXCEPT !.pc = "t4", !.drained = clean]
    /\ UNCHANGED <<transport, file, ledger, handle, begun, client, listed, reapQ, call>>

\* T4 asks the map, never the state.
T4 ==
    /\ op.pc = "t4"
    /\ op' = [op EXCEPT !.pc = IF handle = 0 THEN "then" ELSE "seal", !.down = handle]
    /\ UNCHANGED <<transport, file, ledger, handle, begun, client, listed, reapQ, call>>

\* disconnect, in its two halves: the seal, then the service lock.
Seal ==
    /\ op.pc = "seal"
    /\ client' = [client EXCEPT ![op.down].sealed = TRUE]
    /\ op' = [op EXCEPT !.pc = "take"]
    /\ UNCHANGED <<transport, file, ledger, handle, begun, listed, reapQ, call>>

\* T4 waits for the close, or detaches it, and only then removes the handle.
Take ==
    /\ op.pc = "take"
    /\ client' = [client EXCEPT ![op.down].svc = "none", ![op.down].conn = "Disconnected"]
    /\ handle' = IF handle = op.down THEN 0 ELSE handle
    /\ op' = [op EXCEPT !.pc = "then"]
    /\ UNCHANGED <<transport, file, ledger, begun, listed, reapQ, call>>

\* What the operation does once the old load is down.
Then ==
    /\ op.pc = "then"
    /\ \/ /\ op.then = "off"
          /\ row' = Commit(row, "Disabled", "-") /\ op' = Idle
          /\ UNCHANGED <<names, flagged, begun, handle, known>>
       \/ /\ op.then = "again"
          /\ row' = BeginEnabling(row) /\ StartLoad
          /\ UNCHANGED <<names, flagged, handle, known>>
       \/ /\ op.then = "gone"
          /\ row' = NoRow /\ names' = {} /\ flagged' = {} /\ handle' = 0 /\ known' = FALSE /\ op' = Idle
          /\ UNCHANGED begun
       \/ /\ op.then = "reaped" /\ op' = Idle
          /\ UNCHANGED <<row, names, flagged, begun, handle, known>>
       \/ /\ op.then = "build" /\ op' = [op EXCEPT !.pc = "connect"]
          /\ UNCHANGED <<row, names, flagged, begun, handle, known>>
       \/ /\ op.then = "failed"
          /\ row' = Commit(row, "Failed", "bringup") /\ op' = Idle
          /\ UNCHANGED <<names, flagged, begun, handle, known>>
    /\ UNCHANGED <<transport, disk, edits, dirty, seen, records, reg, client, listed, reapQ, call>>

\* E-PRE: the residue of an earlier load comes down first, without a drain.
EPre ==
    /\ op.pc = "epre"
    /\ op' = [op EXCEPT !.pc = IF handle = 0 THEN "connect" ELSE "t1"]
    /\ UNCHANGED <<transport, file, ledger, handle, begun, client, listed, reapQ, call>>

\* E2: a client is made, or bring-up fails with nothing built.
Connect ==
    /\ op.pc = "connect"
    /\ \/ /\ client' = [client EXCEPT ![op.new] = Client(row.gen)]
          /\ op' = [op EXCEPT !.pc = "list"]
          /\ UNCHANGED row
       \/ /\ row' = Commit(row, "Failed", "bringup") /\ op' = Idle
          /\ UNCHANGED client
    /\ UNCHANGED <<transport, file, records, tools, handle, begun, listed, reapQ, call>>

\* E3 and E4: the list is fetched and published under the load's generation.
Publish(ts) ==
    /\ op.pc = "list" /\ Live(op.new)
    /\ reg' = [t \in Tools |-> IF t \in ts THEN op.new ELSE reg[t]]
    /\ client' = [client EXCEPT ![op.new].pub = ts]
    /\ op' = [op EXCEPT !.pc = "commit"]
    /\ UNCHANGED <<transport, file, row, records, names, flagged, handle, begun, listed, reapQ, call>>

\* E-FAIL and E4b: a fetch or a registration that fails takes the names back
\* and the client down.
PublishFails ==
    /\ op.pc = "list"
    /\ op' = [op EXCEPT !.pc = "seal", !.then = "failed", !.down = op.new]
    /\ UNCHANGED <<transport, file, ledger, handle, begun, client, listed, reapQ, call>>

\* E5.
Commit5 ==
    /\ op.pc = "commit"
    /\ handle' = op.new
    /\ names' = client[op.new].pub /\ flagged' = {}
    /\ row' = Commit(row, "Enabled", "-")
    /\ op' = Idle
    /\ UNCHANGED <<transport, file, records, reg, begun, client, listed, reapQ, call>>

\* Mutant of Reap: any message is good for the row of today.
ReapAny(g) ==
    /\ Free /\ g \in reapQ
    /\ reapQ' = reapQ \ {g}
    /\ op' = [Idle EXCEPT !.pc = "t1", !.then = "reaped"]
    /\ UNCHANGED <<transport, file, ledger, handle, begun, client, listed, call>>
\* The reaper: only a row that is still Failed{Crashed} at the message's
\* generation, and never a state write.
Reap(g) ==
    /\ Free /\ g \in reapQ
    /\ reapQ' = reapQ \ {g}
    /\ op' = IF row.state = "Failed" /\ row.reason = "Crashed" /\ row.gen = g
             THEN [Idle EXCEPT !.pc = "t1", !.then = "reaped"] ELSE op
    /\ UNCHANGED <<transport, file, ledger, handle, begun, client, listed, call>>

-----------------------------------------------------------------------------
(* The server changes its own tool set.                                    *)

\* The fetch, outside the mutex.
Fetch(l, ts) ==
    /\ Live(l) /\ listed = NoList
    /\ listed' = [load |-> l, names |-> ts]
    /\ UNCHANGED <<transport, file, ledger, handle, begun, client, reapQ, op, call>>

\* A fetch that fails keeps the tools, but not a dead client under the row.
FetchFails(l) ==
    /\ client[l].made
    /\ \/ client[l].conn = "Failed" /\ Fails(l, "Crashed")
       \/ transport = "http" /\ Live(l) /\ Fails(l, "NeedsAuthorization")
    /\ UNCHANGED <<transport, file, records, tools, handle, begun, client, listed, op, call>>

Current(l) == row.state = "Enabled" /\ row.gen = client[l].gen

\* The mutex, the re-check, and the difference against the live subset.
Refresh ==
    LET l == listed.load IN
    /\ Free /\ listed # NoList
    /\ listed' = NoList
    /\ IF Current(l)
       THEN LET before == names \ flagged
                removed == before \ listed.names
                added == listed.names \ before
            IN /\ reg' = [t \in Tools |-> IF t \in removed THEN 0 ELSE IF t \in added THEN l ELSE reg[t]]
               /\ client' = [client EXCEPT ![l].pub = @ \cup added]
               /\ flagged' = (flagged \cup removed) \ added
               /\ names' = listed.names \cup flagged'
       ELSE UNCHANGED <<client, tools>>
    /\ UNCHANGED <<transport, file, row, records, handle, begun, reapQ, op, call>>

-----------------------------------------------------------------------------
(* A call: the gate, the pre-send reconnect, the request.                  *)

\* admit, on an entry of the live registry or of a copy some run still holds;
\* a refusal changes nothing.  Without a record the gate is open.
Admit(c, t, l) ==
    /\ call[c].pc = "idle" /\ t \in client[l].pub
    /\ row.state # "none" => Serves(row) /\ row.gen = client[l].gen /\ t \notin flagged
    /\ call' = [call EXCEPT ![c] = [pc |-> "admitted", load |-> l, tool |-> t, born |-> row.born]]
    /\ UNCHANGED <<transport, file, ledger, handle, begun, client, listed, reapQ, op>>

Load(c) == call[c].load
Goto(c, p) == call' = [call EXCEPT ![c].pc = p]
End(c) == call' = [call EXCEPT ![c] = NoCall]

\* ensure_connected: a live service needs nothing.
Send(c) ==
    /\ call[c].pc = "admitted" /\ Live(Load(c))
    /\ Goto(c, "sent")
    /\ UNCHANGED <<transport, file, ledger, handle, begun, client, listed, reapQ, op>>

\* The reconnect lock of a client.
Reconnecting == {"closing", "backoff", "handshake", "announce"}
LockFree(l) == \A c \in Calls : call[c].load = l => call[c].pc \notin Reconnecting

Exhausted(l) == client[l].tries + 1 > MaxAttempts

\* reconnect: refused, exhausted, or the old service taken out, to be closed.
Reconnect(c) ==
    LET l == Load(c) IN
    /\ call[c].pc = "admitted" /\ ~Live(l) /\ LockFree(l)
    /\ \/ /\ client[l].sealed \/ client[l].conn \in {"Disconnected", "Failed"}
          /\ End(c) /\ UNCHANGED client
       \/ /\ ~client[l].sealed /\ client[l].conn \notin {"Disconnected", "Failed"}
          /\ IF Exhausted(l)
             THEN /\ client' = [client EXCEPT ![l].conn = "Failed"]
                  /\ Goto(c, "exhausted")
             ELSE /\ client' = [client EXCEPT ![l].tries = @ + 1, ![l].svc = "none"]
                  /\ Goto(c, "closing")
    /\ UNCHANGED <<transport, file, ledger, handle, begun, listed, reapQ, op>>

\* The old service is closed, within its bound: the state is written, whatever
\* became of the client meanwhile, and the backoff begins.
Closed(c) ==
    /\ call[c].pc = "closing"
    /\ client' = [client EXCEPT ![Load(c)].conn = "Reconnecting"]
    /\ Goto(c, "backoff")
    /\ UNCHANGED <<transport, file, ledger, handle, begun, listed, reapQ, op>>

\* The backoff is over: do_handshake starts a process.
Handshake(c) ==
    /\ call[c].pc = "backoff"
    /\ client' = [client EXCEPT ![Load(c)].spawned = TRUE]
    /\ Goto(c, "handshake")
    /\ UNCHANGED <<transport, file, ledger, handle, begun, listed, reapQ, op>>

\* Mutant of Install: the seal is not read under the service lock.
InstallUnsealed(c) ==
    LET l == Load(c) IN
    /\ call[c].pc = "handshake"
    /\ client' = [client EXCEPT ![l].spawned = FALSE, ![l].svc = "live", ![l].conn = "Connected"]
    /\ Goto(c, "announce")
    /\ UNCHANGED <<transport, file, ledger, handle, begun, listed, reapQ, op>>
\* install_service: a sealed client closes what it was handed.
Install(c) ==
    LET l == Load(c) IN
    /\ call[c].pc = "handshake"
    /\ IF client[l].sealed
       THEN /\ client' = [client EXCEPT ![l].spawned = FALSE]
            /\ End(c)
       ELSE /\ client' = [client EXCEPT ![l].spawned = FALSE, ![l].svc = "live", ![l].conn = "Connected"]
            /\ Goto(c, "announce")
    /\ UNCHANGED <<transport, file, ledger, handle, begun, listed, reapQ, op>>

\* The Reconnected event reaches the ledger.
Announce(c) ==
    /\ call[c].pc = "announce"
    /\ row' = MarkRecovered(row, client[Load(c)].gen)
    /\ Goto(c, "sent")
    /\ UNCHANGED <<transport, file, records, tools, handle, begun, client, listed, reapQ, op>>

\* The deadline, a dropped run, a failed handshake or a plain error: the call
\* ends, and a process it was starting is killed.
GiveUp(c) ==
    /\ call[c].pc \in {"admitted", "closing", "backoff", "handshake", "sent"}
    /\ client' = IF call[c].pc = "handshake"
                 THEN [client EXCEPT ![Load(c)].spawned = FALSE, ![Load(c)].stray = (transport = "stdio")] ELSE client
    /\ End(c)
    /\ UNCHANGED <<transport, file, ledger, handle, begun, listed, reapQ, op>>

\* An answer; only this resets the attempts.
Answer(c) ==
    /\ call[c].pc = "sent" /\ Live(Load(c))
    /\ client' = [client EXCEPT ![Load(c)].tries = 0]
    /\ End(c)
    /\ UNCHANGED <<transport, file, ledger, handle, begun, listed, reapQ, op>>

Unauthorized(c) ==
    /\ call[c].pc \in {"handshake", "sent"} /\ transport = "http"
    /\ client' = [client EXCEPT ![Load(c)].spawned = FALSE]
    /\ Goto(c, "unauthorized")
    /\ UNCHANGED <<transport, file, ledger, handle, begun, listed, reapQ, op>>

\* dispatch: a terminal error marks the row, and the call returns.
Verdict(c) ==
    /\ \/ call[c].pc = "exhausted" /\ Fails(Load(c), "Crashed")
       \/ call[c].pc = "unauthorized" /\ Fails(Load(c), "NeedsAuthorization")
    /\ End(c)
    /\ UNCHANGED <<transport, file, records, tools, handle, begun, client, listed, op>>

-----------------------------------------------------------------------------
(* Processes.                                                              *)

\* The server goes away by itself.  A child's exit reaches the ledger before
\* any call can find the transport closed, unless the client is sealed; an
\* http session ends without a word.
Exit(l) ==
    /\ Live(l)
    /\ client' = [client EXCEPT ![l].svc = "dead"]
    /\ row' = IF transport = "stdio" /\ ~client[l].sealed THEN MarkExited(row, client[l].gen) ELSE row
    /\ UNCHANGED <<transport, file, records, tools, handle, begun, listed, reapQ, op, call>>

\* The end of a process that was killed with the handshake that had started
\* it: an exit like any other.
Ended(l) ==
    /\ client[l].stray
    /\ client' = [client EXCEPT ![l].stray = FALSE]
    /\ row' = IF client[l].sealed THEN row ELSE MarkExited(row, client[l].gen)
    /\ UNCHANGED <<transport, file, records, tools, handle, begun, listed, reapQ, op, call>>

-----------------------------------------------------------------------------
\* The step of the operation that holds the mutex.
OpStep ==
    \/ \E changed \in BOOLEAN : ReconcileAct(changed)
    \/ DropAct \/ ReloadAct
    \/ T1 \/ T3 \/ T4 \/ Seal \/ Take \/ Then
    \/ EPre \/ Connect \/ PublishFails \/ Commit5
    \/ \E ts \in SUBSET Tools : Publish(ts)

CallStep(c) ==
    \/ Send(c) \/ Reconnect(c) \/ Closed(c) \/ Handshake(c) \/ Install(c) \/ Announce(c)
    \/ GiveUp(c) \/ Answer(c) \/ Unauthorized(c) \/ Verdict(c)

Next ==
    \/ \E d \in {"on", "off", "gone"} : Edit(d)
    \/ ReadDeclaration \/ Reconcile
    \/ Enable \/ Disable \/ Reload \/ Remove
    \/ OpStep
    \/ \E g \in reapQ : Reap(g)
    \/ Refresh
    \/ \E l \in Loads :
        \/ \E ts \in SUBSET Tools : Fetch(l, ts)
        \/ FetchFails(l) \/ Exit(l) \/ Ended(l)
    \/ \E c \in Calls :
        \/ \E t \in Tools, l \in Loads : Admit(c, t, l)
        \/ CallStep(c)

Spec == Init /\ [][Next]_vars

\* The operation that holds the mutex goes on: every wait under it is bounded.
\* So does a call, by its deadline.  A killed process ends.  The mutex is fair,
\* so a reap that waits for it gets it.
FairSpec ==
    /\ Spec
    /\ WF_vars(OpStep)
    /\ \A c \in Calls : WF_vars(CallStep(c))
    /\ \A l \in Loads : WF_vars(Ended(l))
    /\ \A g \in 1 .. MaxLoads : SF_vars(Reap(g))

-----------------------------------------------------------------------------
(* What it has to keep.                                                    *)

\* Every variable has its type.
TypeOK ==
    /\ transport \in {"stdio", "http"}
    /\ disk \in {"on", "off", "gone"} /\ seen \in {"none", "on", "off", "gone"}
    /\ edits \in 0 .. MaxEdits /\ dirty \in BOOLEAN /\ known \in BOOLEAN /\ records \in 0 .. MaxRecords
    /\ row \in [state : States, reason : Reasons, gen : 0 .. MaxLoads, awaiting : BOOLEAN,
                want : BOOLEAN, born : 0 .. MaxRecords]
    /\ names \subseteq Tools /\ flagged \subseteq names
    /\ reg \in [Tools -> 0 .. MaxLoads] /\ handle \in 0 .. MaxLoads /\ begun \in 0 .. MaxLoads
    /\ client \in [Loads -> [made : BOOLEAN, gen : 0 .. MaxLoads, sealed : BOOLEAN,
            conn : {"Connected", "Reconnecting", "Failed", "Disconnected"},
            svc : {"none", "live", "dead"}, spawned : BOOLEAN, stray : BOOLEAN,
            tries : 0 .. MaxAttempts, pub : SUBSET Tools]]
    /\ listed \in [load : 0 .. MaxLoads, names : SUBSET Tools]
    /\ reapQ \subseteq 1 .. MaxLoads
    /\ op \in [pc : {"idle", "reconcile", "drop", "reload", "epre", "t1", "t3", "t4", "seal", "take",
                     "then", "connect", "list", "commit"},
               snap : States, wants : BOOLEAN, drain : BOOLEAN, drained : BOOLEAN,
               then : {"-", "off", "again", "gone", "reaped", "build", "failed"},
               down : 0 .. MaxLoads, new : 0 .. MaxLoads]
    /\ call \in [Calls -> [pc : {"idle", "admitted", "sent", "exhausted", "unauthorized"} \cup Reconnecting,
                           load : 0 .. MaxLoads, tool : Tools \cup {"-"}, born : 0 .. MaxRecords]]

\* A server that is off, or not declared, has no connection and no client that
\* could make one, also not from a reconnect that was in flight when the
\* switch was flipped (the guarantee the supervisor exists for).
NothingBehindOff ==
    Free /\ row.state \in {"none", "Disabled"} =>
        \A l \in Loads : client[l].made => client[l].sealed /\ client[l].svc = "none"

\* A row that serves has its own load behind it: a handle, not sealed, of the
\* row's generation, and the registry holds that load's live names and no
\* other, whatever late reap, refresh or verdict of an earlier load came by.
ServingIsWhole ==
    Free /\ Serves(row) =>
        /\ handle # 0
        /\ client[handle].gen = row.gen /\ ~client[handle].sealed
        /\ \A t \in Tools : reg[t] = IF t \in names \ flagged THEN handle ELSE 0

\* There are never two clients of the server that could both run a process.
OneOpenClient ==
    Cardinality({l \in Loads : client[l].made /\ ~client[l].sealed}) <= 1

\* A client that has used up its reconnects is not left under a row that
\* serves: the call that found out is about to say so.
DeadClientNoticed ==
    \A l \in Loads :
        client[l].made /\ client[l].conn = "Failed" /\ Serves(row) /\ row.gen = client[l].gen =>
            \E c \in Calls : call[c].pc = "exhausted" /\ call[c].load = l

\* A drain that ended with its calls cuts off none: from T0 on nothing more is
\* admitted to the load that goes down.
DrainedIsQuiet ==
    op.pc \in {"t4", "seal", "take"} /\ op.drained => \A c \in Calls : call[c].pc # "idle" => call[c].load # handle

\* Every operation gives the mutex back.
MutexReleased == ~Free ~> Free

\* Whatever a sealed client still runs comes to an end.
SealedEnds == \A l \in Loads : [](client[l].sealed => <>~HasChild(l))

\* A crash that ended the reconnects is cleared away: the reaper, or whoever
\* took the mutex first, takes the handle.
CrashIsReaped ==
    (row.state = "Failed" /\ row.reason = "Crashed" /\ ~row.awaiting /\ handle # 0) ~>
        ~(row.state = "Failed" /\ row.reason = "Crashed" /\ ~row.awaiting /\ handle # 0)

\* The switch is clean: what is off has nothing running and nothing that could
\* start, and what was drained had no call left (disable, teardown T0-T6).
SwitchIsClean == NothingBehindOff /\ DrainedIsQuiet

\* One load at a time: the serving row, its handle, the registry's names and
\* the one client that may hold a process are of the same load, and a client
\* with no reconnects left does not stay under a serving row unnoticed.
OneLoad == TypeOK /\ ServingIsWhole /\ OneOpenClient /\ DeadClientNoticed

\* What has failed is cleared away: the child of a sealed client ends and a
\* crash's residue is reaped (disconnect, the reaper).
ClearedAway == SealedEnds /\ CrashIsReaped

-----------------------------------------------------------------------------
(* Statements of the code's comments that it does not keep.                *)

\* The file and the row agree once no edit is waiting: "the file order and the
\* transition order can never cross" (mcp.rs:20).  A reconcile reads the file
\* before it has the mutex, and a disable in between is undone.
FileAndRowAgree ==
    Free /\ ~dirty /\ seen = "none" /\ row.state # "none" /\ disk # "gone" => (row.want <=> disk = "on")

\* A call is admitted only to the load that is up: a handle from before is
\* "refused as stale instead of talking to a dead transport"
\* (docs/tools/DESIGN.md:173).  Generations restart with a new record.
AdmittedIsCurrent ==
    [][\A c \in Calls : call[c].pc = "idle" /\ call'[c].pc = "admitted" =>
          row.state = "none" \/ call'[c].load = handle]_vars

\* "The only states that reach here holding anything" are Failed{Crashed}
\* (mcp.rs:1093).  A refused credential marks the row failed and the reaper
\* leaves it alone.
OnlyCrashedHolds ==
    Free /\ row.state = "Failed" /\ handle # 0 => row.reason = "Crashed"

\* A row that waits for "the next call's reconnect" (ledger.rs:276) has one to
\* wait for.  The exit of a process that was killed in a handshake can be
\* reported after the next handshake has brought the server back.
AwaitingMeansDown ==
    Free /\ row.awaiting /\ (\A c \in Calls : call[c].pc # "announce") => ~Live(handle)
=============================================================================
