------------------------------ MODULE ToolGate ------------------------------
(***************************************************************************)
(* The tool gate: SandboxManager::execute_tool of                          *)
(* crates/openalpaca_core/src/security/sandbox/mod.rs, with what it shares *)
(* between the calls of a sandbox: the ConfirmationBroker's pending map    *)
(* and its oneshot channels, the ApprovalCache and the ToolCircuitBreaker. *)
(*                                                                         *)
(* A call is a future that can be dropped at every await (a cancelled run  *)
(* drops its batch), so each await is a value of at and Drop may take any  *)
(* of them.  What runs between two awaits is one action.  Answers come     *)
(* from client threads: Respond interleaves with everything, also with the *)
(* instants in which a waiter has lost its receiver and not yet withdrawn  *)
(* its card.                                                               *)
(***************************************************************************)
EXTENDS Naturals, Sequences, FiniteSets

CONSTANTS
    Calls,              \* tool calls; a call raises at most one card, so a
                        \* request id (a fresh uuid) is named by its call
    Tools,              \* registered tools
    Args,               \* canonical argument hashes
    Admitted,           \* tools the policy's deny and allow lists let through
    Destructive,        \* tools annotated destructive_hint
    PerCall,            \* tools whose approval is good for one call
    Exempt,             \* tools flagged exempt_from_timeout
    FileWrite, FileEdit,\* the pair of effective_confirmation_set
    Mixes,              \* what the calls ask for, and under which policy
    FailureThreshold    \* consecutive failures that open a breaker

\* Who can answer: a person; the owner's auto_approve; nobody, because the
\* client said so; nobody, because there is no broker.
Modes == {"ask", "auto", "unattended", "nobroker"}
Invocations == [tool : Tools, args : Args]
Policies == [require : SUBSET Tools, mode : Modes]

ASSUME GateAssumption ==
    /\ Admitted \subseteq Tools /\ Destructive \subseteq Tools
    /\ PerCall \subseteq Tools /\ Exempt \subseteq Tools
    /\ Mixes \subseteq [call : [Calls -> Invocations], policy : Policies]
    /\ FailureThreshold \in Nat \ {0}

VARIABLES
    call,       \* the tool and the arguments of each call
    policy,     \* the sandbox's policy: require list and mode
    at,         \* where each call's future is suspended
    ran,        \* calls that reached their backend
    pending,    \* the broker's map: cards that can be answered
    reply,      \* the oneshot of each card: the answer sent, and so
                \* acknowledged to the client with Ok, or NoAnswer
    raised,     \* cards published on the bus
    announced,  \* per card, the resolutions published on the bus
    toolOk,     \* ApprovalCache.tool_approvals
    argsOk,     \* ApprovalCache.args_approvals
    breaker,    \* per tool: closed, open, ripe (open, timeout elapsed), half
    fails,      \* per tool: consecutive_failures
    probe       \* calls admitted by the Open -> HalfOpen step

cards == <<pending, reply, raised, announced>>
cache == <<toolOk, argsOk>>
circuit == <<breaker, fails, probe>>
vars == <<call, policy, at, ran, cards, cache, circuit>>

NoAnswer == [approved |-> FALSE, scope |-> "unsent"]
Scopes == {"TheseArgs", "EntireTool", "missing"}
\* A scope is only read from a yes.
Answers == [approved : {TRUE}, scope : Scopes] \cup {[approved |-> FALSE, scope |-> "missing"]}
Outcomes == {"approved", "denied", "timed_out", "cancelled"}

\* A call is waiting on its card while its receiver is alive: `elapsing` is
\* the instant inside one poll of tokio's timeout between the receiver's poll,
\* which found nothing, and the timer's.
Listening == {"waiting", "elapsing"}
\* The receiver is gone and the card not yet withdrawn.
Deaf == {"expired", "dropping"}
Suspended == {"preview", "waiting", "denying", "running"}
Stages == {"idle", "done"} \cup Suspended \cup Listening \cup Deaf

Tool(c) == call[c].tool

Init ==
    /\ \E m \in Mixes : call = m.call /\ policy = m.policy
    /\ at = [c \in Calls |-> "idle"]
    /\ ran = {}
    /\ pending = {}
    /\ reply = [c \in Calls |-> NoAnswer]
    /\ raised = {}
    /\ announced = [c \in Calls |-> <<>>]
    /\ toolOk = {} /\ argsOk = {}
    /\ breaker = [t \in Tools |-> "closed"]
    /\ fails = [t \in Tools |-> 0]
    /\ probe = {}

Dispatch(c) == at' = [at EXCEPT ![c] = "running"] /\ ran' = ran \cup {c}
Finish(c) == at' = [at EXCEPT ![c] = "done"] /\ UNCHANGED ran

(* ---------------------------- the breaker -------------------------------*)

\* ToolCircuitBreaker::check, one critical section: an admitted call goes on
\* to the dispatch, a refused one ends blocked.  Only the step out of an
\* elapsed Open makes the call the probe.
Check(c) ==
    \/ /\ breaker[Tool(c)] = "closed"
       /\ Dispatch(c)
       /\ UNCHANGED circuit
    \/ /\ breaker[Tool(c)] = "ripe"
       /\ breaker' = [breaker EXCEPT ![Tool(c)] = "half"]
       /\ probe' = probe \cup {c}
       /\ Dispatch(c)
       /\ UNCHANGED fails
    \/ /\ breaker[Tool(c)] \in {"open", "half"}
       /\ Finish(c)
       /\ UNCHANGED circuit

\* ToolCircuitBreaker::record_success.
RecordSuccess(t) ==
    /\ breaker' = [breaker EXCEPT ![t] = "closed"]
    /\ fails' = [fails EXCEPT ![t] = 0]

\* ToolCircuitBreaker::record_failure_for_task.  An Open circuit only counts;
\* it keeps its opened_at, so a ripe one stays ripe.
RecordFailure(t) ==
    /\ fails' = [fails EXCEPT ![t] = @ + 1]
    /\ breaker' = [breaker EXCEPT ![t] =
            IF @ = "half" \/ (@ = "closed" /\ fails[t] + 1 >= FailureThreshold)
            THEN "open" ELSE @]

\* opened_at.elapsed() reaches reset_timeout.
Elapse(t) ==
    /\ breaker[t] = "open"
    /\ breaker' = [breaker EXCEPT ![t] = "ripe"]
    /\ UNCHANGED <<call, policy, at, ran, cards, cache, fails, probe>>

(* ------------------------- who has to be asked --------------------------*)

\* Mutant of ConfirmationSet: an explicit list is taken as written.
ConfirmationSetAsWritten ==
    IF policy.require # {} THEN policy.require ELSE Destructive

\* effective_confirmation_set: an explicit list wins over the annotations and
\* a list that names file_write asks for file_edit too.
ConfirmationSet ==
    IF policy.require # {}
    THEN policy.require \cup (IF FileWrite \in policy.require THEN {FileEdit} ELSE {})
    ELSE Destructive

\* ApprovalCache::is_approved.
IsApproved(t, a) == t \in toolOk \/ <<t, a>> \in argsOk

\* Mutant of Record: a missing scope is read as the whole tool.
RecordWide(t, a, scope) ==
    IF scope \in {"EntireTool", "missing"}
    THEN toolOk' = toolOk \cup {t} /\ UNCHANGED argsOk
    ELSE argsOk' = argsOk \cup {<<t, a>>} /\ UNCHANGED toolOk

\* ApprovalCache::record; a missing scope was read as TheseArgs.
Record(t, a, scope) ==
    IF scope = "EntireTool"
    THEN toolOk' = toolOk \cup {t} /\ UNCHANGED argsOk
    ELSE argsOk' = argsOk \cup {<<t, a>>} /\ UNCHANGED toolOk

\* Capability check, sanitiser, precheck and the ladder of the confirmation
\* step, up to the first await.  The sanitiser and the precheck may refuse any
\* call; a refusal of any kind before the card announces nothing.
Execute(c) ==
    LET asks == Tool(c) \in PerCall \cup ConfirmationSet
        shared == Tool(c) \notin PerCall    \* cache and auto_approve apply
        excused == shared /\ (IsApproved(Tool(c), call[c].args)
                              \/ policy.mode = "auto")
    IN /\ at[c] = "idle"
       /\ \/ Finish(c) /\ UNCHANGED circuit
          \/ /\ Tool(c) \in Admitted
             /\ ~asks \/ excused
             /\ Check(c)
          \/ /\ Tool(c) \in Admitted
             /\ asks /\ ~excused
             /\ policy.mode \in {"ask", "auto"}
             /\ at' = [at EXCEPT ![c] = "preview"]
             /\ UNCHANGED <<ran, circuit>>
       /\ UNCHANGED <<call, policy, cards, cache>>

\* confirmation_preview returned: it refuses the call, or the card is
\* registered with the broker and then published.
Preview(c) ==
    /\ at[c] = "preview"
    /\ \/ Finish(c) /\ UNCHANGED <<pending, raised>>
       \/ /\ pending' = pending \cup {c}
          /\ raised' = raised \cup {c}
          /\ at' = [at EXCEPT ![c] = "waiting"]
          /\ UNCHANGED ran
    /\ UNCHANGED <<call, policy, reply, announced, cache, circuit>>

(* ----------------------------- the broker -------------------------------*)

\* ConfirmationBroker::respond: the entry is removed and the answer sent; the
\* client hears Ok only if a receiver was there.  A second answer, or one to a
\* withdrawn card, finds no entry and changes nothing.
Respond(c, answer) ==
    /\ c \in pending
    /\ pending' = pending \ {c}
    /\ \/ /\ at[c] \in Listening
          /\ reply' = [reply EXCEPT ![c] = answer]
       \/ /\ at[c] \notin Listening
          /\ UNCHANGED <<reply>>
    /\ UNCHANGED <<call, policy, at, ran, raised, announced, cache, circuit>>

Announce(c, outcome) == announced' = [announced EXCEPT ![c] = Append(@, outcome)]

\* The wait returned an answer: close() announces it; a yes is recorded,
\* unless the tool is per-call, and goes on to the breaker in the same poll;
\* a no enters the tool's denial hook.
AnswerArrives(c) ==
    /\ at[c] = "waiting"
    /\ reply[c] # NoAnswer
    /\ \/ /\ reply[c].approved
          /\ Announce(c, "approved")
          /\ IF Tool(c) \in PerCall THEN UNCHANGED cache
             ELSE Record(Tool(c), call[c].args, reply[c].scope)
          /\ Check(c)
       \/ /\ ~reply[c].approved
          /\ Announce(c, "denied")
          /\ at' = [at EXCEPT ![c] = "denying"]
          /\ UNCHANGED <<ran, cache, circuit>>
    /\ UNCHANGED <<call, policy, pending, reply, raised>>

\* on_confirmation_denied returned.
DenialHook(c) ==
    /\ at[c] = "denying"
    /\ Finish(c)
    /\ UNCHANGED <<call, policy, cards, cache, circuit>>

\* tokio::time::timeout: the receiver is polled and holds nothing ...
TimerPoll(c) ==
    /\ at[c] = "waiting"
    /\ reply[c] = NoAnswer
    /\ at' = [at EXCEPT ![c] = "elapsing"]
    /\ UNCHANGED <<call, policy, ran, cards, cache, circuit>>

\* Mutant of TimerFires: every poll starts the timeout again.
TimerFiresRearmed(c) ==
    /\ at[c] = "elapsing"
    /\ at' = [at EXCEPT ![c] = "waiting"]
    /\ UNCHANGED <<call, policy, ran, cards, cache, circuit>>

\* ... then the timer, which has fired: the receiver is dropped.
TimerFires(c) ==
    /\ at[c] = "elapsing"
    /\ at' = [at EXCEPT ![c] = "expired"]
    /\ UNCHANGED <<call, policy, ran, cards, cache, circuit>>

\* wait's timeout arm, then close(): the card is withdrawn and announced.
Expired(c) ==
    /\ at[c] = "expired"
    /\ pending' = pending \ {c}
    /\ Announce(c, "timed_out")
    /\ Finish(c)
    /\ UNCHANGED <<call, policy, reply, raised, cache, circuit>>

(* -------------------------- cancelled runs ------------------------------*)

\* The run is cancelled and its batch dropped at an await.  A call in its wait
\* first loses the receiver; OpenPrompt's Drop follows.
Drop(c) ==
    /\ at[c] \in Suspended
    /\ IF at[c] = "waiting"
       THEN at' = [at EXCEPT ![c] = "dropping"] /\ UNCHANGED ran
       ELSE Finish(c)
    /\ UNCHANGED <<call, policy, cards, cache, circuit>>

\* Mutant of Withdraw: a dropped wait leaves its entry in the broker.
WithdrawNothing(c) ==
    /\ at[c] = "dropping"
    /\ Announce(c, "cancelled")
    /\ Finish(c)
    /\ UNCHANGED <<call, policy, pending, reply, raised, cache, circuit>>

\* OpenPrompt::drop while still open.
Withdraw(c) ==
    /\ at[c] = "dropping"
    /\ pending' = pending \ {c}
    /\ Announce(c, "cancelled")
    /\ Finish(c)
    /\ UNCHANGED <<call, policy, reply, raised, cache, circuit>>

(* ----------------------------- dispatch ---------------------------------*)

\* The backend returned.  A transient error counts, a permanent one and a
\* withheld capability record nothing at all.
Return(c, how) ==
    /\ at[c] = "running"
    /\ Finish(c)
    /\ CASE how = "ok" -> RecordSuccess(Tool(c))
         [] how = "transient" -> RecordFailure(Tool(c))
         [] OTHER -> UNCHANGED <<breaker, fails>>
    /\ UNCHANGED <<call, policy, cards, cache, probe>>

\* max_tool_runtime_secs ran out.
CutOff(c) ==
    /\ at[c] = "running"
    /\ Tool(c) \notin Exempt
    /\ Finish(c)
    /\ RecordFailure(Tool(c))
    /\ UNCHANGED <<call, policy, cards, cache, probe>>

Settled == (\A c \in Calls : at[c] = "done") /\ UNCHANGED vars

\* What the runtime does for a call once it is started.
Step(c) ==
    \/ Preview(c) \/ AnswerArrives(c) \/ DenialHook(c)
    \/ TimerPoll(c) \/ TimerFires(c) \/ Expired(c) \/ Withdraw(c) \/ CutOff(c)

Next ==
    \/ \E c \in Calls : Execute(c) \/ Step(c) \/ Drop(c)
    \/ \E c \in Calls, how \in {"ok", "permanent", "transient"} : Return(c, how)
    \/ \E c \in Calls, answer \in Answers : Respond(c, answer)
    \/ \E t \in Tools : Elapse(t)
    \/ Settled

Spec == Init /\ [][Next]_vars

\* Started futures are polled and their timers fire.  No fairness for answers,
\* for the backend's return or for starting a call.
FairSpec == Spec /\ \A c \in Calls : WF_vars(Step(c))

-----------------------------------------------------------------------------
TypeOK ==
    /\ call \in [Calls -> Invocations]
    /\ policy \in Policies
    /\ at \in [Calls -> Stages]
    /\ ran \subseteq Calls
    /\ pending \subseteq Calls
    /\ reply \in [Calls -> Answers \cup {NoAnswer}]
    /\ raised \subseteq Calls
    /\ announced \in [Calls -> Seq(Outcomes)]
    /\ toolOk \subseteq Tools
    /\ argsOk \subseteq Tools \X Args
    /\ breaker \in [Tools -> {"closed", "open", "ripe", "half"}]
    /\ fails \in [Tools -> Nat]
    /\ probe \subseteq Calls

\* No ghost cards: an entry of the broker's map always has a call that is
\* still in its wait, however that wait ends - answered, timed out or dropped
\* with a cancelled run.  (OpenPrompt: "GET /v1/chat/confirmations listed the
\* prompt for as long as the daemon lived".)
NoGhostCard == \A c \in pending : at[c] \in Listening \cup Deaf

\* Every exit from the wait is announced, exactly once: a card still in its
\* wait is unannounced, a call that has left it - answered, expired or dropped
\* - has told the clients so.
AnnouncedOnce ==
    \A c \in Calls :
        Len(announced[c]) =
            IF c \in raised /\ at[c] \notin Listening \cup Deaf THEN 1 ELSE 0

\* A card lives exactly as long as the wait behind it: it is listed for nobody
\* once the wait is over, and every way out of it is told to the clients once
\* (OpenPrompt and its Drop, ConfirmationBroker).
CardsEnd == TypeOK /\ NoGhostCard /\ AnnouncedOnce

MustAsk(t) ==
    \/ t \in PerCall
    \/ policy.require = {} /\ t \in Destructive
    \/ t \in policy.require
    \/ t = FileEdit /\ FileWrite \in policy.require

\* The yes given on card d covers call c.
Covers(d, c) ==
    /\ announced[d] = <<"approved">> /\ reply[d].approved
    /\ \/ d = c
       \/ /\ Tool(d) = Tool(c) /\ Tool(c) \notin PerCall
          /\ reply[d].scope = "EntireTool" \/ call[d].args = call[c].args

\* A call that has to be asked about reaches its backend only through a
\* person's yes that covers it: its own, or one given earlier for the same
\* arguments or for the whole tool - and for a per-call tool its own alone,
\* which auto_approve does not replace either.
NeverWithoutYes ==
    \A c \in Calls : c \in ran /\ MustAsk(Tool(c)) =>
        \/ Tool(c) \notin PerCall /\ policy.mode = "auto"
        \/ \E d \in Calls : Covers(d, c)

\* Every call that is started ends, whatever the person and the backend do: a
\* card runs into its timeout and a backend into the runtime limit.  Tools
\* that manage their own timeouts are excepted while they run.
CallComesBack ==
    \A c \in Calls :
        at[c] \notin {"idle", "done"} ~>
            (at[c] = "done" \/ (at[c] = "running" /\ Tool(c) \in Exempt))

\* ToolCircuitBreaker::check says of the half-open state: "a probe call is
\* already in-flight.  Block additional calls until the probe resolves."
ProbeInFlight ==
    \A t \in Tools : breaker[t] = "half" =>
        \E c \in probe : Tool(c) = t /\ at[c] = "running"

\* The module's header: after the timeout "a single probe call is allowed".
SingleProbe ==
    \A t \in Tools : Cardinality({c \in probe : Tool(c) = t /\ at[c] = "running"}) <= 1

\* An answer the broker acknowledged is the one the card is announced with
\* (the connectors have by then said "Tool execution will proceed").
AnswerStands ==
    \A c \in Calls : announced[c] # <<>> /\ reply[c] # NoAnswer =>
        announced[c] = <<IF reply[c].approved THEN "approved" ELSE "denied">>
=============================================================================
