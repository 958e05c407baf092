---------------------------- MODULE LlmRouter ----------------------------
(***************************************************************************)
(* One request on its way to a model: `complete` and `complete_streaming`  *)
(* of the router, the retry loop with its rotation through a key pool, the *)
(* per-key limiter, the one circuit breaker all providers share, the       *)
(* ladder of substitute models and the CLI stand-in behind it.  The owner  *)
(* may switch a provider off or on and replace its keys while requests are *)
(* in flight, and a caller may drop its request at any await.              *)
(*                                                                         *)
(* One step is the code between two awaits that wait for somebody else.    *)
(* The scan of a pool by one `acquire`, whose locks are never contended    *)
(* for long, is one step, and so are the reports that follow an answer.    *)
(* Time is the steps Recover, ProbeAges and CooldownEnds.                  *)
(***************************************************************************)
EXTENDS Naturals, FiniteSets, SequencesExt

CONSTANTS
    Calls,                 \* callers, each with one request at a time
    Providers, Keys, Models,
    KeysOf,                \* a provider's configured keys, in order
    Managed,               \* keys that are not API-compatible
    Primary,               \* keys of priority Primary
    Strategy,              \* "round_robin", "least_recently_used", "primary_fallback"
    NeedsKey,              \* providers whose requires_key() holds
    Cli,                   \* providers with a CLI backend
    Switched,              \* providers the owner switches and re-keys
    ProviderOf,            \* a model's provider in the registry
    Chain,                 \* fallback_chains
    Default,               \* default_model
    Preference,            \* provider_preference_order
    Asks,                  \* the requests a caller makes: a kind and a model
    Demand,                \* a caller's estimated tokens
    Capacity,              \* a TPM bucket's capacity
    GlobalConcurrency, PerKeyConcurrency,
    FailureThreshold,      \* circuit_breaker_threshold
    MaxTransientRetries,   \* max_transient_retries
    MaxRateLimitWaits      \* MAX_RATE_LIMIT_WAITS

ASSUME ConfigAssumption ==
    /\ KeysOf \in [Providers -> Seq(Keys)]
    /\ Managed \subseteq Keys /\ Primary \subseteq Keys
    /\ Strategy \in {"round_robin", "least_recently_used", "primary_fallback"}
    /\ NeedsKey \subseteq Providers /\ Cli \subseteq Providers /\ Switched \subseteq Providers
    /\ ProviderOf \in [Models -> Providers]
    /\ Chain \in [Models -> Seq(Models)]
    /\ Default \in Models /\ Preference \in Seq(Providers)
    /\ Asks \in [Calls -> SUBSET ({"complete", "stream"} \X Models)]
    /\ Demand \in [Calls -> Nat \ {0}]
ASSUME LimitsAssumption ==
    /\ Capacity \in Nat \ {0}
    /\ GlobalConcurrency \in Nat \ {0} /\ PerKeyConcurrency \in Nat \ {0}
    /\ FailureThreshold \in Nat \ {0}
    /\ MaxTransientRetries \in Nat /\ MaxRateLimitWaits \in Nat

VARIABLES
    loaded,      \* the providers map's keys
    pool,        \* each provider's current KeyPool: order of selection, keys cooling down
    circuit,     \* CircuitBreakerInner
    permits,     \* concurrency_limiter
    keyPermits,  \* each limiter's concurrency semaphore
    call         \* each caller's request

vars == <<loaded, pool, circuit, permits, keyPermits, call>>
limits == <<permits, keyPermits>>
owner == <<loaded, pool>>

None == "none"
\* A provider's own name stands for its keyless slot.
Slots == Keys \cup Providers
PcValues == {"idle", "permit", "try", "attempt", "limiter", "calling", "backoff", "cooldown",
             "cli", "stream", "done"}
Errors == {"no_api_keys", "all_refused", "rate_limited", "max_retries", "unroutable"}
Results == Errors \cup {None, "ok", "llm", "no_routable", "all_failed"}

\* `refusals` counts in the code; here it is the slots that were refused.  `smooth`
\* is history: no attempt of the rung met a cooling key, and nobody else has taken a key
\* from its pool, or found it empty, since it began.
IdleCall ==
    [pc |-> "idle", kind |-> None, asked |-> None, model |-> None, ladder |-> <<>>,
     attempt |-> 0, waits |-> 0, refusals |-> {}, other |-> FALSE, slot |-> None,
     old |-> FALSE, first |-> None, result |-> None, smooth |-> TRUE]
----------------------------------------------------------------------------
(* The key pool. *)

Compatible(k) == k \notin Managed

\* The entries of s at the positions in I, in order.
Picked(s, I) ==
    LET f[n \in 0..Len(s)] ==
            IF n = 0 THEN <<>> ELSE IF n \in I THEN Append(f[n - 1], s[n]) ELSE f[n - 1]
    IN f[Len(s)]

\* The entries of s that are in T.
Only(s, T) == Picked(s, {i \in DOMAIN s : s[i] \in T})

\* Every strategy is a queue of keys: round robin turns it by one at each acquire,
\* least recently used sends the key it hands out to the back, and primary/fallback
\* turns the primaries, which stand before the fallbacks.
Fresh(p) ==
    LET api == Only(KeysOf[p], Keys \ Managed) IN
    [order |-> CASE Strategy = "round_robin" -> KeysOf[p]
                 [] Strategy = "least_recently_used" -> api
                 [] OTHER -> Only(api, Primary) \o Only(api, Keys \ Primary),
     cooling |-> {}]

SentBack(s, i) == Append(RemoveAt(s, i), s[i])
Turned(s) == IF s = <<>> THEN s ELSE SentBack(s, 1)

\* Where the keys stand that may be handed out; the first of them is.
Offered(pl) == {i \in DOMAIN pl.order : pl.order[i] \notin pl.cooling /\ Compatible(pl.order[i])}

\* What the order is after an acquire.
Rotated(pl) ==
    LET i == Min(Offered(pl)) IN
    CASE Strategy = "round_robin" -> Turned(pl.order)
      [] Strategy = "least_recently_used" ->
           IF Offered(pl) = {} THEN pl.order ELSE SentBack(pl.order, i)
      [] OTHER -> Turned(Only(pl.order, Primary)) \o Only(pl.order, Keys \ Primary)

AnyCompatible(p) == \E k \in ToSet(KeysOf[p]) : Compatible(k)
----------------------------------------------------------------------------
(* The circuit breaker. *)

\* Mutant of CheckCircuit: the failure's time is never stamped, so the breaker never recovers.
CheckWithoutRecovery(cb) ==
    [cb |-> cb, says |-> IF cb.state = "Closed" THEN "ok" ELSE "Open"]

\* `check`, which may admit a probe: what the breaker becomes, and its answer.
CheckCircuit(cb) ==
    CASE cb.state = "Closed" -> [cb |-> cb, says |-> "ok"]
      [] cb.state = "Open" ->
           IF cb.recovered
           THEN [cb |-> [cb EXCEPT !.state = "HalfOpen", !.probe = TRUE, !.recovered = FALSE],
                 says |-> "ok"]
           ELSE [cb |-> cb, says |-> "Open"]
      [] OTHER ->
           IF cb.probe /\ ~cb.stale THEN [cb |-> cb, says |-> "HalfOpen"]
           ELSE [cb |-> [cb EXCEPT !.probe = TRUE, !.stale = FALSE], says |-> "ok"]

ClosedCircuit ==
    [state |-> "Closed", fails |-> 0, recovered |-> FALSE, probe |-> FALSE, stale |-> FALSE]

ReportSuccess(cb) == ClosedCircuit

\* Mutant of ReportFailure: the probe's failure opens the breaker and leaves the probe slot taken.
ReportFailureKeepsProbe(cb) ==
    [cb EXCEPT !.fails = FailureThreshold, !.recovered = FALSE, !.state = "Open"]

\* The count is only compared with the threshold, so it is kept up to that.
ReportFailure(cb) ==
    LET n == IF cb.fails < FailureThreshold THEN cb.fails + 1 ELSE cb.fails
        failed == [cb EXCEPT !.fails = n, !.recovered = FALSE]
    IN CASE cb.state = "Closed" ->
              [failed EXCEPT !.state = IF n >= FailureThreshold THEN "Open" ELSE "Closed"]
         [] cb.state = "HalfOpen" ->
              [failed EXCEPT !.state = "Open", !.probe = FALSE, !.stale = FALSE]
         [] OTHER -> failed
----------------------------------------------------------------------------
(* Which model a request reaches. *)

Routable(m) == ProviderOf[m] \in loaded

\* The configured default, or the first model of the first provider that has one.
EffectiveDefault ==
    IF Routable(Default) THEN Default
    ELSE LET offering == {i \in DOMAIN Preference :
                             \E m \in Models : ProviderOf[m] = Preference[i] /\ Routable(m)}
         IN IF offering = {} THEN None
            ELSE CHOOSE m \in Models : ProviderOf[m] = Preference[Min(offering)]

SubstitutionLadder(m) ==
    LET all == Chain[m] \o Chain[Default]
               \o (IF EffectiveDefault = None THEN <<>> ELSE <<EffectiveDefault>>)
    IN Picked(all, {i \in DOMAIN all : all[i] # m /\ \A j \in 1..i - 1 : all[j] # all[i]})

\* The rungs that can be served.
Rungs(ladder) == {i \in DOMAIN ladder : Routable(ladder[i])}
FirstRoutable(ladder) == IF Rungs(ladder) = {} THEN None ELSE ladder[Min(Rungs(ladder))]

ResolveRoutable(m) == IF Routable(m) THEN m ELSE FirstRoutable(SubstitutionLadder(m))
----------------------------------------------------------------------------
(* A call's own steps. *)

Provider(c) == ProviderOf[call[c].model]
Keyless(p) == KeysOf[p] = <<>> /\ p \notin NeedsKey
MaxOf(a, b) == IF a > b THEN a ELSE b
\* Mutant of MaxAttempts: one attempt short of the keys.
OneAttemptShort(c) == MaxOf(Len(KeysOf[Provider(c)]) - 1, 1)

MaxAttempts(c) ==
    LET n == Len(KeysOf[Provider(c)]) IN
    CASE call[c].kind = "complete" -> MaxOf(n, MaxTransientRetries)
      [] call[c].kind = "stream" /\ Keyless(Provider(c)) -> 1
      [] OTHER -> IF n < 3 THEN n ELSE 3

At(c, where) == call[c].pc = where
Going(c, where) == call' = [call EXCEPT ![c].pc = where]

\* The call returns; its caller sees the result.
Finished(c, res) ==
    [IdleCall EXCEPT !.pc = "done", !.kind = call[c].kind, !.first = call[c].first, !.result = res]

\* Mutant of Exhausted: the reason the ladder was entered for is forgotten.
ExhaustedForgets(first) == IF EffectiveDefault = None THEN "no_routable" ELSE "all_failed"

\* try_fallback past its last rung, and what `complete` makes of it.
Exhausted(first) ==
    CASE EffectiveDefault = None -> "no_routable"
      [] EffectiveDefault # None /\ first \in {"no_api_keys", "all_refused"} -> first
      [] OTHER -> "all_failed"

\* try_fallback's next rung that can be served; past them the CLI stand-in of a provider
\* that is loaded; past that the end.
Fallback(c, first, ladder) ==
    LET m == FirstRoutable(ladder)
        p == ProviderOf[call[c].asked]
        rung == [IdleCall EXCEPT !.kind = "complete", !.asked = call[c].asked, !.first = first]
    IN CASE m # None ->
              [rung EXCEPT !.pc = "try", !.model = m,
                           !.ladder = SubSeq(ladder, Min(Rungs(ladder)) + 1, Len(ladder))]
         [] m = None /\ p \in loaded \cap Cli -> [rung EXCEPT !.pc = "cli", !.model = call[c].asked]
         [] OTHER -> [Finished(c, Exhausted(first)) EXCEPT !.first = first]

\* What `complete` and `try_fallback` make of a rung's outcome; a stream has one rung.
Left(c, res) ==
    CASE call[c].kind = "stream" \/ res = "ok" -> Finished(c, res)
      [] call[c].kind = "complete" /\ res # "ok" /\ call[c].first = None ->
           IF res = "llm" THEN Finished(c, res)
           ELSE Fallback(c, res, SubstitutionLadder(call[c].asked))
      [] OTHER -> Fallback(c, call[c].first, call[c].ladder)

\* A call that has returned has given its global permit back.
LeaveRungOf(calls, c, res) ==
    /\ call' = [calls EXCEPT ![c] = Left(c, res)]
    /\ permits' = IF Left(c, res).pc = "done" THEN permits + 1 ELSE permits
LeaveRung(c, res) == LeaveRungOf(call, c, res)

\* The limiter's permit is held over the call and over the backoff after it.
HoldsKeyPermit(c) == call[c].kind = "complete" /\ call[c].pc \in {"calling", "backoff"}
KeyPermitBack(c) ==
    keyPermits' = IF HoldsKeyPermit(c) THEN [keyPermits EXCEPT ![call[c].slot] = @ + 1] ELSE keyPermits

\* `complete` resolves before it waits for the permit, `complete_streaming` after.
Begin(c, ask) ==
    /\ At(c, "idle")
    /\ LET m == IF ask[1] = "complete" THEN ResolveRoutable(ask[2]) ELSE ask[2] IN
       call' = [call EXCEPT ![c] =
                  IF m = None THEN [IdleCall EXCEPT !.pc = "done", !.result = "no_routable"]
                  ELSE [IdleCall EXCEPT !.pc = "permit", !.kind = ask[1], !.asked = m, !.model = m]]
    /\ UNCHANGED <<owner, circuit, limits>>

AcquirePermit(c) ==
    /\ At(c, "permit") /\ permits > 0
    /\ LET m == IF call[c].kind = "stream" THEN ResolveRoutable(call[c].asked) ELSE call[c].asked IN
       \/ /\ m # None
          /\ call' = [call EXCEPT ![c].pc = "try", ![c].model = m, ![c].asked = m]
          /\ permits' = permits - 1
       \/ /\ m = None
          /\ call' = [call EXCEPT ![c] = Finished(c, "no_routable")]
          /\ UNCHANGED permits
    /\ UNCHANGED <<owner, circuit, keyPermits>>

\* execute_with_retry turns away on Err(Open) alone: Err(HalfOpen) goes on.
TurnedAway(says) == says = "Open"

\* try_model: the entry is taken out of the map, and a non-streaming call asks the breaker.
TryModel(c) ==
    LET check == CheckCircuit(circuit)
        asks == call[c].kind = "complete" /\ Provider(c) \in loaded
    IN
    /\ At(c, "try")
    /\ circuit' = IF asks THEN check.cb ELSE circuit
    /\ CASE Provider(c) \notin loaded -> LeaveRung(c, "unroutable")
         [] asks /\ TurnedAway(check.says) -> LeaveRung(c, "max_retries")
         [] OTHER -> Going(c, "attempt") /\ UNCHANGED permits
    /\ UNCHANGED <<owner, keyPermits>>

\* Calls that hold p's current pool: they loaded it and keep it.
Holding(p) ==
    {c \in Calls : /\ call[c].pc \in {"attempt", "limiter", "calling", "backoff", "cooldown"}
                   /\ Provider(c) = p /\ ~call[c].old}

\* What `acquire` can hand out.  The state of a replaced pool, which only the calls that
\* began before still see, is not kept: it may offer any of its keys, or none.
Offers(c) ==
    LET p == Provider(c) IN
    CASE Keyless(p) -> {p}
      [] ~Keyless(p) /\ call[c].old -> {k \in ToSet(KeysOf[p]) : Compatible(k)}
      [] OTHER -> IF Offered(pool[p]) = {} THEN {} ELSE {pool[p].order[Min(Offered(pool[p]))]}

AcquireTurns(c) ==
    pool' = IF call[c].old THEN pool
            ELSE [pool EXCEPT ![Provider(c)].order = Rotated(pool[Provider(c)])]

\* What the others that hold the pool see of it: its order is not the one they left.
Jolted(c) ==
    [d \in Calls |-> IF ~call[c].old /\ d \in Holding(Provider(c)) \ {c}
                     THEN [call[d] EXCEPT !.smooth = FALSE] ELSE call[d]]

\* One turn of the loop: a key is in hand.
Attempt(c) ==
    /\ At(c, "attempt") /\ call[c].attempt < MaxAttempts(c)
    /\ \E s \in Offers(c) :
         call' = [Jolted(c) EXCEPT ![c].slot = s, ![c].smooth = @ /\ pool[Provider(c)].cooling = {},
                                   ![c].pc = IF call[c].kind = "complete" THEN "limiter" ELSE "calling"]
    /\ AcquireTurns(c)
    /\ UNCHANGED <<loaded, circuit, limits>>

\* Why the loop stopped: `spent` attempts, or a pool that offered nothing.
RoundResult(c, spent) ==
    LET p == Provider(c)
        n == Len(KeysOf[p])
        onlyRefusals == call[c].refusals # {} /\ ~call[c].other /\ spent
    IN CASE ~spent /\ n > 0 /\ ~AnyCompatible(p) -> "no_api_keys"
         [] onlyRefusals /\ (call[c].kind = "stream" => MaxAttempts(c) >= MaxOf(n, 1)) -> "all_refused"
         [] OTHER -> IF call[c].kind = "stream" THEN "rate_limited" ELSE "max_retries"

\* The loop is over; a non-streaming call may find a cooldown worth waiting for.
RoundOver(c) ==
    LET p == Provider(c)
        spent == call[c].attempt >= MaxAttempts(c)
        res == RoundResult(c, spent)
        mayWait == res = "max_retries" /\ call[c].waits < MaxRateLimitWaits
        cools == \E k \in pool[p].cooling : Compatible(k)
        turns == ~spent /\ KeysOf[p] # <<>>
        calls == IF turns THEN Jolted(c) ELSE call
    IN
    /\ At(c, "attempt") /\ (spent \/ Offers(c) = {} \/ (call[c].old /\ ~Keyless(p)))
    /\ IF turns THEN AcquireTurns(c) ELSE UNCHANGED pool
    /\ \/ /\ mayWait /\ (cools \/ call[c].old)
          /\ call' = [calls EXCEPT ![c].pc = "cooldown", ![c].other = TRUE]
          /\ UNCHANGED permits
       \/ ~(mayWait /\ cools /\ ~call[c].old) /\ LeaveRungOf(calls, c, res)
    /\ UNCHANGED <<loaded, circuit, keyPermits>>

\* The wait is the shortest cooldown or thirty seconds: the key may still be cooling.
WaitedForCooldown(c) ==
    /\ At(c, "cooldown")
    /\ call' = [call EXCEPT ![c].pc = "attempt", ![c].attempt = 0, ![c].waits = @ + 1]
    /\ UNCHANGED <<owner, circuit, limits>>

\* Mutant of Want: a bucket is waited for until it holds all that is asked.
WantAll(c) == Demand[c]

\* A request larger than the bucket takes all of it.
Want(c) == IF Demand[c] < Capacity THEN Demand[c] ELSE Capacity

\* KeyRateLimiter::acquire.  A bucket refills while one waits, up to its capacity.
AcquireLimiter(c) ==
    /\ At(c, "limiter") /\ keyPermits[call[c].slot] > 0 /\ Want(c) <= Capacity
    /\ keyPermits' = [keyPermits EXCEPT ![call[c].slot] = @ - 1]
    /\ Going(c, "calling")
    /\ UNCHANGED <<owner, circuit, permits>>

\* The next turn of the loop.
Again(c, where, refused) ==
    call' = [call EXCEPT ![c].pc = where, ![c].attempt = @ + 1,
                         ![c].slot = IF where = "backoff" THEN @ ELSE None,
                         ![c].refusals = IF refused THEN @ \cup {call[c].slot} ELSE @, ![c].other = @ \/ ~refused]

\* report_result; the keyless slot is in no pool, and an error changes nothing.
ReportResult(c, r) ==
    LET p == Provider(c)
        k == call[c].slot
        known == ~call[c].old /\ k \in ToSet(KeysOf[p])
    IN pool' = CASE known /\ r = "ok" -> [pool EXCEPT ![p].cooling = @ \ {k}]
                 [] known /\ r = "rate_limited" -> [pool EXCEPT ![p].cooling = @ \cup {k}]
                 [] OTHER -> pool

\* chat_with_key answers `complete`: "ok", "empty" (an answer with nothing in it),
\* "rate_limited", "transient" (an overload, a reset, a 5xx), "auth", "fatal".
AnswerComplete(c, o) ==
    /\ At(c, "calling") /\ call[c].kind = "complete"
    /\ ReportResult(c, IF o = "empty" THEN "ok" ELSE o)
    /\ circuit' = CASE o \in {"ok", "empty"} -> ReportSuccess(circuit)
                    [] o = "auth" -> circuit
                    [] OTHER -> ReportFailure(circuit)
    /\ CASE o \in {"rate_limited", "auth"} ->
              Again(c, "attempt", o = "auth") /\ KeyPermitBack(c) /\ UNCHANGED permits
         [] o = "transient" -> Again(c, "backoff", FALSE) /\ UNCHANGED <<permits, keyPermits>>
         [] OTHER -> LeaveRung(c, IF o = "ok" THEN "ok" ELSE "llm") /\ KeyPermitBack(c)
    /\ UNCHANGED loaded

\* The backoff is slept with the key's permit in hand.
BackoffEnds(c) ==
    /\ At(c, "backoff") /\ KeyPermitBack(c)
    /\ call' = [call EXCEPT ![c].pc = "attempt", ![c].slot = None]
    /\ UNCHANGED <<owner, circuit, permits>>

\* chat_streaming_with_key answers: the stream keeps the permit; nothing tells the breaker.
AnswerStream(c, o) ==
    /\ At(c, "calling") /\ call[c].kind = "stream"
    /\ CASE o = "ok" -> /\ call' = [call EXCEPT ![c] = [IdleCall EXCEPT !.pc = "stream", !.kind = "stream"]]
                        /\ UNCHANGED <<pool, permits>>
         [] o \in {"rate_limited", "auth"} ->
              ReportResult(c, o) /\ Again(c, "attempt", o = "auth") /\ UNCHANGED permits
         [] OTHER -> LeaveRung(c, "llm") /\ UNCHANGED pool
    /\ UNCHANGED <<loaded, circuit, keyPermits>>

\* The stream is read to its end or dropped.
StreamEnds(c) ==
    /\ At(c, "stream") /\ permits' = permits + 1
    /\ call' = [call EXCEPT ![c] = Finished(c, "ok")]
    /\ UNCHANGED <<owner, circuit, keyPermits>>

CliAnswers(c, o) ==
    /\ At(c, "cli") /\ permits' = permits + 1
    /\ call' = [call EXCEPT ![c] = Finished(c, IF o = "ok" THEN "ok" ELSE Exhausted(call[c].first))]
    /\ UNCHANGED <<owner, circuit, keyPermits>>

\* The caller's future is dropped while it waits: what it held is back, nothing is reported.
Cancel(c) ==
    /\ call[c].pc \in {"permit", "limiter", "calling", "backoff", "cooldown", "cli"}
    /\ call' = [call EXCEPT ![c] = IdleCall]
    /\ permits' = IF At(c, "permit") THEN permits ELSE permits + 1
    /\ KeyPermitBack(c)
    /\ UNCHANGED <<owner, circuit>>

Return(c) ==
    /\ At(c, "done") /\ call' = [call EXCEPT ![c] = IdleCall]
    /\ UNCHANGED <<owner, circuit, limits>>
----------------------------------------------------------------------------
(* The owner's settings, and time. *)

\* reload_keys, or register_provider: a new pool, whose keys have cooled down.
NewPool(p) ==
    /\ pool' = [pool EXCEPT ![p] = Fresh(p)]
    /\ call' = [c \in Calls |-> IF c \in Holding(p) THEN [call[c] EXCEPT !.old = TRUE, !.smooth = FALSE]
                            ELSE call[c]]

ReloadKeys(p) ==
    /\ p \in Switched \cap loaded /\ NewPool(p)
    /\ UNCHANGED <<loaded, circuit, limits>>

RegisterProvider(p) ==
    /\ p \in Switched \ loaded /\ loaded' = loaded \cup {p} /\ NewPool(p)
    /\ UNCHANGED <<circuit, limits>>

DeregisterProvider(p) ==
    /\ p \in Switched \cap loaded /\ loaded' = loaded \ {p}
    /\ UNCHANGED <<pool, circuit, limits, call>>

Recover ==
    /\ circuit.state = "Open" /\ ~circuit.recovered
    /\ circuit' = [circuit EXCEPT !.recovered = TRUE]
    /\ UNCHANGED <<owner, limits, call>>

ProbeAges ==
    /\ circuit.probe /\ ~circuit.stale
    /\ circuit' = [circuit EXCEPT !.stale = TRUE]
    /\ UNCHANGED <<owner, limits, call>>

CooldownEnds(p, k) ==
    /\ k \in pool[p].cooling /\ pool' = [pool EXCEPT ![p].cooling = @ \ {k}]
    /\ UNCHANGED <<loaded, circuit, limits, call>>
----------------------------------------------------------------------------
Init ==
    /\ loaded = Providers
    /\ pool = [p \in Providers |-> Fresh(p)]
    /\ circuit = ClosedCircuit
    /\ permits = GlobalConcurrency
    /\ keyPermits = [s \in Slots |-> PerKeyConcurrency]
    /\ call = [c \in Calls |-> IdleCall]

Outcomes == {"ok", "empty", "rate_limited", "transient", "auth", "fatal"}

\* What a call does by itself, and what others answer it.
Step(c) ==
    \/ AcquirePermit(c) \/ TryModel(c) \/ Attempt(c) \/ RoundOver(c) \/ Return(c)
    \/ BackoffEnds(c) \/ WaitedForCooldown(c) \/ StreamEnds(c)
    \/ \E o \in Outcomes : AnswerComplete(c, o) \/ AnswerStream(c, o)
    \/ \E o \in {"ok", "fails"} : CliAnswers(c, o)

Next ==
    \/ \E c \in Calls : \/ \E ask \in Asks[c] : Begin(c, ask)
                        \/ Step(c) \/ AcquireLimiter(c) \/ Cancel(c)
    \/ \E p \in Providers : ReloadKeys(p) \/ RegisterProvider(p) \/ DeregisterProvider(p)
    \/ Recover \/ ProbeAges
    \/ \E p \in Providers, k \in Keys : CooldownEnds(p, k)

\* Time passes, a call's own code runs, a provider answers or its HTTP client times out,
\* and the two semaphores, the router's and a key's, serve their waiters in turn.
Fairness ==
    /\ WF_vars(Recover)
    /\ \A c \in Calls : WF_vars(Step(c)) /\ SF_vars(AcquirePermit(c) \/ AcquireLimiter(c))

Spec == Init /\ [][Next]_vars /\ Fairness
----------------------------------------------------------------------------
Pool == [order : Seq(Keys), cooling : SUBSET Keys]

\* The variables have their types: the state of the router, its limiters and its calls.
TypeOK ==
    /\ loaded \subseteq Providers
    /\ pool \in [Providers -> Pool]
    /\ circuit \in [state : {"Closed", "Open", "HalfOpen"}, fails : 0..FailureThreshold,
                    recovered : BOOLEAN, probe : BOOLEAN, stale : BOOLEAN]
    /\ permits \in 0..GlobalConcurrency
    /\ keyPermits \in [Slots -> 0..PerKeyConcurrency]
    /\ DOMAIN call = Calls
    /\ \A c \in Calls :
         /\ DOMAIN call[c] = DOMAIN IdleCall
         /\ call[c].pc \in PcValues /\ call[c].result \in Results
         /\ call[c].slot \in Slots \cup {None}
         /\ call[c].ladder \in Seq(Models)

\* The breaker's probe slot is taken exactly while it is half open, whatever late answers
\* of calls admitted before the trip are reported in between: `report_success` and
\* `report_failure` give the slot back, so a later recovery finds it free.
ProbeIffHalfOpen == circuit.probe <=> circuit.state = "HalfOpen"

\* The same, of a router whose state is well formed.
ProbeSlot == TypeOK /\ ProbeIffHalfOpen

\* A request whose own model failed because of the keys ends with that reason when no rung
\* and no stand-in answers either: "All fallback models failed" reads as passing and would
\* be retried (`complete`'s two map_err arms).
KeysAreBlamed ==
    \A c \in Calls : call[c].first \in {"no_api_keys", "all_refused"} => call[c].result # "all_failed"

\* "The provider refused every key" is said of a request's own model only when every key
\* was refused, as long as no key was cooling down and nobody else drew from the pool
\* meanwhile: the rotation brings a fresh key to each attempt, and there are as many
\* attempts as keys.
RefusedByAll ==
    [][\A c \in Calls :
         /\ call[c].pc = "attempt" /\ call[c].smooth /\ call[c].first = None
         /\ "all_refused" \in {call'[c].result, call'[c].first}
         => {k \in ToSet(KeysOf[Provider(c)]) : Compatible(k)} \subseteq call[c].refusals]_vars

\* What complete_streaming says of AllKeysRefused: every attempt was refused and the
\* attempts reached every key.
ReachedEveryKey ==
    [][\A c \in Calls :
         /\ call[c].pc = "attempt" /\ call[c].kind = "stream" /\ call'[c].result = "all_refused"
         => {k \in ToSet(KeysOf[Provider(c)]) : Compatible(k)} \subseteq call[c].refusals]_vars

\* A request that waits holds something another needs: the global permit over the whole
\* ladder, a key's permit over the call and the backoff, a stream's permit over
\* the reading.  Still every request, those that wait for the global permit included,
\* comes to its end, dropped or answered, however the owner switches providers and
\* replaces keys meanwhile.
EveryCallEnds == \A c \in Calls : []<>(call[c].pc = "idle")

\* As long as requests keep arriving at the breaker it does not stay open: no sequence of
\* late failures, lost probes and rejected checks wedges it.
BreakerReopens ==
    []<>(\E c \in Calls : call[c].pc = "try" /\ Provider(c) \in loaded /\ call[c].kind = "complete")
        => []<>(circuit.state # "Open")

\* What CircuitBreaker says of itself: while a probe younger than the recovery timeout is
\* out, no other request is let through.
SingleProbe ==
    [][\A c \in Calls :
         (call[c].pc = "try" /\ call'[c].pc = "attempt" /\ call[c].kind = "complete")
           => ~(circuit.probe /\ ~circuit.stale)]_vars
============================================================================
