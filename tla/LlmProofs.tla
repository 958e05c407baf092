----------------------------- MODULE LlmProofs -----------------------------
(***************************************************************************)
(* What the router keeps in balance, for any number of requests, keys and  *)
(* providers: the permits of the two kinds of semaphore are given back     *)
(* exactly once, whichever way a request leaves; the breaker's probe slot  *)
(* follows its state; and a failure of the keys keeps its name.            *)
(***************************************************************************)
EXTENDS LlmRouter, FiniteSetTheorems, SequenceTheorems, WellFoundedInduction, TLAPS

USE ConfigAssumption, LimitsAssumption

\* Every call is a record with the fields of an idle one.
Fields == {"pc", "kind", "asked", "model", "ladder", "attempt", "waits", "refusals", "other",
           "slot", "old", "first", "result", "smooth"}
Shape == DOMAIN call = Calls /\ \A c \in Calls : DOMAIN call[c] = Fields

\* Where a request has the global permit: from its first rung to its end.
InRung == {"try", "attempt", "limiter", "calling", "backoff", "cooldown", "cli", "stream"}
Holders == {c \in Calls : call[c].pc \in InRung}

\* Who holds a permit of a slot's limiter.
Claims(s) == {c \in Calls : HoldsKeyPermit(c) /\ call[c].slot = s}

\* Only `complete` waits for a limiter.
LimiterKind == \A c \in Calls : call[c].pc = "limiter" => call[c].kind = "complete"

PermitBalance ==
    /\ permits \in Nat /\ IsFiniteSet(Holders)
    /\ permits + Cardinality(Holders) = GlobalConcurrency

KeyBalance ==
    /\ keyPermits \in [Slots -> Nat]
    /\ \A s \in Slots : /\ IsFiniteSet(Claims(s))
                        /\ keyPermits[s] + Cardinality(Claims(s)) = PerKeyConcurrency

CallInv == Shape /\ LimiterKind /\ KeysAreBlamed

BalanceInv == CallInv /\ PermitBalance /\ KeyBalance

\* What the semaphores have left is never below zero nor above what they began with.
LimitsOK ==
    /\ permits \in 0..GlobalConcurrency
    /\ keyPermits \in [Slots -> 0..PerKeyConcurrency]

----------------------------------------------------------------------------
(* The breaker. *)

CircuitOK ==
    circuit \in [state : {"Closed", "Open", "HalfOpen"}, fails : 0..FailureThreshold,
                 recovered : BOOLEAN, probe : BOOLEAN, stale : BOOLEAN]

CircuitInv == CircuitOK /\ ProbeIffHalfOpen

\* What the breaker's three operations return is again a breaker whose slot
\* follows its state.
LEMMA CircuitOps ==
  ASSUME CircuitInv, NEW cb,
         cb \in {circuit, CheckCircuit(circuit).cb, ReportSuccess(circuit), ReportFailure(circuit)}
  PROVE  /\ cb \in [state : {"Closed", "Open", "HalfOpen"}, fails : 0..FailureThreshold,
                    recovered : BOOLEAN, probe : BOOLEAN, stale : BOOLEAN]
         /\ cb.probe <=> cb.state = "HalfOpen"
<1> USE DEF CircuitInv, CircuitOK, ProbeIffHalfOpen
<1>1. CASE cb = circuit
  BY <1>1
<1>2. CASE cb = CheckCircuit(circuit).cb
  BY <1>2 DEF CheckCircuit
<1>3. CASE cb = ReportSuccess(circuit)
  BY <1>3 DEF ReportSuccess, ClosedCircuit
<1>4. CASE cb = ReportFailure(circuit)
  <2>1. PICK n \in 0..FailureThreshold :
           n = IF circuit.fails < FailureThreshold THEN circuit.fails + 1 ELSE circuit.fails
    OBVIOUS
  <2>2. CASE circuit.state = "Closed"
    <3>1. cb = [circuit EXCEPT !.fails = n, !.recovered = FALSE,
                               !.state = IF n >= FailureThreshold THEN "Open" ELSE "Closed"]
      BY <1>4, <2>1, <2>2 DEF ReportFailure
    <3> QED BY <2>2, <3>1
  <2>3. CASE circuit.state = "HalfOpen"
    <3>1. cb = [circuit EXCEPT !.fails = n, !.recovered = FALSE, !.state = "Open",
                               !.probe = FALSE, !.stale = FALSE]
      BY <1>4, <2>1, <2>3 DEF ReportFailure
    <3> QED BY <3>1
  <2>4. CASE circuit.state = "Open"
    <3>1. cb = [circuit EXCEPT !.fails = n, !.recovered = FALSE]
      BY <1>4, <2>1, <2>4 DEF ReportFailure
    <3> QED BY <2>4, <3>1
  <2> QED BY <2>2, <2>3, <2>4
<1> QED BY <1>1, <1>2, <1>3, <1>4

\* The breaker is always well formed, with its slot as its state says.
LEMMA CircuitAlways == Spec => []CircuitInv
<1>1. Init => CircuitInv
  BY DEF Init, CircuitInv, CircuitOK, ProbeIffHalfOpen, ClosedCircuit
<1>2. CircuitInv /\ [Next]_vars => CircuitInv'
  <2> SUFFICES ASSUME CircuitInv, [Next]_vars PROVE CircuitInv'
    OBVIOUS
  <2>1. ASSUME circuit' \in {circuit, CheckCircuit(circuit).cb, ReportSuccess(circuit),
                             ReportFailure(circuit)}
        PROVE  CircuitInv'
    BY <2>1, CircuitOps DEF CircuitInv, CircuitOK, ProbeIffHalfOpen
  <2>2. CASE UNCHANGED vars
    BY <2>1, <2>2 DEF vars
  <2>3. ASSUME NEW c \in Calls, NEW ask \in Asks[c], Begin(c, ask) PROVE CircuitInv'
    BY <2>1, <2>3 DEF Begin
  <2>4. ASSUME NEW c \in Calls, TryModel(c) PROVE CircuitInv'
    BY <2>1, <2>4 DEF TryModel
  <2>5. ASSUME NEW c \in Calls, NEW o \in Outcomes, AnswerComplete(c, o) PROVE CircuitInv'
    <3>1. circuit' \in {circuit, ReportSuccess(circuit), ReportFailure(circuit)}
      BY <2>5 DEF AnswerComplete
    <3> QED BY <2>1, <3>1
  <2>6. ASSUME NEW c \in Calls,
               \/ AcquirePermit(c) \/ Attempt(c) \/ RoundOver(c) \/ Return(c) \/ BackoffEnds(c)
               \/ WaitedForCooldown(c) \/ StreamEnds(c) \/ AcquireLimiter(c) \/ Cancel(c)
               \/ \E o \in Outcomes : AnswerStream(c, o)
               \/ \E o \in {"ok", "fails"} : CliAnswers(c, o)
        PROVE  CircuitInv'
    <3>1. circuit' = circuit
      BY <2>6 DEF AcquirePermit, Attempt, RoundOver, Return, BackoffEnds, WaitedForCooldown,
                  StreamEnds, AcquireLimiter, Cancel, AnswerStream, CliAnswers
    <3> QED BY <2>1, <3>1
  <2>7. ASSUME NEW p \in Providers,
               ReloadKeys(p) \/ RegisterProvider(p) \/ DeregisterProvider(p)
               \/ \E k \in Keys : CooldownEnds(p, k)
        PROVE  CircuitInv'
    <3>1. circuit' = circuit
      BY <2>7 DEF ReloadKeys, RegisterProvider, DeregisterProvider, CooldownEnds
    <3> QED BY <2>1, <3>1
  <2>8. CASE Recover \/ ProbeAges
    <3>1. circuit' = [circuit EXCEPT !.recovered = TRUE] \/ circuit' = [circuit EXCEPT !.stale = TRUE]
      BY <2>8 DEF Recover, ProbeAges
    <3> QED BY <3>1 DEF CircuitInv, CircuitOK, ProbeIffHalfOpen
  <2> QED BY <2>2, <2>3, <2>4, <2>5, <2>6, <2>7, <2>8 DEF Next, Step
<1> QED BY <1>1, <1>2, PTL DEF Spec

\* The probe slot follows the breaker's state, for any threshold and any number of
\* requests: a late report of a call admitted before the trip, a lost probe and a
\* probe grown stale included (circuit_breaker's check and report_*).
THEOREM ProbeFollowsState == Spec => []ProbeIffHalfOpen
<1>1. CircuitInv => ProbeIffHalfOpen
  BY DEF CircuitInv
<1> QED BY <1>1, CircuitAlways, PTL

----------------------------------------------------------------------------
(* Positions and what is picked from a sequence. *)

\* A non-empty set of naturals has a least element: the induction that the prover can
\* follow, as a counterexample of least size.
LEMMA LeastNat ==
  ASSUME NEW T, T \subseteq Nat, T # {}
  PROVE  \E n \in T : \A m \in T : n <= m
<1>1. PICK n \in T : \A m \in T : ~(<<m, n>> \in OpToRel(<, Nat))
  BY WFMin, NatLessThanWellFounded
<1>2. ASSUME NEW m \in T, ~(n <= m) PROVE FALSE
  <2>1. m \in Nat /\ n \in Nat /\ m < n
    BY <1>2
  <2>2. <<m, n>> \in {ss \in Nat \X Nat : ss[1] < ss[2]}
    BY <2>1
  <2> QED BY <1>1, <2>2 DEF OpToRel
<1> QED BY <1>2

\* The least position.
LEMMA MinIs ==
  ASSUME NEW T, T \subseteq Nat, T # {}
  PROVE  Min(T) \in T /\ \A m \in T : Min(T) <= m
BY LeastNat DEF Min

\* The step of the recursion in Picked.
Grown(s, I, g, n) ==
    IF n = 0 THEN <<>> ELSE IF n \in I THEN Append(g[n - 1], s[n]) ELSE g[n - 1]

\* The recursion has a solution, and Picked is its value at the end.
LEMMA PickedRecurs ==
  ASSUME NEW s, Len(s) \in Nat, NEW I
  PROVE  \E f : /\ Picked(s, I) = f[Len(s)]
                /\ \A n \in 0..Len(s) : f[n] = Grown(s, I, f, n)
<1> DEFINE Good(k) == \E g : g = [n \in 0..k |-> Grown(s, I, g, n)]
           Bad == {k \in 0..Len(s) : ~Good(k)}
<1> HIDE DEF Good
<1>1. Bad = {}
  <2> SUFFICES ASSUME Bad # {} PROVE FALSE
    OBVIOUS
  <2>1. PICK k \in Bad : \A m \in Bad : k <= m
    <3>1. Bad \subseteq Nat
      OBVIOUS
    <3> QED BY <3>1, LeastNat
  <2>2. CASE k = 0
    <3>1. [n \in 0..0 |-> <<>>] = [n \in 0..0 |-> Grown(s, I, [m \in 0..0 |-> <<>>], n)]
      BY DEF Grown
    <3>2. Good(0)
      BY <3>1 DEF Good
    <3> QED BY <2>1, <2>2, <3>2
  <2>3. CASE k # 0
    <3>1. Good(k - 1)
      BY <2>1, <2>3
    <3>2. PICK g : g = [n \in 0..k - 1 |-> Grown(s, I, g, n)]
      BY <3>1 DEF Good
    <3> DEFINE h == [n \in 0..k |-> IF n = k THEN Grown(s, I, g, k) ELSE g[n]]
    <3>3. ASSUME NEW n \in 0..k PROVE h[n] = Grown(s, I, h, n)
      <4>1. CASE n = k
        <5>1. k - 1 \in 0..k /\ k - 1 # k /\ k \in 0..k
          BY <2>3
        <5>2. h[k - 1] = g[k - 1] /\ h[k] = Grown(s, I, g, k)
          BY <5>1
        <5> QED BY <4>1, <5>2 DEF Grown
      <4>2. CASE n # k
        <5>1. n \in 0..k - 1 /\ (n # 0 => n - 1 \in 0..k /\ n - 1 # k)
          BY <2>1, <4>2
        <5>2. h[n] = g[n] /\ g[n] = Grown(s, I, g, n)
          BY <3>2, <4>2, <5>1
        <5>3. n # 0 => h[n - 1] = g[n - 1]
          BY <5>1
        <5> QED BY <5>2, <5>3 DEF Grown
      <4> QED BY <4>1, <4>2
    <3>4. h = [n \in 0..k |-> Grown(s, I, h, n)]
      BY <3>3
    <3>5. Good(k)
      BY <3>4 DEF Good
    <3> QED BY <2>1, <3>5
  <2> QED BY <2>2, <2>3
<1>2. PICK g : g = [n \in 0..Len(s) |-> Grown(s, I, g, n)]
  <2>1. Good(Len(s))
    BY <1>1
  <2> QED BY <2>1 DEF Good
<1>3. PICK f : /\ f = (CHOOSE h : h = [n \in 0..Len(s) |-> Grown(s, I, h, n)])
               /\ Picked(s, I) = f[Len(s)]
  BY Zenon DEF Picked, Grown
<1>4. f = [n \in 0..Len(s) |-> Grown(s, I, f, n)]
  BY <1>2, <1>3, Zenon
<1> QED BY <1>3, <1>4

\* What is picked are entries at the positions asked for, and all of them.
LEMMA PickedIs ==
  ASSUME NEW S, NEW s \in Seq(S), NEW I
  PROVE  /\ Picked(s, I) \in Seq(S) /\ Len(Picked(s, I)) <= Len(s)
         /\ \A j \in DOMAIN Picked(s, I) : \E i \in I \cap DOMAIN s : Picked(s, I)[j] = s[i]
         /\ \A i \in I \cap DOMAIN s : \E j \in DOMAIN Picked(s, I) : Picked(s, I)[j] = s[i]
<1>0. Len(s) \in Nat /\ DOMAIN s = 1..Len(s) /\ \A i \in 1..Len(s) : s[i] \in S
  OBVIOUS
<1>1. PICK f : /\ Picked(s, I) = f[Len(s)]
               /\ \A n \in 0..Len(s) : f[n] = Grown(s, I, f, n)
  BY <1>0, PickedRecurs
<1> DEFINE Is(n) == /\ f[n] \in Seq(S) /\ Len(f[n]) <= n
                    /\ \A j \in 1..Len(f[n]) : \E i \in I \cap (1..n) : f[n][j] = s[i]
                    /\ \A i \in I \cap (1..n) : \E j \in 1..Len(f[n]) : f[n][j] = s[i]
           Bad == {n \in 0..Len(s) : ~Is(n)}
<1> HIDE DEF Is
<1>2. Bad = {}
  <2> SUFFICES ASSUME Bad # {} PROVE FALSE
    OBVIOUS
  <2>1. PICK k \in Bad : \A m \in Bad : k <= m
    <3>1. Bad \subseteq Nat
      BY <1>0
    <3> HIDE DEF Bad
    <3> QED BY <3>1, LeastNat
  <2>2. CASE k = 0
    <3>1. f[0] = <<>>
      BY <1>0, <1>1 DEF Grown
    <3>2. Is(0)
      BY <3>1 DEF Is
    <3> QED BY <2>1, <2>2, <3>2
  <2>3. CASE k # 0
    <3>1. k \in 1..Len(s) /\ k - 1 \in 0..Len(s)
      BY <1>0, <2>1, <2>3
    <3>2. Is(k - 1)
      BY <1>0, <2>1, <2>3
    <3>3. f[k] = IF k \in I THEN Append(f[k - 1], s[k]) ELSE f[k - 1]
      BY <1>1, <3>1 DEF Grown
    <3>4. Is(k)
      <4>1. PICK g : g = f[k - 1]
        OBVIOUS
      <4>2. /\ g \in Seq(S) /\ Len(g) <= k - 1 /\ Len(g) \in Nat
            /\ \A j \in 1..Len(g) : \E i \in I \cap (1..k - 1) : g[j] = s[i]
            /\ \A i \in I \cap (1..k - 1) : \E j \in 1..Len(g) : g[j] = s[i]
        BY <3>2, <4>1 DEF Is
      <4>3. CASE k \notin I
        <5>1. f[k] = g
          BY <3>3, <4>1, <4>3
        <5>2. I \cap (1..k) = I \cap (1..k - 1) /\ Len(g) <= k
          BY <1>0, <3>1, <4>2, <4>3
        <5> QED BY <4>2, <5>1, <5>2 DEF Is
      <4>4. CASE k \in I
        <5>1. f[k] = Append(g, s[k]) /\ s[k] \in S
          BY <1>0, <3>1, <3>3, <4>1, <4>4
        <5>2. /\ f[k] \in Seq(S) /\ Len(f[k]) = Len(g) + 1 /\ f[k][Len(g) + 1] = s[k]
              /\ \A j \in 1..Len(g) : f[k][j] = g[j]
          BY <4>2, <5>1
        <5>3. ASSUME NEW j \in 1..Len(f[k]) PROVE \E i \in I \cap (1..k) : f[k][j] = s[i]
          <6>1. CASE j = Len(g) + 1
            BY <3>1, <4>4, <5>2, <6>1
          <6>2. CASE j \in 1..Len(g)
            <7>1. PICK i \in I \cap (1..k - 1) : g[j] = s[i]
              BY <4>2, <6>2
            <7>2. i \in I \cap (1..k)
              BY <3>1
            <7> QED BY <5>2, <6>2, <7>1, <7>2
          <6> QED BY <4>2, <5>2, <6>1, <6>2
        <5>4. ASSUME NEW i \in I \cap (1..k) PROVE \E j \in 1..Len(f[k]) : f[k][j] = s[i]
          <6>1. CASE i = k
            <7>1. Len(g) + 1 \in 1..Len(f[k])
              BY <4>2, <5>2
            <7> QED BY <5>2, <6>1, <7>1
          <6>2. CASE i # k
            <7>1. i \in I \cap (1..k - 1)
              BY <3>1, <6>2
            <7>2. PICK j \in 1..Len(g) : g[j] = s[i]
              BY <4>2, <7>1
            <7>3. j \in 1..Len(f[k])
              BY <4>2, <5>2
            <7> QED BY <5>2, <7>2, <7>3
          <6> QED BY <6>1, <6>2
        <5>5. Len(f[k]) <= k
          BY <3>1, <4>2, <5>2
        <5> QED BY <5>2, <5>3, <5>4, <5>5 DEF Is
      <4> QED BY <4>3, <4>4
    <3> QED BY <2>1, <3>4
  <2> QED BY <2>2, <2>3
<1>3. Is(Len(s))
  <2>1. \A n \in 0..Len(s) : Is(n)
    BY <1>2
  <2> QED BY <1>0, <2>1
<1>4. PICK g : g = Picked(s, I) /\ g = f[Len(s)]
  BY <1>1
<1>5. /\ g \in Seq(S) /\ Len(g) <= Len(s)
      /\ \A j \in 1..Len(g) : \E i \in I \cap (1..Len(s)) : g[j] = s[i]
      /\ \A i \in I \cap (1..Len(s)) : \E j \in 1..Len(g) : g[j] = s[i]
  BY <1>3, <1>4 DEF Is
<1>6. DOMAIN g = 1..Len(g)
  BY <1>5
<1> QED BY <1>0, <1>4, <1>5, <1>6
----------------------------------------------------------------------------
(* The types: of a pool and its order, of the ladder, of a call. *)

\* The entries of s in T.
LEMMA OnlyIs ==
  ASSUME NEW S, NEW s \in Seq(S), NEW T
  PROVE  /\ Only(s, T) \in Seq(S) /\ Len(Only(s, T)) <= Len(s)
         /\ ToSet(Only(s, T)) = ToSet(s) \cap T
<1> DEFINE I == {i \in DOMAIN s : s[i] \in T}
<1>1. PICK g : g = Picked(s, I)
  OBVIOUS
<1>2. /\ g \in Seq(S) /\ Len(g) <= Len(s)
      /\ \A j \in DOMAIN g : \E i \in I \cap DOMAIN s : g[j] = s[i]
      /\ \A i \in I \cap DOMAIN s : \E j \in DOMAIN g : g[j] = s[i]
  <2> HIDE DEF I
  <2> QED BY <1>1, PickedIs
<1>3. ToSet(g) = ToSet(s) \cap T
  BY <1>2 DEF ToSet
<1> QED BY <1>1, <1>2, <1>3 DEF Only

\* Taking an entry out and putting it last keeps the entries.
LEMMA SentBackIs ==
  ASSUME NEW S, NEW s \in Seq(S), NEW i \in DOMAIN s
  PROVE  /\ SentBack(s, i) \in Seq(S)
         /\ Len(SentBack(s, i)) = Len(s)
         /\ \A j \in 1..i - 1 : SentBack(s, i)[j] = s[j]
         /\ \A j \in i..Len(s) - 1 : SentBack(s, i)[j] = s[j + 1]
         /\ SentBack(s, i)[Len(s)] = s[i]
         /\ ToSet(SentBack(s, i)) = ToSet(s)
<1>0. Len(s) \in Nat /\ i \in 1..Len(s) /\ DOMAIN s = 1..Len(s)
  BY LenProperties
<1>1. PICK a : a = SubSeq(s, 1, i - 1)
  OBVIOUS
<1>2. PICK b : b = SubSeq(s, i + 1, Len(s))
  OBVIOUS
<1>3. a \in Seq(S) /\ Len(a) = i - 1 /\ \A j \in 1..i - 1 : a[j] = s[j]
  <2>1. \A j \in 1..i - 1 : s[j] \in S
    BY <1>0, ElementOfSeq
  <2>2. /\ a \in Seq(S) /\ Len(a) = IF 1 <= i - 1 THEN (i - 1) - 1 + 1 ELSE 0
        /\ \A j \in 1..(i - 1) - 1 + 1 : a[j] = s[1 + j - 1]
    BY <1>0, <1>1, <2>1, SubSeqProperties
  <2>3. \A j \in 1..i - 1 : j \in 1..(i - 1) - 1 + 1 /\ 1 + j - 1 = j
    BY <1>0
  <2> QED BY <1>0, <2>2, <2>3
<1>4. b \in Seq(S) /\ Len(b) = Len(s) - i /\ \A j \in 1..Len(s) - i : b[j] = s[i + j]
  <2>1. \A j \in i + 1..Len(s) : s[j] \in S
    BY <1>0, ElementOfSeq
  <2> QED BY <1>0, <1>2, <2>1, SubSeqProperties
<1>5. PICK ab : ab = a \o b /\ ab = RemoveAt(s, i)
  BY <1>1, <1>2 DEF RemoveAt
<1>6. /\ ab \in Seq(S) /\ Len(ab) = Len(a) + Len(b)
      /\ \A j \in 1..Len(a) + Len(b) : ab[j] = IF j <= Len(a) THEN a[j] ELSE b[j - Len(a)]
  <2>1. a \in Seq(S) /\ b \in Seq(S)
    BY <1>3, <1>4
  <2>2. /\ a \o b \in Seq(S) /\ Len(a \o b) = Len(a) + Len(b)
        /\ \A j \in 1..Len(a) + Len(b) : (a \o b)[j] = IF j <= Len(a) THEN a[j] ELSE b[j - Len(a)]
    BY <2>1, ConcatProperties, ZenonT(60)
  <2> QED BY <1>5, <2>2, Zenon
<1>7. /\ ab \in Seq(S) /\ Len(ab) = Len(s) - 1
      /\ \A j \in 1..i - 1 : ab[j] = s[j]
      /\ \A j \in i..Len(s) - 1 : ab[j] = s[j + 1]
  <2>1. ab \in Seq(S) /\ Len(ab) = Len(s) - 1 /\ \A j \in 1..i - 1 : ab[j] = s[j]
    BY <1>0, <1>3, <1>4, <1>6
  <2>2. ASSUME NEW j \in i..Len(s) - 1 PROVE ab[j] = s[j + 1]
    <3>1. j - (i - 1) \in 1..Len(s) - i /\ i + (j - (i - 1)) = j + 1
      BY <1>0
    <3>2. ab[j] = b[j - (i - 1)]
      <4>1. j \in 1..Len(a) + Len(b) /\ ~(j <= Len(a)) /\ Len(a) = i - 1
        BY <1>0, <1>3, <1>4
      <4> QED BY <1>6, <4>1
    <3> QED BY <1>4, <3>1, <3>2
  <2> QED BY <2>1, <2>2
<1>8. PICK u : u = Append(ab, s[i]) /\ u = SentBack(s, i)
  BY <1>5 DEF SentBack
<1>9. /\ u \in Seq(S) /\ Len(u) = Len(s) /\ u[Len(s)] = s[i]
      /\ \A j \in 1..i - 1 : u[j] = s[j]
      /\ \A j \in i..Len(s) - 1 : u[j] = s[j + 1]
  <2>1. s[i] \in S
    BY <1>0, ElementOfSeq
  <2>2. u \in Seq(S) /\ Len(u) = Len(s) /\ u[Len(s)] = s[i]
    <3>0. /\ Append(ab, s[i]) \in Seq(S) /\ Len(Append(ab, s[i])) = Len(ab) + 1
          /\ Append(ab, s[i])[Len(ab) + 1] = s[i]
      BY <1>7, <2>1, AppendProperties
    <3>1. u \in Seq(S) /\ Len(u) = Len(ab) + 1 /\ u[Len(ab) + 1] = s[i]
      BY <1>8, <3>0, Zenon
    <3>2. Len(ab) + 1 = Len(s)
      BY <1>0, <1>7
    <3> QED BY <3>1, <3>2
  <2>3. \A j \in 1..Len(s) - 1 : u[j] = ab[j]
    <3>1. \A j \in 1..Len(ab) : Append(ab, s[i])[j] = ab[j]
      BY <1>7, <2>1, AppendProperties
    <3>2. \A j \in 1..Len(ab) : u[j] = ab[j]
      BY <1>8, <3>1, Zenon
    <3> QED BY <1>7, <3>2
  <2> QED BY <1>0, <1>7, <2>2, <2>3
<1>10. ToSet(u) = ToSet(s)
  <2>1. DOMAIN u = 1..Len(s)
    BY <1>9
  <2>2. ASSUME NEW j \in 1..Len(s) PROVE u[j] \in ToSet(s)
    <3>1. \E k \in 1..Len(s) : u[j] = s[k]
      <4>1. CASE j \in 1..i - 1
        BY <1>9, <4>1
      <4>2. CASE j \in i..Len(s) - 1
        <5>1. j + 1 \in 1..Len(s)
          BY <1>0, <4>2
        <5>2. u[j] = s[j + 1]
          BY <1>9, <4>2
        <5> QED BY <5>1, <5>2
      <4>3. CASE j = Len(s)
        <5>1. u[j] = s[i]
          BY <1>9, <4>3
        <5> QED BY <1>0, <5>1
      <4>4. j \in 1..i - 1 \/ j \in i..Len(s) - 1 \/ j = Len(s)
        <5>1. \A n \in Nat : \A k, m \in 1..n : m \in 1..k - 1 \/ m \in k..n - 1 \/ m = n
          OBVIOUS
        <5> QED BY <1>0, <5>1
      <4> QED BY <4>1, <4>2, <4>3, <4>4
    <3> QED BY <1>0, <3>1 DEF ToSet
  <2>3. ASSUME NEW k \in 1..Len(s) PROVE s[k] \in ToSet(u)
    <3>1. \E j \in 1..Len(s) : u[j] = s[k]
      <4>1. CASE k \in 1..i - 1
        BY <1>9, <4>1
      <4>2. CASE k \in i + 1..Len(s)
        <5>1. k - 1 \in i..Len(s) - 1 /\ k - 1 \in 1..Len(s) /\ (k - 1) + 1 = k
          BY <1>0, <4>2
        <5>2. u[k - 1] = s[k]
          BY <1>9, <5>1
        <5> QED BY <5>1, <5>2
      <4>3. CASE k = i
        <5>1. Len(s) \in 1..Len(s)
          BY <1>0
        <5> QED BY <1>9, <4>3, <5>1
      <4> QED BY <1>0, <4>1, <4>2, <4>3
    <3> QED BY <2>1, <3>1 DEF ToSet
  <2> QED BY <1>0, <2>1, <2>2, <2>3 DEF ToSet
<1> QED BY <1>0, <1>8, <1>9, <1>10

\* A turned order has its first key at the end.
LEMMA TurnedIs ==
  ASSUME NEW S, NEW s \in Seq(S)
  PROVE  /\ Turned(s) \in Seq(S) /\ Len(Turned(s)) = Len(s)
         /\ s # <<>> => /\ Turned(s)[Len(s)] = s[1]
                        /\ \A j \in 1..Len(s) - 1 : Turned(s)[j] = s[j + 1]
         /\ ToSet(Turned(s)) = ToSet(s)
<1>1. CASE s = <<>>
  BY <1>1 DEF Turned
<1>2. CASE s # <<>>
  <2>1. 1 \in DOMAIN s
    BY <1>2, EmptySeq, LenProperties
  <2> QED BY <1>2, <2>1, SentBackIs DEF Turned
<1> QED BY <1>1, <1>2

\* What an order of the keys of p is good for, whatever rotation it went through.
Has(p, order) ==
    /\ Len(order) <= Len(KeysOf[p])
    /\ {k \in ToSet(KeysOf[p]) : Compatible(k)} \subseteq ToSet(order)
    /\ Strategy = "least_recently_used" => \A k \in ToSet(order) : Compatible(k)

PoolInv ==
    /\ pool \in [Providers -> Pool]
    /\ Strategy # "primary_fallback" => \A p \in Providers : Has(p, pool[p].order)

\* A new pool is well formed, and has the keys that can be used.
LEMMA FreshIs ==
  ASSUME NEW p \in Providers
  PROVE  Fresh(p) \in Pool /\ (Strategy # "primary_fallback" => Has(p, Fresh(p).order))
<1>1. KeysOf[p] \in Seq(Keys)
  OBVIOUS
<1>2. PICK api : api = Only(KeysOf[p], Keys \ Managed)
  OBVIOUS
<1>3. /\ api \in Seq(Keys) /\ Len(api) <= Len(KeysOf[p])
      /\ ToSet(api) = ToSet(KeysOf[p]) \cap (Keys \ Managed)
  BY <1>1, <1>2, OnlyIs
<1>4. CASE Strategy = "round_robin"
  <2>1. Fresh(p).order = KeysOf[p] /\ Fresh(p) = [order |-> KeysOf[p], cooling |-> {}]
    BY <1>4 DEF Fresh
  <2>2. Has(p, KeysOf[p])
    BY <1>1, <1>4, LenProperties DEF Has
  <2> QED BY <1>1, <2>1, <2>2 DEF Pool
<1>5. CASE Strategy = "least_recently_used"
  <2>1. Fresh(p).order = api /\ Fresh(p) = [order |-> api, cooling |-> {}]
    BY <1>2, <1>5 DEF Fresh
  <2>2. \A k \in ToSet(KeysOf[p]) : k \in Keys
    BY <1>1 DEF ToSet
  <2>3. Has(p, api)
    BY <1>3, <2>2 DEF Has, Compatible
  <2> QED BY <1>3, <2>1, <2>3 DEF Pool
<1>6. CASE Strategy = "primary_fallback"
  <2>1. PICK a, b : a = Only(api, Primary) /\ b = Only(api, Keys \ Primary)
    OBVIOUS
  <2>2. a \in Seq(Keys) /\ b \in Seq(Keys)
    BY <1>3, <2>1, OnlyIs
  <2>3. a \o b \in Seq(Keys)
    BY <2>2, ConcatProperties
  <2>4. Fresh(p) = [order |-> a \o b, cooling |-> {}]
    BY <1>2, <1>6, <2>1 DEF Fresh
  <2> QED BY <1>6, <2>3, <2>4 DEF Pool
<1> QED BY <1>4, <1>5, <1>6

\* A rotated pool has the keys it had.
LEMMA RotatedIs ==
  ASSUME NEW pl \in Pool
  PROVE  /\ Rotated(pl) \in Seq(Keys)
         /\ Strategy # "primary_fallback" =>
              Len(Rotated(pl)) = Len(pl.order) /\ ToSet(Rotated(pl)) = ToSet(pl.order)
<1>1. PICK o : o = pl.order /\ o \in Seq(Keys)
  BY DEF Pool
<1>2. CASE Strategy = "round_robin"
  <2>1. Rotated(pl) = Turned(o)
    BY <1>1, <1>2 DEF Rotated
  <2> QED BY <1>1, <2>1, TurnedIs
<1>3. CASE Strategy = "least_recently_used" /\ Offered(pl) = {}
  <2>1. Rotated(pl) = o
    BY <1>1, <1>3 DEF Rotated
  <2> QED BY <1>1, <2>1
<1>4. CASE Strategy = "least_recently_used" /\ Offered(pl) # {}
  <2>1. PICK i : i = Min(Offered(pl))
    OBVIOUS
  <2>2. i \in DOMAIN o
    <3>1. Offered(pl) \subseteq DOMAIN o /\ DOMAIN o \subseteq Nat
      BY <1>1, LenProperties DEF Offered
    <3>2. i \in Offered(pl)
      BY <1>4, <2>1, <3>1, MinIs
    <3> QED BY <3>1, <3>2
  <2>3. Rotated(pl) = SentBack(o, i)
    BY <1>1, <1>4, <2>1 DEF Rotated
  <2> QED BY <1>1, <2>2, <2>3, SentBackIs
<1>5. CASE Strategy = "primary_fallback"
  <2>1. PICK a, b : a = Only(o, Primary) /\ b = Only(o, Keys \ Primary)
    OBVIOUS
  <2>2. a \in Seq(Keys) /\ b \in Seq(Keys)
    BY <1>1, <2>1, OnlyIs
  <2>3. Turned(a) \in Seq(Keys)
    BY <2>2, TurnedIs
  <2>4. Turned(a) \o b \in Seq(Keys)
    BY <2>2, <2>3, ConcatProperties
  <2>5. Rotated(pl) = Turned(a) \o b
    BY <1>1, <1>5, <2>1 DEF Rotated
  <2> QED BY <1>5, <2>4, <2>5
<1> QED BY <1>2, <1>3, <1>4, <1>5

\* The first key on offer is one of the pool's.
LEMMA OfferedIs ==
  ASSUME NEW pl \in Pool, Offered(pl) # {}
  PROVE  /\ Min(Offered(pl)) \in DOMAIN pl.order /\ pl.order[Min(Offered(pl))] \in Keys
         /\ \A i \in Offered(pl) : Min(Offered(pl)) <= i
<1>1. pl.order \in Seq(Keys)
  BY DEF Pool
<1>2. Offered(pl) \subseteq DOMAIN pl.order /\ DOMAIN pl.order \subseteq Nat
  BY <1>1, LenProperties DEF Offered
<1>3. Min(Offered(pl)) \in Offered(pl) /\ \A i \in Offered(pl) : Min(Offered(pl)) <= i
  BY <1>2, MinIs
<1> QED BY <1>1, <1>2, <1>3, LenProperties, ElementOfSeq

\* The models a request may be sent to are in the registry.
LEMMA DefaultIs == EffectiveDefault \in Models \cup {None}
<1> DEFINE at == {i \in DOMAIN Preference :
                     \E m \in Models : ProviderOf[m] = Preference[i] /\ Routable(m)}
<1>1. CASE Routable(Default)
  BY <1>1 DEF EffectiveDefault
<1>2. CASE ~Routable(Default) /\ at = {}
  BY <1>2 DEF EffectiveDefault
<1>3. CASE ~Routable(Default) /\ at # {}
  <2>1. EffectiveDefault = CHOOSE m \in Models : ProviderOf[m] = Preference[Min(at)]
    BY <1>3 DEF EffectiveDefault
  <2>2. at \subseteq Nat
    BY LenProperties
  <2>3. Min(at) \in at
    BY <1>3, <2>2, MinIs
  <2>4. \E m \in Models : ProviderOf[m] = Preference[Min(at)]
    BY <2>3
  <2> QED BY <2>1, <2>4
<1> QED BY <1>1, <1>2, <1>3

\* So are those of the ladder.
LEMMA LadderIs ==
  ASSUME NEW m \in Models
  PROVE  SubstitutionLadder(m) \in Seq(Models)
<1>1. PICK e : e = IF EffectiveDefault = None THEN <<>> ELSE <<EffectiveDefault>>
  OBVIOUS
<1>2. e \in Seq(Models)
  BY <1>1, DefaultIs
<1>3. Chain[m] \in Seq(Models) /\ Chain[Default] \in Seq(Models)
  OBVIOUS
<1>4. PICK all : all = Chain[m] \o Chain[Default] \o e
  OBVIOUS
<1>5. all \in Seq(Models)
  <2>1. Chain[m] \o Chain[Default] \in Seq(Models)
    BY <1>3, ConcatProperties
  <2> QED BY <1>2, <1>4, <2>1, ConcatProperties
<1>6. \E I : SubstitutionLadder(m) = Picked(all, I)
  BY <1>1, <1>4, Zenon DEF SubstitutionLadder
<1> QED BY <1>5, <1>6, PickedIs

\* The next rung that can be served, and what is left of the ladder.
LEMMA RungIs ==
  ASSUME NEW ladder \in Seq(Models)
  PROVE  /\ FirstRoutable(ladder) \in Models \cup {None}
         /\ Rungs(ladder) # {} =>
              SubSeq(ladder, Min(Rungs(ladder)) + 1, Len(ladder)) \in Seq(Models)
<1>1. CASE Rungs(ladder) = {}
  BY <1>1 DEF FirstRoutable
<1>2. CASE Rungs(ladder) # {}
  <2>1. Rungs(ladder) \subseteq 1..Len(ladder) /\ Len(ladder) \in Nat
    BY LenProperties DEF Rungs
  <2>2. PICK i \in 1..Len(ladder) : i = Min(Rungs(ladder))
    <3>1. Rungs(ladder) \subseteq Nat
      BY <2>1
    <3> QED BY <1>2, <2>1, <3>1, MinIs
  <2>3. ladder[i] \in Models /\ FirstRoutable(ladder) = ladder[i]
    BY <1>2, <2>2, ElementOfSeq DEF FirstRoutable
  <2>4. \A j \in i + 1..Len(ladder) : ladder[j] \in Models
    BY <2>1, ElementOfSeq
  <2>5. SubSeq(ladder, i + 1, Len(ladder)) \in Seq(Models)
    BY <2>1, <2>4, SubSeqProperties
  <2> QED BY <2>2, <2>3, <2>5
<1> QED BY <1>1, <1>2

\* A request goes to a model of the registry, or to none.
LEMMA ResolvedIs ==
  ASSUME NEW m \in Models
  PROVE  ResolveRoutable(m) \in Models \cup {None}
BY LadderIs, RungIs DEF ResolveRoutable

----------------------------------------------------------------------------
(* What a step makes of the calls. *)

\* What the balances depend on in a call.
Same(d) ==
    /\ call'[d].pc = call[d].pc /\ call'[d].kind = call[d].kind /\ call'[d].slot = call[d].slot
    /\ call'[d].first = call[d].first /\ call'[d].result = call[d].result

Blamed(r) == r.first \in {"no_api_keys", "all_refused"} => r.result # "all_failed"

\* A step that replaces one call leaves the others as they were.
LEMMA OneCall ==
  ASSUME Shape, NEW c \in Calls, NEW r, DOMAIN r = Fields, call' = [call EXCEPT ![c] = r]
  PROVE  Shape' /\ call'[c] = r /\ \A d \in Calls \ {c} : Same(d)
BY DEF Shape, Same

\* A turn of the pool costs the others that hold it nothing but `smooth`.
LEMMA JoltedIs ==
  ASSUME Shape, NEW c \in Calls
  PROVE  /\ DOMAIN Jolted(c) = Calls /\ Jolted(c)[c] = call[c]
         /\ \A d \in Calls :
              /\ DOMAIN Jolted(c)[d] = Fields
              /\ \A f \in Fields \ {"smooth"} : Jolted(c)[d][f] = call[d][f]
<1>1. ASSUME NEW d \in Calls
      PROVE  /\ DOMAIN Jolted(c)[d] = Fields
             /\ \A f \in Fields \ {"smooth"} : Jolted(c)[d][f] = call[d][f]
  <2>1. DOMAIN call[d] = Fields
    BY DEF Shape
  <2>2. Jolted(c)[d] = [call[d] EXCEPT !.smooth = FALSE] \/ Jolted(c)[d] = call[d]
    BY DEF Jolted
  <2> QED BY <2>1, <2>2 DEF Fields
<1> QED BY <1>1 DEF Jolted

\* A step that moves one call and jolts others, or none, leaves these where they were.
LEMMA OneCallOf ==
  ASSUME Shape, NEW c \in Calls, NEW r, DOMAIN r = Fields,
         NEW calls \in {call, Jolted(c)}, call' = [calls EXCEPT ![c] = r]
  PROVE  Shape' /\ call'[c] = r /\ \A d \in Calls \ {c} : Same(d)
<1>1. CASE calls = call
  BY <1>1, OneCall
<1>2. CASE calls = Jolted(c)
  <2>1. PICK js : js = Jolted(c)
    OBVIOUS
  <2>2. /\ DOMAIN js = Calls
        /\ \A d \in Calls : DOMAIN js[d] = Fields /\ \A f \in Fields \ {"smooth"} : js[d][f] = call[d][f]
    BY <2>1, JoltedIs
  <2>3. call' = [js EXCEPT ![c] = r]
    BY <1>2, <2>1
  <2>4. DOMAIN call' = Calls /\ call'[c] = r /\ \A d \in Calls \ {c} : call'[d] = js[d]
    BY <2>2, <2>3
  <2>5. ASSUME NEW d \in Calls \ {c} PROVE Same(d) /\ DOMAIN call'[d] = Fields
    <3>1. call'[d] = js[d] /\ DOMAIN js[d] = Fields
      BY <2>2, <2>4
    <3>2. /\ js[d].pc = call[d].pc /\ js[d].kind = call[d].kind /\ js[d].slot = call[d].slot
          /\ js[d].first = call[d].first /\ js[d].result = call[d].result
      BY <2>2 DEF Fields
    <3> QED BY <3>1, <3>2 DEF Same
  <2>6. DOMAIN call'[c] = Fields
    BY <2>4
  <2>7. \A d \in Calls : DOMAIN call'[d] = Fields
    BY <2>5, <2>6
  <2> QED BY <2>4, <2>5, <2>7 DEF Shape
<1> QED BY <1>1, <1>2

\* The fields of an idle call.
LEMMA IdleIs ==
  /\ DOMAIN IdleCall = Fields /\ IdleCall.pc = "idle" /\ IdleCall.kind = None
  /\ IdleCall.slot = None /\ IdleCall.first = None /\ IdleCall.result = None
BY DEF IdleCall, Fields

\* A call that has returned.
LEMMA FinishedIs ==
  ASSUME NEW c \in Calls, NEW res
  PROVE  /\ DOMAIN Finished(c, res) = Fields /\ Finished(c, res).pc = "done"
         /\ Finished(c, res).first = call[c].first /\ Finished(c, res).result = res
BY DEF Finished, IdleCall, Fields

\* The end of the ladder does not hide that it was the keys.
LEMMA ExhaustedBlames ==
  ASSUME NEW first, first \in {"no_api_keys", "all_refused"}
  PROVE  Exhausted(first) # "all_failed"
BY DEF Exhausted

\* The next rung, the stand-in or the end.
LEMMA FallbackIs ==
  ASSUME NEW c \in Calls, NEW first, NEW ladder
  PROVE  /\ DOMAIN Fallback(c, first, ladder) = Fields
         /\ Fallback(c, first, ladder).pc \in {"done", "try", "cli"}
         /\ Blamed(Fallback(c, first, ladder))
<1> DEFINE m == FirstRoutable(ladder)
           p == ProviderOf[call[c].asked]
           rung == [IdleCall EXCEPT !.kind = "complete", !.asked = call[c].asked, !.first = first]
           rest == SubSeq(ladder, Min(Rungs(ladder)) + 1, Len(ladder))
           F == Fallback(c, first, ladder)
<1>1. DOMAIN rung = Fields /\ rung.result = None
  BY DEF IdleCall, Fields
<1>2. CASE m # None
  <2>1. F = [rung EXCEPT !.pc = "try", !.model = m, !.ladder = rest]
    BY <1>2 DEF Fallback
  <2> HIDE DEF rung, F, m, rest
  <2>2. DOMAIN F = Fields /\ F.pc = "try" /\ F.result = None
    BY <1>1, <2>1 DEF Fields
  <2> QED BY <2>2 DEF Blamed, F, None
<1>3. CASE m = None /\ p \in loaded \cap Cli
  <2>1. F = [rung EXCEPT !.pc = "cli", !.model = call[c].asked]
    BY <1>3 DEF Fallback
  <2> HIDE DEF rung, F, m
  <2>2. DOMAIN F = Fields /\ F.pc = "cli" /\ F.result = None
    BY <1>1, <2>1 DEF Fields
  <2> QED BY <2>2 DEF Blamed, F, None
<1>4. CASE m = None /\ p \notin loaded \cap Cli
  <2>1. F = [Finished(c, Exhausted(first)) EXCEPT !.first = first]
    BY <1>4 DEF Fallback
  <2> HIDE DEF F
  <2>2. DOMAIN F = Fields /\ F.pc = "done" /\ F.first = first /\ F.result = Exhausted(first)
    BY <2>1, FinishedIs DEF Fields
  <2> QED BY <2>2, ExhaustedBlames DEF Blamed, F
<1> QED BY <1>2, <1>3, <1>4

\* However a rung is left, the call has returned or is on its next rung.
LEMMA LeftIs ==
  ASSUME NEW c \in Calls, NEW res, res # "all_failed"
  PROVE  /\ DOMAIN Left(c, res) = Fields
         /\ Left(c, res).pc \in {"done", "try", "cli"}
         /\ Blamed(Left(c, res))
<1>1. CASE Left(c, res) = Finished(c, res)
  BY <1>1, FinishedIs DEF Blamed
<1>2. CASE \E first, ladder : Left(c, res) = Fallback(c, first, ladder)
  BY <1>2, FallbackIs
<1> QED BY <1>1, <1>2 DEF Left

----------------------------------------------------------------------------
(* The semaphores. *)

\* A permit is taken.
LEMMA PermitTaken ==
  ASSUME PermitBalance, NEW c, c \notin Holders, Holders' = Holders \cup {c},
         permits > 0, permits' = permits - 1
  PROVE  PermitBalance'
<1>1. /\ permits \in Nat /\ IsFiniteSet(Holders) /\ Cardinality(Holders) \in Nat
      /\ permits + Cardinality(Holders) = GlobalConcurrency
  BY FS_CardinalityType DEF PermitBalance
<1>2. IsFiniteSet(Holders \cup {c}) /\ Cardinality(Holders \cup {c}) = Cardinality(Holders) + 1
  BY <1>1, FS_AddElement
<1>3. IsFiniteSet(Holders') /\ Cardinality(Holders') = Cardinality(Holders) + 1
  BY <1>2
<1>4. permits' \in Nat /\ permits' + Cardinality(Holders') = GlobalConcurrency
  BY <1>1, <1>3
<1> QED BY <1>3, <1>4 DEF PermitBalance

\* A permit comes back.
LEMMA PermitBack ==
  ASSUME PermitBalance, NEW c, c \in Holders, Holders' = Holders \ {c}, permits' = permits + 1
  PROVE  PermitBalance'
<1>1. /\ permits \in Nat /\ IsFiniteSet(Holders) /\ Cardinality(Holders) \in Nat
      /\ permits + Cardinality(Holders) = GlobalConcurrency
  BY FS_CardinalityType DEF PermitBalance
<1>2. IsFiniteSet(Holders \ {c}) /\ Cardinality(Holders \ {c}) = Cardinality(Holders) - 1
  BY <1>1, FS_RemoveElement
<1>3. IsFiniteSet(Holders') /\ Cardinality(Holders') = Cardinality(Holders) - 1
  BY <1>2
<1>4. permits' \in Nat /\ permits' + Cardinality(Holders') = GlobalConcurrency
  BY <1>1, <1>3
<1> QED BY <1>3, <1>4 DEF PermitBalance

\* A permit of a slot's limiter is taken.
LEMMA KeyPermitTaken ==
  ASSUME KeyBalance, NEW c, NEW k, keyPermits[k] > 0,
         keyPermits' = [keyPermits EXCEPT ![k] = @ - 1],
         \A s \in Slots : c \notin Claims(s)
                          /\ Claims(s)' = IF s = k THEN Claims(s) \cup {c} ELSE Claims(s)
  PROVE  KeyBalance'
<1>0. keyPermits \in [Slots -> Nat]
  BY DEF KeyBalance
<1>1. \A s \in Slots : keyPermits'[s] = IF s = k THEN keyPermits[s] - 1 ELSE keyPermits[s]
  BY <1>0
<1>2. keyPermits' \in [Slots -> Nat]
  <2>1. keyPermits' = [s \in Slots |-> keyPermits'[s]]
    BY <1>0
  <2>2. ASSUME NEW s \in Slots PROVE keyPermits'[s] \in Nat
    BY <1>0, <1>1, <2>2
  <2> QED BY <2>1, <2>2
<1>3. ASSUME NEW s \in Slots
      PROVE  IsFiniteSet(Claims(s)') /\ keyPermits'[s] + Cardinality(Claims(s)') = PerKeyConcurrency
  <2>1. /\ keyPermits[s] \in Nat /\ IsFiniteSet(Claims(s)) /\ Cardinality(Claims(s)) \in Nat
        /\ keyPermits[s] + Cardinality(Claims(s)) = PerKeyConcurrency
    BY FS_CardinalityType DEF KeyBalance
  <2>2. IsFiniteSet(Claims(s) \cup {c}) /\ Cardinality(Claims(s) \cup {c}) = Cardinality(Claims(s)) + 1
    BY <2>1, FS_AddElement
  <2>3. CASE s = k
    <3>1. IsFiniteSet(Claims(s)') /\ Cardinality(Claims(s)') = Cardinality(Claims(s)) + 1
      BY <2>2, <2>3
    <3>2. keyPermits'[s] = keyPermits[s] - 1
      BY <1>1, <2>3
    <3> QED BY <2>1, <3>1, <3>2
  <2>4. CASE s # k
    BY <1>1, <2>1, <2>4
  <2> QED BY <2>3, <2>4
<1> QED BY <1>2, <1>3 DEF KeyBalance

\* A permit of a slot's limiter comes back.
LEMMA KeyPermitReturned ==
  ASSUME KeyBalance, NEW c, NEW k,
         keyPermits' = [keyPermits EXCEPT ![k] = @ + 1],
         \A s \in Slots : /\ s = k => c \in Claims(s)
                          /\ Claims(s)' = IF s = k THEN Claims(s) \ {c} ELSE Claims(s)
  PROVE  KeyBalance'
<1>0. keyPermits \in [Slots -> Nat]
  BY DEF KeyBalance
<1>1. \A s \in Slots : keyPermits'[s] = IF s = k THEN keyPermits[s] + 1 ELSE keyPermits[s]
  BY <1>0
<1>2. keyPermits' \in [Slots -> Nat]
  <2>1. keyPermits' = [s \in Slots |-> keyPermits'[s]]
    BY <1>0
  <2>2. ASSUME NEW s \in Slots PROVE keyPermits'[s] \in Nat
    BY <1>0, <1>1, <2>2
  <2> QED BY <2>1, <2>2
<1>3. ASSUME NEW s \in Slots
      PROVE  IsFiniteSet(Claims(s)') /\ keyPermits'[s] + Cardinality(Claims(s)') = PerKeyConcurrency
  <2>1. /\ keyPermits[s] \in Nat /\ IsFiniteSet(Claims(s)) /\ Cardinality(Claims(s)) \in Nat
        /\ keyPermits[s] + Cardinality(Claims(s)) = PerKeyConcurrency
    BY FS_CardinalityType DEF KeyBalance
  <2>2. CASE s = k
    <3>1. IsFiniteSet(Claims(s) \ {c}) /\ Cardinality(Claims(s) \ {c}) = Cardinality(Claims(s)) - 1
      BY <2>1, <2>2, FS_RemoveElement
    <3>2. IsFiniteSet(Claims(s)') /\ Cardinality(Claims(s)') = Cardinality(Claims(s)) - 1
      BY <2>2, <3>1
    <3> QED BY <1>1, <2>1, <2>2, <3>2
  <2>3. CASE s # k
    BY <1>1, <2>1, <2>3
  <2> QED BY <2>2, <2>3
<1> QED BY <1>2, <1>3 DEF KeyBalance

----------------------------------------------------------------------------
(* One call moves. *)

\* The global permit goes with the call's place.
PermitMove(c) ==
    \/ permits' = permits /\ (call[c].pc \in InRung <=> call'[c].pc \in InRung)
    \/ /\ permits > 0 /\ permits' = permits - 1
       /\ call[c].pc \notin InRung /\ call'[c].pc \in InRung
    \/ permits' = permits + 1 /\ call[c].pc \in InRung /\ call'[c].pc \notin InRung

\* The limiter's permit goes with the call to the provider.
KeyMove(c) ==
    \/ /\ keyPermits' = keyPermits /\ (HoldsKeyPermit(c)' <=> HoldsKeyPermit(c))
       /\ HoldsKeyPermit(c) => call'[c].slot = call[c].slot
    \/ /\ ~HoldsKeyPermit(c) /\ HoldsKeyPermit(c)' /\ call'[c].slot = call[c].slot
       /\ keyPermits[call[c].slot] > 0
       /\ keyPermits' = [keyPermits EXCEPT ![call[c].slot] = @ - 1]
    \/ /\ HoldsKeyPermit(c) /\ ~HoldsKeyPermit(c)'
       /\ keyPermits' = [keyPermits EXCEPT ![call[c].slot] = @ + 1]

\* One call moves, with what it holds.
Move(c) ==
    /\ Shape' /\ \A d \in Calls \ {c} : Same(d)
    /\ call'[c].pc = "limiter" => call'[c].kind = "complete"
    /\ Blamed(call'[c])
    /\ PermitMove(c) /\ KeyMove(c)

\* A move keeps both kinds of permit in balance.
LEMMA MoveBalances ==
  ASSUME BalanceInv, NEW c \in Calls, Move(c)
  PROVE  BalanceInv'
<1>1. CallInv'
  <2>1. \A d \in Calls : call'[d].pc = "limiter" => call'[d].kind = "complete"
    BY DEF BalanceInv, CallInv, LimiterKind, Move, Same
  <2>2. \A d \in Calls : call'[d].first \in {"no_api_keys", "all_refused"} => call'[d].result # "all_failed"
    BY DEF BalanceInv, CallInv, KeysAreBlamed, Move, Same, Blamed
  <2> QED BY <2>1, <2>2 DEF CallInv, LimiterKind, KeysAreBlamed, Move
<1>2. PermitBalance'
  <2>0. PermitBalance /\ PermitMove(c)
    BY DEF BalanceInv, Move
  <2>1. Holders' = IF call'[c].pc \in InRung THEN Holders \cup {c} ELSE Holders \ {c}
    BY DEF Holders, Move, Same
  <2>2. c \in Holders <=> call[c].pc \in InRung
    BY DEF Holders
  <2>3. CASE permits' = permits /\ (call[c].pc \in InRung <=> call'[c].pc \in InRung)
    <3>1. Holders' = Holders
      BY <2>1, <2>2, <2>3
    <3> QED BY <2>0, <2>3, <3>1 DEF PermitBalance
  <2>4. CASE /\ permits > 0 /\ permits' = permits - 1
             /\ call[c].pc \notin InRung /\ call'[c].pc \in InRung
    BY <2>0, <2>1, <2>2, <2>4, PermitTaken
  <2>5. CASE permits' = permits + 1 /\ call[c].pc \in InRung /\ call'[c].pc \notin InRung
    BY <2>0, <2>1, <2>2, <2>5, PermitBack
  <2> QED BY <2>0, <2>3, <2>4, <2>5 DEF PermitMove
<1>3. KeyBalance'
  <2>0. KeyBalance /\ KeyMove(c)
    BY DEF BalanceInv, Move
  <2>1. ASSUME NEW s \in Slots
        PROVE  /\ c \in Claims(s) <=> HoldsKeyPermit(c) /\ call[c].slot = s
               /\ Claims(s)' = IF HoldsKeyPermit(c)' /\ call'[c].slot = s
                               THEN Claims(s) \cup {c} ELSE Claims(s) \ {c}
    BY DEF Claims, HoldsKeyPermit, Move, Same
  <2>2. PICK k : k = call[c].slot
    OBVIOUS
  <2>3. CASE /\ keyPermits' = keyPermits /\ (HoldsKeyPermit(c)' <=> HoldsKeyPermit(c))
             /\ HoldsKeyPermit(c) => call'[c].slot = call[c].slot
    <3>1. ASSUME NEW s \in Slots PROVE Claims(s)' = Claims(s)
      <4>1. HoldsKeyPermit(c)' /\ call'[c].slot = s <=> c \in Claims(s)
        BY <2>1, <2>3
      <4>2. Claims(s)' = IF c \in Claims(s) THEN Claims(s) \cup {c} ELSE Claims(s) \ {c}
        BY <2>1, <4>1
      <4> QED BY <4>2
    <3> QED BY <2>0, <2>3, <3>1 DEF KeyBalance
  <2>4. CASE /\ ~HoldsKeyPermit(c) /\ HoldsKeyPermit(c)' /\ call'[c].slot = call[c].slot
             /\ keyPermits[call[c].slot] > 0
             /\ keyPermits' = [keyPermits EXCEPT ![call[c].slot] = @ - 1]
    <3>1. ASSUME NEW s \in Slots
          PROVE  c \notin Claims(s) /\ Claims(s)' = IF s = k THEN Claims(s) \cup {c} ELSE Claims(s)
      <4>1. c \notin Claims(s) /\ (HoldsKeyPermit(c)' /\ call'[c].slot = s <=> s = k)
        BY <2>1, <2>2, <2>4
      <4>2. Claims(s)' = IF s = k THEN Claims(s) \cup {c} ELSE Claims(s) \ {c}
        BY <2>1, <4>1
      <4> QED BY <4>1, <4>2
    <3>2. keyPermits[k] > 0 /\ keyPermits' = [keyPermits EXCEPT ![k] = @ - 1]
      BY <2>2, <2>4
    <3> QED BY <2>0, <3>1, <3>2, KeyPermitTaken
  <2>5. CASE /\ HoldsKeyPermit(c) /\ ~HoldsKeyPermit(c)'
             /\ keyPermits' = [keyPermits EXCEPT ![call[c].slot] = @ + 1]
    <3>1. \A s \in Slots : /\ s = k => c \in Claims(s)
                           /\ Claims(s)' = IF s = k THEN Claims(s) \ {c} ELSE Claims(s)
      BY <2>1, <2>2, <2>5
    <3>2. keyPermits' = [keyPermits EXCEPT ![k] = @ + 1]
      BY <2>2, <2>5
    <3> QED BY <2>0, <3>1, <3>2, KeyPermitReturned
  <2> QED BY <2>0, <2>3, <2>4, <2>5 DEF KeyMove
<1> QED BY <1>1, <1>2, <1>3 DEF BalanceInv

\* A step that moves no call moves no permit.
LEMMA StillBalances ==
  ASSUME BalanceInv, Shape', \A d \in Calls : Same(d), UNCHANGED limits
  PROVE  BalanceInv'
<1>1. permits' = permits /\ keyPermits' = keyPermits
  BY DEF limits
<1>2. CallInv'
  BY DEF BalanceInv, CallInv, LimiterKind, KeysAreBlamed, Same
<1>3. Holders' = Holders
  BY DEF Holders, Same
<1>4. \A s \in Slots : Claims(s)' = Claims(s)
  BY DEF Claims, HoldsKeyPermit, Same
<1> QED BY <1>1, <1>2, <1>3, <1>4 DEF BalanceInv, PermitBalance, KeyBalance

\* Where no permit of a limiter is held before or after, none changes hands.
LEMMA KeyApart ==
  ASSUME NEW c \in Calls, ~HoldsKeyPermit(c), ~HoldsKeyPermit(c)', keyPermits' = keyPermits
  PROVE  KeyMove(c)
BY DEF KeyMove

\* What KeyPermitBack does when the call to the provider is over.
LEMMA KeyGivenBack ==
  ASSUME NEW c \in Calls, KeyPermitBack(c), ~HoldsKeyPermit(c)'
  PROVE  KeyMove(c)
BY DEF KeyMove, KeyPermitBack

\* The call goes to another place with everything else it has.
LEMMA GoingIs ==
  ASSUME Shape, NEW c \in Calls, NEW where, Going(c, where)
  PROVE  /\ Shape' /\ \A d \in Calls \ {c} : Same(d)
         /\ call'[c].pc = where /\ call'[c].kind = call[c].kind /\ call'[c].slot = call[c].slot
         /\ call'[c].first = call[c].first /\ call'[c].result = call[c].result
<1> DEFINE r == [call[c] EXCEPT !.pc = where]
<1>1. call' = [call EXCEPT ![c] = r]
  BY DEF Going
<1>2. /\ DOMAIN r = Fields /\ r.pc = where /\ r.kind = call[c].kind /\ r.slot = call[c].slot
      /\ r.first = call[c].first /\ r.result = call[c].result
  BY DEF Shape, Fields
<1> HIDE DEF r
<1> QED BY <1>1, <1>2, OneCall

\* A rung is left with the key's permit given back, or with none held.
LEMMA RungLeft ==
  ASSUME BalanceInv, NEW c \in Calls, NEW res, res # "all_failed",
         NEW calls \in {call, Jolted(c)}, LeaveRungOf(calls, c, res),
         call[c].pc \in InRung,
         KeyPermitBack(c)
  PROVE  Move(c)
<1>0. Shape
  BY DEF BalanceInv, CallInv
<1>1. /\ DOMAIN Left(c, res) = Fields /\ Left(c, res).pc \in {"done", "try", "cli"}
      /\ Blamed(Left(c, res))
  BY LeftIs
<1>2. Shape' /\ call'[c] = Left(c, res) /\ \A d \in Calls \ {c} : Same(d)
  BY <1>0, <1>1, OneCallOf DEF LeaveRungOf
<1>3. PermitMove(c)
  BY <1>1, <1>2 DEF LeaveRungOf, PermitMove, InRung
<1>4. ~HoldsKeyPermit(c)'
  BY <1>1, <1>2 DEF HoldsKeyPermit
<1>5. KeyMove(c)
  BY <1>4, KeyGivenBack
<1> QED BY <1>1, <1>2, <1>3, <1>5 DEF Move

\* A call that ends gives back the permit it holds.
LEMMA CallEnds ==
  ASSUME BalanceInv, NEW c \in Calls, NEW r, DOMAIN r = Fields, r.pc \notin InRung, Blamed(r),
         call' = [call EXCEPT ![c] = r],
         call[c].pc \in InRung => permits' = permits + 1,
         call[c].pc \notin InRung => permits' = permits,
         KeyPermitBack(c)
  PROVE  Move(c)
<1>1. Shape' /\ call'[c] = r /\ \A d \in Calls \ {c} : Same(d)
  BY OneCall DEF BalanceInv, CallInv
<1>2. PermitMove(c)
  BY <1>1 DEF PermitMove
<1>3. ~HoldsKeyPermit(c)'
  BY <1>1 DEF HoldsKeyPermit, InRung
<1>4. KeyMove(c)
  BY <1>3, KeyGivenBack
<1> QED BY <1>1, <1>2, <1>4 DEF Move, InRung

\* Every step of a request is a move of that request.
LEMMA RequestMoves ==
  ASSUME BalanceInv, NEW c \in Calls
  PROVE  /\ \A ask \in Asks[c] : Begin(c, ask) => Move(c)
         /\ AcquirePermit(c) => Move(c)
         /\ TryModel(c) => Move(c)
         /\ AcquireLimiter(c) => Move(c)
         /\ WaitedForCooldown(c) => Move(c)
         /\ BackoffEnds(c) => Move(c)
         /\ StreamEnds(c) => Move(c)
         /\ Return(c) => Move(c)
         /\ Cancel(c) => Move(c)
         /\ \A o \in {"ok", "fails"} : CliAnswers(c, o) => Move(c)
<1>0. Shape /\ LimiterKind /\ Blamed(call[c]) /\ c \in DOMAIN call /\ DOMAIN call[c] = Fields
  BY DEF BalanceInv, CallInv, KeysAreBlamed, Blamed, Shape
<1>1. ASSUME NEW ask \in Asks[c], Begin(c, ask) PROVE Move(c)
  <2>1. PICK r : /\ DOMAIN r = Fields /\ r.pc \notin InRung /\ Blamed(r)
                 /\ call' = [call EXCEPT ![c] = r]
    <3> DEFINE m == IF ask[1] = "complete" THEN ResolveRoutable(ask[2]) ELSE ask[2]
               a == [IdleCall EXCEPT !.pc = "done", !.result = "no_routable"]
               b == [IdleCall EXCEPT !.pc = "permit", !.kind = ask[1], !.asked = m, !.model = m]
    <3>1. call' = [call EXCEPT ![c] = IF m = None THEN a ELSE b]
      BY <1>1 DEF Begin
    <3> HIDE DEF m
    <3>2. DOMAIN a = Fields /\ a.pc = "done" /\ a.first = None
      BY IdleIs DEF Fields
    <3>3. DOMAIN b = Fields /\ b.pc = "permit" /\ b.first = None
      BY IdleIs DEF Fields
    <3> HIDE DEF a, b
    <3> QED BY <3>1, <3>2, <3>3 DEF InRung, Blamed, None
  <2>2. call[c].pc = "idle" /\ permits' = permits /\ keyPermits' = keyPermits
    BY <1>1 DEF Begin, At, limits
  <2>3. call[c].pc \notin InRung /\ ~HoldsKeyPermit(c)
    BY <2>2 DEF InRung, HoldsKeyPermit
  <2> QED BY <2>1, <2>2, <2>3, CallEnds DEF KeyPermitBack
<1>2. ASSUME AcquirePermit(c) PROVE Move(c)
  <2>0. call[c].pc = "permit" /\ permits > 0 /\ keyPermits' = keyPermits
    BY <1>2 DEF AcquirePermit, At
  <2>1. call[c].pc \notin InRung /\ ~HoldsKeyPermit(c)
    BY <2>0 DEF InRung, HoldsKeyPermit
  <2>2. CASE permits' = permits /\ call' = [call EXCEPT ![c] = Finished(c, "no_routable")]
    <3>1. /\ DOMAIN Finished(c, "no_routable") = Fields /\ Finished(c, "no_routable").pc \notin InRung
          /\ Blamed(Finished(c, "no_routable"))
      BY FinishedIs DEF Blamed, InRung
    <3> QED BY <2>0, <2>1, <2>2, <3>1, CallEnds DEF KeyPermitBack
  <2>3. CASE /\ permits' = permits - 1
             /\ \E m : call' = [call EXCEPT ![c] = [call[c] EXCEPT !.pc = "try", !.model = m, !.asked = m]]
    <3>1. PICK m : call' = [call EXCEPT ![c] = [call[c] EXCEPT !.pc = "try", !.model = m, !.asked = m]]
      BY <2>3
    <3> DEFINE r == [call[c] EXCEPT !.pc = "try", !.model = m, !.asked = m]
    <3>2. DOMAIN r = Fields /\ r.pc = "try" /\ r.first = call[c].first /\ r.result = call[c].result
      BY <1>0 DEF Fields
    <3> HIDE DEF r
    <3>3. Shape' /\ call'[c] = r /\ \A d \in Calls \ {c} : Same(d)
      BY <1>0, <3>1, <3>2, OneCall DEF r
    <3>4. PermitMove(c)
      BY <2>0, <2>1, <2>3, <3>2, <3>3 DEF PermitMove, InRung
    <3>5. ~HoldsKeyPermit(c)'
      BY <3>2, <3>3 DEF HoldsKeyPermit
    <3>6. KeyMove(c)
      BY <2>0, <2>1, <3>5, KeyApart
    <3> QED BY <1>0, <3>2, <3>3, <3>4, <3>6 DEF Move, Blamed
  <2> QED
    BY <1>2, <2>2, <2>3 DEF AcquirePermit
<1>3. ASSUME TryModel(c) PROVE Move(c)
  <2>0. call[c].pc = "try" /\ keyPermits' = keyPermits
    BY <1>3 DEF TryModel, At
  <2>1. call[c].pc \in InRung /\ ~HoldsKeyPermit(c)
    BY <2>0 DEF InRung, HoldsKeyPermit
  <2>2. CASE \E res \in {"unroutable", "max_retries"} : LeaveRung(c, res)
    <3>1. PICK res \in {"unroutable", "max_retries"} : LeaveRungOf(call, c, res)
      BY <2>2 DEF LeaveRung
    <3> QED BY <2>0, <2>1, <3>1, RungLeft DEF KeyPermitBack
  <2>3. CASE Going(c, "attempt") /\ permits' = permits
    <3>1. /\ Shape' /\ \A d \in Calls \ {c} : Same(d)
          /\ call'[c].pc = "attempt" /\ Blamed(call'[c])
      BY <1>0, <2>3, GoingIs DEF Blamed
    <3>2. PermitMove(c) /\ ~HoldsKeyPermit(c)'
      BY <2>1, <2>3, <3>1 DEF PermitMove, HoldsKeyPermit, InRung
    <3> QED BY <2>0, <2>1, <3>1, <3>2, KeyApart DEF Move
  <2> QED BY <1>3, <2>2, <2>3 DEF TryModel
<1>4. ASSUME AcquireLimiter(c) PROVE Move(c)
  <2>1. /\ call[c].pc = "limiter" /\ Going(c, "calling") /\ permits' = permits
        /\ keyPermits[call[c].slot] > 0
        /\ keyPermits' = [keyPermits EXCEPT ![call[c].slot] = @ - 1]
    BY <1>4 DEF AcquireLimiter, At
  <2>2. /\ Shape' /\ \A d \in Calls \ {c} : Same(d)
        /\ call'[c].pc = "calling" /\ Blamed(call'[c])
        /\ call'[c].kind = call[c].kind /\ call'[c].slot = call[c].slot
    BY <1>0, <2>1, GoingIs DEF Blamed
  <2>3. call[c].kind = "complete"
    BY <1>0, <2>1 DEF LimiterKind
  <2>4. PermitMove(c)
    BY <2>1, <2>2 DEF PermitMove, InRung
  <2>5. ~HoldsKeyPermit(c) /\ HoldsKeyPermit(c)'
    BY <2>1, <2>2, <2>3 DEF HoldsKeyPermit
  <2>6. KeyMove(c)
    BY <2>1, <2>2, <2>5 DEF KeyMove
  <2> QED BY <2>2, <2>4, <2>6 DEF Move
<1>5. ASSUME WaitedForCooldown(c) PROVE Move(c)
  <2> DEFINE r == [call[c] EXCEPT !.pc = "attempt", !.attempt = 0, !.waits = @ + 1]
  <2>1. /\ call[c].pc = "cooldown" /\ call' = [call EXCEPT ![c] = r]
        /\ permits' = permits /\ keyPermits' = keyPermits
    BY <1>5 DEF WaitedForCooldown, At, limits
  <2>2. DOMAIN r = Fields /\ r.pc = "attempt" /\ r.first = call[c].first /\ r.result = call[c].result
    BY <1>0 DEF Fields
  <2> HIDE DEF r
  <2>3. Shape' /\ call'[c] = r /\ \A d \in Calls \ {c} : Same(d)
    BY <1>0, <2>1, <2>2, OneCall
  <2>4. PermitMove(c) /\ ~HoldsKeyPermit(c) /\ ~HoldsKeyPermit(c)'
    BY <2>1, <2>2, <2>3 DEF PermitMove, HoldsKeyPermit, InRung
  <2> QED BY <1>0, <2>1, <2>2, <2>3, <2>4, KeyApart DEF Move, Blamed
<1>6. ASSUME BackoffEnds(c) PROVE Move(c)
  <2> DEFINE r == [call[c] EXCEPT !.pc = "attempt", !.slot = None]
  <2>1. /\ call[c].pc = "backoff" /\ call' = [call EXCEPT ![c] = r]
        /\ permits' = permits /\ KeyPermitBack(c)
    BY <1>6 DEF BackoffEnds, At
  <2>2. DOMAIN r = Fields /\ r.pc = "attempt" /\ r.first = call[c].first /\ r.result = call[c].result
    BY <1>0 DEF Fields
  <2> HIDE DEF r
  <2>3. Shape' /\ call'[c] = r /\ \A d \in Calls \ {c} : Same(d)
    BY <1>0, <2>1, <2>2, OneCall
  <2>4. PermitMove(c) /\ ~HoldsKeyPermit(c)'
    BY <2>1, <2>2, <2>3 DEF PermitMove, HoldsKeyPermit, InRung
  <2> QED BY <1>0, <2>1, <2>2, <2>3, <2>4, KeyGivenBack DEF Move, Blamed
<1>7. ASSUME StreamEnds(c) PROVE Move(c)
  <2>1. /\ call[c].pc = "stream" /\ call' = [call EXCEPT ![c] = Finished(c, "ok")]
        /\ permits' = permits + 1 /\ keyPermits' = keyPermits
    BY <1>7 DEF StreamEnds, At
  <2>2. call[c].pc \in InRung /\ ~HoldsKeyPermit(c)
    BY <2>1 DEF InRung, HoldsKeyPermit
  <2>3. /\ DOMAIN Finished(c, "ok") = Fields /\ Finished(c, "ok").pc \notin InRung
        /\ Blamed(Finished(c, "ok"))
    BY FinishedIs DEF Blamed, InRung
  <2> QED BY <2>1, <2>2, <2>3, CallEnds DEF KeyPermitBack
<1>8. ASSUME Return(c) PROVE Move(c)
  <2>1. /\ call[c].pc = "done" /\ call' = [call EXCEPT ![c] = IdleCall]
        /\ permits' = permits /\ keyPermits' = keyPermits
    BY <1>8 DEF Return, At, limits
  <2>2. call[c].pc \notin InRung /\ ~HoldsKeyPermit(c)
    BY <2>1 DEF InRung, HoldsKeyPermit
  <2>3. DOMAIN IdleCall = Fields /\ IdleCall.pc \notin InRung /\ Blamed(IdleCall)
    BY IdleIs DEF Blamed, InRung, None
  <2> QED BY <2>1, <2>2, <2>3, CallEnds DEF KeyPermitBack
<1>9. ASSUME Cancel(c) PROVE Move(c)
  <2>1. /\ call' = [call EXCEPT ![c] = IdleCall] /\ KeyPermitBack(c)
        /\ call[c].pc \in InRung => permits' = permits + 1
        /\ call[c].pc \notin InRung => permits' = permits
    BY <1>9 DEF Cancel, At, InRung
  <2>2. DOMAIN IdleCall = Fields /\ IdleCall.pc \notin InRung /\ Blamed(IdleCall)
    BY IdleIs DEF Blamed, InRung, None
  <2>3. PICK r : r = IdleCall
    OBVIOUS
  <2>4. /\ DOMAIN r = Fields /\ r.pc \notin InRung /\ Blamed(r)
        /\ call' = [call EXCEPT ![c] = r]
    BY <2>1, <2>2, <2>3
  <2> QED BY <2>1, <2>4, CallEnds
<1>10. ASSUME NEW o \in {"ok", "fails"}, CliAnswers(c, o) PROVE Move(c)
  <2>1. PICK res : /\ call[c].first \in {"no_api_keys", "all_refused"} => res # "all_failed"
                   /\ call' = [call EXCEPT ![c] = Finished(c, res)]
    BY <1>10, ExhaustedBlames DEF CliAnswers
  <2>2. call[c].pc = "cli" /\ permits' = permits + 1 /\ keyPermits' = keyPermits
    BY <1>10 DEF CliAnswers, At
  <2>3. call[c].pc \in InRung /\ ~HoldsKeyPermit(c)
    BY <2>2 DEF InRung, HoldsKeyPermit
  <2>4. /\ DOMAIN Finished(c, res) = Fields /\ Finished(c, res).pc \notin InRung
        /\ Blamed(Finished(c, res))
    BY <2>1, FinishedIs DEF Blamed, InRung
  <2> QED BY <2>1, <2>2, <2>3, <2>4, CallEnds DEF KeyPermitBack
<1> QED BY <1>1, <1>2, <1>3, <1>4, <1>5, <1>6, <1>7, <1>8, <1>9, <1>10

\* The next turn of the loop keeps what the balances depend on but place and slot.
LEMMA AgainIs ==
  ASSUME Shape, NEW c \in Calls, NEW where, NEW refused \in BOOLEAN, Again(c, where, refused)
  PROVE  /\ Shape' /\ \A d \in Calls \ {c} : Same(d)
         /\ call'[c].pc = where /\ call'[c].kind = call[c].kind
         /\ where = "backoff" => call'[c].slot = call[c].slot
         /\ call'[c].first = call[c].first /\ call'[c].result = call[c].result
<1> DEFINE r == [call[c] EXCEPT !.pc = where, !.attempt = @ + 1,
                                !.slot = IF where = "backoff" THEN @ ELSE None,
                                !.refusals = IF refused THEN @ \cup {call[c].slot} ELSE @,
                                !.other = @ \/ ~refused]
<1>1. call' = [call EXCEPT ![c] = r]
  BY DEF Again
<1>2. /\ DOMAIN r = Fields /\ r.pc = where /\ r.kind = call[c].kind
      /\ where = "backoff" => r.slot = call[c].slot
      /\ r.first = call[c].first /\ r.result = call[c].result
  BY DEF Shape, Fields
<1> HIDE DEF r
<1> QED BY <1>1, <1>2, OneCall

\* Every answer to a request, and every turn of its loop, is a move of that request.
LEMMA AnswerMoves ==
  ASSUME BalanceInv, NEW c \in Calls
  PROVE  /\ Attempt(c) => Move(c)
         /\ RoundOver(c) => Move(c)
         /\ \A o \in Outcomes : AnswerComplete(c, o) => Move(c)
         /\ \A o \in Outcomes : AnswerStream(c, o) => Move(c)
<1>0. Shape /\ LimiterKind /\ Blamed(call[c]) /\ c \in DOMAIN call /\ DOMAIN call[c] = Fields
  BY DEF BalanceInv, CallInv, KeysAreBlamed, Blamed, Shape
<1>1. ASSUME Attempt(c) PROVE Move(c)
  <2>1. PICK s \in Offers(c) :
          call' = [Jolted(c) EXCEPT ![c].slot = s, ![c].smooth = @ /\ pool[Provider(c)].cooling = {},
                                    ![c].pc = IF call[c].kind = "complete" THEN "limiter" ELSE "calling"]
    BY <1>1 DEF Attempt
  <2>2. call[c].pc = "attempt" /\ permits' = permits /\ keyPermits' = keyPermits
    BY <1>1 DEF Attempt, At, limits
  <2> DEFINE w == IF call[c].kind = "complete" THEN "limiter" ELSE "calling"
             r == [call[c] EXCEPT !.slot = s, !.smooth = @ /\ pool[Provider(c)].cooling = {}, !.pc = w]
  <2>3. /\ DOMAIN r = Fields /\ r.pc = w /\ r.kind = call[c].kind
        /\ r.first = call[c].first /\ r.result = call[c].result
    BY <1>0 DEF Fields
  <2>4. call' = [Jolted(c) EXCEPT ![c] = r]
    <3>1. DOMAIN Jolted(c) = Calls /\ Jolted(c)[c] = call[c]
      BY <1>0, JoltedIs
    <3> QED BY <2>1, <3>1
  <2> HIDE DEF r
  <2>5. Shape' /\ call'[c] = r /\ \A d \in Calls \ {c} : Same(d)
    BY <1>0, <2>3, <2>4, OneCallOf
  <2>6. PermitMove(c) /\ ~HoldsKeyPermit(c) /\ ~HoldsKeyPermit(c)'
    BY <2>2, <2>3, <2>5 DEF PermitMove, HoldsKeyPermit, InRung
  <2>7. KeyMove(c)
    BY <2>2, <2>6, KeyApart
  <2>8. Blamed(call'[c]) /\ (call'[c].pc = "limiter" => call'[c].kind = "complete")
    BY <1>0, <2>3, <2>5 DEF Blamed
  <2> QED BY <2>5, <2>6, <2>7, <2>8 DEF Move
<1>2. ASSUME RoundOver(c) PROVE Move(c)
  <2>0. call[c].pc = "attempt" /\ keyPermits' = keyPermits
    BY <1>2 DEF RoundOver, At
  <2>1. call[c].pc \in InRung /\ ~HoldsKeyPermit(c)
    BY <2>0 DEF InRung, HoldsKeyPermit
  <2>2. CASE \E calls \in {call, Jolted(c)} : \E spent : LeaveRungOf(calls, c, RoundResult(c, spent))
    <3>1. PICK calls \in {call, Jolted(c)} : \E spent : LeaveRungOf(calls, c, RoundResult(c, spent))
      BY <2>2
    <3>3. PICK spent : LeaveRungOf(calls, c, RoundResult(c, spent))
      BY <3>1
    <3>2. RoundResult(c, spent) # "all_failed"
      BY DEF RoundResult
    <3> QED BY <2>0, <2>1, <3>2, <3>3, RungLeft DEF KeyPermitBack
  <2>3. CASE \E calls \in {call, Jolted(c)} :
               permits' = permits /\ call' = [calls EXCEPT ![c].pc = "cooldown", ![c].other = TRUE]
    <3> DEFINE r == [call[c] EXCEPT !.pc = "cooldown", !.other = TRUE]
    <3>1. DOMAIN r = Fields /\ r.pc = "cooldown" /\ r.first = call[c].first /\ r.result = call[c].result
      BY <1>0 DEF Fields
    <3> HIDE DEF r
    <3>2. Shape' /\ call'[c] = r /\ \A d \in Calls \ {c} : Same(d)
      <4>1. PICK calls \in {call, Jolted(c)} :
               call' = [calls EXCEPT ![c].pc = "cooldown", ![c].other = TRUE]
        BY <2>3
      <4>2. calls[c] = call[c] /\ DOMAIN calls = Calls
        BY <1>0, JoltedIs DEF Shape
      <4>3. call' = [calls EXCEPT ![c] = r]
        BY <4>1, <4>2 DEF r
      <4> QED BY <1>0, <3>1, <4>3, OneCallOf
    <3>3. PermitMove(c) /\ ~HoldsKeyPermit(c)'
      BY <2>1, <2>3, <3>1, <3>2 DEF PermitMove, HoldsKeyPermit, InRung
    <3> QED BY <1>0, <2>0, <2>1, <3>1, <3>2, <3>3, KeyApart DEF Move, Blamed
  <2>4. PICK calls \in {call, Jolted(c)} :
           \/ permits' = permits /\ call' = [calls EXCEPT ![c].pc = "cooldown", ![c].other = TRUE]
           \/ \E spent : LeaveRungOf(calls, c, RoundResult(c, spent))
    BY <1>2 DEF RoundOver
  <2> QED BY <2>2, <2>3, <2>4
<1>3. ASSUME NEW o \in Outcomes, AnswerComplete(c, o) PROVE Move(c)
  <2>0. call[c].pc = "calling" /\ call[c].kind = "complete"
    BY <1>3 DEF AnswerComplete, At
  <2>1. call[c].pc \in InRung /\ HoldsKeyPermit(c)
    BY <2>0 DEF InRung, HoldsKeyPermit
  <2>2. CASE o \in {"rate_limited", "auth"}
    <3>1. Again(c, "attempt", o = "auth") /\ KeyPermitBack(c) /\ permits' = permits
      BY <1>3, <2>2 DEF AnswerComplete
    <3>2. /\ Shape' /\ \A d \in Calls \ {c} : Same(d)
          /\ call'[c].pc = "attempt" /\ Blamed(call'[c])
      BY <1>0, <3>1, AgainIs DEF Blamed
    <3>3. PermitMove(c) /\ ~HoldsKeyPermit(c)'
      BY <2>1, <3>1, <3>2 DEF PermitMove, HoldsKeyPermit, InRung
    <3> QED BY <3>1, <3>2, <3>3, KeyGivenBack DEF Move
  <2>3. CASE o = "transient"
    <3>1. Again(c, "backoff", FALSE) /\ permits' = permits /\ keyPermits' = keyPermits
      BY <1>3, <2>3 DEF AnswerComplete
    <3>2. /\ Shape' /\ \A d \in Calls \ {c} : Same(d)
          /\ call'[c].pc = "backoff" /\ call'[c].kind = call[c].kind
          /\ call'[c].slot = call[c].slot /\ Blamed(call'[c])
      BY <1>0, <3>1, AgainIs DEF Blamed
    <3>3. PermitMove(c) /\ HoldsKeyPermit(c)'
      BY <2>0, <2>1, <3>1, <3>2 DEF PermitMove, HoldsKeyPermit, InRung
    <3>4. KeyMove(c)
      BY <2>1, <3>1, <3>2, <3>3 DEF KeyMove
    <3> QED BY <3>2, <3>3, <3>4 DEF Move
  <2>4. CASE o \in {"ok", "empty", "fatal"}
    <3>1. PICK res \in {"ok", "llm"} : LeaveRungOf(call, c, res) /\ KeyPermitBack(c)
      BY <1>3, <2>4 DEF AnswerComplete, LeaveRung
    <3> QED BY <2>1, <3>1, RungLeft
  <2> QED BY <2>2, <2>3, <2>4 DEF Outcomes
<1>4. ASSUME NEW o \in Outcomes, AnswerStream(c, o) PROVE Move(c)
  <2>0. call[c].pc = "calling" /\ call[c].kind = "stream" /\ keyPermits' = keyPermits
    BY <1>4 DEF AnswerStream, At
  <2>1. call[c].pc \in InRung /\ ~HoldsKeyPermit(c)
    BY <2>0 DEF InRung, HoldsKeyPermit
  <2>2. CASE o = "ok"
    <3> DEFINE r == [IdleCall EXCEPT !.pc = "stream", !.kind = "stream"]
    <3>1. call' = [call EXCEPT ![c] = r] /\ permits' = permits
      BY <1>4, <2>2 DEF AnswerStream
    <3>2. DOMAIN r = Fields /\ r.pc = "stream" /\ r.first = None
      BY IdleIs DEF Fields
    <3> HIDE DEF r
    <3>3. Shape' /\ call'[c] = r /\ \A d \in Calls \ {c} : Same(d)
      BY <1>0, <3>1, <3>2, OneCall
    <3>4. PermitMove(c) /\ ~HoldsKeyPermit(c)'
      BY <2>1, <3>1, <3>2, <3>3 DEF PermitMove, HoldsKeyPermit, InRung
    <3> QED BY <2>0, <2>1, <3>2, <3>3, <3>4, KeyApart DEF Move, Blamed, None
  <2>3. CASE o \in {"rate_limited", "auth"}
    <3>1. Again(c, "attempt", o = "auth") /\ permits' = permits
      BY <1>4, <2>3 DEF AnswerStream
    <3>2. /\ Shape' /\ \A d \in Calls \ {c} : Same(d)
          /\ call'[c].pc = "attempt" /\ Blamed(call'[c])
      BY <1>0, <3>1, AgainIs DEF Blamed
    <3>3. PermitMove(c) /\ ~HoldsKeyPermit(c)'
      BY <2>1, <3>1, <3>2 DEF PermitMove, HoldsKeyPermit, InRung
    <3> QED BY <2>0, <2>1, <3>2, <3>3, KeyApart DEF Move
  <2>4. CASE o \in {"empty", "transient", "fatal"}
    <3>1. LeaveRungOf(call, c, "llm")
      BY <1>4, <2>4 DEF AnswerStream, LeaveRung
    <3> QED BY <2>0, <2>1, <3>1, RungLeft DEF KeyPermitBack
  <2> QED BY <2>2, <2>3, <2>4 DEF Outcomes
<1> QED BY <1>1, <1>2, <1>3, <1>4

\* A pool that is replaced moves no call.
LEMMA PoolReplaced ==
  ASSUME Shape, NEW p \in Providers, NewPool(p)
  PROVE  Shape' /\ \A d \in Calls : Same(d)
<1>1. DOMAIN call' = Calls
  BY DEF NewPool
<1>2. ASSUME NEW d \in Calls PROVE Same(d) /\ DOMAIN call'[d] = Fields
  <2>1. DOMAIN call[d] = Fields
    BY DEF Shape
  <2>2. call'[d] = [call[d] EXCEPT !.old = TRUE, !.smooth = FALSE] \/ call'[d] = call[d]
    BY DEF NewPool
  <2> QED BY <2>1, <2>2 DEF Same, Fields
<1> QED BY <1>1, <1>2 DEF Shape

\* Every step keeps the balances.
LEMMA BalanceStep ==
  ASSUME BalanceInv, [Next]_vars
  PROVE  BalanceInv'
<1>1. ASSUME NEW c \in Calls, \/ \E ask \in Asks[c] : Begin(c, ask)
                              \/ Step(c) \/ AcquireLimiter(c) \/ Cancel(c)
      PROVE  BalanceInv'
  <2>1. Move(c)
    BY <1>1, RequestMoves, AnswerMoves DEF Step
  <2> QED BY <2>1, MoveBalances
<1>2. ASSUME call' = call, UNCHANGED limits PROVE BalanceInv'
  <2>1. Shape' /\ \A d \in Calls : Same(d)
    BY <1>2 DEF BalanceInv, CallInv, Shape, Same
  <2> QED BY <1>2, <2>1, StillBalances
<1>3. ASSUME NEW p \in Providers, ReloadKeys(p) \/ RegisterProvider(p) PROVE BalanceInv'
  <2>1. NewPool(p) /\ UNCHANGED limits
    BY <1>3 DEF ReloadKeys, RegisterProvider
  <2>2. Shape' /\ \A d \in Calls : Same(d)
    BY <2>1, PoolReplaced DEF BalanceInv, CallInv
  <2> QED BY <2>1, <2>2, StillBalances
<1>4. ASSUME NEW p \in Providers, DeregisterProvider(p) \/ \E k \in Keys : CooldownEnds(p, k)
      PROVE  BalanceInv'
  <2>1. call' = call /\ UNCHANGED limits
    BY <1>4 DEF DeregisterProvider, CooldownEnds
  <2> QED BY <1>2, <2>1
<1>5. CASE Recover \/ ProbeAges
  <2>1. call' = call /\ UNCHANGED limits
    BY <1>5 DEF Recover, ProbeAges
  <2> QED BY <1>2, <2>1
<1>6. CASE UNCHANGED vars
  <2>1. call' = call /\ UNCHANGED limits
    BY <1>6 DEF vars, limits
  <2> QED BY <1>2, <2>1
<1> QED BY <1>1, <1>3, <1>4, <1>5, <1>6 DEF Next

\* Nothing is held at the start.
LEMMA InitBalance == Init => BalanceInv
<1> SUFFICES ASSUME Init PROVE BalanceInv
  OBVIOUS
<1>1. \A c \in Calls : call[c] = IdleCall
  BY DEF Init
<1>2. CallInv
  BY <1>1, IdleIs DEF Init, CallInv, Shape, LimiterKind, KeysAreBlamed, None
<1>3. Holders = {} /\ \A s \in Slots : Claims(s) = {}
  BY <1>1, IdleIs DEF Holders, Claims, HoldsKeyPermit, InRung
<1>4. PermitBalance
  BY <1>3, FS_EmptySet DEF Init, PermitBalance
<1>5. KeyBalance
  <2>1. keyPermits = [s \in Slots |-> PerKeyConcurrency]
    BY DEF Init
  <2>2. keyPermits \in [Slots -> Nat]
    BY <2>1
  <2>3. ASSUME NEW s \in Slots
        PROVE  IsFiniteSet(Claims(s)) /\ keyPermits[s] + Cardinality(Claims(s)) = PerKeyConcurrency
    <3>1. Claims(s) = {} /\ IsFiniteSet({}) /\ Cardinality({}) = 0 /\ keyPermits[s] = PerKeyConcurrency
      BY <1>3, <2>1, FS_EmptySet
    <3> QED BY <3>1
  <2> QED BY <2>2, <2>3 DEF KeyBalance
<1> QED BY <1>2, <1>4, <1>5 DEF BalanceInv

\* The semaphores stay within their bounds, for any number of requests: whichever way
\* a request leaves (an answer, a rung of the ladder, the stand-in, a stream's end, a
\* dropped future), what it held comes back once (the permits of `complete`,
\* `complete_streaming` and KeyRateLimiter::acquire).
THEOREM PermitsComeBackOnce == Spec => []LimitsOK
<1>1. BalanceInv => LimitsOK
  <2> SUFFICES ASSUME BalanceInv PROVE LimitsOK
    OBVIOUS
  <2>1. permits \in 0..GlobalConcurrency
    BY FS_CardinalityType DEF BalanceInv, PermitBalance
  <2>2. ASSUME NEW s \in Slots PROVE keyPermits[s] \in 0..PerKeyConcurrency
    <3>1. /\ keyPermits[s] \in Nat /\ Cardinality(Claims(s)) \in Nat
          /\ keyPermits[s] + Cardinality(Claims(s)) = PerKeyConcurrency
      BY FS_CardinalityType DEF BalanceInv, KeyBalance
    <3> QED BY <3>1
  <2> QED BY <2>1, <2>2 DEF LimitsOK, BalanceInv, KeyBalance
<1> QED BY <1>1, InitBalance, BalanceStep, PTL DEF Spec

\* A request whose own model failed because of the keys never ends as "All fallback
\* models failed", for any ladder, any providers switched on and off meanwhile and any
\* number of other requests (`complete`'s two map_err arms).
THEOREM KeysAreBlamedAlways == Spec => []KeysAreBlamed
<1>1. BalanceInv => KeysAreBlamed
  BY DEF BalanceInv, CallInv
<1> QED BY <1>1, InitBalance, BalanceStep, PTL DEF Spec
----------------------------------------------------------------------------
(* The calls are well formed. *)

CallTyped(r) ==
    /\ DOMAIN r = Fields
    /\ r.pc \in PcValues /\ r.result \in Results
    /\ r.slot \in Slots \cup {None} /\ r.ladder \in Seq(Models) /\ r.attempt \in Nat
    /\ r.smooth \in BOOLEAN /\ r.other \in BOOLEAN /\ r.old \in BOOLEAN
    /\ r.pc \notin {"idle", "done", "stream"} =>
         /\ r.asked \in Models /\ r.model \in Models
         /\ r.kind \in {"complete", "stream"} /\ r.result = None
    /\ r.pc \in {"permit", "try"} => r.attempt = 0
    /\ r.pc \in {"backoff", "cooldown"} => r.other
    /\ r.old => ~r.smooth

CallsTyped == DOMAIN call = Calls /\ \A c \in Calls : CallTyped(call[c])

\* An idle call is well formed.
LEMMA IdleTyped == CallTyped(IdleCall)
BY DEF CallTyped, IdleCall, Fields, PcValues, Results, None

\* Well formed but for `smooth`, which may be lost.
LEMMA JoltedTyped ==
  ASSUME NEW r, CallTyped(r)
  PROVE  CallTyped([r EXCEPT !.smooth = FALSE])
<1>1. PICK q : q = [r EXCEPT !.smooth = FALSE]
  OBVIOUS
<1>2. DOMAIN q = Fields /\ q.smooth = FALSE /\ \A f \in Fields \ {"smooth"} : q[f] = r[f]
  BY <1>1 DEF CallTyped, Fields
<1>3. /\ q.pc = r.pc /\ q.result = r.result /\ q.slot = r.slot /\ q.ladder = r.ladder
      /\ q.attempt = r.attempt /\ q.other = r.other /\ q.old = r.old
      /\ q.asked = r.asked /\ q.model = r.model /\ q.kind = r.kind
  BY <1>2 DEF Fields
<1>4. CallTyped(q)
  BY <1>2, <1>3 DEF CallTyped
<1> QED BY <1>1, <1>4

\* A step that moves one call, and may jolt others, leaves well formed calls.
LEMMA OneTyped ==
  ASSUME CallsTyped, NEW c \in Calls, NEW calls \in {call, Jolted(c)},
         NEW r, CallTyped(r), call' = [calls EXCEPT ![c] = r]
  PROVE  CallsTyped' /\ call'[c] = r /\ \A d \in Calls \ {c} : call'[d] = calls[d]
<1>1. DOMAIN calls = Calls
  BY DEF CallsTyped, Jolted
<1>2. /\ DOMAIN call' = Calls /\ call'[c] = r
      /\ \A d \in Calls \ {c} : call'[d] = calls[d]
  BY <1>1
<1>3. ASSUME NEW d \in Calls \ {c} PROVE CallTyped(call'[d])
  <2>1. CallTyped(call[d])
    BY DEF CallsTyped
  <2>2. calls[d] = call[d] \/ calls[d] = [call[d] EXCEPT !.smooth = FALSE]
    BY DEF Jolted
  <2> QED BY <1>2, <2>1, <2>2, JoltedTyped
<1>4. \A d \in Calls : CallTyped(call[d]')
  BY <1>2, <1>3
<1> QED BY <1>2, <1>4 DEF CallsTyped, CallTyped

\* A call that has returned is well formed.
LEMMA FinishedTyped ==
  ASSUME NEW c \in Calls, NEW res \in Results
  PROVE  CallTyped(Finished(c, res))
BY DEF Finished, CallTyped, IdleCall, Fields, PcValues, Results, None

\* What an exhausted ladder ends with is a result.
LEMMA ExhaustedTyped ==
  ASSUME NEW first
  PROVE  Exhausted(first) \in Results
BY DEF Exhausted, Results, Errors

\* A call on a new rung, or with the stand-in, is well formed.
LEMMA RungTyped ==
  ASSUME NEW r, DOMAIN r = Fields, r.pc \in {"try", "cli"}, r.asked \in Models, r.model \in Models,
         r.kind = "complete", r.ladder \in Seq(Models), r.attempt = 0, r.slot = None,
         r.result = None, r.smooth = TRUE, r.other = FALSE, r.old = FALSE
  PROVE  CallTyped(r)
<1>1. r.pc \in PcValues /\ r.result \in Results
  BY DEF PcValues, Results
<1>2. r.slot \in Slots \cup {None} /\ r.attempt \in Nat
  OBVIOUS
<1>3. r.smooth \in BOOLEAN /\ r.other \in BOOLEAN /\ r.old \in BOOLEAN /\ (r.old => ~r.smooth)
  OBVIOUS
<1>4. r.pc \notin {"permit", "backoff", "cooldown"}
  OBVIOUS
<1> QED BY <1>1, <1>2, <1>3, <1>4 DEF CallTyped

\* The next rung is well formed.
LEMMA FallbackTyped ==
  ASSUME NEW c \in Calls, call[c].asked \in Models, NEW first, NEW ladder \in Seq(Models)
  PROVE  CallTyped(Fallback(c, first, ladder))
<1> DEFINE m == FirstRoutable(ladder)
           p == ProviderOf[call[c].asked]
           rung == [IdleCall EXCEPT !.kind = "complete", !.asked = call[c].asked, !.first = first]
           rest == SubSeq(ladder, Min(Rungs(ladder)) + 1, Len(ladder))
           F == Fallback(c, first, ladder)
<1>1. /\ DOMAIN rung = Fields /\ rung.result = None /\ rung.asked \in Models /\ rung.kind = "complete"
      /\ rung.slot = None /\ rung.ladder = <<>> /\ rung.attempt = 0 /\ rung.smooth = TRUE
      /\ rung.other = FALSE /\ rung.old = FALSE /\ rung.first = first
  BY DEF IdleCall, Fields
<1>2. CASE m # None
  <2>1. F = [rung EXCEPT !.pc = "try", !.model = m, !.ladder = rest]
    BY <1>2 DEF Fallback
  <2>2. m \in Models /\ rest \in Seq(Models)
    BY <1>2, RungIs DEF FirstRoutable
  <2> HIDE DEF rung, F, m, rest
  <2>3. /\ DOMAIN F = Fields /\ F.pc = "try" /\ F.model = m /\ F.ladder = rest
        /\ F.result = None /\ F.asked \in Models /\ F.kind = "complete"
        /\ F.slot = None /\ F.attempt = 0 /\ F.smooth = TRUE
        /\ F.other = FALSE /\ F.old = FALSE
    BY <1>1, <2>1 DEF Fields
  <2>4. CallTyped(F)
    BY <2>2, <2>3, RungTyped
  <2> QED BY <2>4 DEF F
<1>3. CASE m = None /\ p \in loaded \cap Cli
  <2>1. F = [rung EXCEPT !.pc = "cli", !.model = call[c].asked]
    BY <1>3 DEF Fallback
  <2> HIDE DEF rung, F, m
  <2>2. /\ DOMAIN F = Fields /\ F.pc = "cli" /\ F.model \in Models /\ F.ladder = <<>>
        /\ F.result = None /\ F.asked \in Models /\ F.kind = "complete"
        /\ F.slot = None /\ F.attempt = 0 /\ F.smooth = TRUE
        /\ F.other = FALSE /\ F.old = FALSE
    BY <1>1, <2>1 DEF Fields
  <2>3. F.ladder \in Seq(Models)
    BY <2>2
  <2>4. CallTyped(F)
    BY <2>2, <2>3, RungTyped
  <2> QED BY <2>4 DEF F
<1>4. CASE m = None /\ p \notin loaded \cap Cli
  <2>1. F = [Finished(c, Exhausted(first)) EXCEPT !.first = first]
    BY <1>4 DEF Fallback
  <2> DEFINE G == Finished(c, Exhausted(first))
  <2>2. CallTyped(G) /\ G.pc = "done"
    BY ExhaustedTyped, FinishedTyped, FinishedIs
  <2> HIDE DEF F, G
  <2>3. DOMAIN F = Fields /\ \A f \in Fields \ {"first"} : F[f] = G[f]
    BY <2>1, <2>2 DEF Fields, CallTyped, G
  <2>4. /\ F.pc = G.pc /\ F.result = G.result /\ F.slot = G.slot /\ F.ladder = G.ladder
        /\ F.attempt = G.attempt /\ F.other = G.other /\ F.old = G.old /\ F.smooth = G.smooth
        /\ F.asked = G.asked /\ F.model = G.model /\ F.kind = G.kind
    BY <2>3 DEF Fields
  <2> QED BY <2>2, <2>3, <2>4 DEF CallTyped, F
<1> QED BY <1>2, <1>3, <1>4

\* However a rung is left, the call is well formed.
LEMMA LeftTyped ==
  ASSUME NEW c \in Calls, call[c].asked \in Models, call[c].ladder \in Seq(Models), NEW res \in Results
  PROVE  CallTyped(Left(c, res))
<1>1. CallTyped(Finished(c, res))
  BY FinishedTyped
<1>2. \A first : /\ CallTyped(Fallback(c, first, call[c].ladder))
                 /\ CallTyped(Fallback(c, first, SubstitutionLadder(call[c].asked)))
  BY FallbackTyped, LadderIs
<1> QED BY <1>1, <1>2 DEF Left
----------------------------------------------------------------------------
(* The rotation. *)

\* A round of a strategy that offers every key in its turn, which met no cooling key and
\* no acquire of anybody else, and in which every answer was a refusal.
OnRound(r) ==
    /\ Strategy # "primary_fallback"
    /\ r.pc \in {"attempt", "limiter", "calling"} /\ r.smooth /\ ~r.other
Drawn(r) == IF r.pc = "attempt" THEN r.attempt ELSE r.attempt + 1
Met(r) == IF r.pc = "attempt" THEN r.refusals ELSE r.refusals \cup {r.slot}

\* The last n keys of an order, those that can be used, are among those met.
DrawnLast(order, n, met) ==
    \A j \in 1..Len(order) : j > Len(order) - n /\ Compatible(order[j]) => order[j] \in met

\* The keys a round drew stand at the back of the order: they were refused, or are in hand.
Rotation(r, order) == DrawnLast(order, Drawn(r), Met(r))
Rotates == \A c \in Calls : OnRound(call[c]) => Rotation(call[c], pool[Provider(c)].order)

RouterInv == CallsTyped /\ PoolInv /\ Rotates

\* The orders of all pools stay, but for that of the pool whose other holders are jolted.
OrdersKept(c, calls) ==
    \A p \in Providers : \/ pool'[p].order = pool[p].order
                         \/ calls = Jolted(c) /\ p = Provider(c) /\ ~call[c].old

\* What a step of a request makes of it, and of the pools.
Steps(c) ==
    \E calls \in {call, Jolted(c)}, r \in {call'[c]} :
        /\ CallTyped(r) /\ call' = [calls EXCEPT ![c] = r]
        /\ OnRound(r) => Rotation(r, pool'[ProviderOf[r.model]].order)
        /\ OrdersKept(c, calls)

\* Such a step keeps the calls well formed and the rotation.
LEMMA StepsRotate ==
  ASSUME CallsTyped, Rotates, NEW c \in Calls, Steps(c)
  PROVE  CallsTyped' /\ Rotates'
<1>1. PICK calls \in {call, Jolted(c)}, r \in {call'[c]} :
        /\ CallTyped(r) /\ call' = [calls EXCEPT ![c] = r]
        /\ OnRound(r) => Rotation(r, pool'[ProviderOf[r.model]].order)
        /\ OrdersKept(c, calls)
  BY DEF Steps
<1>2. CallsTyped' /\ call'[c] = r /\ \A d \in Calls \ {c} : call'[d] = calls[d]
  BY <1>1, OneTyped
<1>3. ASSUME NEW d \in Calls, OnRound(call'[d])
      PROVE  Rotation(call'[d], pool'[ProviderOf[call'[d].model]].order)
  <2>1. CASE d = c
    BY <1>1, <1>2, <1>3, <2>1
  <2>2. CASE d # c
    <3>1. call'[d] = calls[d]
      BY <1>2, <2>2
    <3>2. /\ calls[d] = call[d]
          /\ calls = Jolted(c) /\ ~call[c].old => d \notin Holding(Provider(c))
      <4>1. CASE calls = Jolted(c) /\ ~call[c].old /\ d \in Holding(Provider(c))
        <5>1. DOMAIN call[d] = Fields
          BY DEF CallsTyped, CallTyped
        <5>2. calls[d] = [call[d] EXCEPT !.smooth = FALSE]
          BY <2>2, <4>1 DEF Jolted
        <5>3. ~calls[d].smooth
          BY <5>1, <5>2 DEF Fields
        <5> QED BY <1>3, <3>1, <5>3 DEF OnRound
      <4>2. CASE ~(calls = Jolted(c) /\ ~call[c].old /\ d \in Holding(Provider(c)))
        BY <4>2 DEF Jolted
      <4> QED BY <4>1, <4>2
    <3>3. OnRound(call[d])
      BY <1>3, <3>1, <3>2
    <3>4. /\ call[d].pc \in {"attempt", "limiter", "calling"} /\ ~call[d].old
          /\ call[d].model \in Models /\ Provider(d) \in Providers
      BY <3>3 DEF OnRound, CallsTyped, CallTyped, Provider
    <3>5. pool'[Provider(d)].order = pool[Provider(d)].order
      <4>1. ~(calls = Jolted(c) /\ Provider(d) = Provider(c) /\ ~call[c].old)
        BY <3>2, <3>4 DEF Holding
      <4> QED BY <1>1, <3>4, <4>1 DEF OrdersKept
    <3>6. Rotation(call[d], pool[Provider(d)].order)
      BY <3>3 DEF Rotates
    <3> QED BY <3>1, <3>2, <3>5, <3>6 DEF Provider
  <2> QED BY <2>1, <2>2
<1>4. Rotates'
  BY <1>3 DEF Rotates, Provider
<1> QED BY <1>2, <1>4

\* A step that moves a call off its round, or ends it, and turns no pool.
LEMMA OffRound ==
  ASSUME CallsTyped, NEW c \in Calls, NEW r, CallTyped(r), ~OnRound(r),
         call' = [call EXCEPT ![c] = r], \A p \in Providers : pool'[p].order = pool[p].order
  PROVE  Steps(c)
<1>1. call'[c] = r
  BY DEF CallsTyped
<1> QED BY <1>1 DEF Steps, OrdersKept

\* A rung that is left ends the round, in whatever state the pool is.
LEMMA LeftSteps ==
  ASSUME CallsTyped, NEW c \in Calls, call[c].pc \notin {"idle", "done", "stream"},
         NEW res \in Results, res # "all_failed", NEW calls \in {call, Jolted(c)},
         LeaveRungOf(calls, c, res), OrdersKept(c, calls)
  PROVE  Steps(c)
<1>1. call[c].asked \in Models /\ call[c].ladder \in Seq(Models)
  BY DEF CallsTyped, CallTyped
<1>2. PICK r : r = Left(c, res)
  OBVIOUS
<1>3. CallTyped(r) /\ r.pc \in {"done", "try", "cli"}
  BY <1>1, <1>2, LeftTyped, LeftIs
<1>4. call' = [calls EXCEPT ![c] = r] /\ DOMAIN calls = Calls
  BY <1>2 DEF LeaveRungOf, CallsTyped, Jolted
<1>5. call'[c] = r /\ ~OnRound(r)
  BY <1>3, <1>4 DEF OnRound
<1> QED BY <1>3, <1>4, <1>5 DEF Steps

\* The steps that neither draw a key nor answer a call.
LEMMA QuietSteps ==
  ASSUME RouterInv, NEW c \in Calls
  PROVE  /\ \A ask \in Asks[c] : Begin(c, ask) => Steps(c)
         /\ AcquirePermit(c) => Steps(c)
         /\ TryModel(c) => Steps(c)
         /\ AcquireLimiter(c) => Steps(c)
         /\ WaitedForCooldown(c) => Steps(c)
         /\ BackoffEnds(c) => Steps(c)
         /\ StreamEnds(c) => Steps(c)
         /\ Return(c) => Steps(c)
         /\ Cancel(c) => Steps(c)
         /\ \A o \in {"ok", "fails"} : CliAnswers(c, o) => Steps(c)
<1>0. CallsTyped /\ PoolInv /\ Rotates /\ CallTyped(call[c]) /\ DOMAIN call[c] = Fields /\ DOMAIN call = Calls
  BY DEF RouterInv, CallsTyped, CallTyped
<1>1. ASSUME pool' = pool,
             NEW r, CallTyped(r), r.pc \notin {"attempt", "limiter", "calling"} \/ r.other,
             call' = [call EXCEPT ![c] = r]
      PROVE  Steps(c)
  BY <1>0, <1>1, OffRound DEF OnRound
<1>2. ASSUME NEW ask \in Asks[c], Begin(c, ask) PROVE Steps(c)
  <2>1. ask \in {"complete", "stream"} \X Models
    OBVIOUS
  <2>2. ask[1] \in {"complete", "stream"} /\ ask[2] \in Models
    BY <2>1
  <2>3. PICK m : m = IF ask[1] = "complete" THEN ResolveRoutable(ask[2]) ELSE ask[2]
    OBVIOUS
  <2>4. m \in Models \cup {None}
    BY <2>2, <2>3, ResolvedIs
  <2> DEFINE a == [IdleCall EXCEPT !.pc = "done", !.result = "no_routable"]
             b == [IdleCall EXCEPT !.pc = "permit", !.kind = ask[1], !.asked = m, !.model = m]
  <2>5. call' = [call EXCEPT ![c] = IF m = None THEN a ELSE b] /\ pool' = pool
    BY <1>2, <2>3 DEF Begin, owner
  <2>6. CallTyped(a) /\ a.pc = "done"
    BY DEF CallTyped, IdleCall, Fields, PcValues, Results
  <2>7. m # None => CallTyped(b) /\ b.pc = "permit"
    BY <2>2, <2>4 DEF CallTyped, IdleCall, Fields, PcValues, Results
  <2> HIDE DEF a, b
  <2> QED BY <1>1, <2>5, <2>6, <2>7
<1>3. ASSUME AcquirePermit(c) PROVE Steps(c)
  <2>1. call[c].pc = "permit" /\ pool' = pool
    BY <1>3 DEF AcquirePermit, At, owner
  <2>2. /\ call[c].asked \in Models /\ call[c].attempt = 0 /\ call[c].kind \in {"complete", "stream"}
        /\ call[c].result = None
    BY <1>0, <2>1 DEF CallTyped
  <2>3. CASE call' = [call EXCEPT ![c] = Finished(c, "no_routable")]
    <3>1. CallTyped(Finished(c, "no_routable")) /\ Finished(c, "no_routable").pc = "done"
      BY FinishedTyped, FinishedIs DEF Results
    <3> QED BY <1>1, <2>1, <2>3, <3>1
  <2>4. CASE \E m \in Models : call' = [call EXCEPT ![c].pc = "try", ![c].model = m, ![c].asked = m]
    <3>1. PICK m \in Models : call' = [call EXCEPT ![c].pc = "try", ![c].model = m, ![c].asked = m]
      BY <2>4
    <3>2. PICK r : r = [call[c] EXCEPT !.pc = "try", !.model = m, !.asked = m]
      OBVIOUS
    <3>3. call' = [call EXCEPT ![c] = r]
      BY <3>1, <3>2
    <3>4. /\ DOMAIN r = Fields /\ r.pc = "try" /\ r.model = m /\ r.asked = m
          /\ \A f \in Fields \ {"pc", "model", "asked"} : r[f] = call[c][f]
      BY <1>0, <3>2 DEF Fields
    <3>5. CallTyped(r)
      BY <1>0, <2>2, <3>4 DEF CallTyped, Fields, PcValues
    <3> QED BY <1>1, <2>1, <3>3, <3>4, <3>5
  <2> QED BY <1>3, <2>2, <2>3, <2>4, ResolvedIs DEF AcquirePermit
<1>4. ASSUME TryModel(c) PROVE Steps(c)
  <2>1. call[c].pc = "try" /\ pool' = pool
    BY <1>4 DEF TryModel, At, owner
  <2>2. /\ call[c].model \in Models /\ call[c].attempt = 0
    BY <1>0, <2>1 DEF CallTyped
  <2>3. CASE \E res \in {"unroutable", "max_retries"} : LeaveRung(c, res)
    <3>1. PICK res \in {"unroutable", "max_retries"} : LeaveRungOf(call, c, res)
      BY <2>3 DEF LeaveRung
    <3>2. OrdersKept(c, call) /\ res \in Results /\ res # "all_failed"
      BY <2>1, <3>1 DEF OrdersKept, Results, Errors
    <3> QED BY <1>0, <2>1, <3>1, <3>2, LeftSteps
  <2>4. CASE Going(c, "attempt")
    <3>1. PICK r : r = [call[c] EXCEPT !.pc = "attempt"]
      OBVIOUS
    <3>2. call' = [call EXCEPT ![c] = r] /\ call'[c] = r
      BY <1>0, <2>4, <3>1 DEF Going
    <3>3. DOMAIN r = Fields /\ r.pc = "attempt" /\ \A f \in Fields \ {"pc"} : r[f] = call[c][f]
      BY <1>0, <3>1 DEF Fields
    <3>4. CallTyped(r) /\ r.attempt = 0 /\ r.model \in Models
      BY <1>0, <2>1, <2>2, <3>3 DEF CallTyped, Fields, PcValues
    <3>5. Rotation(r, pool'[ProviderOf[r.model]].order)
      <4>1. PICK o : o = pool'[ProviderOf[r.model]].order
        OBVIOUS
      <4>2. o \in Seq(Keys)
        BY <1>0, <2>1, <3>4, <4>1 DEF PoolInv, Pool
      <4>3. Len(o) \in Nat /\ Drawn(r) = 0
        BY <3>3, <3>4, <4>2 DEF Drawn
      <4>4. Rotation(r, o)
        BY <4>3 DEF Rotation, DrawnLast
      <4> QED BY <4>1, <4>4
    <3> QED BY <2>1, <3>2, <3>4, <3>5 DEF Steps, OrdersKept
  <2> QED BY <1>4, <2>3, <2>4 DEF TryModel
<1>5. ASSUME AcquireLimiter(c) PROVE Steps(c)
  <2>1. call[c].pc = "limiter" /\ pool' = pool /\ Going(c, "calling")
    BY <1>5 DEF AcquireLimiter, At, owner
  <2>2. PICK r : r = [call[c] EXCEPT !.pc = "calling"]
    OBVIOUS
  <2>3. call' = [call EXCEPT ![c] = r] /\ call'[c] = r
    BY <1>0, <2>1, <2>2 DEF Going
  <2>4. DOMAIN r = Fields /\ r.pc = "calling" /\ \A f \in Fields \ {"pc"} : r[f] = call[c][f]
    BY <1>0, <2>2 DEF Fields
  <2>5. CallTyped(r)
    BY <1>0, <2>1, <2>4 DEF CallTyped, Fields, PcValues
  <2>6. /\ r.model = call[c].model /\ Drawn(r) = Drawn(call[c]) /\ Met(r) = Met(call[c])
        /\ OnRound(r) => OnRound(call[c])
    BY <2>1, <2>4 DEF Drawn, Met, OnRound, Fields
  <2>7. OnRound(r) => Rotation(r, pool'[ProviderOf[r.model]].order)
    BY <1>0, <2>1, <2>6 DEF Rotates, Rotation, Provider
  <2> QED BY <2>1, <2>3, <2>5, <2>7 DEF Steps, OrdersKept
<1>6. ASSUME WaitedForCooldown(c) PROVE Steps(c)
  <2>1. call[c].pc = "cooldown" /\ pool' = pool
    BY <1>6 DEF WaitedForCooldown, At, owner
  <2>2. PICK r : r = [call[c] EXCEPT !.pc = "attempt", !.attempt = 0, !.waits = @ + 1]
    OBVIOUS
  <2>3. call' = [call EXCEPT ![c] = r]
    BY <1>6, <2>2 DEF WaitedForCooldown
  <2>4. /\ DOMAIN r = Fields /\ r.pc = "attempt" /\ r.attempt = 0
        /\ \A f \in Fields \ {"pc", "attempt", "waits"} : r[f] = call[c][f]
    BY <1>0, <2>2 DEF Fields
  <2>5. CallTyped(r) /\ r.other
    BY <1>0, <2>1, <2>4 DEF CallTyped, Fields, PcValues
  <2> QED BY <1>1, <2>1, <2>3, <2>5
<1>7. ASSUME BackoffEnds(c) PROVE Steps(c)
  <2>1. call[c].pc = "backoff" /\ pool' = pool
    BY <1>7 DEF BackoffEnds, At, owner
  <2>2. PICK r : r = [call[c] EXCEPT !.pc = "attempt", !.slot = None]
    OBVIOUS
  <2>3. call' = [call EXCEPT ![c] = r]
    BY <1>7, <2>2 DEF BackoffEnds
  <2>4. /\ DOMAIN r = Fields /\ r.pc = "attempt" /\ r.slot = None
        /\ \A f \in Fields \ {"pc", "slot"} : r[f] = call[c][f]
    BY <1>0, <2>2 DEF Fields
  <2>5. CallTyped(r) /\ r.other
    BY <1>0, <2>1, <2>4 DEF CallTyped, Fields, PcValues
  <2> QED BY <1>1, <2>1, <2>3, <2>5
<1>8. ASSUME NEW res \in Results, call' = [call EXCEPT ![c] = Finished(c, res)], pool' = pool
      PROVE  Steps(c)
  <2>1. CallTyped(Finished(c, res)) /\ Finished(c, res).pc = "done"
    BY FinishedTyped, FinishedIs
  <2> QED BY <1>1, <1>8, <2>1
<1>9. ASSUME StreamEnds(c) PROVE Steps(c)
  <2>1. call' = [call EXCEPT ![c] = Finished(c, "ok")] /\ pool' = pool /\ "ok" \in Results
    BY <1>9 DEF StreamEnds, owner, Results
  <2> QED BY <1>8, <2>1
<1>10. ASSUME NEW o \in {"ok", "fails"}, CliAnswers(c, o) PROVE Steps(c)
  <2>1. PICK res \in Results : call' = [call EXCEPT ![c] = Finished(c, res)]
    <3>1. "ok" \in Results /\ Exhausted(call[c].first) \in Results
      BY ExhaustedTyped DEF Results
    <3> QED BY <1>10, <3>1 DEF CliAnswers
  <2>2. pool' = pool
    BY <1>10 DEF CliAnswers, owner
  <2> QED BY <1>8, <2>1, <2>2
<1>11. ASSUME Return(c) \/ Cancel(c) PROVE Steps(c)
  <2>1. call' = [call EXCEPT ![c] = IdleCall] /\ pool' = pool
    BY <1>11 DEF Return, Cancel, owner
  <2> QED BY <1>1, <2>1, IdleTyped, IdleIs
<1> QED BY <1>2, <1>3, <1>4, <1>5, <1>6, <1>7, <1>9, <1>10, <1>11

\* Keys that cool down or have cooled down leave the order.
LEMMA CoolingKept ==
  ASSUME PoolInv, NEW p \in Providers, NEW cool \in SUBSET Keys,
         pool' = [pool EXCEPT ![p].cooling = cool]
  PROVE  PoolInv' /\ \A q \in Providers : pool'[q].order = pool[q].order
<1>1. pool \in [Providers -> Pool]
  BY DEF PoolInv
<1>2. pool[p] \in Pool /\ [pool[p] EXCEPT !.cooling = cool] \in Pool
      /\ [pool[p] EXCEPT !.cooling = cool].order = pool[p].order
  BY <1>1 DEF Pool
<1>3. pool' = [pool EXCEPT ![p] = [pool[p] EXCEPT !.cooling = cool]]
  OBVIOUS
<1>4. pool' \in [Providers -> Pool]
  BY <1>1, <1>2, <1>3
<1>5. \A q \in Providers : pool'[q].order = pool[q].order
  BY <1>1, <1>2, <1>3
<1> QED BY <1>4, <1>5 DEF PoolInv

\* A report changes which keys cool down, never the order.
LEMMA ReportIs ==
  ASSUME PoolInv, NEW c \in Calls, call[c].model \in Models, NEW r, ReportResult(c, r)
  PROVE  PoolInv' /\ \A p \in Providers : pool'[p].order = pool[p].order
<1>1. PICK p \in Providers : p = Provider(c)
  BY DEF Provider
<1>2. PICK k : k = call[c].slot
  OBVIOUS
<1>3. pool[p] \in Pool /\ pool[p].cooling \in SUBSET Keys
  BY DEF PoolInv, Pool
<1>4. \/ pool' = pool
      \/ /\ k \in ToSet(KeysOf[p])
         /\ \E cool \in {pool[p].cooling \ {k}, pool[p].cooling \cup {k}} :
               pool' = [pool EXCEPT ![p].cooling = cool]
  BY <1>1, <1>2 DEF ReportResult
<1>5. CASE pool' = pool
  BY <1>5 DEF PoolInv
<1>6. CASE pool' # pool
  <2>1. PICK cool \in SUBSET Keys : pool' = [pool EXCEPT ![p].cooling = cool]
    <3>1. k \in ToSet(KeysOf[p]) => k \in Keys
      BY DEF ToSet
    <3> QED BY <1>3, <1>4, <1>6, <3>1
  <2> QED BY <2>1, CoolingKept
<1> QED BY <1>5, <1>6

\* The next turn of the loop is well formed; if it is a turn of the same round, the key in
\* hand was refused.
LEMMA AgainSteps ==
  ASSUME CallsTyped, Rotates, NEW c \in Calls, call[c].pc = "calling",
         NEW where \in {"attempt", "backoff"}, NEW refused \in BOOLEAN, Again(c, where, refused),
         where = "backoff" => ~refused, \A p \in Providers : pool'[p].order = pool[p].order
  PROVE  Steps(c)
<1>0. CallTyped(call[c]) /\ DOMAIN call[c] = Fields /\ DOMAIN call = Calls
  BY DEF CallsTyped, CallTyped
<1>1. PICK r : r = [call[c] EXCEPT !.pc = where, !.attempt = @ + 1,
                                   !.slot = IF where = "backoff" THEN @ ELSE None,
                                   !.refusals = IF refused THEN @ \cup {call[c].slot} ELSE @,
                                   !.other = @ \/ ~refused]
  OBVIOUS
<1>2. call' = [call EXCEPT ![c] = r] /\ call'[c] = r
  BY <1>0, <1>1 DEF Again
<1>3. /\ DOMAIN r = Fields /\ r.pc = where /\ r.attempt = call[c].attempt + 1
      /\ r.slot = IF where = "backoff" THEN call[c].slot ELSE None
      /\ r.refusals = IF refused THEN call[c].refusals \cup {call[c].slot} ELSE call[c].refusals
      /\ r.other = (call[c].other \/ ~refused)
      /\ \A f \in Fields \ {"pc", "attempt", "slot", "refusals", "other"} : r[f] = call[c][f]
  BY <1>0, <1>1 DEF Fields
<1>4. r.slot \in Slots \cup {None} /\ r.attempt \in Nat /\ r.other \in BOOLEAN /\ r.pc \in PcValues
  BY <1>0, <1>3 DEF CallTyped, PcValues
<1>5. CallTyped(r)
  <2>1. /\ r.result = call[c].result /\ r.ladder = call[c].ladder /\ r.smooth = call[c].smooth
        /\ r.old = call[c].old /\ r.asked = call[c].asked /\ r.model = call[c].model
        /\ r.kind = call[c].kind
    BY <1>3 DEF Fields
  <2>2. r.pc = "backoff" => r.other
    BY <1>3
  <2> QED BY <1>0, <1>3, <1>4, <2>1, <2>2 DEF CallTyped
<1>6. OnRound(r) => Rotation(r, pool'[ProviderOf[r.model]].order)
  <2> SUFFICES ASSUME OnRound(r) PROVE Rotation(r, pool'[ProviderOf[r.model]].order)
    OBVIOUS
  <2>1. r.pc = "attempt" /\ refused /\ r.model = call[c].model /\ call[c].smooth /\ ~call[c].other
    BY <1>0, <1>3 DEF OnRound, CallTyped, Fields
  <2>2. OnRound(call[c]) /\ Drawn(r) = Drawn(call[c]) /\ Met(r) = Met(call[c])
    BY <1>3, <2>1 DEF OnRound, Drawn, Met
  <2>3. Provider(c) \in Providers /\ Provider(c) = ProviderOf[r.model]
    BY <1>0, <2>1 DEF CallTyped, Provider
  <2> QED BY <2>2, <2>3 DEF Rotates, Rotation
<1> QED BY <1>2, <1>5, <1>6 DEF Steps, OrdersKept

\* Every answer of a provider.
LEMMA AnswerSteps ==
  ASSUME RouterInv, NEW c \in Calls, NEW o \in Outcomes, AnswerComplete(c, o) \/ AnswerStream(c, o)
  PROVE  Steps(c) /\ PoolInv'
<1>0. /\ CallsTyped /\ PoolInv /\ Rotates /\ call[c].pc = "calling"
      /\ DOMAIN call = Calls
  BY DEF RouterInv, AnswerComplete, AnswerStream, At, CallsTyped
<1>1. call[c].model \in Models
  BY <1>0 DEF CallsTyped, CallTyped
<1>2. PoolInv' /\ \A p \in Providers : pool'[p].order = pool[p].order
  <2>1. pool' = pool \/ \E r : ReportResult(c, r)
    BY DEF AnswerComplete, AnswerStream
  <2>2. CASE pool' = pool
    BY <1>0, <2>2 DEF PoolInv
  <2> QED BY <1>0, <1>1, <2>1, <2>2, ReportIs
<1>3. CASE \E where \in {"attempt", "backoff"}, refused \in BOOLEAN :
             (where = "backoff" => ~refused) /\ Again(c, where, refused)
  BY <1>0, <1>2, <1>3, AgainSteps
<1>4. CASE \E res \in {"ok", "llm"} : LeaveRung(c, res)
  <2>1. PICK res \in {"ok", "llm"} : LeaveRungOf(call, c, res)
    BY <1>4 DEF LeaveRung
  <2>2. OrdersKept(c, call) /\ res \in Results /\ res # "all_failed"
    BY <1>2, <2>1 DEF OrdersKept, Results
  <2> QED BY <1>0, <1>2, <2>1, <2>2, LeftSteps
<1>5. CASE call' = [call EXCEPT ![c] = [IdleCall EXCEPT !.pc = "stream", !.kind = "stream"]]
  <2>1. PICK r : r = [IdleCall EXCEPT !.pc = "stream", !.kind = "stream"]
    OBVIOUS
  <2>2. CallTyped(r) /\ r.pc = "stream"
    BY <2>1 DEF CallTyped, IdleCall, Fields, PcValues, Results, None
  <2> QED BY <1>0, <1>2, <1>5, <2>1, <2>2, OffRound DEF OnRound
<1>6. CASE AnswerComplete(c, o)
  <2>1. o \in {"rate_limited", "auth"} => Again(c, "attempt", o = "auth")
    BY <1>6 DEF AnswerComplete
  <2>2. o = "transient" => Again(c, "backoff", FALSE)
    BY <1>6 DEF AnswerComplete
  <2>3. o \notin {"rate_limited", "auth", "transient"} => \E res \in {"ok", "llm"} : LeaveRung(c, res)
    BY <1>6 DEF AnswerComplete
  <2>4. (o = "auth") \in BOOLEAN
    OBVIOUS
  <2> QED BY <1>2, <1>3, <1>4, <2>1, <2>2, <2>3, <2>4
<1>7. CASE AnswerStream(c, o)
  <2>1. o \in {"rate_limited", "auth"} => Again(c, "attempt", o = "auth")
    BY <1>7 DEF AnswerStream
  <2>2. o \notin {"rate_limited", "auth", "ok"} => LeaveRung(c, "llm")
    BY <1>7 DEF AnswerStream
  <2>3. o = "ok" => call' = [call EXCEPT ![c] = [IdleCall EXCEPT !.pc = "stream", !.kind = "stream"]]
    BY <1>7 DEF AnswerStream
  <2>4. (o = "auth") \in BOOLEAN
    OBVIOUS
  <2> QED BY <1>2, <1>3, <1>4, <1>5, <2>1, <2>2, <2>3, <2>4
<1> QED BY <1>6, <1>7

\* A turn of the pool by a call that holds it.
LEMMA TurnIs ==
  ASSUME PoolInv, NEW c \in Calls, call[c].model \in Models, AcquireTurns(c)
  PROVE  /\ PoolInv' /\ OrdersKept(c, Jolted(c))
         /\ ~call[c].old => pool'[Provider(c)].order = Rotated(pool[Provider(c)])
<1>1. PICK p \in Providers : p = Provider(c)
  BY DEF Provider
<1>2. pool \in [Providers -> Pool]
  BY DEF PoolInv
<1>3. CASE call[c].old
  <2>1. pool' = pool
    BY <1>3 DEF AcquireTurns
  <2> QED BY <1>3, <2>1 DEF PoolInv, OrdersKept
<1>4. CASE ~call[c].old
  <2>1. pool' = [pool EXCEPT ![p].order = Rotated(pool[p])]
    BY <1>1, <1>4 DEF AcquireTurns
  <2>2. PICK o : o = Rotated(pool[p])
    OBVIOUS
  <2>3. /\ o \in Seq(Keys)
        /\ Strategy # "primary_fallback" =>
             Len(o) = Len(pool[p].order) /\ ToSet(o) = ToSet(pool[p].order)
    BY <1>2, <2>2, RotatedIs
  <2>4. [pool[p] EXCEPT !.order = o] \in Pool /\ [pool[p] EXCEPT !.order = o].order = o
    BY <1>2, <2>3 DEF Pool
  <2>5. pool' = [pool EXCEPT ![p] = [pool[p] EXCEPT !.order = o]]
    BY <2>1, <2>2
  <2>6. pool' \in [Providers -> Pool]
    BY <1>2, <2>4, <2>5
  <2>7. pool'[p].order = o /\ \A q \in Providers \ {p} : pool'[q].order = pool[q].order
    BY <1>2, <2>4, <2>5
  <2>8. Strategy # "primary_fallback" => \A q \in Providers : Has(q, pool'[q].order)
    BY <2>3, <2>7 DEF PoolInv, Has
  <2>9. PoolInv'
    BY <2>6, <2>8 DEF PoolInv, Has
  <2> QED BY <1>1, <1>4, <2>2, <2>7, <2>9 DEF OrdersKept
<1> QED BY <1>3, <1>4

\* While no key cools down, the key at the front goes to the back, and it is the one handed
\* out if it can be used.
LEMMA FrontIsDrawn ==
  ASSUME NEW pl \in Pool, pl.cooling = {}, Offered(pl) # {}, Strategy # "primary_fallback",
         Strategy = "least_recently_used" => \A k \in ToSet(pl.order) : Compatible(k)
  PROVE  /\ Len(pl.order) \in Nat \ {0} /\ Len(Rotated(pl)) = Len(pl.order)
         /\ \A j \in 1..Len(pl.order) - 1 : Rotated(pl)[j] = pl.order[j + 1]
         /\ Rotated(pl)[Len(pl.order)] = pl.order[1]
         /\ Compatible(pl.order[1]) => Min(Offered(pl)) = 1
<1>1. PICK o : o = pl.order /\ o \in Seq(Keys)
  BY DEF Pool
<1>2. PICK i \in DOMAIN o : i = Min(Offered(pl)) /\ \A j \in Offered(pl) : i <= j
  BY <1>1, OfferedIs
<1>3. Len(o) \in Nat \ {0} /\ 1 \in DOMAIN o /\ o # <<>> /\ i \in 1..Len(o)
  BY <1>1, <1>2, LenProperties, EmptySeq
<1>4. Compatible(o[1]) => i = 1
  <2>1. Compatible(o[1]) => 1 \in Offered(pl)
    BY <1>1, <1>3 DEF Offered
  <2> QED BY <1>2, <1>3, <2>1
<1>5. CASE Strategy = "round_robin"
  <2>1. Rotated(pl) = Turned(o)
    BY <1>1, <1>5 DEF Rotated
  <2>2. /\ Len(Turned(o)) = Len(o) /\ Turned(o)[Len(o)] = o[1]
        /\ \A j \in 1..Len(o) - 1 : Turned(o)[j] = o[j + 1]
    BY <1>1, <1>3, TurnedIs
  <2> QED BY <1>1, <1>2, <1>3, <1>4, <2>1, <2>2
<1>6. CASE Strategy = "least_recently_used"
  <2>1. o[1] \in ToSet(o)
    BY <1>3 DEF ToSet
  <2>2. i = 1
    BY <1>1, <1>4, <1>6, <2>1
  <2>3. Rotated(pl) = SentBack(o, i)
    BY <1>1, <1>2, <1>6 DEF Rotated
  <2>4. /\ Len(SentBack(o, 1)) = Len(o) /\ SentBack(o, 1)[Len(o)] = o[1]
        /\ \A j \in 1..Len(o) - 1 : SentBack(o, 1)[j] = o[j + 1]
    <3>1. o \in Seq(Keys) /\ 1 \in DOMAIN o
      BY <1>1, <1>3
    <3> QED BY <3>1, SentBackIs, ZenonT(60)
  <2> QED BY <1>1, <1>2, <1>3, <1>4, <2>2, <2>3, <2>4
<1> QED BY <1>5, <1>6

\* A key in hand: of its pool, or the provider's keyless slot.
LEMMA OffersIs ==
  ASSUME PoolInv, NEW c \in Calls, call[c].model \in Models, NEW s \in Offers(c)
  PROVE  s \in Slots
<1>1. PICK p \in Providers : p = Provider(c)
  BY DEF Provider
<1>2. CASE Keyless(p)
  BY <1>1, <1>2 DEF Offers, Slots
<1>3. CASE ~Keyless(p) /\ call[c].old
  <2>1. s \in ToSet(KeysOf[p])
    BY <1>1, <1>3 DEF Offers
  <2> QED BY <2>1 DEF ToSet, Slots
<1>4. CASE ~Keyless(p) /\ ~call[c].old
  <2>1. Offered(pool[p]) # {} /\ s = pool[p].order[Min(Offered(pool[p]))]
    BY <1>1, <1>4 DEF Offers
  <2> QED BY <2>1, OfferedIs DEF PoolInv, Slots
<1> QED BY <1>2, <1>3, <1>4

\* A key drawn on a round is the one that goes to the back of the order.
LEMMA DrawRotates ==
  ASSUME RouterInv, NEW c \in Calls, OnRound(call[c]), call[c].pc = "attempt",
         pool[Provider(c)].cooling = {}, AcquireTurns(c), NEW s \in Offers(c)
  PROVE  DrawnLast(pool'[Provider(c)].order, call[c].attempt + 1, call[c].refusals \cup {s})
<1>0. CallsTyped /\ PoolInv /\ Rotates
  BY DEF RouterInv
<1>1. /\ call[c].model \in Models /\ ~call[c].old /\ call[c].attempt \in Nat
      /\ Strategy # "primary_fallback"
  BY <1>0 DEF CallsTyped, CallTyped, OnRound
<1>2. PICK p \in Providers : p = Provider(c)
  BY <1>1 DEF Provider
<1>3. PICK o, u : o = pool[p].order /\ u = Rotated(pool[p])
  OBVIOUS
<1>4. /\ pool[p] \in Pool /\ o \in Seq(Keys) /\ Has(p, o)
  BY <1>0, <1>1, <1>3 DEF PoolInv, Pool
<1>5. pool'[p].order = u
  BY <1>0, <1>1, <1>2, <1>3, TurnIs
<1>6. DrawnLast(u, call[c].attempt + 1, call[c].refusals \cup {s})
  <2>1. CASE Keyless(p)
    <3>1. Len(o) = 0
      BY <1>4, <2>1 DEF Has, Keyless
    <3>2. Len(u) = 0
      BY <1>1, <1>3, <1>4, <3>1, RotatedIs
    <3> QED BY <3>2 DEF DrawnLast
  <2>2. CASE ~Keyless(p)
    <3>1. Offered(pool[p]) # {} /\ s = o[Min(Offered(pool[p]))]
      BY <1>1, <1>2, <1>3, <2>2 DEF Offers
    <3>2. /\ Len(o) \in Nat \ {0} /\ Len(u) = Len(o) /\ u[Len(o)] = o[1]
          /\ \A j \in 1..Len(o) - 1 : u[j] = o[j + 1]
          /\ Compatible(o[1]) => s = o[1]
      <4>1. Strategy = "least_recently_used" => \A k \in ToSet(o) : Compatible(k)
        BY <1>4 DEF Has
      <4> QED BY <1>1, <1>2, <1>3, <1>4, <3>1, <4>1, FrontIsDrawn
    <3>3. \A j \in 1..Len(o) : j > Len(o) - call[c].attempt /\ Compatible(o[j]) => o[j] \in call[c].refusals
      BY <1>0, <1>2, <1>3 DEF Rotates, Rotation, DrawnLast, Drawn, Met
    <3>4. ASSUME NEW j \in 1..Len(u), j > Len(u) - (call[c].attempt + 1), Compatible(u[j])
          PROVE  u[j] \in call[c].refusals \cup {s}
      <4>1. CASE j = Len(o)
        BY <3>2, <3>4, <4>1
      <4>2. CASE j # Len(o)
        <5>1. j \in 1..Len(o) - 1 /\ j + 1 \in 1..Len(o) /\ j + 1 > Len(o) - call[c].attempt
          <6>1. \A n, a \in Nat : \A i \in 1..n :
                   i # n /\ i > n - (a + 1) => i \in 1..n - 1 /\ i + 1 \in 1..n /\ i + 1 > n - a
            OBVIOUS
          <6>2. Len(o) \in Nat /\ call[c].attempt \in Nat /\ j \in 1..Len(o)
                /\ j > Len(o) - (call[c].attempt + 1)
            BY <1>1, <3>2, <3>4
          <6> QED BY <4>2, <6>1, <6>2
        <5>2. u[j] = o[j + 1]
          BY <3>2, <5>1
        <5> QED BY <3>3, <3>4, <5>1, <5>2
      <4> QED BY <4>1, <4>2
    <3> QED BY <3>4 DEF DrawnLast
  <2> QED BY <2>1, <2>2
<1> QED BY <1>2, <1>5, <1>6

\* A turn of the loop, and its end.
LEMMA LoopSteps ==
  ASSUME RouterInv, NEW c \in Calls, Attempt(c) \/ RoundOver(c)
  PROVE  Steps(c) /\ PoolInv'
<1>0. /\ CallsTyped /\ PoolInv /\ Rotates /\ CallTyped(call[c]) /\ call[c].pc = "attempt"
      /\ DOMAIN call[c] = Fields /\ DOMAIN call = Calls
  BY DEF RouterInv, CallsTyped, CallTyped, Attempt, RoundOver, At
<1>1. /\ call[c].model \in Models /\ call[c].kind \in {"complete", "stream"}
      /\ DOMAIN Jolted(c) = Calls /\ Jolted(c)[c] = call[c]
  BY <1>0 DEF CallTyped, Jolted
<1>2. CASE Attempt(c)
  <2>1. PICK s \in Offers(c) :
          call' = [Jolted(c) EXCEPT ![c].slot = s, ![c].smooth = @ /\ pool[Provider(c)].cooling = {},
                                    ![c].pc = IF call[c].kind = "complete" THEN "limiter" ELSE "calling"]
    BY <1>2 DEF Attempt
  <2>2. PICK calm \in BOOLEAN : calm = (call[c].smooth /\ pool[Provider(c)].cooling = {})
    OBVIOUS
  <2>3. PICK r : r = [call[c] EXCEPT !.slot = s, !.smooth = calm,
                                     !.pc = IF call[c].kind = "complete" THEN "limiter" ELSE "calling"]
    OBVIOUS
  <2>4. call' = [Jolted(c) EXCEPT ![c] = r] /\ call'[c] = r
    BY <1>1, <2>1, <2>2, <2>3
  <2>5. /\ DOMAIN r = Fields /\ r.slot = s /\ r.smooth = calm /\ r.pc \in {"limiter", "calling"}
        /\ \A f \in Fields \ {"slot", "smooth", "pc"} : r[f] = call[c][f]
    BY <1>0, <2>3 DEF Fields
  <2>6. s \in Slots
    BY <1>0, <1>1, OffersIs
  <2>7. CallTyped(r)
    <3>1. /\ r.result = call[c].result /\ r.ladder = call[c].ladder /\ r.attempt = call[c].attempt
          /\ r.other = call[c].other /\ r.old = call[c].old /\ r.asked = call[c].asked
          /\ r.model = call[c].model /\ r.kind = call[c].kind
      BY <2>5 DEF Fields
    <3>2. r.old => ~r.smooth
      BY <1>0, <2>2, <2>5, <3>1 DEF CallTyped
    <3>3. r.pc \in PcValues /\ r.slot \in Slots \cup {None} /\ r.smooth \in BOOLEAN
      BY <2>2, <2>5, <2>6 DEF PcValues
    <3> QED BY <1>0, <2>5, <3>1, <3>2, <3>3 DEF CallTyped
  <2>8. AcquireTurns(c)
    BY <1>2 DEF Attempt
  <2>9. PoolInv' /\ OrdersKept(c, Jolted(c))
    BY <1>0, <1>1, <2>8, TurnIs
  <2>10. ASSUME OnRound(r) PROVE Rotation(r, pool'[ProviderOf[r.model]].order)
    <3>1. /\ calm /\ r.attempt = call[c].attempt /\ r.refusals = call[c].refusals
          /\ r.model = call[c].model /\ r.other = call[c].other
      BY <2>5, <2>10 DEF OnRound, Fields
    <3>2. OnRound(call[c]) /\ pool[Provider(c)].cooling = {}
      BY <1>0, <2>2, <2>10, <3>1 DEF OnRound
    <3>3. Rotation(r, pool'[Provider(c)].order)
      <4>1. /\ call[c].pc = "attempt" /\ OnRound(call[c]) /\ s \in Offers(c)
            /\ pool[Provider(c)].cooling = {} /\ AcquireTurns(c)
        BY <1>0, <2>8, <3>2
      <4>2. DrawnLast(pool'[Provider(c)].order, call[c].attempt + 1, call[c].refusals \cup {s})
        BY <4>1, DrawRotates
      <4>3. Drawn(r) = call[c].attempt + 1 /\ Met(r) = call[c].refusals \cup {s}
        BY <2>5, <3>1 DEF Drawn, Met
      <4> QED BY <4>2, <4>3 DEF Rotation
    <3> QED BY <3>1, <3>3 DEF Provider
  <2> QED BY <2>4, <2>7, <2>9, <2>10 DEF Steps
<1>3. CASE RoundOver(c)
  <2>1. PICK calls \in {call, Jolted(c)} :
          /\ (calls = call /\ pool' = pool) \/ (calls = Jolted(c) /\ AcquireTurns(c))
          /\ \/ call' = [calls EXCEPT ![c].pc = "cooldown", ![c].other = TRUE]
             \/ \E spent : LeaveRungOf(calls, c, RoundResult(c, spent))
    <3>1. PICK spent : spent = (call[c].attempt >= MaxAttempts(c))
      OBVIOUS
    <3>2. PICK turns : turns = (~spent /\ KeysOf[Provider(c)] # <<>>)
      OBVIOUS
    <3>3. PICK calls : calls = IF turns THEN Jolted(c) ELSE call
      OBVIOUS
    <3>4. /\ IF turns THEN AcquireTurns(c) ELSE pool' = pool
          /\ \/ call' = [calls EXCEPT ![c].pc = "cooldown", ![c].other = TRUE]
             \/ LeaveRungOf(calls, c, RoundResult(c, spent))
      BY <1>3, <3>1, <3>2, <3>3 DEF RoundOver
    <3>5. CASE turns
      BY <3>3, <3>4, <3>5
    <3>6. CASE ~turns
      BY <3>3, <3>4, <3>6
    <3> QED BY <3>5, <3>6
  <2>2. PoolInv' /\ OrdersKept(c, calls)
    <3>1. CASE pool' = pool
      BY <1>0, <3>1 DEF PoolInv, OrdersKept
    <3>2. CASE calls = Jolted(c) /\ AcquireTurns(c)
      BY <1>0, <1>1, <3>2, TurnIs
    <3> QED BY <2>1, <3>1, <3>2
  <2>3. CASE call' = [calls EXCEPT ![c].pc = "cooldown", ![c].other = TRUE]
    <3>1. PICK r : r = [call[c] EXCEPT !.pc = "cooldown", !.other = TRUE]
      OBVIOUS
    <3>2. call' = [calls EXCEPT ![c] = r] /\ call'[c] = r
      BY <1>0, <1>1, <2>3, <3>1
    <3>3. /\ DOMAIN r = Fields /\ r.pc = "cooldown" /\ r.other = TRUE
          /\ \A f \in Fields \ {"pc", "other"} : r[f] = call[c][f]
      BY <1>0, <3>1 DEF Fields
    <3>4. CallTyped(r) /\ ~OnRound(r)
      BY <1>0, <3>3 DEF CallTyped, Fields, PcValues, OnRound
    <3> QED BY <2>2, <3>2, <3>4 DEF Steps
  <2>4. ASSUME NEW spent, LeaveRungOf(calls, c, RoundResult(c, spent)) PROVE Steps(c)
    <3>1. RoundResult(c, spent) \in Results /\ RoundResult(c, spent) # "all_failed"
      BY DEF RoundResult, Results, Errors
    <3> QED BY <1>0, <2>2, <2>4, <3>1, LeftSteps
  <2> QED BY <2>1, <2>2, <2>3, <2>4
<1> QED BY <1>2, <1>3

\* A pool that is replaced takes no part in a round.
LEMMA NewPoolKeeps ==
  ASSUME RouterInv, NEW p \in Providers, NewPool(p)
  PROVE  RouterInv'
<1>0. CallsTyped /\ PoolInv /\ Rotates
  BY DEF RouterInv
<1>1. pool' = [pool EXCEPT ![p] = Fresh(p)] /\ pool \in [Providers -> Pool]
  BY <1>0 DEF NewPool, PoolInv
<1>2. Fresh(p) \in Pool /\ (Strategy # "primary_fallback" => Has(p, Fresh(p).order))
  BY FreshIs
<1>3. pool' \in [Providers -> Pool] /\ pool'[p] = Fresh(p) /\ \A q \in Providers \ {p} : pool'[q] = pool[q]
  BY <1>1, <1>2
<1>4. PoolInv'
  BY <1>0, <1>2, <1>3 DEF PoolInv, Has
<1>5. DOMAIN call' = Calls
  BY DEF NewPool
<1>6. ASSUME NEW d \in Calls PROVE CallTyped(call'[d]) /\ (d \in Holding(p) => ~call'[d].smooth)
                                  /\ (d \notin Holding(p) => call'[d] = call[d])
  <2>1. CallTyped(call[d])
    BY <1>0 DEF CallsTyped
  <2>2. CASE d \in Holding(p)
    <3>1. PICK r : r = [call[d] EXCEPT !.old = TRUE, !.smooth = FALSE]
      OBVIOUS
    <3>2. call'[d] = r
      BY <2>2, <3>1 DEF NewPool
    <3>3. /\ DOMAIN r = Fields /\ r.old = TRUE /\ r.smooth = FALSE
          /\ \A f \in Fields \ {"old", "smooth"} : r[f] = call[d][f]
      BY <2>1, <3>1 DEF CallTyped, Fields
    <3>4. CallTyped(r)
      BY <2>1, <3>3 DEF CallTyped, Fields
    <3> QED BY <2>2, <3>2, <3>3, <3>4
  <2>3. CASE d \notin Holding(p)
    BY <2>1, <2>3 DEF NewPool
  <2> QED BY <2>2, <2>3
<1>7. CallsTyped'
  BY <1>5, <1>6 DEF CallsTyped, CallTyped
<1>8. ASSUME NEW d \in Calls, OnRound(call'[d])
      PROVE  Rotation(call'[d], pool'[ProviderOf[call'[d].model]].order)
  <2>1. d \notin Holding(p) /\ call'[d] = call[d]
    BY <1>6, <1>8 DEF OnRound
  <2>2. /\ call[d].pc \in {"attempt", "limiter", "calling"} /\ ~call[d].old
        /\ call[d].model \in Models /\ Provider(d) \in Providers
    BY <1>0, <1>8, <2>1 DEF OnRound, CallsTyped, CallTyped, Provider
  <2>3. Provider(d) # p
    BY <2>1, <2>2 DEF Holding
  <2>4. pool'[Provider(d)] = pool[Provider(d)]
    BY <1>3, <2>2, <2>3
  <2>5. Rotation(call[d], pool[Provider(d)].order)
    BY <1>0, <1>8, <2>1 DEF Rotates
  <2> QED BY <2>1, <2>4, <2>5 DEF Provider
<1>9. Rotates'
  BY <1>8 DEF Rotates, Provider
<1> QED BY <1>4, <1>7, <1>9 DEF RouterInv

\* A step of the router that moves no call.
LEMMA StillRotates ==
  ASSUME RouterInv, call' = call, PoolInv', \A p \in Providers : pool'[p].order = pool[p].order
  PROVE  RouterInv'
<1>1. CallsTyped'
  BY DEF RouterInv, CallsTyped, CallTyped
<1>2. ASSUME NEW d \in Calls, OnRound(call[d]) PROVE pool'[Provider(d)].order = pool[Provider(d)].order
  <2>1. Provider(d) \in Providers
    BY <1>2 DEF RouterInv, CallsTyped, CallTyped, OnRound, Provider
  <2> QED BY <2>1
<1>3. Rotates'
  BY <1>2 DEF RouterInv, Rotates, OnRound, Provider
<1> QED BY <1>1, <1>3 DEF RouterInv

\* Every step keeps calls and pools well formed, and the rotation.
LEMMA RouterStep ==
  ASSUME RouterInv, [Next]_vars
  PROVE  RouterInv'
<1>1. ASSUME NEW c \in Calls, Steps(c), PoolInv' PROVE RouterInv'
  BY <1>1, StepsRotate DEF RouterInv
<1>2. ASSUME NEW c \in Calls, \/ \E ask \in Asks[c] : Begin(c, ask)
                              \/ AcquirePermit(c) \/ TryModel(c) \/ Return(c) \/ BackoffEnds(c)
                              \/ WaitedForCooldown(c) \/ StreamEnds(c) \/ AcquireLimiter(c) \/ Cancel(c)
                              \/ \E o \in {"ok", "fails"} : CliAnswers(c, o)
      PROVE  RouterInv'
  <2>1. Steps(c)
    BY <1>2, QuietSteps
  <2>2. pool' = pool
    BY <1>2 DEF Begin, AcquirePermit, TryModel, Return, BackoffEnds, WaitedForCooldown, StreamEnds,
                AcquireLimiter, Cancel, CliAnswers, owner
  <2>3. PoolInv'
    BY <2>2 DEF RouterInv, PoolInv
  <2> QED BY <1>1, <2>1, <2>3
<1>3. ASSUME NEW c \in Calls, Attempt(c) \/ RoundOver(c) PROVE RouterInv'
  BY <1>1, <1>3, LoopSteps
<1>4. ASSUME NEW c \in Calls, NEW o \in Outcomes, AnswerComplete(c, o) \/ AnswerStream(c, o)
      PROVE  RouterInv'
  BY <1>1, <1>4, AnswerSteps
<1>5. ASSUME NEW p \in Providers, ReloadKeys(p) \/ RegisterProvider(p) PROVE RouterInv'
  <2>1. NewPool(p)
    BY <1>5 DEF ReloadKeys, RegisterProvider
  <2> QED BY <2>1, NewPoolKeeps
<1>6. ASSUME call' = call, pool' = pool PROVE RouterInv'
  BY <1>6, StillRotates DEF RouterInv, PoolInv
<1>7. ASSUME NEW p \in Providers, DeregisterProvider(p) PROVE RouterInv'
  BY <1>6, <1>7 DEF DeregisterProvider
<1>8. CASE Recover \/ ProbeAges \/ UNCHANGED vars
  BY <1>6, <1>8 DEF Recover, ProbeAges, owner, vars
<1>9. ASSUME NEW p \in Providers, NEW k \in Keys, CooldownEnds(p, k) PROVE RouterInv'
  <2>1. /\ call' = call
        /\ \E cool \in {pool[p].cooling \ {k}} : pool' = [pool EXCEPT ![p].cooling = cool]
    BY <1>9 DEF CooldownEnds
  <2>2. PoolInv /\ pool[p].cooling \ {k} \in SUBSET Keys
    BY DEF RouterInv, PoolInv, Pool
  <2>3. PoolInv' /\ \A q \in Providers : pool'[q].order = pool[q].order
    BY <2>1, <2>2, CoolingKept
  <2> QED BY <2>1, <2>3, StillRotates
<1> QED BY <1>2, <1>3, <1>4, <1>5, <1>7, <1>8, <1>9 DEF Next, Step

\* Idle calls and new pools.
LEMMA InitRouter == Init => RouterInv
<1> SUFFICES ASSUME Init PROVE RouterInv
  OBVIOUS
<1>1. CallsTyped /\ \A c \in Calls : call[c] = IdleCall
  BY IdleTyped DEF Init, CallsTyped
<1>2. pool = [p \in Providers |-> Fresh(p)]
  BY DEF Init
<1>3. PoolInv
  <2>1. \A p \in Providers : pool[p] = Fresh(p)
    BY <1>2
  <2>2. \A p \in Providers : Fresh(p) \in Pool /\ (Strategy # "primary_fallback" => Has(p, Fresh(p).order))
    BY FreshIs
  <2>3. pool \in [Providers -> Pool]
    BY <1>2, <2>2
  <2> QED BY <2>1, <2>2, <2>3 DEF PoolInv
<1>4. Rotates
  BY <1>1, IdleIs DEF Rotates, OnRound
<1> QED BY <1>1, <1>3, <1>4 DEF RouterInv

\* A call at the head of its loop has a result, or a reason to go down the ladder, only when
\* its loop is over.
LEMMA OnlyTheLoop ==
  ASSUME RouterInv, Next, NEW c \in Calls, call[c].pc = "attempt",
         ~(call'[c].result = call[c].result /\ call'[c].first = call[c].first)
  PROVE  RoundOver(c)
<1>0. Shape /\ DOMAIN call[c] = Fields /\ DOMAIN call = Calls
  BY DEF RouterInv, CallsTyped, CallTyped, Shape
<1>1. ASSUME NEW d \in Calls \ {c}, Steps(d) PROVE FALSE
  <2>1. PICK calls \in {call, Jolted(d)}, r \in {call'[d]} : CallTyped(r) /\ call' = [calls EXCEPT ![d] = r]
    BY <1>1 DEF Steps
  <2>2. call'[c] = calls[c]
    BY <1>0, <2>1 DEF Jolted
  <2>3. calls[c] = call[c] \/ calls[c] = [call[c] EXCEPT !.smooth = FALSE]
    BY DEF Jolted
  <2> QED BY <1>0, <2>2, <2>3 DEF Fields
<1>2. ASSUME NEW d \in Calls, \/ \E ask \in Asks[d] : Begin(d, ask)
                              \/ Step(d) \/ AcquireLimiter(d) \/ Cancel(d)
      PROVE  Steps(d)
  BY <1>2, QuietSteps, LoopSteps, AnswerSteps DEF Step
<1>3. ASSUME \/ \E ask \in Asks[c] : Begin(c, ask)
             \/ Step(c) \/ AcquireLimiter(c) \/ Cancel(c)
      PROVE  RoundOver(c)
  <2>1. Attempt(c) \/ RoundOver(c)
    BY <1>3 DEF Begin, Step, AcquirePermit, TryModel, Return, BackoffEnds, WaitedForCooldown, StreamEnds,
                AcquireLimiter, Cancel, AnswerComplete, AnswerStream, CliAnswers, At
  <2>2. ~Attempt(c)
    <3>1. SUFFICES ASSUME Attempt(c) PROVE FALSE
      OBVIOUS
    <3>2. PICK s : call' = [Jolted(c) EXCEPT ![c].slot = s, ![c].smooth = @ /\ pool[Provider(c)].cooling = {},
                              ![c].pc = IF call[c].kind = "complete" THEN "limiter" ELSE "calling"]
      BY <3>1 DEF Attempt
    <3>3. DOMAIN Jolted(c) = Calls /\ Jolted(c)[c] = call[c]
      BY <1>0, JoltedIs
    <3> QED BY <1>0, <3>2, <3>3 DEF Fields
  <2> QED BY <2>1, <2>2
<1>4. ASSUME call'[c] = call[c] \/ \E old, smooth : call'[c] = [call[c] EXCEPT !.old = old, !.smooth = smooth]
      PROVE  FALSE
  BY <1>0, <1>4 DEF Fields
<1>5. ASSUME NEW p \in Providers, ReloadKeys(p) \/ RegisterProvider(p) PROVE FALSE
  <2>1. NewPool(p)
    BY <1>5 DEF ReloadKeys, RegisterProvider
  <2> QED BY <1>4, <2>1 DEF NewPool
<1>6. ASSUME NEW p \in Providers, DeregisterProvider(p) \/ \E k \in Keys : CooldownEnds(p, k) PROVE FALSE
  BY <1>4, <1>6 DEF DeregisterProvider, CooldownEnds
<1>7. CASE Recover \/ ProbeAges
  BY <1>4, <1>7 DEF Recover, ProbeAges
<1> QED BY <1>1, <1>2, <1>3, <1>5, <1>6, <1>7 DEF Next

\* The calls and pools are well formed and the rotation holds, always.
LEMMA RouterAlways == Spec => []RouterInv
BY InitRouter, RouterStep, PTL DEF Spec

\* Only registered providers are loaded.
LEMMA LoadedAlways == Spec => [](loaded \subseteq Providers)
<1>1. Init => loaded \subseteq Providers
  BY DEF Init
<1>2. loaded \subseteq Providers /\ [Next]_vars => (loaded \subseteq Providers)'
  <2> SUFFICES ASSUME loaded \subseteq Providers, [Next]_vars PROVE loaded' \subseteq Providers
    OBVIOUS
  <2>1. ASSUME NEW c \in Calls, NEW o \in Outcomes, AnswerComplete(c, o) \/ AnswerStream(c, o)
        PROVE  loaded' = loaded
    BY <2>1 DEF AnswerComplete, AnswerStream
  <2>2. ASSUME NEW c \in Calls, \/ \E ask \in Asks[c] : Begin(c, ask)
                                \/ Step(c) \/ AcquireLimiter(c) \/ Cancel(c)
        PROVE  loaded' = loaded
    BY <2>1, <2>2 DEF Step, Begin, AcquirePermit, TryModel, Attempt, RoundOver, Return, BackoffEnds,
                      WaitedForCooldown, StreamEnds, AcquireLimiter, Cancel, CliAnswers, owner
  <2>3. ASSUME NEW p \in Providers, ReloadKeys(p) \/ RegisterProvider(p) \/ DeregisterProvider(p)
                                    \/ \E k \in Keys : CooldownEnds(p, k)
        PROVE  loaded' \subseteq Providers
    BY <2>3 DEF ReloadKeys, RegisterProvider, DeregisterProvider, CooldownEnds
  <2>4. CASE Recover \/ ProbeAges \/ UNCHANGED vars
    BY <2>4 DEF Recover, ProbeAges, owner, vars
  <2> QED BY <2>2, <2>3, <2>4 DEF Next
<1> QED BY <1>1, <1>2, PTL DEF Spec

\* The router's state is well formed, its limiters within their bounds, and the breaker's
\* probe slot taken exactly while it is half open: for any providers and keys, whatever the
\* strategy, and any number of requests that move through them (the types of the
\* router, its key pools, its limiters, its breaker and its requests).
THEOREM ProbeSlotAlways == Spec => []ProbeSlot
<1>1. /\ loaded \subseteq Providers /\ RouterInv /\ CircuitInv /\ LimitsOK
      => ProbeSlot
  <2> SUFFICES ASSUME loaded \subseteq Providers, RouterInv, CircuitInv, LimitsOK PROVE ProbeSlot
    OBVIOUS
  <2>1. DOMAIN IdleCall = Fields
    BY IdleIs
  <2>2. /\ DOMAIN call = Calls
        /\ \A c \in Calls : /\ DOMAIN call[c] = Fields /\ call[c].pc \in PcValues
                            /\ call[c].result \in Results /\ call[c].slot \in Slots \cup {None}
                            /\ call[c].ladder \in Seq(Models)
    BY DEF RouterInv, CallsTyped, CallTyped
  <2>3. pool \in [Providers -> Pool]
    BY DEF RouterInv, PoolInv
  <2> QED BY <2>1, <2>2, <2>3 DEF ProbeSlot, TypeOK, CircuitInv, CircuitOK, LimitsOK
<1> QED BY <1>1, RouterAlways, LoadedAlways, CircuitAlways, PermitsComeBackOnce, PTL

\* What the loop says when it ends, of a request on its own model.
LEMMA RefusedIs ==
  ASSUME NEW c \in Calls, NEW res, call[c].first = None, call[c].kind \in {"complete", "stream"},
         "all_refused" \in {Left(c, res).result, Left(c, res).first}
  PROVE  res = "all_refused"
<1> DEFINE ladder == SubstitutionLadder(call[c].asked)
           F == Fallback(c, res, ladder)
<1>1. CASE Left(c, res) = Finished(c, res)
  <2>1. Finished(c, res).result = res /\ Finished(c, res).first = None
    BY FinishedIs
  <2> QED BY <1>1, <2>1 DEF None
<1>2. CASE Left(c, res) = F
  <2> DEFINE m == FirstRoutable(ladder)
             p == ProviderOf[call[c].asked]
             rung == [IdleCall EXCEPT !.kind = "complete", !.asked = call[c].asked, !.first = res]
             rest == SubSeq(ladder, Min(Rungs(ladder)) + 1, Len(ladder))
  <2>1. DOMAIN rung = Fields /\ rung.result = None /\ rung.first = res
    BY DEF IdleCall, Fields
  <2>2. CASE m # None
    <3>1. F = [rung EXCEPT !.pc = "try", !.model = m, !.ladder = rest]
      BY <2>2 DEF Fallback
    <3> HIDE DEF rung, F, m, rest
    <3>2. F.result = None /\ F.first = res
      BY <2>1, <3>1 DEF Fields
    <3> QED BY <1>2, <3>2 DEF None
  <2>3. CASE m = None /\ p \in loaded \cap Cli
    <3>1. F = [rung EXCEPT !.pc = "cli", !.model = call[c].asked]
      BY <2>3 DEF Fallback
    <3> HIDE DEF rung, F, m
    <3>2. F.result = None /\ F.first = res
      BY <2>1, <3>1 DEF Fields
    <3> QED BY <1>2, <3>2 DEF None
  <2>4. CASE m = None /\ p \notin loaded \cap Cli
    <3>1. F = [Finished(c, Exhausted(res)) EXCEPT !.first = res]
      BY <2>4 DEF Fallback
    <3>2. F.result = Exhausted(res) /\ F.first = res
      <4> HIDE DEF F
      <4> QED BY <3>1, FinishedIs DEF Fields
    <3>3. Exhausted(res) = "all_refused" => res = "all_refused"
      BY DEF Exhausted
    <3> HIDE DEF F
    <3> QED BY <1>2, <3>2, <3>3
  <2> QED BY <2>2, <2>3, <2>4
<1> QED BY <1>1, <1>2 DEF Left

\* A loop that ends with "every key was refused" drew as many keys as there are.
LEMMA AllDrawn ==
  ASSUME RouterInv, NEW c \in Calls, Strategy # "primary_fallback", RoundOver(c), call[c].smooth,
         RoundResult(c, call[c].attempt >= MaxAttempts(c)) = "all_refused"
  PROVE  {k \in ToSet(KeysOf[Provider(c)]) : Compatible(k)} \subseteq call[c].refusals
<1>0. CallsTyped /\ PoolInv /\ Rotates
  BY DEF RouterInv
<1>1. /\ call[c].pc = "attempt" /\ call[c].model \in Models /\ call[c].kind \in {"complete", "stream"}
      /\ call[c].attempt \in Nat
  BY <1>0 DEF RoundOver, At, CallsTyped, CallTyped
<1>2. PICK p \in Providers : p = Provider(c)
  BY <1>1 DEF Provider
<1>3. PICK n \in Nat : n = Len(KeysOf[p])
  BY LenProperties
<1>4. /\ ~call[c].other /\ call[c].attempt >= MaxAttempts(c)
      /\ call[c].kind = "stream" => MaxAttempts(c) >= MaxOf(n, 1)
  BY <1>2, <1>3 DEF RoundResult
<1>5. call[c].attempt >= n
  <2>1. CASE call[c].kind = "complete"
    <3>1. MaxAttempts(c) = MaxOf(n, MaxTransientRetries)
      BY <1>2, <1>3, <2>1 DEF MaxAttempts
    <3> QED BY <1>1, <1>4, <3>1 DEF MaxOf
  <2>2. CASE call[c].kind = "stream"
    <3>1. MaxAttempts(c) \in {1, n, 3}
      BY <1>2, <1>3, <2>2 DEF MaxAttempts
    <3>2. MaxAttempts(c) >= n
      BY <1>3, <1>4, <2>2, <3>1 DEF MaxOf
    <3> QED BY <1>1, <1>4, <3>1, <3>2
  <2> QED BY <1>1, <2>1, <2>2
<1>6. PICK o : o = pool[p].order
  OBVIOUS
<1>7. /\ o \in Seq(Keys) /\ Len(o) <= n
      /\ {k \in ToSet(KeysOf[p]) : Compatible(k)} \subseteq ToSet(o)
  BY <1>0, <1>3, <1>6 DEF PoolInv, Pool, Has
<1>8. DrawnLast(o, call[c].attempt, call[c].refusals)
  BY <1>0, <1>1, <1>2, <1>4, <1>6 DEF Rotates, OnRound, Rotation, Drawn, Met
<1>9. ASSUME NEW k \in ToSet(KeysOf[p]), Compatible(k) PROVE k \in call[c].refusals
  <2>1. PICK j \in 1..Len(o) : k = o[j]
    <3>1. k \in ToSet(o) /\ DOMAIN o = 1..Len(o)
      BY <1>7, <1>9, LenProperties
    <3> QED BY <3>1 DEF ToSet
  <2>2. j > Len(o) - call[c].attempt
    <3>1. Len(o) \in Nat
      BY <1>7, LenProperties
    <3> QED BY <1>1, <1>5, <1>7, <3>1
  <2> QED BY <1>8, <1>9, <2>1, <2>2 DEF DrawnLast
<1> QED BY <1>2, <1>9

\* "The provider refused every key" is said of a request's own model only when every key
\* that can be used was refused, for any pool and any number of other requests that leave
\* this one's round alone: each attempt of the round has the keys drawn so far at the back
\* of the rotation, and the round is as long as the pool (execute_with_retry and
\* complete_streaming, over KeyPool::acquire).  Round robin and least recently used only:
\* a primary that was refused stays in front of its fallbacks.
THEOREM RefusedByAllAlways ==
  ASSUME Strategy # "primary_fallback"
  PROVE  Spec => RefusedByAll
<1>1. RouterInv /\ [Next]_vars =>
        [\A c \in Calls :
           /\ call[c].pc = "attempt" /\ call[c].smooth /\ call[c].first = None
           /\ "all_refused" \in {call'[c].result, call'[c].first}
           => {k \in ToSet(KeysOf[Provider(c)]) : Compatible(k)} \subseteq call[c].refusals]_vars
  <2> SUFFICES ASSUME RouterInv, Next, NEW c \in Calls,
                      call[c].pc = "attempt", call[c].smooth, call[c].first = None,
                      "all_refused" \in {call'[c].result, call'[c].first}
               PROVE  {k \in ToSet(KeysOf[Provider(c)]) : Compatible(k)} \subseteq call[c].refusals
    OBVIOUS
  <2>1. /\ call[c].result = None /\ DOMAIN call[c] = Fields
        /\ call[c].kind \in {"complete", "stream"}
    BY DEF RouterInv, CallsTyped, CallTyped
  <2>2. ~(call'[c].result = call[c].result /\ call'[c].first = call[c].first)
    BY <2>1 DEF None
  <2>3. RoundOver(c)
    BY <2>2, OnlyTheLoop
  <2>4. PICK calls \in {call, Jolted(c)} :
          \/ call' = [calls EXCEPT ![c].pc = "cooldown", ![c].other = TRUE]
          \/ call' = [calls EXCEPT ![c] = Left(c, RoundResult(c, call[c].attempt >= MaxAttempts(c)))]
    BY <2>3 DEF RoundOver, LeaveRungOf
  <2>5. DOMAIN calls = Calls /\ calls[c] = call[c]
    BY DEF Jolted, RouterInv, CallsTyped
  <2>6. CASE call' = [calls EXCEPT ![c].pc = "cooldown", ![c].other = TRUE]
    BY <2>1, <2>2, <2>5, <2>6 DEF Fields
  <2>7. CASE call' = [calls EXCEPT ![c] = Left(c, RoundResult(c, call[c].attempt >= MaxAttempts(c)))]
    <3>1. call'[c] = Left(c, RoundResult(c, call[c].attempt >= MaxAttempts(c)))
      BY <2>5, <2>7
    <3>2. RoundResult(c, call[c].attempt >= MaxAttempts(c)) = "all_refused"
      BY <2>1, <3>1, RefusedIs
    <3> QED BY <2>3, <3>2, AllDrawn
  <2> QED BY <2>4, <2>6, <2>7
<1> QED BY <1>1, RouterAlways, PTL DEF Spec, RefusedByAll
=============================================================================
